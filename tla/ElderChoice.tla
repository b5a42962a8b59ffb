---------------------------- MODULE ElderChoice ----------------------------
(***************************************************************************)
(* Section::promote_and_demote_elders and Section::try_split               *)
(* (src/sn/src/routing/section/mod.rs) over a section whose roster changes *)
(* by joins and departures.  Whenever         promote_and_demote_elders    *)
(* returns candidates, the elder change they start (DKG, NewElders,        *)
(* update_elders) is taken as one step: our SAP becomes the candidate of   *)
(* our name's half and the roster is retained by its prefix.  Names have   *)
(* NameLen bits, so a prefix of NameLen bits cannot split, as a prefix of  *)
(* 256 bits cannot in the code (bit_count().try_into() to u8 fails).       *)
(*                                                                         *)
(* Beside it, one more call of try_split runs step by step, as it does in  *)
(* the code: each self.prefix().await and self.authority_provider().await  *)
(* takes the SAP's read lock anew, so an elder change of another handler   *)
(* can complete between two of them.                                       *)
(***************************************************************************)
EXTENDS Naturals, Sequences, FiniteSets, FiniteSetsExt

CONSTANTS
    Names,        \* node names
    NameBits,     \* Names -> the bits of the name, a sequence of NameLen bits
    NameLen,
    Rank,         \* Names -> Nat: the distance tie-break of elder_candidates
    OurName,
    Ages,         \* ages a node can have
    MatureAge,    \* mature(): age >= MatureAge
    ElderSize,
    RecommendedSectionSize,
    SplitExcluded \* the excluded_names sets the stepwise try_split is called with

VARIABLES
    peers,        \* SectionPeers: name -> [age, state]
    sap,          \* our SAP: [prefix, elders]
    call,         \* the stepwise try_split: [pc, ex, idx, bit, ourP, otherP]
    splitOut      \* what its last completion returned: None (<<>>) or two candidates

vars == <<peers, sap, call, splitOut>>

Supermajority(n) == (2 * n) \div 3 + 1

Matches(p, n) == SubSeq(NameBits[n], 1, Len(p)) = p

----------------------------------------------------------------------------
(* SectionPeers queries (section_peers.rs is not in this repository;       *)
(* spec 4.3).                                                              *)

Joined(ps) == {n \in DOMAIN ps : ps[n].state = "Joined"}
Mature(ps) == {n \in Joined(ps) : ps[n].age >= MatureAge}

\* elder_candidates ordering (spec 4.3): older first, then current elders,
\* then by distance to the prefix.
Better(ps, cur, a, b) ==
    \/ ps[a].age > ps[b].age
    \/ ps[a].age = ps[b].age /\ a \in cur /\ b \notin cur
    \/ /\ ps[a].age = ps[b].age /\ (a \in cur <=> b \in cur)
       /\ Rank[a] < Rank[b]

\* The k best of the candidates c.
TopK(ps, cur, c, k) ==
    CHOOSE s \in SUBSET c :
        /\ Cardinality(s) = IF Cardinality(c) < k THEN Cardinality(c) ELSE k
        /\ \A a \in s, b \in c \ s : Better(ps, cur, a, b)

\* elder_candidates_matching_prefix(p, ELDER_SIZE, sap, excluded): mature
\* members of p, and joined ones if there are not enough mature ones.
ElderCandidatesMatchingAnyPrefix(ps, cur, p, ex) == \* mutant: prefix filter lost
    LET mature == {n \in Mature(ps) \ ex : Matches(p, n)}
    IN IF Cardinality(mature) >= ElderSize THEN TopK(ps, cur, mature, ElderSize)
       ELSE mature \cup TopK(ps, cur, Joined(ps) \ (ex \cup mature), ElderSize - Cardinality(mature))
ElderCandidatesMatching(ps, cur, p, ex) ==
    LET mature == {n \in Mature(ps) \ ex : Matches(p, n)}
        joined == {n \in Joined(ps) \ ex : Matches(p, n)}
    IN IF Cardinality(mature) >= ElderSize THEN TopK(ps, cur, mature, ElderSize)
       ELSE mature \cup TopK(ps, cur, joined \ mature, ElderSize - Cardinality(mature))

----------------------------------------------------------------------------
(* Section::try_split                                                      *)

\* The fold over the mature, non-excluded members: (ours, siblings).
SplitSizes(ps, ex, idx, bit) ==
    FoldSet(LAMBDA n, acc : IF NameBits[n][idx + 1] = bit THEN <<acc[1] + 1, acc[2]>>
                                                          ELSE <<acc[1], acc[2] + 1>>,
            <<0, 0>>, Mature(ps) \ ex)

CanSplitEither(sz) == \* mutant: || written as &&
    ~(sz[1] < RecommendedSectionSize /\ sz[2] < RecommendedSectionSize)
CanSplit(sz) == ~(sz[1] < RecommendedSectionSize \/ sz[2] < RecommendedSectionSize)

\* None, or <<our candidates, other candidates>>, each [prefix, elders].
TrySplit(ps, s, ex) ==
    IF Len(s.prefix) >= NameLen THEN <<>>
    ELSE LET idx == Len(s.prefix)
             bit == NameBits[OurName][idx + 1]
             ourP == Append(s.prefix, bit)
             otherP == Append(s.prefix, 1 - bit)
         IN IF ~CanSplit(SplitSizes(ps, ex, idx, bit)) THEN <<>>
            ELSE << [prefix |-> ourP, elders |-> ElderCandidatesMatching(ps, s.elders, ourP, ex)],
                    [prefix |-> otherP, elders |-> ElderCandidatesMatching(ps, s.elders, otherP, ex)] >>

----------------------------------------------------------------------------
(* Section::promote_and_demote_elders                                      *)

ShrinkGuard(expected, current) == Cardinality(expected) < Supermajority(Cardinality(current))

PromoteAndDemoteElders(ps, s, ex) ==
    LET split == TrySplit(ps, s, ex)
        expected == ElderCandidatesMatching(ps, s.elders, s.prefix, ex)
    IN IF split # <<>> THEN split
       ELSE IF expected = s.elders THEN <<>>
       ELSE IF ShrinkGuard(expected, s.elders) THEN <<>>
       ELSE << [prefix |-> s.prefix, elders |-> expected] >>

----------------------------------------------------------------------------
Init ==
    /\ peers = [n \in {OurName} |-> [age |-> 255, state |-> "Joined"]]
    /\ sap = [prefix |-> << >>, elders |-> {OurName}]
    /\ call = [pc |-> "idle", ex |-> {}, idx |-> 0, bit |-> 0, ourP |-> << >>, otherP |-> << >>]
    /\ splitOut = << >>

\* A node of our prefix joins (a Joined NodeState is applied).
Join(n, a) ==
    /\ n \notin DOMAIN peers /\ Matches(sap.prefix, n)
    /\ peers' = [m \in DOMAIN peers \cup {n} |-> IF m = n THEN [age |-> a, state |-> "Joined"] ELSE peers[m]]
    /\ UNCHANGED <<sap, call, splitOut>>

\* A member goes offline (a Left NodeState is applied).
Leave(n) ==
    /\ n \in Joined(peers) /\ n # OurName
    /\ peers' = [peers EXCEPT ![n].state = "Left"]
    /\ UNCHANGED <<sap, call, splitOut>>

\* promote_and_demote_elders(our_name, excluded) returns candidates; the
\* elder change for our half completes and the roster is retained.
ElderChange(ex) ==
    LET cands == PromoteAndDemoteElders(peers, sap, ex)
        ours == CHOOSE i \in DOMAIN cands : Matches(cands[i].prefix, OurName)
    IN /\ cands # <<>>
       /\ sap' = cands[ours]
       /\ peers' = [n \in {m \in DOMAIN peers : Matches(cands[ours].prefix, m)} |-> peers[n]]
       /\ UNCHANGED <<call, splitOut>>

(* The steps of one try_split(our_name, excluded_names) call.              *)

\* next_bit_index from self.prefix().await, then the fold over mature();
\* None when the prefix cannot grow or either half is too small.
SplitReadPrefix(ex) ==
    LET idx == Len(sap.prefix)
        bit == NameBits[OurName][idx + 1]
    IN /\ call.pc = "idle"
       /\ IF idx >= NameLen \/ ~CanSplit(SplitSizes(peers, ex, idx, bit))
          THEN /\ splitOut' = << >> /\ UNCHANGED call
          ELSE /\ call' = [call EXCEPT !.pc = "our", !.ex = ex, !.idx = idx, !.bit = bit]
               /\ UNCHANGED splitOut
       /\ UNCHANGED <<peers, sap>>

\* our_prefix = self.prefix().await.pushed(next_bit)
SplitOurPrefix ==
    /\ call.pc = "our"
    /\ call' = [call EXCEPT !.pc = "other", !.ourP = Append(sap.prefix, call.bit)]
    /\ UNCHANGED <<peers, sap, splitOut>>

\* other_prefix = self.prefix().await.pushed(!next_bit)
SplitOtherPrefix ==
    /\ call.pc = "other"
    /\ call' = [call EXCEPT !.pc = "elders", !.otherP = Append(sap.prefix, 1 - call.bit)]
    /\ UNCHANGED <<peers, sap, splitOut>>

\* The two elder_candidates_matching_prefix calls, each against
\* self.authority_provider().await, taken as one step; Some((ours, other)).
SplitElders ==
    /\ call.pc = "elders"
    /\ splitOut' = << [prefix |-> call.ourP,
                        elders |-> ElderCandidatesMatching(peers, sap.elders, call.ourP, call.ex)],
                      [prefix |-> call.otherP,
                        elders |-> ElderCandidatesMatching(peers, sap.elders, call.otherP, call.ex)] >>
    /\ call' = [call EXCEPT !.pc = "idle"]
    /\ UNCHANGED <<peers, sap>>

Next ==
    \/ \E n \in Names, a \in Ages : Join(n, a)
    \/ \E n \in Names : Leave(n)
    \/ \E ex \in SUBSET (DOMAIN peers \ {OurName}) : ElderChange(ex)
    \/ \E ex \in SplitExcluded : SplitReadPrefix(ex)
    \/ SplitOurPrefix \/ SplitOtherPrefix \/ SplitElders

Spec == Init /\ [][Next]_vars

----------------------------------------------------------------------------
(* Properties                                                              *)

TypeOK ==
    /\ DOMAIN peers \subseteq Names /\ OurName \in DOMAIN peers
    /\ \A n \in DOMAIN peers : peers[n].state \in {"Joined", "Left"}
    /\ sap.elders \subseteq DOMAIN peers /\ Len(sap.prefix) <= NameLen
    /\ call.pc \in {"idle", "our", "other", "elders"} /\ call.ex \subseteq Names
    /\ Len(splitOut) \in {0, 2}
    /\ \A i \in DOMAIN splitOut : Len(splitOut[i].prefix) <= NameLen /\ splitOut[i].elders \subseteq Names

MatureIn(p, ex) == {n \in Mature(peers) \ ex : Matches(p, n)}

\* try_split as spec 4.7 and 7.7 describe it: for every set of excluded
\* names, promote_and_demote_elders returns two candidates exactly when
\* both halves of our prefix hold at least RECOMMENDED_SECTION_SIZE mature,
\* non-excluded members and the prefix can still grow, and then their
\* prefixes are the two children of ours, ours first.
SplitExactlyWhenBalanced ==
    \A ex \in SUBSET (DOMAIN peers \ {OurName}) :
        LET r == PromoteAndDemoteElders(peers, sap, ex)
            balanced == /\ Len(sap.prefix) < NameLen
                        /\ \A b \in {0, 1} :
                              Cardinality(MatureIn(Append(sap.prefix, b), ex)) >= RecommendedSectionSize
        IN /\ (Len(r) = 2 <=> balanced)
           /\ Len(r) = 2 =>
                 /\ {r[1].prefix, r[2].prefix} = {Append(sap.prefix, 0), Append(sap.prefix, 1)}
                 /\ Matches(r[1].prefix, OurName)

\* The two candidates try_split returns are for sibling prefixes, the two
\* halves of one parent (spec 8.7), even when an elder change installs a
\* new SAP while the call reads the prefix three times.
SplitCandidatesAreSiblings ==
    splitOut # << >> =>
        LET parent == SubSeq(splitOut[1].prefix, 1, Len(splitOut[1].prefix) - 1)
        IN {splitOut[1].prefix, splitOut[2].prefix} = {Append(parent, 0), Append(parent, 1)}

====
