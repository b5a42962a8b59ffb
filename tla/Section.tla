------------------------------ MODULE Section ------------------------------
(***************************************************************************)
(* The `Section` of one node (src/sn/src/routing/section/mod.rs): the      *)
(* section chain of BLS keys, the section-signed SectionAuthorityProvider  *)
(* (SAP) and the member roster.  `chain` and `section_auth` sit behind two *)
(* separate tokio RwLocks and every method takes `&self`, so handlers run  *)
(* concurrently and interleave at every lock acquisition.  Each call is a  *)
(* task in a slot of `tasks`; one step of a task is one region in which    *)
(* the code holds a lock (or touches the concurrent `section_peers` map).  *)
(***************************************************************************)
EXTENDS Naturals, Sequences, FiniteSets

CONSTANTS
    Keys,        \* section keys the network produces, as naturals
    Genesis,     \* the genesis key, root of every chain
    KeyParent,   \* KeyParent[k]: the key that signed k (k # Genesis)
    KeyPrefix,   \* KeyPrefix[k]: prefix of the SAP signed by k
    Names,       \* node names
    NameBits,    \* NameBits[n]: the leading bits of name n
    OurName,     \* this node's name
    Tasks,       \* slots for concurrently running Section calls
    MemberInputs,\* section-signed NodeStates handed to update_member
    NoKey        \* parent of the root key

VARIABLES
    chain,       \* key -> [parent, sigOk]: the SecuredLinkedList
    sectionAuth, \* SectionAuth<SAP>: [prefix, key, valid]
    peers,       \* name -> NodeState entry: the SectionPeers roster
    tasks        \* slot -> in-flight call with its locals

vars == <<chain, sectionAuth, peers, tasks>>

----------------------------------------------------------------------------
(* Prefixes (xor_name::Prefix) as sequences of bits.                       *)

Matches(p, name) == Len(p) <= Len(NameBits[name])
                    /\ SubSeq(NameBits[name], 1, Len(p)) = p

IsExtensionOf(p, q) == Len(p) > Len(q) /\ SubSeq(p, 1, Len(q)) = q

(* The keys of the sections our name belongs to, over time.                *)
OurKeys == {k \in Keys : Matches(KeyPrefix[k], OurName)}

RECURSIVE Depth(_)
Depth(k) == IF k = Genesis THEN 0 ELSE 1 + Depth(KeyParent[k])

RECURSIVE AncestorsOf(_)
AncestorsOf(k) == {k} \cup (IF k = Genesis THEN {} ELSE AncestorsOf(KeyParent[k]))

IsAncestorOrSelf(a, b) == a \in AncestorsOf(b)

----------------------------------------------------------------------------
(* SecuredLinkedList (crate secured_linked_list, not in this repository):  *)
(* insert, merge, has_key and last_key, from spec section 4.1.             *)

\* A KeyedSig by `ks.public_key` over `child` verifies iff that key really
\* signed the child and the signature is genuine.
SigValid(ks, child) == ks.genuine /\ ks.public_key = KeyParent[child]

\* insert(parent, child, sig): fails unless parent is in the chain and the
\* signature verifies; inserting a key already present changes nothing.
CanInsert(ch, parent, child, ks) == parent \in DOMAIN ch /\ SigValid(ks, child)

ChainInsert(ch, parent, child, ks) ==
    IF child \in DOMAIN ch THEN ch
    ELSE [k \in DOMAIN ch \cup {child} |->
            IF k = child THEN [parent |-> parent, sigOk |-> SigValid(ks, child)]
            ELSE ch[k]]

\* A proof chain is the path of the true key tree from `root` to `tip`; it
\* merges iff its root is already in our chain (otherwise Incompatible).
PathKeys(pc) == {k \in Keys : IsAncestorOrSelf(pc.root, k) /\ IsAncestorOrSelf(k, pc.tip)}

CanMerge(ch, pc) == pc.root \in DOMAIN ch

ChainMerge(ch, pc) ==
    [k \in DOMAIN ch \cup PathKeys(pc) |->
        IF k \in DOMAIN ch THEN ch[k] ELSE [parent |-> KeyParent[k], sigOk |-> TRUE]]

\* last_key: the deepest key, siblings ordered by key.
LastKey(ch) == CHOOSE k \in DOMAIN ch :
                  \A j \in DOMAIN ch : \/ Depth(j) < Depth(k)
                                       \/ Depth(j) = Depth(k) /\ j <= k

\* `&key == self.chain.read().await.last_key()` in update_elders and merge_chain.
IsLastKeyInChain(ch, k) == k \in DOMAIN ch  \* mutant: has_key instead of last_key
IsLastKey(ch, k) == k = LastKey(ch)

----------------------------------------------------------------------------
(* Inputs handed to the Section by its callers.                            *)

\* SectionAuth::self_verify: the SAP's signature by its own key is genuine.
SelfVerifySkipped(sap) == TRUE \* mutant: self_verify not called
SelfVerify(sap) == sap.valid

SapOf(k, valid) == [prefix |-> KeyPrefix[k], key |-> k, valid |-> valid]

\* NewElders agreements for our section: a SAP and the KeyedSig of its key
\* by the previous section key, either genuine or forged.
NewEldersInputs ==
    {[sap |-> SapOf(k, v), keySig |-> [public_key |-> KeyParent[k], genuine |-> g]] :
        k \in OurKeys \ {Genesis}, v \in BOOLEAN, g \in BOOLEAN}

\* AE updates, already AE-validated: a signed SAP and a proof chain ending
\* at its key.
MergeInputs ==
    {i \in {[other |-> SapOf(b, TRUE), proof |-> [root |-> a, tip |-> b]] :
                a \in OurKeys, b \in OurKeys \ {Genesis}} :
        IsAncestorOrSelf(i.proof.root, i.proof.tip)}

Idle == [pc |-> "idle"]

----------------------------------------------------------------------------
(* SectionPeers (section_peers.rs, not in this repository): update and     *)
(* retain, from spec section 4.3.                                          *)

\* update inserts or replaces the entry of the node.
PeersUpdate(ps, ns) ==
    [n \in DOMAIN ps \cup {ns.name} |->
        IF n = ns.name THEN [state |-> ns.state, key |-> ns.key, valid |-> ns.valid]
        ELSE ps[n]]

\* retain(prefix) drops the entries whose name is outside the prefix.
PeersRetain(ps, p) == [n \in {m \in DOMAIN ps : Matches(p, m)} |-> ps[n]]

\* node_state.verify(chain): its signature is genuine and its key is ours.
NodeStateVerifiesSigOnly(ns, ch) == ns.valid \* mutant: key not looked up in the chain
NodeStateVerifies(ns, ch) == ns.valid /\ ns.key \in DOMAIN ch

----------------------------------------------------------------------------
(* A node's Section is made by Section::first_node (the genesis node) or   *)
(* by Section::new from the proof chain and SAP a joining node is handed.  *)

\* first_node: a genesis section with ourselves as sole member; the checks
\* of new, which it calls on the one-key chain, always pass.
FirstNode ==
    /\ chain = [k \in {Genesis} |-> [parent |-> NoKey, sigOk |-> TRUE]]
    /\ sectionAuth = SapOf(Genesis, TRUE)
    /\ peers = [n \in {OurName} |-> [state |-> "Joined", key |-> Genesis, valid |-> TRUE]]

\* What a joining node is handed: a proof chain along the key tree from
\* `root` to `tip`, whose last link may be forged, and a SAP of our section
\* signed by the key `sigKey`, its signature genuine or not.
NewInputs ==
    {in \in [root : Keys, tip : Keys, forged : BOOLEAN, sapKey : OurKeys,
             valid : BOOLEAN, sigKey : Keys] :
        IsAncestorOrSelf(in.root, in.tip) /\ (in.forged => in.root # in.tip)}

\* The SecuredLinkedList of the input.
NewChain(in) ==
    [k \in PathKeys([root |-> in.root, tip |-> in.tip]) |->
        [parent |-> IF k = in.root THEN NoKey ELSE KeyParent[k],
         sigOk |-> ~(in.forged /\ k = in.tip)]]

\* chain.self_verify(): every key below the root is signed by its parent.
ChainSelfVerify(ch) == \A k \in DOMAIN ch : ch[k].parent = NoKey \/ ch[k].sigOk

\* The checks of new, in order: the SAP is signed by the chain's last key,
\* the chain's root is the genesis key, the SAP's signature verifies, it is
\* made with the SAP's own section key, and the chain self-verifies.
NewAcceptsNoRootCheck(in) == \* mutant: genesis key not compared with the root
    /\ in.sigKey = LastKey(NewChain(in))
    /\ in.valid /\ in.sigKey = in.sapKey
    /\ ChainSelfVerify(NewChain(in))
NewAcceptsNoChainVerify(in) == \* mutant: chain.self_verify not called
    /\ in.sigKey = LastKey(NewChain(in)) /\ in.root = Genesis
    /\ in.valid /\ in.sigKey = in.sapKey
NewAccepts(in) ==
    /\ in.sigKey = LastKey(NewChain(in))
    /\ in.root = Genesis
    /\ in.valid
    /\ in.sigKey = in.sapKey
    /\ ChainSelfVerify(NewChain(in))

\* new: a Section with the chain, the SAP and an empty roster; an input
\* that fails a check makes no Section.
New(in) ==
    /\ NewAccepts(in)
    /\ chain = NewChain(in)
    /\ sectionAuth = SapOf(in.sapKey, in.valid)
    /\ peers = [n \in {} |-> [state |-> "Joined", key |-> Genesis, valid |-> TRUE]]

Init ==
    /\ FirstNode \/ \E in \in NewInputs : New(in)
    /\ tasks = [t \in Tasks |-> Idle]

Finish(t) == tasks' = [tasks EXCEPT ![t] = Idle]
Goto(t, pc) == tasks' = [tasks EXCEPT ![t].pc = pc]

----------------------------------------------------------------------------
(* Section::update_elders                                                  *)

\* The call starts; the first await reads our prefix for the equality test.
UpdateEldersStart(t) ==
    /\ tasks[t].pc = "idle"
    /\ \E in \in NewEldersInputs :
          tasks' = [tasks EXCEPT ![t] =
                      [pc |-> IF in.sap.prefix = sectionAuth.prefix
                              THEN "ue_insert" ELSE "ue_prefix2",
                       op |-> "update_elders", in |-> in]]
    /\ UNCHANGED <<chain, sectionAuth, peers>>

\* A second read of our prefix for the split (is_extension_of) test.
UpdateEldersPrefix2(t) ==
    /\ tasks[t].pc = "ue_prefix2"
    /\ IF IsExtensionOf(tasks[t].in.sap.prefix, sectionAuth.prefix)
       THEN Goto(t, "ue_insert")
       ELSE Finish(t)
    /\ UNCHANGED <<chain, sectionAuth, peers>>

\* self_verify, then the insert under the chain write lock.
UpdateEldersInsert(t) ==
    LET in == tasks[t].in IN
    /\ tasks[t].pc = "ue_insert"
    /\ IF SelfVerify(in.sap) /\ CanInsert(chain, in.keySig.public_key, in.sap.key, in.keySig)
       THEN /\ chain' = ChainInsert(chain, in.keySig.public_key, in.sap.key, in.keySig)
            /\ Goto(t, "ue_cmp")
       ELSE /\ Finish(t)
            /\ UNCHANGED chain
    /\ UNCHANGED <<sectionAuth, peers>>

\* Under a fresh chain read lock: is the new key our last key?
UpdateEldersCompare(t) ==
    /\ tasks[t].pc = "ue_cmp"
    /\ Goto(t, IF IsLastKey(chain, tasks[t].in.sap.key) THEN "ue_write" ELSE "ue_retain")
    /\ UNCHANGED <<chain, sectionAuth, peers>>

\* The section_auth write lock is taken after the chain lock was dropped.
UpdateEldersWrite(t) ==
    /\ tasks[t].pc = "ue_write"
    /\ sectionAuth' = tasks[t].in.sap
    /\ Goto(t, "ue_retain")
    /\ UNCHANGED <<chain, peers>>

\* section_peers.retain(prefix of whatever SAP is current now); return true.
UpdateEldersRetain(t) ==
    /\ tasks[t].pc = "ue_retain"
    /\ peers' = PeersRetain(peers, sectionAuth.prefix)
    /\ Finish(t)
    /\ UNCHANGED <<chain, sectionAuth>>

----------------------------------------------------------------------------
(* Section::merge_chain                                                    *)

\* The call starts and merges the proof chain under the chain write lock.
\* An incompatible proof chain makes merge fail and the call return with no
\* effect, a stuttering step.
MergeChainStart(t) ==
    /\ tasks[t].pc = "idle"
    /\ \E in \in MergeInputs :
          /\ CanMerge(chain, in.proof)
          /\ chain' = ChainMerge(chain, in.proof)
          /\ tasks' = [tasks EXCEPT ![t] = [pc |-> "mc_cmp", op |-> "merge_chain", in |-> in]]
    /\ UNCHANGED <<sectionAuth, peers>>

MergeChainCompare(t) ==
    /\ tasks[t].pc = "mc_cmp"
    /\ IF IsLastKey(chain, tasks[t].in.other.key) THEN Goto(t, "mc_write") ELSE Finish(t)
    /\ UNCHANGED <<chain, sectionAuth, peers>>

MergeChainWrite(t) ==
    /\ tasks[t].pc = "mc_write"
    /\ sectionAuth' = tasks[t].in.other
    /\ Finish(t)
    /\ UNCHANGED <<chain, peers>>

----------------------------------------------------------------------------
(* Section::update_member: verify against the chain, then update.          *)

UpdateMember(t) ==
    /\ tasks[t].pc = "idle"
    /\ \E ns \in MemberInputs :
          /\ NodeStateVerifies(ns, chain)
          /\ peers' = PeersUpdate(peers, ns)
    /\ UNCHANGED <<chain, sectionAuth, tasks>>

(* Section::merge_members: `let _ = self.update_member(info)` creates the  *)
(* future of the async update_member and drops it unpolled, so no member   *)
(* of the AE update is applied; only the retain by the current SAP's       *)
(* prefix takes effect, whatever members the AE update carries.           *)
MergeMembers(t) ==
    /\ tasks[t].pc = "idle"
    /\ peers' = PeersRetain(peers, sectionAuth.prefix)
    /\ UNCHANGED <<chain, sectionAuth, tasks>>

----------------------------------------------------------------------------

Next ==
    \E t \in Tasks :
        \/ UpdateEldersStart(t) \/ UpdateEldersPrefix2(t) \/ UpdateEldersInsert(t)
        \/ UpdateEldersCompare(t) \/ UpdateEldersWrite(t) \/ UpdateEldersRetain(t)
        \/ MergeChainStart(t) \/ MergeChainCompare(t) \/ MergeChainWrite(t)
        \/ UpdateMember(t) \/ MergeMembers(t)

Spec == Init /\ [][Next]_vars

Quiescent == \A t \in Tasks : tasks[t].pc = "idle"

----------------------------------------------------------------------------
(* Properties                                                              *)

TypeOK ==
    /\ DOMAIN chain \subseteq Keys /\ Genesis \in DOMAIN chain
    /\ \A k \in DOMAIN chain : chain[k].sigOk \in BOOLEAN
    /\ sectionAuth.key \in Keys /\ sectionAuth.valid \in BOOLEAN
    /\ DOMAIN peers \subseteq Names
    /\ \A n \in DOMAIN peers : peers[n].state \in {"Joined", "Left"}
    /\ \A t \in Tasks : tasks[t].pc \in {"idle", "ue_prefix2", "ue_insert", "ue_cmp",
                          "ue_write", "ue_retain", "mc_cmp", "mc_write"}

\* The chain self-verifies (SecuredLinkedList::self_verify, spec 8.1): every
\* key but the root hangs off a key of the chain that genuinely signed it,
\* whatever forged KeyedSigs update_elders has been handed.
ChainSelfVerifies ==
    \A k \in DOMAIN chain \ {Genesis} :
        /\ chain[k].parent \in DOMAIN chain
        /\ chain[k].sigOk

\* The SAP that update_elders and merge_chain install is always signed by a
\* key of our chain and self-verifies, under any interleaving of the calls.
SapTrusted == sectionAuth.key \in DOMAIN chain /\ sectionAuth.valid

\* Authority coherence (spec 8.2): once no update_elders or merge_chain call
\* is in flight, the SAP is the one signed by the chain's last key.
AuthorityCoherence == Quiescent => sectionAuth.key = LastKey(chain)

\* The Section refines SectionAuthority: the trusted keys are the chain's
\* keys, the current key is the SAP's, the roster is section_peers.
Authority == INSTANCE SectionAuthority
                WITH keys <- DOMAIN chain, current <- sectionAuth.key, roster <- peers

\* With one call at a time, every step of update_elders, merge_chain,
\* update_member and merge_members is a step of SectionAuthority: the chain
\* grows by signed keys only, a SAP write installs the chain's last key at
\* that moment, and roster changes admit verified members or retain by the
\* current SAP's prefix.
ImplementsSectionAuthority == Authority!Spec

=============================================================================
