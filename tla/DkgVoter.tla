------------------------------ MODULE DkgVoter ------------------------------
(***************************************************************************)
(* The DkgVoter of every participant of one DKG session                    *)
(* (src/sn_node/src/node/dkg.rs): the ephemeral BLS key exchange that must *)
(* complete before the DKG state is created, the double-key check, and the *)
(* vote phase that follows.  Participants exchange signed ephemeral keys   *)
(* and votes over a network that may duplicate, reorder or never deliver a *)
(* message.  A Byzantine participant may sign two different ephemeral keys *)
(* and forge key messages in the name of others (with invalid signatures). *)
(* The vote phase itself (crate sn_sdkg) is abstracted: a participant      *)
(* reaches its outcome once it has accepted a vote from every participant. *)
(***************************************************************************)
EXTENDS Naturals, FiniteSets

CONSTANTS
    Participants, \* the session's elders (session_id.elders)
    Byz,          \* the Byzantine participants, a subset of Participants
    Outsiders,    \* nodes that are not elders of the session
    NoKeys        \* marks a voter with no entry for the session

VARIABLES
    ephKeys,      \* dkg_ephemeral_keys[session]: owner -> ephemeral key, or NoKeys
    dkgState,     \* dkg_states[session]: [keys, votes], or NoKeys
    fresh,        \* last_received_dkg_msg_time is recent (not yet aged by a Tick)
    started,      \* DkgStart for the session was handled (dkg_sessions entry)
    halted,       \* the participant saw a DoubleKeyAttackDetected and left the session
    msgs          \* every message ever sent; delivery may repeat or never happen

vars == <<ephKeys, dkgState, fresh, started, halted, msgs>>

Honest == Participants \ Byz

\* An ephemeral key is named by its owner and a generation: an honest
\* participant only ever has generation 1, a Byzantine one may sign two.
EphKey(owner, gen) == <<owner, gen>>
ByzKeys == {EphKey(b, g) : b \in Byz, g \in {1, 2}}

KeyMsg(owner, key, sigOk) == [type |-> "key", owner |-> owner, key |-> key, sigOk |-> sigOk]
VoteMsg(from, keys) == [type |-> "vote", from |-> from, keys |-> keys]

----------------------------------------------------------------------------
(* check_key and save_key                                                  *)

\* check_key: the owner is a session elder and the ed25519 signature over
\* the key is the owner's.
CheckKeyNoMembership(owner, sigOk) == sigOk          \* mutant: owner not checked
CheckKeyNoSig(owner, sigOk) == owner \in Participants \* mutant: signature not checked
CheckKey(owner, sigOk) == owner \in Participants /\ sigOk

\* save_key's outcome on voter n: "NoKeys" (we have no secret key yet),
\* "Invalid", "DoubleKey" or "Saved".
\* Mutant: no double-key check.
SaveKeyResultNoDoubleKey(n, owner, key, sigOk) ==
    IF ~CheckKey(owner, sigOk) THEN "Invalid"
    ELSE IF ephKeys[n] = NoKeys THEN "NoKeys"
    ELSE "Saved"

\* Mutant: any key already held for the owner, even the same, is a double key.
SaveKeyResultAnyRepeat(n, owner, key, sigOk) ==
    IF ~CheckKey(owner, sigOk) THEN "Invalid"
    ELSE IF ephKeys[n] = NoKeys THEN "NoKeys"
    ELSE IF owner \in DOMAIN ephKeys[n] THEN "DoubleKey"
    ELSE "Saved"

SaveKeyResult(n, owner, key, sigOk) ==
    IF ~CheckKey(owner, sigOk) THEN "Invalid"
    ELSE IF ephKeys[n] = NoKeys THEN "NoKeys"
    ELSE IF owner \in DOMAIN ephKeys[n] /\ ephKeys[n][owner] # key THEN "DoubleKey"
    ELSE "Saved"

\* The map after a successful insert.
SavedKeys(ks, owner, key) == [o \in DOMAIN ks \cup {owner} |-> IF o = owner THEN key ELSE ks[o]]

\* did_insert: `pub_keys.insert(..).is_some()`, i.e. the owner was present.
DidInsert(ks, owner) == owner \in DOMAIN ks

\* just_completed: what we have equals what the session needs.
JustCompletedOffByOne(ks) == Cardinality(DOMAIN ks) + 1 >= Cardinality(Participants) \* mutant
JustCompleted(ks) == DOMAIN ks = Participants

\* create_dkg_state with our keys; the state is created only if absent.
\* Our own first vote is the first vote the state holds.
InitDkgState(n, ks) ==
    IF dkgState[n] = NoKeys THEN [keys |-> ks, votes |-> {n}] ELSE dkgState[n]

----------------------------------------------------------------------------

Init ==
    /\ ephKeys = [n \in Participants |-> NoKeys]
    /\ dkgState = [n \in Participants |-> NoKeys]
    /\ fresh = [n \in Participants |-> FALSE]
    /\ started = [n \in Participants |-> FALSE]
    /\ halted = [n \in Participants |-> FALSE]
    /\ msgs = {}

\* DkgStart, section-signed, reaches a session elder: the session is recorded
\* and handle_dkg_start calls gen_ephemeral_key, which stores a fresh key only
\* if we have none for the session, and broadcasts the stored key signed.
HandleDkgStart(n) ==
    /\ n \in Honest /\ ~started[n]
    /\ started' = [started EXCEPT ![n] = TRUE]
    /\ ephKeys' = [ephKeys EXCEPT ![n] = IF @ = NoKeys THEN [o \in {n} |-> EphKey(n, 1)] ELSE @]
    /\ msgs' = msgs \cup {KeyMsg(n, ephKeys'[n][n], TRUE)}
    /\ UNCHANGED <<dkgState, fresh, halted>>

\* try_init_dkg on a received ephemeral key: save_key, and on completion
\* initialize_dkg_state and broadcast our first vote with our keys.  A
\* DoubleKeyAttackDetected error makes the participant leave the session;
\* the other errors (invalid key, no keys of ours yet) drop the message.
ReceiveKey(n, m) ==
    /\ n \in Honest /\ ~halted[n]
    /\ m \in msgs /\ m.type = "key"
    /\ LET r == SaveKeyResult(n, m.owner, m.key, m.sigOk) IN
       \/ /\ r = "Saved"
          /\ LET ks == SavedKeys(ephKeys[n], m.owner, m.key) IN
             /\ ephKeys' = [ephKeys EXCEPT ![n] = ks]
             /\ fresh' = [fresh EXCEPT ![n] = @ \/ DidInsert(ephKeys[n], m.owner)]
             /\ IF JustCompleted(ks)
                THEN /\ dkgState' = [dkgState EXCEPT ![n] = InitDkgState(n, ks)]
                     /\ msgs' = msgs \cup {VoteMsg(n, ks)}
                ELSE UNCHANGED <<dkgState, msgs>>
          /\ UNCHANGED <<started, halted>>
       \/ /\ r = "DoubleKey"
          /\ halted' = [halted EXCEPT ![n] = TRUE]
          /\ UNCHANGED <<ephKeys, dkgState, fresh, started, msgs>>

\* handle_dkg_vote: the vote is fed to our DKG state, if we have one.
\* check_keys' early return: the vote's keys are exactly ours.
KeysMatchAlways(ours, theirs) == TRUE \* mutant: keys never compared
KeysMatch(ours, theirs) == theirs = ours

HandleVote(n, from, st) == IF st = NoKeys THEN st ELSE [st EXCEPT !.votes = @ \cup {from}]

\* A vote carries its sender's keys.  check_keys: equal keys are taken as
\* they are; otherwise every key is passed to save_key in map order, and the
\* first failure aborts with the keys before it saved.  If the keys now
\* complete our set the DKG state is initialized and our first vote
\* broadcast; then the vote is handled.  A double key leaves the session.
ReceiveVote(n, m) ==
    /\ n \in Honest /\ ~halted[n] /\ ephKeys[n] # NoKeys
    /\ m \in msgs /\ m.type = "vote"
    /\ LET ours == ephKeys[n]
           theirs == m.keys
           failing == {o \in DOMAIN theirs : SaveKeyResult(n, o, theirs[o], TRUE) # "Saved"}
           SaveAll(S) == [o \in DOMAIN ours \cup S |-> IF o \in S THEN theirs[o] ELSE ours[o]]
           learned == \E o \in DOMAIN theirs : DidInsert(ours, o)
       IN
       \/ /\ KeysMatch(ours, theirs)
          /\ dkgState' = [dkgState EXCEPT ![n] = HandleVote(n, m.from, @)]
          /\ UNCHANGED <<ephKeys, fresh, started, halted, msgs>>
       \/ /\ ~KeysMatch(ours, theirs) /\ failing = {}
          /\ LET ks == SaveAll(DOMAIN theirs)
                 st == IF JustCompleted(ks) THEN InitDkgState(n, ks) ELSE dkgState[n]
             IN /\ ephKeys' = [ephKeys EXCEPT ![n] = ks]
                /\ fresh' = [fresh EXCEPT ![n] = @ \/ learned]
                /\ dkgState' = [dkgState EXCEPT ![n] = HandleVote(n, m.from, st)]
                /\ msgs' = IF JustCompleted(ks) /\ dkgState[n] = NoKeys
                           THEN msgs \cup {VoteMsg(n, ks)} ELSE msgs
          /\ UNCHANGED <<started, halted>>
       \/ /\ ~KeysMatch(ours, theirs) /\ failing # {}
          /\ \E saved \in SUBSET (DOMAIN theirs \ failing) :
                /\ ephKeys' = [ephKeys EXCEPT ![n] = SaveAll(saved)]
                /\ fresh' = [fresh EXCEPT ![n] = @ \/ \E o \in saved : DidInsert(ours, o)]
          /\ halted' = [halted EXCEPT ![n] = TRUE]
          /\ UNCHANGED <<dkgState, started, msgs>>

\* A Byzantine participant signs either of its keys, forges a key in the
\* name of an honest participant without its signature, or casts a vote; a
\* node outside the session (an outsider) sends a signed key of its own.
ByzSend ==
    \E b \in Byz :
        /\ \/ \E k \in {EphKey(b, 1), EphKey(b, 2)} : msgs' = msgs \cup {KeyMsg(b, k, TRUE)}
           \/ \E h \in Honest : msgs' = msgs \cup {KeyMsg(h, EphKey(b, 1), FALSE)}
           \/ \E k \in {EphKey(b, 1), EphKey(b, 2)} :
                 msgs' = msgs \cup {VoteMsg(b, [o \in Participants |-> IF o \in Byz THEN k ELSE EphKey(o, 1)])}
           \/ \E x \in Outsiders : msgs' = msgs \cup {KeyMsg(x, EphKey(x, 1), TRUE)}
        /\ msgs' # msgs
        /\ UNCHANGED <<ephKeys, dkgState, fresh, started, halted>>

\* Time passes: last_received_dkg_msg_time ages.
Tick(n) ==
    /\ fresh[n]
    /\ fresh' = [fresh EXCEPT ![n] = FALSE]
    /\ UNCHANGED <<ephKeys, dkgState, started, halted, msgs>>

\* remove: the session, once outdated (here: we reached its outcome), is
\* dropped with its ephemeral keys and DKG state.
Remove(n) ==
    /\ n \in Honest
    /\ dkgState[n] # NoKeys /\ dkgState[n].votes = Participants
    /\ ephKeys' = [ephKeys EXCEPT ![n] = NoKeys]
    /\ dkgState' = [dkgState EXCEPT ![n] = NoKeys]
    /\ UNCHANGED <<fresh, started, halted, msgs>>

Next ==
    \/ \E n \in Participants :
          \/ HandleDkgStart(n) \/ Tick(n) \/ Remove(n)
          \/ \E m \in msgs : ReceiveKey(n, m) \/ ReceiveVote(n, m)
    \/ ByzSend

Spec == Init /\ [][Next]_vars

\* The messages honest participants can send (the fairness of DkgNode).
HonestMsgs ==
    {KeyMsg(o, EphKey(o, 1), TRUE) : o \in Honest}
    \cup {VoteMsg(o, [p \in Participants |-> EphKey(p, 1)]) : o \in Honest}

\* The abstract DKG outcome: a vote accepted from every participant.
Outcome(n) == dkgState[n] # NoKeys /\ dkgState[n].votes = Participants

----------------------------------------------------------------------------
(* Properties                                                              *)

TypeOK ==
    /\ \A n \in Participants :
         /\ ephKeys[n] = NoKeys \/ DOMAIN ephKeys[n] \subseteq Participants
         /\ fresh[n] \in BOOLEAN /\ started[n] \in BOOLEAN /\ halted[n] \in BOOLEAN
    /\ \A m \in msgs : m.type \in {"key", "vote"}

\* Double-key rule (spec 4.4): once a participant holds an ephemeral key
\* for an owner, no later key message or vote, from a Byzantine owner that
\* signed two keys or anyone else, replaces it (until remove drops them all).
StoredKeyNeverChanges ==
    [][\A n \in Honest :
         ephKeys[n] # NoKeys /\ ephKeys'[n] # NoKeys =>
            \A o \in DOMAIN ephKeys[n] : o \in DOMAIN ephKeys'[n] /\ ephKeys'[n][o] = ephKeys[n][o]]_vars

\* check_key: every ephemeral key a participant stores was signed by its
\* owner, whatever forged key messages circulate.
StoredKeysAuthentic ==
    \A n \in Honest : ephKeys[n] # NoKeys =>
        \A o \in DOMAIN ephKeys[n] : ephKeys[n][o][1] = o

\* A DKG state is only ever created from a complete set of ephemeral keys,
\* the one the participant still holds.
DkgStateFromCompleteKeys ==
    \A n \in Honest : dkgState[n] # NoKeys =>
        /\ DOMAIN dkgState[n].keys = Participants
        /\ dkgState[n].keys = ephKeys[n]

\* DKG safety (spec 8.8): honest participants that reach the outcome did so
\* over the same ephemeral keys, even when a Byzantine participant signed
\* two keys and gave different ones to different participants.
OutcomeAgreement ==
    \A n, p \in Honest : Outcome(n) /\ Outcome(p) => dkgState[n].keys = dkgState[p].keys

\* A save_key that learns a key we did not hold refreshes
\* last_received_dkg_msg_time (learned_something_from_message).
NewKeyRefreshesTimer ==
    [][\A n \in Honest :
         (ephKeys[n] # NoKeys /\ ephKeys'[n] # NoKeys
          /\ DOMAIN ephKeys[n] # DOMAIN ephKeys'[n]) => fresh'[n]]_vars

=============================================================================
