----------------------------- MODULE DkgSessions -----------------------------
(***************************************************************************)
(* The DKG session arms of Node::handle_valid_msg                          *)
(* (src/sn_node/src/node/core/messaging/system_msgs.rs): DkgStart,         *)
(* DkgMessage, DkgSessionUnknown and DkgSessionInfo, for one DKG session   *)
(* whose start the section signed with one of its keys.  A candidate that  *)
(* missed the DkgStart learns of the session when another candidate's DKG  *)
(* message reaches it: it answers DkgSessionUnknown, and the other replies *)
(* with the DkgSessionInfo it stored from its own DkgStart.                *)
(*                                                                         *)
(* The network keeps every message it is given, so a message may be       *)
(* delivered any number of times; a DkgStart may also be lost.  An         *)
(* outsider has put forged and stale DkgSessionInfo messages in flight.    *)
(***************************************************************************)
EXTENDS Naturals, FiniteSets

CONSTANTS
    Candidates,   \* session_id.elders
    Others,       \* honest nodes of the section that are not candidates
    Outsider,     \* a node that sends forged messages and is not modelled
    StartKey,     \* the section key the DkgStart is signed with
    MaxKey,       \* section keys are 0 .. MaxKey, in chain order
    Forged        \* the DkgSessionInfo authorities the outsider has sent

Nodes == Candidates \cup Others
Keys == 0 .. MaxKey

VARIABLES
    secKey,       \* node -> network_knowledge.section_key()
    sessions,     \* node -> dkg_sessions entry of the session: an authority or None
    started,      \* nodes that have run handle_dkg_start for the session
    contacts,     \* node -> senders log_dkg_session has logged
    net           \* messages in flight

vars == <<secKey, sessions, started, contacts, net>>

\* No authority: a key outside the chain and no signature.
None == [key |-> MaxKey + 1, valid |-> FALSE]

\* A section authority over DkgStart(session_id): the key it is signed with
\* and whether the signature verifies.
Auth(k, v) == [key |-> k, valid |-> v]

Msg(type, from, to, auth) == [type |-> type, from |-> from, to |-> to, auth |-> auth]

----------------------------------------------------------------------------
(* DkgVoter / handle_dkg_start, handle_dkg_msg and handle_dkg_retry are not *)
(* in this repository (spec 4.4): starting a session generates and         *)
(* broadcasts our ephemeral key to the other candidates, and a DKG message *)
(* for a session we have not started is answered with DkgSessionUnknown.   *)

\* handle_dkg_start(session_id): the messages it sends.
StartMsgs(n) == {Msg("DkgMessage", n, m, None) : m \in Candidates \ {n}}

\* The DkgSessionInfo arm's authority check: the signature must be by our
\* current section key and verify over the reconstructed DkgStart.
AcceptsInfo(n, a) == a.key = secKey[n] /\ a.valid

\* The DkgStart arm stores the session under its hash when the message came
\* with section authority.
StoreSessionDropped(s, n, a) == s \* mutant: the insert is lost
StoreSession(s, n, a) == [s EXCEPT ![n] = a]

----------------------------------------------------------------------------
Init ==
    /\ secKey = [n \in Nodes |-> StartKey]
    /\ sessions = [n \in Nodes |-> None]
    /\ started = {}
    /\ contacts = [n \in Nodes |-> {}]
    /\ net = {Msg("DkgStart", Outsider, n, Auth(StartKey, TRUE)) : n \in Nodes}
             \cup {Msg("DkgSessionInfo", Outsider, c, a) : c \in Candidates, a \in Forged}

Handling(m, type) == m \in net /\ m.type = type /\ m.to \in Nodes

\* SystemMsg::DkgStart: log the sender, ignore the session unless we are
\* one of its elders, store it with its section authority, and start it.
HandleDkgStart(m) ==
    LET n == m.to IN
    /\ Handling(m, "DkgStart")
    /\ contacts' = [contacts EXCEPT ![n] = @ \cup {m.from}]
    /\ IF n \in Candidates
       THEN /\ sessions' = StoreSession(sessions, n, m.auth)
            /\ started' = started \cup {n}
            /\ net' = net \cup StartMsgs(n)
       ELSE UNCHANGED <<sessions, started, net>>
    /\ UNCHANGED secKey

\* SystemMsg::DkgMessage: log the sender, then handle_dkg_msg, which asks
\* the sender for the session when we have not started it.
HandleDkgMessage(m) ==
    LET n == m.to IN
    /\ Handling(m, "DkgMessage")
    /\ contacts' = [contacts EXCEPT ![n] = @ \cup {m.from}]
    /\ net' = IF n \in started THEN net
              ELSE net \cup {Msg("DkgSessionUnknown", n, m.from, None)}
    /\ UNCHANGED <<secKey, sessions, started>>

\* SystemMsg::DkgSessionUnknown: reply with the stored DkgSessionInfo, if
\* there is one, addressed under our current section key.
HandleDkgSessionUnknown(m) ==
    LET n == m.to IN
    /\ Handling(m, "DkgSessionUnknown")
    /\ sessions[n] # None
    /\ net' = net \cup {Msg("DkgSessionInfo", n, m.from, sessions[n])}
    /\ UNCHANGED <<secKey, sessions, started, contacts>>

\* SystemMsg::DkgSessionInfo: accept only an authority by our current key
\* that verifies; then store the session, start it, and replay the sender's
\* message cache (handle_dkg_retry).
HandleDkgSessionInfo(m) ==
    LET n == m.to IN
    /\ Handling(m, "DkgSessionInfo")
    /\ AcceptsInfo(n, m.auth)
    /\ sessions' = [sessions EXCEPT ![n] = m.auth]
    /\ started' = started \cup {n}
    /\ net' = net \cup StartMsgs(n)
    /\ UNCHANGED <<secKey, contacts>>

\* The network loses a DkgStart.
LoseStart(m) ==
    /\ m \in net /\ m.type = "DkgStart"
    /\ net' = net \ {m}
    /\ UNCHANGED <<secKey, sessions, started, contacts>>

\* Anti-entropy brings a node's section key forward by one.
LearnKey(n) ==
    /\ secKey[n] < MaxKey
    /\ secKey' = [secKey EXCEPT ![n] = @ + 1]
    /\ UNCHANGED <<sessions, started, contacts, net>>

Next ==
    \/ \E m \in net :
          \/ HandleDkgStart(m) \/ HandleDkgMessage(m)
          \/ HandleDkgSessionUnknown(m) \/ HandleDkgSessionInfo(m)
          \/ LoseStart(m)
    \/ \E n \in Nodes : LearnKey(n)

Spec == Init /\ [][Next]_vars

----------------------------------------------------------------------------
(* Properties                                                              *)

====
