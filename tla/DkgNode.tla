------------------------------- MODULE DkgNode -------------------------------
(***************************************************************************)
(* The DKG session arms of handle_valid_msg (DkgSessions) composed with    *)
(* the DkgVoter of every candidate (DkgVoter).  The two meet where the     *)
(* DkgStart and DkgSessionInfo arms call handle_dkg_start, which runs the  *)
(* voter's gen_ephemeral_key and broadcasts the key: a candidate that      *)
(* missed the DkgStart only takes part in the key exchange once it has     *)
(* recovered the session through DkgSessionUnknown / DkgSessionInfo.       *)
(* Every candidate is honest; forged DkgSessionInfo are in flight.         *)
(***************************************************************************)
EXTENDS Naturals, FiniteSets

CONSTANTS
    Candidates, Others, Outsider, StartKey, MaxKey, Forged, NoKeys

VARIABLES
    secKey, sessions, sstarted, contacts, net,                \* the arms
    ephKeys, dkgState, fresh, vstarted, halted, msgs  \* the voters

svars == <<secKey, sessions, sstarted, contacts, net>>
dvars == <<ephKeys, dkgState, fresh, vstarted, halted, msgs>>
vars == <<svars, dvars>>

S == INSTANCE DkgSessions WITH started <- sstarted
V == INSTANCE DkgVoter WITH Participants <- Candidates, Byz <- {}, Outsiders <- {},
                            started <- vstarted

Init == S!Init /\ V!Init

\* handle_dkg_start on the voter of candidate n, unless it already ran.
VoterStart(n) ==
    IF n \in Candidates /\ ~vstarted[n] THEN V!HandleDkgStart(n) ELSE UNCHANGED dvars

\* SystemMsg::DkgStart, with its handle_dkg_start.
StartArm(m) == S!HandleDkgStart(m) /\ VoterStart(m.to)

\* SystemMsg::DkgSessionInfo, with its handle_dkg_start; the message cache
\* handle_dkg_retry replays is the voters' messages, still in flight.
InfoArm(m) == S!HandleDkgSessionInfo(m) /\ VoterStart(m.to)

\* The arms that do not reach the voter.
OtherArm(m) ==
    /\ \/ S!HandleDkgMessage(m) \/ S!HandleDkgSessionUnknown(m) \/ S!LoseStart(m)
    /\ UNCHANGED dvars

\* A voter handles a key or a vote of the exchange, or drops the session
\* after its outcome.  The ageing of last_received_dkg_msg_time (Tick) is
\* left to DkgVoter: nothing here reads it.
VoterStep(n) ==
    /\ \/ \E m \in msgs : V!ReceiveKey(n, m) \/ V!ReceiveVote(n, m)
       \/ V!Remove(n)
    /\ UNCHANGED svars

Next ==
    \/ \E m \in net : StartArm(m) \/ InfoArm(m) \/ OtherArm(m)
    \/ \E n \in Candidates : VoterStep(n)
    \/ \E n \in S!Nodes : S!LearnKey(n) /\ UNCHANGED dvars

Spec == Init /\ [][Next]_vars

\* Messages in flight are eventually handled, the session messages as in
\* DkgSessions and the voters' keys and votes as in DkgVoter; a DkgStart
\* may still be lost, so handle_dkg_start is only as fair as the arms
\* that call it.
Fairness ==
    /\ WF_vars(\E m \in net : \/ InfoArm(m)
                              \/ (S!HandleDkgMessage(m) \/ S!HandleDkgSessionUnknown(m))
                                 /\ UNCHANGED dvars)
    /\ \A n \in Candidates, m \in V!HonestMsgs :
          /\ WF_vars(V!ReceiveKey(n, m) /\ UNCHANGED svars)
          /\ WF_vars(V!ReceiveVote(n, m) /\ UNCHANGED svars)

FairSpec == Spec /\ Fairness

----------------------------------------------------------------------------
(* Properties                                                              *)

\* Once one candidate has started the session, every candidate reaches the
\* DKG outcome, also one whose DkgStart was lost and that joined through
\* DkgSessionUnknown / DkgSessionInfo, unless some candidate's section key
\* has moved past the key the DkgStart was signed with.
EveryCandidateOutcome ==
    <>(\E n \in Candidates : n \in sstarted)
        => \A c \in Candidates : <>(V!Outcome(c) \/ \E x \in Candidates : secKey[x] # StartKey)

====
