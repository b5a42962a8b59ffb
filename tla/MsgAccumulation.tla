--------------------------- MODULE MsgAccumulation ---------------------------
(***************************************************************************)
(* Sending a system message for accumulation and receiving it             *)
(* (src/sn_node/src/node/core/messaging/system_msgs.rs): each elder signs *)
(* the message with its BLS key share and sends it to the recipients, the *)
(* copy for itself becoming a local Cmd::HandleMsg; handle_system_msg      *)
(* passes every received message through aggregate_msg_and_stop, which   *)
(* feeds a share to the node's message aggregator and lets the message on *)
(* to handle_valid_msg, with Section authority, only once the aggregator  *)
(* returns the section signature.  The aggregator (SignatureAggregator,   *)
(* not in this repository) follows spec 4.6.                               *)
(*                                                                         *)
(* Messages stay in `net` once sent, so every message may be delivered    *)
(* again.  A Byzantine elder sends shares of any payload, valid or not, to *)
(* anyone.  The send failures of Cmd::SendMsg are Dispatcher's.            *)
(***************************************************************************)
EXTENDS Naturals, FiniteSets

CONSTANTS
    Elders,       \* our section's elders: the holders of the key shares
    Recipients,   \* the recipients the accumulation is sent to
    Byz,          \* the Byzantine elders
    Payload,      \* the message the honest elders sign
    Payloads,     \* payloads a Byzantine elder may sign, Payload among them
    AuthKinds,    \* the authority an accumulation send is called with
    MaxByzMsgs    \* bound on the messages the Byzantine elders send

Honest == Elders \ Byz

VARIABLES
    net,          \* every wire message sent: [src, dst, payload, auth, sigOk]
    called,       \* honest elders that have called the accumulation send
    agg,          \* recipient -> payload -> elders whose valid shares the aggregator holds
    done,         \* recipient -> payloads the aggregator has signed
    handled,      \* recipient -> payload -> handle_valid_msg runs with Section authority (capped)
    direct        \* <<recipient, payload>> handled with the sender's own Node authority

vars == <<net, called, agg, done, handled, direct>>

Supermajority(n) == (2 * n) \div 3 + 1

Msg(src, dst, p, auth, ok) == [src |-> src, dst |-> dst, payload |-> p, auth |-> auth, sigOk |-> ok]

\* handle_valid_msg runs are counted up to this bound.
MaxHandled == 2

ByzMsgs == {m \in net : m.src \in Byz}

----------------------------------------------------------------------------
(* SignatureAggregator::try_aggregate (spec 4.6): shares are kept per     *)
(* payload and signer; the supermajority share combines them, and shares  *)
(* beyond it are accepted silently.  Returns the outcome and the new      *)
(* entry of recipient r.  The aggregator's expiry of an entry after its    *)
(* TTL is not modelled: a behaviour here lies within one TTL, and a share  *)
(* redelivered after it would start the entry afresh.                      *)

TryAggregate(r, m) ==
    LET s == agg[r][m.payload] \cup {m.src} IN
    IF ~m.sigOk THEN [res |-> "Invalid", signers |-> agg[r][m.payload], done |-> done[r]]
    ELSE IF m.payload \in done[r]
         THEN [res |-> "NotEnoughShares", signers |-> s, done |-> done[r]]
    ELSE IF Cardinality(s) >= Supermajority(Cardinality(Elders))
         THEN [res |-> "Ok", signers |-> s, done |-> done[r] \cup {m.payload}]
         ELSE [res |-> "NotEnoughShares", signers |-> s, done |-> done[r]]

----------------------------------------------------------------------------
(* aggregate_msg_and_stop: "continue" is Ok(false), "stop" Ok(true) and   *)
(* "error" Err(InvalidSignatureShare).                                    *)

AggregateMsgAndStopEager(r, m) == \* mutant: NotEnoughShares lets the message on
    IF m.auth # "BlsShare" THEN "continue"
    ELSE CASE TryAggregate(r, m).res = "Ok" -> "continue"
           [] TryAggregate(r, m).res = "NotEnoughShares" -> "continue"
           [] OTHER -> "error"
AggregateMsgAndStopAlways(r, m) == \* mutant: the aggregated message is stopped too
    IF m.auth # "BlsShare" THEN "continue"
    ELSE CASE TryAggregate(r, m).res = "Ok" -> "stop"
           [] TryAggregate(r, m).res = "NotEnoughShares" -> "stop"
           [] OTHER -> "error"
AggregateMsgAndStopErrContinues(r, m) == \* mutant: an aggregator error lets the message on
    IF m.auth # "BlsShare" THEN "continue"
    ELSE CASE TryAggregate(r, m).res = "NotEnoughShares" -> "stop"
           [] OTHER -> "continue"
AggregateMsgAndStop(r, m) ==
    IF m.auth # "BlsShare" THEN "continue"
    ELSE CASE TryAggregate(r, m).res = "Ok" -> "continue"
           [] TryAggregate(r, m).res = "NotEnoughShares" -> "stop"
           [] OTHER -> "error"

----------------------------------------------------------------------------
Init ==
    /\ net = {}
    /\ called = {}
    /\ agg = [r \in Elders |-> [p \in Payloads |-> {}]]
    /\ done = [r \in Elders |-> {}]
    /\ handled = [r \in Elders |-> [p \in Payloads |-> 0]]
    /\ direct = {}

\* send_messages_to_all_nodes_or_directly_handle_for_accumulation(recipients,
\* wire_msg): a message whose authority is not a BLS share may not go to
\* ourselves, and then nothing is sent; otherwise a Cmd::SendMsg to the
\* others and a Cmd::HandleMsg of our own copy.
SendForAccumulation(e, recipients, auth) ==
    /\ e \in Honest /\ e \notin called
    /\ called' = called \cup {e}
    /\ IF e \in recipients /\ auth # "BlsShare"
       THEN UNCHANGED net
       ELSE net' = net \cup {Msg(e, o, Payload, auth, TRUE) : o \in recipients}
    /\ UNCHANGED <<agg, done, handled, direct>>

\* send_direct_msg_to_nodes: one Cmd::SendMsg of a message signed by the
\* node itself (WireMsg::single_src) to the recipients.
SendDirectMsgToNodes(e, recipients, p) ==
    /\ net' = net \cup {Msg(e, o, p, "Node", TRUE) : o \in recipients}
    /\ UNCHANGED <<called, agg, done, handled, direct>>

\* send_msg_to_our_elders: to the elders of our SAP.
SendMsgToOurElders(e) ==
    /\ e \in Honest
    /\ SendDirectMsgToNodes(e, Elders, Payload)

\* A Byzantine elder sends a share of any payload, with a valid signature
\* or not.
ByzSend(b, r, p, ok) ==
    /\ Cardinality(ByzMsgs) < MaxByzMsgs
    /\ net' = net \cup {Msg(b, r, p, "BlsShare", ok)}
    /\ UNCHANGED <<called, agg, done, handled, direct>>

\* handle_system_msg at an honest recipient: aggregate_msg_and_stop, then
\* handle_valid_msg if it lets the message on; a dropped message or an
\* error yields no command.  The other elders run the same code on what
\* reaches them, and are not followed.
HandleSystemMsg(r, m) ==
    LET t == TryAggregate(r, m)
        a == AggregateMsgAndStop(r, m)
    IN /\ r \in Honest \cap Recipients /\ m \in net /\ m.dst = r
       /\ IF m.auth = "BlsShare"
          THEN /\ agg' = [agg EXCEPT ![r][m.payload] = t.signers]
               /\ done' = [done EXCEPT ![r] = t.done]
          ELSE UNCHANGED <<agg, done>>
       /\ IF a = "continue" /\ m.auth = "BlsShare"
          THEN handled' = [handled EXCEPT ![r][m.payload] = IF @ < MaxHandled THEN @ + 1 ELSE @]
          ELSE UNCHANGED handled
       /\ direct' = IF a = "continue" /\ m.auth # "BlsShare" THEN direct \cup {<<r, m.payload>>} ELSE direct
       /\ UNCHANGED <<net, called>>

Next ==
    \/ \E e \in Elders, a \in AuthKinds : SendForAccumulation(e, Recipients, a)
    \/ \E e \in Elders : SendMsgToOurElders(e)
    \/ \E b \in Byz, r \in Recipients, p \in Payloads, ok \in BOOLEAN : ByzSend(b, r, p, ok)
    \/ \E m \in net : HandleSystemMsg(m.dst, m)

\* The node handles every message that reaches it (its dispatcher runs
\* each HandleMsg command it is given).
Fairness == WF_vars(\E m \in net : HandleSystemMsg(m.dst, m))

Spec == Init /\ [][Next]_vars /\ Fairness

----------------------------------------------------------------------------
(* Properties                                                              *)

TypeOK ==
    /\ called \subseteq Honest
    /\ \A r \in Elders : done[r] \subseteq Payloads
                         /\ \A p \in Payloads : agg[r][p] \subseteq Elders /\ handled[r][p] \in 0..MaxHandled
    /\ direct \subseteq Elders \X Payloads
    /\ \A r \in Elders, p \in Payloads : handled[r][p] > 0 => p \in done[r]

\* The elders whose valid shares of p were sent to r.
ValidSharesTo(r, p) ==
    {m.src : m \in {x \in net : x.dst = r /\ x.payload = p /\ x.auth = "BlsShare" /\ x.sigOk}}

\* Quorum necessity (spec 8.4): handle_valid_msg runs a message with
\* Section authority only when a supermajority of the elders sent a valid
\* share of it, whatever invalid or foreign shares the Byzantine elder adds.
QuorumNecessity ==
    \A r \in Honest, p \in Payloads :
        handled[r][p] > 0 => Cardinality(ValidSharesTo(r, p)) >= Supermajority(Cardinality(Elders))

\* Once a supermajority of valid shares of the message has been sent to an
\* honest elder, through the network or as its own HandleMsg copy, that
\* elder handles the message with Section authority.
AccumulatedEventuallyHandled ==
    \A r \in Honest :
        Cardinality(ValidSharesTo(r, Payload)) >= Supermajority(Cardinality(Elders))
            ~> handled[r][Payload] >= 1

====
