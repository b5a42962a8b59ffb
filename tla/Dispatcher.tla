----------------------------- MODULE Dispatcher -----------------------------
(***************************************************************************)
(* Dispatcher::process_cmd (src/sn_node/src/node/flow_ctrl/dispatcher.rs)  *)
(* over one node's RwLock<MyNode>.  Each inbound event owns a work-list of *)
(* commands that it runs one at a time, first in first out, appending the  *)
(* commands each one returns (spec 4.8); the work-lists of different      *)
(* events run concurrently.  Every region that holds the node lock is one *)
(* atomic step, and a command that awaits between two such regions is     *)
(* split into steps with the event's `pc`.                                *)
(*                                                                         *)
(* The node's state is abstracted to what the commands change: the        *)
(* generation of its network knowledge, the issue log of the fault        *)
(* tracker, the replication queue and the storage level.                  *)
(***************************************************************************)
EXTENDS Naturals, Sequences, FiniteSets, SequencesExt

CONSTANTS
    Events,       \* inbound events
    Work0,        \* Events -> the command sequence each event starts with
    Peers,        \* nodes messages go to
    Elders,       \* the elders offline proposals are sent to
    Levels        \* storage levels

VARIABLES
    key,          \* node.network_knowledge: generation of its section key
    issues,       \* names the fault tracker has logged an issue for
    pending,      \* pending_data_to_replicate_to_peers: data -> peers
    storage,      \* data_storage level
    work,         \* Events -> commands still to run
    cur,          \* Events -> the running command and its locals, or None
    sendFailed    \* history: peers a send to failed

vars == <<key, issues, pending, storage, work, cur, sendFailed>>

None == [pc |-> "none"]

\* Commands (flow_ctrl::cmds::Cmd), by kind.
SendMsg(to) == [kind |-> "SendMsg", to |-> to]
FailedSend(p) == [kind |-> "HandleFailedSendToNode", peer |-> p]
UpdateNetwork(g) == [kind |-> "UpdateNetworkAndHandleValidClientMsg", gen |-> g]
NewElders(g) == [kind |-> "HandleNewEldersAgreement", gen |-> g]
Enqueue(data, r) == [kind |-> "EnqueueDataForReplication", data |-> data, recipient |-> r]
ProposeOffline(names) == [kind |-> "ProposeVoteNodesOffline", names |-> names]
SetStorageLevel(l) == [kind |-> "SetStorageLevel", level |-> l]
TrackNodeIssue(n) == [kind |-> "TrackNodeIssueInDysfunction", name |-> n]

----------------------------------------------------------------------------
(* NetworkKnowledge::update_knowledge_if_valid (sn_interface, not in this *)
(* repository; spec 4.5): a valid update for a newer key replaces the      *)
(* knowledge and reports true; anything else leaves it and reports false. *)
UpdateIfValid(k, g) == IF g > k THEN g ELSE k

\* The second, real update under the write lock in
\* UpdateNetworkAndHandleValidClientMsg.
ApplySnapshot(node, snap, g) == UpdateIfValid(snap, g) \* mutant: snapshot written back
ApplyUpdate(node, snap, g) == UpdateIfValid(node, g)

\* EnqueueDataForReplication, one data item under the write lock.
QueueInsert(q, d, r) ==
    [x \in DOMAIN q \cup {d} |-> IF x = d THEN (IF d \in DOMAIN q THEN q[d] ELSE {}) \cup {r}
                                 ELSE q[x]]

\* SendMsg turns every Err(FailedSend(peer)) of the sends into a
\* HandleFailedSendToNode command.
FailedSendCmdsFirst(failed) == \* mutant: only the first failure is reported
    IF failed = {} THEN << >> ELSE << FailedSend(CHOOSE p \in failed : TRUE) >>
FailedSendCmds(failed) == SetToSeq({FailedSend(p) : p \in failed})

\* into_msg_bytes: one wire message per recipient that generate_dst finds a
\* route for; a recipient without one is logged and left out, and no
\* FailedSend is reported for it.
IntoMsgBytes(to, routable) == to \cap routable

----------------------------------------------------------------------------
Init ==
    /\ key = 0
    /\ issues = {}
    /\ pending = [d \in {} |-> {}]
    /\ storage = CHOOSE l \in Levels : \A m \in Levels : l <= m
    /\ work = Work0
    /\ cur = [e \in Events |-> None]
    /\ sendFailed = {}

\* The event takes the next command of its work-list.
Take(e) ==
    /\ cur[e] = None /\ work[e] # << >>
    /\ cur' = [cur EXCEPT ![e] = [pc |-> "start", cmd |-> Head(work[e])]]
    /\ work' = [work EXCEPT ![e] = Tail(@)]
    /\ UNCHANGED <<key, issues, pending, storage, sendFailed>>

\* The command returns these commands and the event is free again.
Done(e, cmds) ==
    /\ cur' = [cur EXCEPT ![e] = None]
    /\ work' = [work EXCEPT ![e] = @ \o cmds]

Running(e, kind) == cur[e] # None /\ cur[e].cmd.kind = kind

\* SendMsg: into_msg_bytes on a snapshot taken under the read lock, then
\* the sends of the messages it produced, any of which may fail with
\* FailedSend, joined without a lock.
SendMsgStep(e) ==
    /\ Running(e, "SendMsg")
    /\ \E routable \in SUBSET Peers, failed \in SUBSET Peers :
          /\ failed \subseteq IntoMsgBytes(cur[e].cmd.to, routable)
          /\ sendFailed' = sendFailed \cup failed
          /\ Done(e, FailedSendCmds(failed))
    /\ UNCHANGED <<key, issues, pending, storage>>

\* TrackNodeIssueInDysfunction: log_node_issue under the write lock.
TrackNodeIssueStep(e) ==
    /\ Running(e, "TrackNodeIssueInDysfunction")
    /\ issues' = issues \cup {cur[e].cmd.name}
    /\ Done(e, << >>)
    /\ UNCHANGED <<key, pending, storage, sendFailed>>

\* HandleFailedSendToNode: handle_failed_send, under the write lock, is not
\* in this repository; the comment at SendMsg says it logs an issue for a
\* peer of our section and ignores others.  Every recipient here is an
\* elder of our section, so the issue is logged.
FailedSendStep(e) ==
    /\ Running(e, "HandleFailedSendToNode")
    /\ issues' = issues \cup {cur[e].cmd.peer}
    /\ Done(e, << >>)
    /\ UNCHANGED <<key, pending, storage, sendFailed>>

\* UpdateNetworkAndHandleValidClientMsg, first region: under the read lock,
\* take a snapshot and apply the update to it.  Without an update the
\* client message is handled on the snapshot and the command ends.
UpdateNetworkRead(e) ==
    /\ Running(e, "UpdateNetworkAndHandleValidClientMsg") /\ cur[e].pc = "start"
    /\ IF UpdateIfValid(key, cur[e].cmd.gen) # key
       THEN cur' = [cur EXCEPT ![e] = [pc |-> "write", cmd |-> cur[e].cmd, snap |-> key]]
       ELSE Done(e, << >>)
    /\ UNCHANGED <<work, key, issues, pending, storage, sendFailed>>

\* Second region: "okay lets do it for real" under the write lock; then the
\* client message is handled on the snapshot.
UpdateNetworkWrite(e) ==
    /\ Running(e, "UpdateNetworkAndHandleValidClientMsg") /\ cur[e].pc = "write"
    /\ key' = ApplyUpdate(key, cur[e].snap, cur[e].cmd.gen)
    /\ Done(e, << >>)
    /\ UNCHANGED <<issues, pending, storage, sendFailed>>

\* HandleNewEldersAgreement: under the write lock, the agreed SAP and its
\* key become our knowledge (handle_new_elders_agreement).
NewEldersStep(e) ==
    /\ Running(e, "HandleNewEldersAgreement")
    /\ key' = UpdateIfValid(key, cur[e].cmd.gen)
    /\ Done(e, << >>)
    /\ UNCHANGED <<issues, pending, storage, sendFailed>>

\* EnqueueDataForReplication: the write lock is taken anew for every data
\* item of the batch.
EnqueueItem(e) ==
    LET c == cur[e].cmd
        todo == IF cur[e].pc = "start" THEN c.data ELSE cur[e].todo
    IN
    /\ Running(e, "EnqueueDataForReplication")
    /\ pending' = QueueInsert(pending, Head(todo), c.recipient)
    /\ IF Len(todo) = 1
       THEN Done(e, << >>)
       ELSE /\ cur' = [cur EXCEPT ![e] = [pc |-> "loop", cmd |-> c, todo |-> Tail(todo)]]
            /\ UNCHANGED work
    /\ UNCHANGED <<key, issues, storage, sendFailed>>

\* ProposeVoteNodesOffline: cast_offline_proposals under the write lock
\* signs the proposals and returns their SendMsg to the elders.
ProposeOfflineStep(e) ==
    /\ Running(e, "ProposeVoteNodesOffline")
    /\ Done(e, << SendMsg(Elders) >>)
    /\ UNCHANGED <<key, issues, pending, storage, sendFailed>>

SetStorageLevelStep(e) ==
    /\ Running(e, "SetStorageLevel")
    /\ storage' = cur[e].cmd.level
    /\ Done(e, << >>)
    /\ UNCHANGED <<key, issues, pending, sendFailed>>

Next ==
    \E e \in Events :
        \/ Take(e)
        \/ SendMsgStep(e) \/ TrackNodeIssueStep(e) \/ FailedSendStep(e)
        \/ UpdateNetworkRead(e) \/ UpdateNetworkWrite(e) \/ NewEldersStep(e)
        \/ EnqueueItem(e) \/ ProposeOfflineStep(e) \/ SetStorageLevelStep(e)

Spec == Init /\ [][Next]_vars

Idle == \A e \in Events : cur[e] = None /\ work[e] = << >>

----------------------------------------------------------------------------
(* Properties                                                              *)

\* The node's network knowledge never goes back to an older key, whichever
\* way an UpdateNetworkAndHandleValidClientMsg, checked on a snapshot,
\* interleaves with a NewElders agreement or another update.
KnowledgeNeverRegresses == [][key' >= key]_vars

\* Once every event's work-list has drained, every peer a send to failed
\* has had an issue logged with the fault tracker (spec 7: FailedSend
\* surfaces as HandleFailedSendToNode).
FailedSendsTracked == Idle => sendFailed \subseteq issues

====
