------------------------------- MODULE NodeApi -------------------------------
(***************************************************************************)
(* NodeApi::new and start_node (src/sn/src/node/api/mod.rs), called by an  *)
(* embedder that calls new again after an error, up to MaxAttempts times.  *)
(* start_node runs under tokio::time::timeout(joining_timeout): when the   *)
(* timer fires at one of its awaits the future is dropped, and with it     *)
(* everything the attempt owns that no spawned task still holds.  The task *)
(* handle_connection_events is spawned with task::spawn and holds the      *)
(* Dispatcher, hence the Core and the Comm whose endpoint is bound; its    *)
(* JoinHandle is dropped, which detaches it.                               *)
(*                                                                         *)
(* Keys, addresses and messages are abstracted to which attempt owns them. *)
(***************************************************************************)
EXTENDS Naturals, Sequences

CONSTANTS
    MaxAttempts,  \* calls of NodeApi::new the embedder makes
    IsFirst,      \* config.is_first(): the genesis path
    FixedPort,    \* config.local_addr is set, so every Comm binds one port
    Frames,       \* the byte strings a ConnectionEvent::Received carries
    WellFormed,   \* the frames WireMsg::from deserialises
    ConnCap,      \* capacity of the connection event channel (1)
    MaxHandled    \* bound on the messages a handler task handles

Attempts == 1 .. MaxAttempts
Errors == {"Err", "JoinTimeout"}

VARIABLES
    rewardKey,    \* the reward_keypair file: 0 absent, else the attempt that created it
    attempt,      \* the attempt of the current call of new
    pc,           \* where that call is
    result,       \* attempt -> what its call of new returned, or "none"
    comm,         \* attempts whose Comm (and bound endpoint) is alive
    running,      \* attempts whose handle_connection_events task runs
    conn,         \* attempt -> its connection event channel
    handled       \* attempt -> messages its dispatcher has handled

vars == <<rewardKey, attempt, pc, result, comm, running, conn, handled>>

\* The awaits inside start_node, where the timeout can fire.
StartNodePcs == {"bind", "join", "core", "probe", "prefixmap"}

Init ==
    /\ rewardKey = 0
    /\ attempt = 1
    /\ pc = "reward"
    /\ result = [i \in Attempts |-> "none"]
    /\ comm = {}
    /\ running = {}
    /\ conn = [i \in Attempts |-> <<>>]
    /\ handled = [i \in Attempts |-> 0]

\* new returns r: the future of start_node and the NodeApi are dropped, and
\* the Comm with them unless the spawned task still holds the Dispatcher.
Return(r) ==
    /\ result' = [result EXCEPT ![attempt] = r]
    /\ pc' = "returned"
    /\ comm' = IF r = "Ok" THEN comm ELSE (comm \ {attempt}) \cup running
    /\ conn' = IF attempt \in comm' THEN conn ELSE [conn EXCEPT ![attempt] = <<>>]

\* get_reward_pk, and on None a new keypair stored by store_new_reward_keypair.
GetRewardKey ==
    /\ pc = "reward"
    /\ rewardKey' = IF rewardKey = 0 THEN attempt ELSE rewardKey
    /\ pc' = "bind"
    /\ UNCHANGED <<attempt, result, comm, running, conn, handled>>

\* Binding local_addr (0.0.0.0:0 unless the config sets one) fails while
\* another Comm of the process holds a fixed port; on success the Comm of
\* this attempt is alive and start_node goes on at `next`.
BindLocalAddr(next) ==
    /\ pc = "bind"
    /\ \/ /\ ~FixedPort \/ comm = {}
          /\ comm' = comm \cup {attempt}
          /\ pc' = next
          /\ UNCHANGED <<result, conn>>
       \/ /\ FixedPort /\ comm # {}
          /\ Return("Err")
    /\ UNCHANGED <<rewardKey, attempt, running, handled>>

\* The genesis node: Comm::new.
CommNew == IsFirst /\ BindLocalAddr("core")

\* A joining node: the genesis key is read from the config, then
\* Comm::bootstrap to the hard-coded contacts.
CommBootstrap == ~IsFirst /\ BindLocalAddr("join")

\* join_network reads the join responses from connection_event_rx; it may
\* never return (the NOTE on start_node), which the timeout covers.
JoinNetwork ==
    /\ pc = "join"
    /\ conn' = [conn EXCEPT ![attempt] = <<>>]
    /\ pc' = "core"
    /\ UNCHANGED <<rewardKey, attempt, result, comm, running, handled>>

\* The Dispatcher over the Core, and handle_connection_events spawned on
\* the connection event receiver; its JoinHandle is dropped.
SpawnConnectionEvents ==
    /\ running' = running \cup {attempt}
    /\ pc' = "probe"
    /\ UNCHANGED <<rewardKey, attempt, result, comm, conn, handled>>

\* Core::first_node with a fresh genesis key set, and its EldersChanged
\* event sent into the event channel (not modelled).
FirstNodeCore == pc = "core" /\ IsFirst /\ SpawnConnectionEvents

\* Core::new with the node and network knowledge join_network returned.
NewCore == pc = "core" /\ ~IsFirst /\ SpawnConnectionEvents

\* start_network_probing, then write_prefixmap_to_disk; start_node returns.
Probe ==
    /\ pc \in {"probe", "prefixmap"}
    /\ pc' = IF pc = "probe" THEN "prefixmap" ELSE "store"
    /\ UNCHANGED <<rewardKey, attempt, result, comm, running, conn, handled>>

\* store_network_keypair(..)?, then the log lines and run_system_logger.
StoreNetworkKeypair ==
    /\ pc = "store"
    /\ \E r \in {"Ok", "Err"} : Return(r)
    /\ UNCHANGED <<rewardKey, attempt, running, handled>>

\* The joining_timeout elapses at an await of start_node.
Timeout ==
    /\ pc \in StartNodePcs
    /\ Return("JoinTimeout")
    /\ UNCHANGED <<rewardKey, attempt, running, handled>>

\* The embedder calls new again after an error.
Retry ==
    /\ pc = "returned" /\ result[attempt] \in Errors
    /\ attempt < MaxAttempts
    /\ attempt' = attempt + 1
    /\ pc' = "reward"
    /\ UNCHANGED <<rewardKey, result, comm, running, conn, handled>>

\* The endpoint of a live Comm queues a received frame; send awaits while
\* the channel is full.
Receive(i, f) ==
    /\ i \in comm
    /\ Len(conn[i]) < ConnCap
    /\ conn' = [conn EXCEPT ![i] = Append(@, f)]
    /\ UNCHANGED <<rewardKey, attempt, pc, result, comm, running, handled>>

\* One turn of the loop of handle_connection_events: a frame that does not
\* deserialise is skipped, any other becomes Command::HandleMessage and is
\* handled before the next recv.
HandleConnectionEvent(i) ==
    /\ i \in running
    /\ conn[i] # <<>>
    /\ conn' = [conn EXCEPT ![i] = Tail(@)]
    /\ handled' = IF Head(conn[i]) \in WellFormed /\ handled[i] < MaxHandled
                  THEN [handled EXCEPT ![i] = @ + 1] ELSE handled
    /\ UNCHANGED <<rewardKey, attempt, pc, result, comm, running>>

Next ==
    \/ GetRewardKey \/ CommNew \/ CommBootstrap \/ JoinNetwork
    \/ FirstNodeCore \/ NewCore \/ Probe
    \/ StoreNetworkKeypair \/ Timeout \/ Retry
    \/ \E i \in Attempts :
          \/ HandleConnectionEvent(i)
          \/ \E f \in Frames : Receive(i, f)

Spec == Init /\ [][Next]_vars

----------------------------------------------------------------------------
(* Properties                                                              *)

\* The node NodeApi::new returns is the only node the process runs: a call
\* that returned an error (JoinTimeout, or the failure of
\* store_network_keypair) and was retried left no handle_connection_events
\* task of its own taking messages from the network.
ReturnedNodeIsTheOnlyNode ==
    \A i \in Attempts : result[i] = "Ok" => running = {i}

====
