# TLA+ models of the safe_network elder coordination engine

These modules model the parts of the repository that coordinate a section's
elders: the section key chain, the section authority (SAP) and the member
roster (`src/sn/src/routing/section/mod.rs`), the DKG voter
(`src/sn_node/src/node/dkg.rs`), the node-offline vote
(`src/sn_node/src/node/messaging/section_state.rs`), the DKG session arms and the
message accumulation of `system_msgs.rs`, the command dispatcher (`flow_ctrl/dispatcher.rs`). Each module is written
from the code. Code that the repository calls but does not contain is marked
`spec_modelled` in `PROJECT.json` and is modelled from `spec.md`. This covers
`SecuredLinkedList`, `SectionPeers`, the signature aggregator and the sn_sdkg
vote protocol.

## 1. The system and its parts

| Part | Source | State | Operations that change state |
|---|---|---|---|
| Section (C2-C4) | `routing/section/mod.rs` | `chain` (RwLock), `section_auth` (RwLock), `section_peers` | `first_node`, `update_elders`, `merge_chain`, `update_member`, `merge_members`, `promote_and_demote_elders` (pure), `try_split` (pure, and as steps) |
| DKG voter (C5) | `node/dkg.rs` | `dkg_ephemeral_keys`, `dkg_states`, `last_received_dkg_msg_time` | `gen_ephemeral_key`, `try_init_dkg`/`save_key`, `check_keys`, `initialize_dkg_state`, `handle_dkg_vote`, `remove` |
| Offline vote (C6, C8) | `messaging/section_state.rs` | `section_proposal_aggregator`, node issues | `send_node_off_proposal`, `handle_section_state_proposal`, `handle_section_decision_agreement` |
| System messages | `core/messaging/system_msgs.rs` | `dkg_sessions`, `message_aggregator`, joins-allowed, replication queue | `handle_system_msg`, `aggregate_msg_and_stop`, the arms of `handle_valid_msg`, the accumulation and direct sends |
| Dispatcher (C9) | `flow_ctrl/dispatcher.rs` | one `RwLock<MyNode>` | `process_cmd` for each `Cmd` |
| Node API | `sn/src/node/api/mod.rs` | the event channel, keypair on disk | `NodeApi::new`, `start_node`, `handle_connection_events` |
| Legacy KeySection | `src/node/elder_duties/key_section/mod.rs` | none of its own | forwards to modules outside the repository |

The parts interact as follows:

- The dispatcher turns each inbound message into commands.
- The arms of `handle_valid_msg` call into the DKG voter and the Section.
- The DKG outcome becomes a NewElders agreement, which `update_elders` applies.
- A message that needs the section's signature is sent by each elder with its key share. Each recipient aggregates the shares in `handle_system_msg` before the message reaches `handle_valid_msg`.
- Fault detection feeds `send_node_off_proposal`. Its aggregated agreement becomes a membership proposal.

### What is hard here

- **Interleaved async calls on one Section.** Each `.read().await` and `.write().await` is a separate lock. A call can therefore see the chain and the SAP at different moments.
- **A Byzantine DKG participant and a lossy network.** The participant may sign two ephemeral keys. The network may duplicate, reorder or drop keys and votes.
- **Redelivered signature shares.** Sibling elders still hold shares of a pre-split key, and the threshold is easy to confuse with the DKG threshold.

## 2. Modules

### `Section` (`MCSection`)

`Section` models `section/mod.rs`.

- **Variables.** `chain` is the key tree as key -> parent. `sectionAuth` is the SAP: its prefix, its key and whether it self-verifies. `peers` is the roster. `tasks` holds the Section calls in flight and their locals.
- **Atomic steps.** Each lock-held region of the code is one atomic step. `update_elders` has six steps:
  1. the first prefix read;
  2. the second prefix read;
  3. `self_verify` and the chain insert under the write lock;
  4. the last-key compare under a read lock;
  5. the `section_auth` write;
  6. the retain.

  `merge_chain` has three steps: the merge, the compare and the write.
- **Initial states.** A node's Section starts either as `Section::first_node`, with the genesis key, its SAP and itself as the only joined peer, or as `Section::new` accepted it. `new` is given a chain from some root to some tip, a SAP and the key it is signed with. Every chain of the key tree is an input, and so is one whose tip signature is forged. `New` holds only when all five checks of `new` pass: the signing key is the chain's last key, the root is the genesis key, the SAP signature verifies, the SAP is signed by its own key, and the chain self-verifies. The roster of a Section from `new` is empty.
- **Inputs.** The inputs are genuine and forged `KeyedSig`s, proof chains, and signed or unsigned `NodeState`s.
- **`merge_members`.** It applies no member. `let _ = self.update_member(info)` drops a future it never polls, so the call only retains the roster by the current prefix.

### `SectionAuthority`: what the Section promises

`SectionAuthority` is the abstract specification of the Section. It is written from spec 4.1-4.3 and 8.1-8.2, and every operation is one atomic step:

- the trusted keys grow only by keys whose signer is trusted;
- the SAP moves only to the newest trusted key;
- the roster admits only members signed by a trusted key, and is cut back only to the current SAP's prefix.

Its initial states are the genesis state and every set of keys rooted at genesis and closed under parents, with the newest of them current and an empty roster. These are the states `Section::new` may accept.

`Section` instantiates it as `Authority` with the mapping `keys <- DOMAIN chain`, `current <- sectionAuth.key`, `roster <- peers`. `ImplementsSectionAuthority == Authority!Spec` is checked in `MCSectionSeq.cfg`, with one call at a time.

- **Stuttering steps.** The prefix reads, the last-key compare and the task bookkeeping map to stuttering steps.
- **Other steps.** The chain insert or merge maps to `Trust`, the SAP write to `Install`, `update_member` to `Admit`, and the retains to `Retain`.
- **Concurrent calls.** With two concurrent calls the refinement fails within four steps: the stale SAP write of `section_authority_race`.

### `DkgVoter` (`MCDkgVoter`)

`DkgVoter` models the `DkgVoter` of every participant of one session.

- **Message handling.** A key message goes through `save_key`: `check_key`, the double-key check, the insert, `did_insert` and `just_completed`. A vote goes through `check_keys`. If the keys match, the vote is handled directly. Otherwise `check_keys` saves keys in map order. The first failure stops the loop, and the earlier saves are kept.
- **Outcome.** The sn_sdkg vote phase is abstracted. A participant reaches its outcome once it has handled a vote from every participant, each vote carrying the same key set.
- **Bookkeeping.** `fresh` records the `last_received_dkg_msg_time` refresh.

### `NodeOff` (`MCNodeOff`)

`NodeOff` models one elder, `Me`, running the offline vote.

- **Other elders.** They send shares under the keys they hold shares of. Honest ones vote only for nodes that really failed. A Byzantine one votes for a healthy node, under a key of the chain or under a key set it generated alone. The share carries its own `public_key_set`, so only `has_chain_key` tells the two apart. A Byzantine share for a failed node would only add to the honest shares, so it is left out.
- **Delivery.** `msgs` holds the shares on their way to `Me`, and `sent` holds every share sent. `HandleSectionStateProposal` takes a share off `msgs` whether it passes the checks or not. A share that fails one is gone for good, as in the code: nothing resends it. `Redeliver` lets the network deliver any sent share again.
- **The checks.** The prefix check reads the prefix of the current SAP (`PrefixOf[CurrentGen]`), as `network_knowledge.prefix()` does at 86. Key 0 has the empty prefix; key 1 the prefix of `{a,b,e}`.
- **The aggregator (spec 4.6).** It keeps one share per signer for each payload and key. It yields a signature once a supermajority of that key's elders has signed, and only once. Its entries are kept for the whole behaviour, so a behaviour lies within one TTL.
- **The configuration** is a section that splits. Key 0 is held by `{a,b,c,d}`. After the split, `c` and `d` are in the sibling section but still hold shares of key 0, which stays in our chain. Our key 1 is held by `{a,b,e}`. `c` is Byzantine and has a key set of its own. `Me = a`.

### `ElderChoice` (`MCElderChoice`)

`ElderChoice` models `promote_and_demote_elders` and `try_split` as operators over the roster and our SAP.

- **Variables.** `peers` is the roster (age and Joined/Left state). `sap` is our prefix and elders.
- **Actions.** `Join` and `Leave` change the roster. `ElderChange(ex)` runs `promote_and_demote_elders` with an excluded set `ex`. When it returns candidates, our half becomes the SAP and the roster is retained by its prefix. This abstracts the DKG and NewElders steps that follow in the code.
- **`try_split`.** It is translated line by line: the fold counting mature members on each side of the next bit, the `||` of the two size checks, and the prefix that cannot grow past the name length. `SplitExactlyWhenBalanced` checks it against a reference definition (spec 7.7) for every excluded set in every reachable state.
- **`try_split` as steps.** One more call runs step by step beside the atomic ones (`call`, `splitOut`). The steps are `SplitReadPrefix` (the read at 348 and the size fold), `SplitOurPrefix` (376), `SplitOtherPrefix` (377) and `SplitElders` (379-395). Each `self.prefix().await` takes the SAP's read lock anew, so an `ElderChange` can complete between two steps. The two `authority_provider()` reads of `SplitElders` are taken as one step, since they only select elders. `SplitExcluded` bounds the excluded sets of this call. `MCElderChoice` gives it only the empty set, because exclusions are already checked on the atomic calls.

### `Dispatcher` (`MCDispatcher`)

`Dispatcher` models `Dispatcher::process_cmd` over one `RwLock<MyNode>`.

- **Events.** Each inbound event owns a work-list. It runs one command at a time and appends the commands each returns. The work-lists of different events interleave.
- **Lock regions.** Each lock region is one step. `UpdateNetworkAndHandleValidClientMsg` is two steps: a check on a read-lock snapshot, then the real update under the write lock. `EnqueueDataForReplication` takes the write lock once per data item.
- **Sends.** `SendMsg` produces one `HandleFailedSendToNode` for each failed send. `into_msg_bytes` leaves out recipients with no route.

### `DkgSessions` and `DkgNode` (`MCDkgNode`)

`DkgSessions` models the DkgStart, DkgMessage, DkgSessionUnknown and DkgSessionInfo arms of `handle_valid_msg` for one session.

- **Environment.** A DkgStart may be lost. Every message may be redelivered. An outsider has forged DkgSessionInfo messages in flight, one under the start key and one under the next key. Nodes' section keys may move on.
- **Abstracted.** `handle_dkg_start`, `handle_dkg_msg` and `handle_dkg_retry` are outside the repository. They are abstracted to "start and broadcast our key" and "ask the sender with DkgSessionUnknown if we have not started".

`DkgNode` composes the two components that meet there. It instantiates `DkgSessions` and a `DkgVoter` for every candidate with `INSTANCE ... WITH`.

- **The link.** The DkgStart and DkgSessionInfo arms call `handle_dkg_start`, which runs the candidate's `gen_ephemeral_key` and broadcasts the key. The keys and votes of the voters then travel as in `DkgVoter`.
- **What it shows.** A candidate that missed the DkgStart takes part in the key exchange only after recovering the session through DkgSessionUnknown / DkgSessionInfo. The composition checks that this recovery leads to the DKG outcome, not only to a stored session.

### `MsgAccumulation` (`MCMsgAccumulation`)

`MsgAccumulation` models the two ends of a message signed with key shares.

- **Variables.** `net` holds every wire message sent. Each is a record of source, destination, payload, authority kind and whether its signature is valid. Messages stay in `net`, so any of them can be delivered again. `agg` and `done` are each recipient's message aggregator. `handled` counts `handle_valid_msg` runs with Section authority. `direct` records messages handled with the sender's own authority. `called` records the elders that made the accumulation send.
- **Sending.** `SendForAccumulation` is `send_messages_to_all_nodes_or_directly_handle_for_accumulation`. With ourselves among the recipients and an authority that is not a BLS share, it returns an error and sends nothing. Otherwise the others get a `SendMsg` and we get a local `HandleMsg`. `SendMsgToOurElders` and `SendDirectMsgToNodes` send a message signed by the node alone.
- **Receiving.** `HandleSystemMsg` is `handle_system_msg` with `aggregate_msg_and_stop`. A message without a share goes straight on. A share goes to `TryAggregate`, which is spec 4.6. The message goes on only when the aggregator returns the signature. `NotEnoughShares` stops it, and an invalid share is dropped as an error.
- **The Byzantine elder** (`ByzSend`) sends shares of any payload, with valid or invalid signatures. Only the recipients' handling is followed. The other elders run the same code.

### `NodeApi` (`MCNodeApi`)

`NodeApi` models `NodeApi::new` and `start_node` (`api/mod.rs`), called by an embedder that calls `new` again after an error.

- **Start-up steps.** Each await of the start-up is a step:
  1. the reward key get-or-create;
  2. the bind of `Comm::new` (the genesis node) or `Comm::bootstrap` (a joining node);
  3. `join_network`;
  4. `Core::first_node` or `Core::new`, together with the `task::spawn` of `handle_connection_events` (`SpawnConnectionEvents`);
  5. `start_network_probing`;
  6. `write_prefixmap_to_disk`;
  7. `store_network_keypair`.
- **The timeout.** `tokio::time::timeout(joining_timeout, start_node)` can fire at any await inside `start_node`. The future is then dropped, and with it the attempt's `Comm` unless the spawned task still holds it. That task holds the Dispatcher, and with it the Core and the `Comm`. Its `JoinHandle` is dropped, which detaches it.
- **The connection loop.** `handle_connection_events` takes frames from the connection channel (capacity 1). It skips a frame that `WireMsg::from` rejects and handles the others one at a time.
- **Abstracted.** Keys and addresses are abstracted to which attempt owns them. The genesis path is folded into the bind and core steps. The event channel is left out, because `Core::send_event` is outside the repository.

## 3. Runs

| Run | Config | Expect | Shows |
|---|---|---|---|
| section_concurrent | `MCSection.cfg` | pass | With two concurrent calls, the chain self-verifies and the SAP is trusted. |
| section_sequential | `MCSectionSeq.cfg` | pass | With one call at a time, the SAP is the last key's, and `Section` implements `SectionAuthority`. |
| section_authority_race | `MCSection_AuthorityCoherence.cfg` | violation | Two calls leave an older SAP installed (code bug, mod.rs:197). |
| dkg_byzantine | `MCDkgVoter.cfg` | pass | Stored keys are authentic and never change. DKG states start only from complete key sets. Outcomes agree. |
| dkg_timer_refresh | `MCDkgVoter_NewKeyRefreshesTimer.cfg` | violation | A new key does not refresh the timer (dkg.rs:247). |
| dkg_session_recovery | `MCDkgNode.cfg` | pass | Once one candidate has started the session, every candidate reaches the DKG outcome while no candidate's section key has moved, including one whose DkgStart was lost. |
| nodeoff_byzantine | `MCNodeOff.cfg` | pass | Across a split, no agreement names a healthy node, although the Byzantine elder signs under the pre-split key and under a key set of its own and shares are redelivered. Once the chain has its last key and a supermajority of that key's elders has a share stored or on its way, the node is eventually proposed offline. |
| elder_choice | `MCElderChoice.cfg` | pass | `try_split` splits exactly when both halves are big enough. |
| split_siblings | `MCElderChoice_Siblings.cfg` | violation | An elder change between `try_split`'s reads at 376 and 377 gives candidates for prefixes `0` and `01`, which are not siblings (code bug, mod.rs:377; spec 8.7). |
| msg_accumulation | `MCMsgAccumulation.cfg` | pass | A recipient handles an accumulated message with Section authority only over a supermajority of valid shares, and eventually once such a supermajority was sent to it. This holds with the Byzantine elder's foreign and invalid shares. |
| dispatcher_concurrent | `MCDispatcher.cfg` | pass | Interleaved events never lose a failed-send report, and knowledge never goes back to an older key. |
| api_join_timeout | `MCNodeApi_OnlyNode.cfg` | violation | A timeout after the connection task was spawned leaves the node running. A retried `new` then returns a second node beside it (code bug, api/mod.rs:273). |

**split_siblings trace.** The counterexample has 9 states:

1. `b`, `c` and `d` join, each at age 6, which is mature (`MatureAge = 5`). With the genesis node `a` (age 255), each half of the empty prefix has two mature members.
2. The stepwise call reads the prefix at 348 (bit 0 at index 0).
3. It computes `our_prefix = 0` at 376.
4. An `ElderChange` splits the section: our SAP's prefix becomes `0` and the roster is cut to `a` and `b`.
5. At 377 the call reads `0` and pushes `1`, so `other_prefix = 01`.
6. `SplitElders` returns the candidates for `0` and `01`.

The elder change that would follow would start a DKG for a section `01` that is not our sibling.

**Retired runs.** Two violation runs of earlier versions were replaced by `split_siblings` and `msg_accumulation`, which reach behaviour a unit test hardly does. Both findings still hold of the code, and a unit test of the function shows each:

- `section_merge_members` showed a bug at mod.rs:139. `merge_members` writes `let _ = self.update_member(info);` without `.await`, so no member of an AE update is ever merged. `Section` still models it that way.
- `dkg_complete_once` showed a divergence at dkg.rs:250. `save_key`'s doc comment says it "returns true if we just completed the set". In fact any key redelivered after completion makes it return true again, and `try_init_dkg` re-broadcasts the first vote. The DKG state this re-initialisation builds is still checked by `DkgStateFromCompleteKeys`.

**api_join_timeout trace.** The counterexample has 14 states:

1. Attempt 1 binds, joins, builds its Core and spawns `handle_connection_events`.
2. The timeout fires at `start_network_probing`, and `new` returns `JoinTimeout`.
3. The embedder retries. Attempt 2 joins and `new` returns `Ok`.
4. Both connection tasks are now running.

The NOTE on `start_node` says the caller handles a start that never returns "by using a timeout". That only works if the timeout also stops what the start has already spawned. The same orphan arises when `store_network_keypair` fails. With a genesis node (`IsFirst = TRUE`), the same retry leaves two genesis Cores running, each with its own first section key.

Each property of a passing run has a mutant in `PROJECT.json`. A mutant is a plausible bug in the definition that models the code, such as a dropped check or a threshold off by one, and TLC finds the property violated with it.

## 4. Bounds

- **Section.** Keys 0..4 form a tree with a split at key 2 into prefixes `0` and `1`. There are two names and two task slots. Two slots are the fewest that let one call interleave with another.
- **DKG.** There are three participants. One of them is Byzantine and can sign two keys. There is one outsider. Three is the smallest session in which one Byzantine participant can show different keys to two honest ones.
- **NodeOff.** Five nodes, two chain keys, one self-made key and two targets. They cover a vote under the pre-split key by elders later in the sibling section, a vote completing across the split, a Byzantine elder that meets its own key's threshold alone, and a healthy and a failed target. The Byzantine elder is one of four key-0 elders, below a third.
- **ElderChoice.** Five names of two bits, with two names sharing bits. Ages are on both sides of maturity. Elder size is 3 and the recommended section size is 2. This reaches both a split and a refused split, and a shrink refused by the supermajority guard at 262. The stepwise `try_split` and one elder change interleave within three joins.
- **Dispatcher.** Five events: an UpdateNetwork, a NewElders, two replication batches sharing one data item, and a fault event. Together they produce sends, failures, and offline proposals to two elders.
- **DkgNode.** Two candidates, no non-candidate member, and keys 0..1. With a third candidate, or a non-candidate, the liveness check did not finish in minutes. Two candidates are enough for one to miss the start and recover it from the other. The non-candidate's DkgStart arm is covered by `DkgSessions`'s definitions in the same composition.
- **MsgAccumulation.** Four elders, one of them Byzantine, so the three honest elders are exactly a supermajority. A recipient then needs every honest share, its own `HandleMsg` copy included, unless the Byzantine elder adds a valid one. Two of the elders are the recipients, so a share reaches a recipient both as its own copy and over the network. The Byzantine elder sends one message: a share of the message or of another payload, with a valid or invalid signature. With two Byzantine messages, or with every elder's handling followed, the run did not finish within the time allowed.
- **NodeApi.** Two calls of `new`, a joining node with an unspecified port, and two frames, one malformed. Two calls are the fewest in which an orphan of the first can run beside the second.

## 5. Fairness

The liveness runs assume two kinds of weak fairness:

- weak fairness of handling for each message that has been sent;
- weak fairness of each queued command.

The dispatcher processes every command it is handed, and a message that is redelivered is eventually taken. No fairness is assumed of Byzantine nodes, of outsiders, or of an honest node proposing. In `DkgNode`, weak fairness is on handling any of the DkgMessage, DkgSessionUnknown and DkgSessionInfo messages in flight, and on each voter handling each honest key and vote. Each handling changes the state at most once, so this is fairness for each of them. DkgStart delivery is not fair, because a DkgStart may be lost. In `MsgAccumulation`, weak fairness is on handling any message in `net`. A message whose handling changes nothing (a share the aggregator already holds) imposes no obligation, so this amounts to each message that still matters being handled. In `NodeOff`, weak fairness is on handling each share on its way to `Me` and each queued agreement. Handling takes the share off, so each share is handled once. A share dropped by a check is not handled again unless the network redelivers it, and redelivery, anti-entropy (`LearnKey`) and the senders are not fair.

## 6. Not modelled yet, and the plan

1. **The remaining `system_msgs.rs` arms.** These are DkgNotReady/DkgRetry, the DKG failure arms, the AE, join and relocation arms, and the storage and replication arms. Each delegates its state change to a function outside the repository, such as `handle_anti_entropy_update_msg`, `relocate`, `set_storage_level` or `replicate_data`. One arm stands out: the JoinResponse arm (339-386) logs "Successfully aggregated ApprovalShares" but aggregates nothing, and acts on the first Approval while `relocate_state` is set. Whether a second Approval relocates the node again depends on whether `relocate` clears `relocate_state`, and `relocate` is outside the repository.
2. **The node event channel** (`api/mod.rs:66`). `Core::send_event` is outside the repository. It is unknown whether a full channel makes it wait, drop the event or (spec 5) drop the oldest.
3. **Aggregator expiry.** Both aggregators (`SignatureAggregator`) are outside the repository and, per spec 4.6, drop an entry after a TTL. `MsgAccumulation` and `NodeOff` keep entries for the whole behaviour, so what they check holds within one TTL. After the TTL, a supermajority of redelivered shares would be aggregated afresh, and the accumulated message would be handled a second time.
4. **Pre-split shares in the offline vote.** The prefix check at `section_state.rs:87` applies to each new share only. A share stored under key 0 before the split, from an elder now in the sibling section, still counts towards an agreement formed after it; TLC reaches this in 7 states. The agreement is still backed by a supermajority of key 0's elders, so `NoFalseOffline` holds. The comment at 85 ("proposals from other sections shall be ignored") is not met for such shares, and stating it would take a violation run of its own.
5. **DkgStart after `remove`.** The DkgStart arm calls `handle_dkg_start` on every delivery. `gen_ephemeral_key` leaves the key unchanged only while it exists. After `remove`, a redelivered DkgStart or DkgSessionInfo therefore creates a second key, and candidates still holding the first key would report an honest node for a double key. The caller of `remove` is outside the repository.

The following are out of scope, because they do I/O or forward to code outside the repository:

- transport, serialisation and disk storage;
- the legacy KeySection;
- `create_dkg_state` (`dkg.rs`): once `check_key` has passed, its own check cannot fail, so its error branch is dead in every state the model reaches;
- the storage-level and replication arms of `system_msgs.rs`: their state lives in `data_storage` and `MIN_LEVEL_WHEN_FULL`, which are outside the repository, so there is nothing to translate;
- `active_members` reading `is_elder` peer by peer: it can mix two SAPs, but its callers are outside the repository (see the hazard in `PROJECT.json`);
- the getters and forwarding methods of `NodeApi`.
