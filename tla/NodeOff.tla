------------------------------ MODULE NodeOff ------------------------------
(***************************************************************************)
(* The node-offline vote of one elder, `Me` (section_state.rs): it signs   *)
(* and sends ProposeNodeOff proposals, feeds the signature shares it       *)
(* receives to the section proposal aggregator, and acts on the aggregated *)
(* agreement.  Other nodes are the environment: honest ones send shares    *)
(* under the keys they hold shares of, Byzantine ones do the same for any  *)
(* node, and may also sign under a key set they made themselves: the      *)
(* share carries its own public_key_set.  `msgs` holds the shares on their *)
(* way to Me; handling takes one off, whether it is stored or ignored, and *)
(* the network may deliver any share sent before once more.                *)
(***************************************************************************)
EXTENDS Naturals, FiniteSets

CONSTANTS
    Nodes,      \* node names
    Me,         \* the node whose handlers are modelled
    Gens,       \* section keys, 0 .. Len(chain)-1, in chain order
    Forged,     \* a key set a Byzantine elder generated on its own
    ElderSet,   \* Gens \cup {Forged} -> SUBSET Nodes: holders of each key's shares
    PrefixOf,   \* Gens -> SUBSET Nodes: the names matching the prefix of each key's SAP
    Byz,        \* Byzantine elders
    Targets,    \* nodes that may be voted offline
    Failed      \* the targets that really failed: honest fault detection
                \* (sn_fault_detection) only ever proposes these

Keys == Gens \cup {Forged}

VARIABLES
    chainKeys,  \* keys of our section chain (has_chain_key)
    sent,       \* every ProposeNodeOff share sent to Me: [x, signer, gen]
    msgs,       \* the shares not yet delivered
    shares,     \* aggregator: <<x, gen>> -> signers of the shares stored
    aggregated, \* aggregator entries that have produced a signature
    cmds,       \* pending HandleNodeOffAgreement commands [x, gen]
    offline,    \* nodes propose_membership_change was called for
    issues      \* nodes tracked with an ElderVoting issue

vars == <<chainKeys, sent, msgs, shares, aggregated, cmds, offline, issues>>

\* spec 4.6 / glossary: supermajority(n) = floor(2n/3) + 1.
Supermajority(n) == (2 * n) \div 3 + 1

\* The key our own share signs with: the chain's last key.
CurrentGen == CHOOSE g \in chainKeys : \A h \in chainKeys : h <= g

ShareMsg(x, signer, g) == [x |-> x, signer |-> signer, gen |-> g]

----------------------------------------------------------------------------
(* SignatureAggregator::try_aggregate (spec 4.6): shares are kept per      *)
(* payload and key set, one per signer; once a supermajority of the key    *)
(* set's holders has signed, the entry yields the section signature once,  *)
(* and later shares for it are accepted silently.  Entries are kept for    *)
(* the whole behaviour: the aggregator's expiry after its TTL is not       *)
(* modelled, so a behaviour here lies within one TTL.                      *)

TryAggregate(x, g, signer) ==
    /\ <<x, g>> \notin aggregated
    /\ Cardinality(shares[<<x, g>>] \cup {signer}) >= Supermajority(Cardinality(ElderSet[g]))

\* The aggregator's state after a share: the share is stored, and an entry
\* that yields is marked aggregated with a HandleNodeOffAgreement queued.
Aggregate(x, g, signer) ==
    /\ shares' = [shares EXCEPT ![<<x, g>>] = @ \cup {signer}]
    /\ IF TryAggregate(x, g, signer)
       THEN /\ aggregated' = aggregated \cup {<<x, g>>}
            /\ cmds' = cmds \cup {[x |-> x, gen |-> g]}
       ELSE UNCHANGED <<aggregated, cmds>>

\* handle_section_state_proposal's checks, before aggregation: the sender
\* matches the prefix of our current SAP, and the share's key set is a key
\* of our chain.
AcceptsProposalNoChainKey(sender, g) == \* mutant: has_chain_key dropped
    sender \in PrefixOf[CurrentGen]
AcceptsProposal(sender, g) ==
    /\ sender \in PrefixOf[CurrentGen]  \* our_prefix.matches(&sender.name())
    /\ g \in chainKeys                  \* has_chain_key(sig_share_pk)

----------------------------------------------------------------------------
Init ==
    /\ chainKeys = {0}
    /\ sent = {}
    /\ msgs = {}
    /\ shares = [p \in Targets \X Keys |-> {}]
    /\ aggregated = {}
    /\ cmds = {}
    /\ offline = {}
    /\ issues = {}

\* send_node_off_proposal(recipients, proposal): sign with our share of the
\* current key (an error, with no effect, unless we are one of its elders),
\* track an ElderVoting issue for every other recipient, send them the
\* proposal, and, being a recipient, handle our own share at once.  The
\* recipients are the elders of our current SAP; x comes from our own fault
\* detection.
SendNodeOffProposal(x) ==
    LET g == CurrentGen
        others == ElderSet[g] \ {Me}
    IN
    /\ Me \in ElderSet[g]
    /\ issues' = issues \cup others
    /\ IF AcceptsProposal(Me, g) THEN Aggregate(x, g, Me)
                                 ELSE UNCHANGED <<shares, aggregated, cmds>>
    /\ UNCHANGED <<chainKeys, sent, msgs, offline>>

\* Another elder runs send_node_off_proposal: an honest one signs with a
\* key it holds a share of (its view of the chain may lag or lead ours), a
\* Byzantine one does the same for a healthy node, or with its own key set
\* (a Byzantine share for a failed node only adds to what honest elders
\* sign, and is left out).
ProposeFromOther(e, x, g) ==
    /\ e # Me /\ e \in ElderSet[g]
    /\ ShareMsg(x, e, g) \notin sent
    /\ sent' = sent \cup {ShareMsg(x, e, g)}
    /\ msgs' = msgs \cup {ShareMsg(x, e, g)}
    /\ UNCHANGED <<chainKeys, shares, aggregated, cmds, offline, issues>>

\* The network delivers a share sent before once more.
Redeliver(m) ==
    /\ m \in sent \ msgs
    /\ msgs' = msgs \cup {m}
    /\ UNCHANGED <<chainKeys, sent, shares, aggregated, cmds, offline, issues>>

\* handle_section_state_proposal: a share from outside our prefix or under
\* a key not in our chain is ignored and gone; otherwise try_aggregate,
\* queueing a HandleNodeOffAgreement when it yields a signature.
HandleSectionStateProposal(m) ==
    /\ m \in msgs
    /\ msgs' = msgs \ {m}
    /\ IF AcceptsProposal(m.signer, m.gen)
       THEN Aggregate(m.x, m.gen, m.signer)
       ELSE UNCHANGED <<shares, aggregated, cmds>>
    /\ UNCHANGED <<chainKeys, sent, offline, issues>>

\* handle_section_decision_agreement: the aggregated signature verifies
\* against its own key; handle_offline_agreement then proposes the
\* membership change of the node.
HandleSectionDecisionAgreementUnverified(c) == \* mutant: the signature never verifies
    /\ c \in cmds
    /\ cmds' = cmds \ {c}
    /\ UNCHANGED <<chainKeys, sent, msgs, shares, aggregated, offline, issues>>
HandleSectionDecisionAgreement(c) ==
    /\ c \in cmds
    /\ cmds' = cmds \ {c}
    /\ offline' = offline \cup {c.x}
    /\ UNCHANGED <<chainKeys, sent, msgs, shares, aggregated, issues>>

\* Anti-entropy appends the next key of the chain to our knowledge.
LearnKeyUnchecked == \* mutant: a key beyond the section chain is taken
    /\ chainKeys' = chainKeys \cup {CurrentGen + 1}
    /\ UNCHANGED <<sent, msgs, shares, aggregated, cmds, offline, issues>>
LearnKey ==
    /\ \E g \in Gens : g = CurrentGen + 1 /\ chainKeys' = chainKeys \cup {g}
    /\ UNCHANGED <<sent, msgs, shares, aggregated, cmds, offline, issues>>

Next ==
    \/ \E x \in Failed : SendNodeOffProposal(x)
    \/ \E e \in Nodes, g \in Keys :
          \E x \in IF e \in Byz THEN Targets \ Failed ELSE Failed : ProposeFromOther(e, x, g)
    \/ \E m \in sent : Redeliver(m)
    \/ \E m \in msgs : HandleSectionStateProposal(m)
    \/ \E c \in cmds : HandleSectionDecisionAgreement(c)
    \/ LearnKey

Spec == Init /\ [][Next]_vars

\* The dispatcher runs every command it is given and every share that
\* arrives is handled once: weak fairness per share and per command.  No
\* fairness is assumed of the senders, of redelivery or of anti-entropy.
Fairness ==
    /\ \A x \in Targets, e \in Nodes, g \in Keys :
          WF_vars(HandleSectionStateProposal(ShareMsg(x, e, g)))
    /\ \A x \in Targets, g \in Keys :
          WF_vars(HandleSectionDecisionAgreement([x |-> x, gen |-> g]))

FairSpec == Spec /\ Fairness

----------------------------------------------------------------------------
(* Properties                                                              *)

TypeOK ==
    /\ chainKeys \subseteq Gens /\ 0 \in chainKeys
    /\ msgs \subseteq sent
    /\ sent \subseteq [x : Targets, signer : Nodes, gen : Keys]
    /\ shares \in [Targets \X Keys -> SUBSET Nodes]
    /\ aggregated \subseteq Targets \X Keys
    /\ cmds \subseteq [x : Targets, gen : Keys]
    /\ offline \subseteq Targets /\ issues \subseteq Nodes

\* No honest node is voted offline: propose_membership_change is only ever
\* called for a node that honest fault detection reported, whatever the
\* Byzantine elders sign, under our chain's keys or a key set of their own,
\* and however often their shares are delivered.
NoFalseOffline == offline \subseteq Failed

LastGen == CHOOSE g \in Gens : \A h \in Gens : h <= g

\* The elders of our prefix whose share for x under key g is stored or on
\* its way to Me.
Voters(x, g) ==
    (shares[<<x, g>>] \cup {m.signer : m \in {n \in msgs : n.x = x /\ n.gen = g}})
        \cap PrefixOf[g] \cap ElderSet[g]

\* Once our chain has reached its last key and a supermajority of that
\* key's elders has a share for a failed node stored or on its way to Me,
\* handle_section_state_proposal and the agreement handler eventually call
\* propose_membership_change for it, however the deliveries interleave and
\* whatever was ignored before the split.
EventuallyOffline ==
    \A x \in Failed :
        (CurrentGen = LastGen /\ Cardinality(Voters(x, LastGen)) >= Supermajority(Cardinality(ElderSet[LastGen])))
        ~> x \in offline

====
