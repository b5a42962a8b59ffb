--------------------------- MODULE SectionAuthority ---------------------------
(***************************************************************************)
(* What a node's Section promises its callers (spec 4.1-4.3, 8.1-8.2),      *)
(* with every operation atomic: the set of trusted section keys grows only *)
(* by keys whose signing key is already trusted; the SAP moves only to the *)
(* last trusted key; the roster admits only members signed by a trusted    *)
(* key, and is cut back only to the prefix of the current SAP.  Section,   *)
(* with one call at a time, implements it (Section!ImplementsSectionAuthority). *)
(***************************************************************************)
EXTENDS Naturals, Sequences

CONSTANTS Keys, Genesis, KeyParent, KeyPrefix, NameBits, OurName, MemberInputs

VARIABLES
    keys,      \* the trusted section keys
    current,   \* the key of the current SAP
    roster     \* name -> [state, key, valid]

vars == <<keys, current, roster>>

RECURSIVE Generation(_)
Generation(k) == IF k = Genesis THEN 0 ELSE 1 + Generation(KeyParent[k])

\* The newest trusted key: the deepest, ties broken by the larger key.
Older(j, k) == \/ Generation(j) < Generation(k)
               \/ Generation(j) = Generation(k) /\ j <= k

Newest(ks) == CHOOSE k \in ks : \A j \in ks : Older(j, k)

InPrefix(p, name) == Len(p) <= Len(NameBits[name]) /\ SubSeq(NameBits[name], 1, Len(p)) = p

\* A key set that hangs together: the genesis key and keys signed by keys
\* of the set.
Rooted(ks) == Genesis \in ks /\ \A k \in ks \ {Genesis} : KeyParent[k] \in ks

\* A genesis node trusts the genesis key and is its own member; a joining
\* node trusts the keys of the chain it was handed, its SAP is the newest
\* of them, and its roster is empty.
Init ==
    \/ /\ keys = {Genesis}
       /\ current = Genesis
       /\ roster = [n \in {OurName} |-> [state |-> "Joined", key |-> Genesis, valid |-> TRUE]]
    \/ \E ks \in SUBSET Keys :
          /\ Rooted(ks)
          /\ keys = ks
          /\ current = Newest(ks)
          /\ roster = [n \in {} |-> [state |-> "Joined", key |-> Genesis, valid |-> TRUE]]

\* New keys, each signed by a key trusted before or added with it.
Trust(new) ==
    /\ new # {} /\ new \cap keys = {}
    /\ \A k \in new : k # Genesis /\ KeyParent[k] \in keys \cup new
    /\ keys' = keys \cup new
    /\ UNCHANGED <<current, roster>>

\* The SAP of the newest trusted key is installed.
Install ==
    /\ current # Newest(keys)
    /\ current' = Newest(keys)
    /\ UNCHANGED <<keys, roster>>

\* A member signed by a trusted key is entered.
Admit(ns) ==
    /\ ns.valid /\ ns.key \in keys
    /\ roster' = [n \in DOMAIN roster \cup {ns.name} |->
                    IF n = ns.name THEN [state |-> ns.state, key |-> ns.key, valid |-> ns.valid]
                    ELSE roster[n]]
    /\ UNCHANGED <<keys, current>>

\* The roster keeps the names in the current SAP's prefix.
Retain ==
    /\ roster' = [n \in {m \in DOMAIN roster : InPrefix(KeyPrefix[current], m)} |-> roster[n]]
    /\ UNCHANGED <<keys, current>>

Next ==
    \/ \E new \in SUBSET (Keys \ keys) : Trust(new)
    \/ Install
    \/ \E ns \in MemberInputs : Admit(ns)
    \/ Retain

Spec == Init /\ [][Next]_vars

====
