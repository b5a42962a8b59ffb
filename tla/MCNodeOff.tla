------------------------------ MODULE MCNodeOff ------------------------------
(* A section that splits: the key 0 SAP has the empty prefix and elders    *)
(* {a,b,c,d}; after the split our half, prefix {a,b,e}, has elders        *)
(* {a,b,e} under key 1, while c and d go to the sibling section yet still *)
(* hold shares of key 0, which stays in our chain.  c is Byzantine and has *)
(* a key set of its own.  Me = a.  t1 really failed, t2 did not.        *)
EXTENDS NodeOff

MCNodes == {"a", "b", "c", "d", "e"}
MCGens == {0, 1}
\* F, c's own key set, is the key 9: a key no chain of this section has.
MCForged == 9
MCElderSet == [g \in {0, 1, 9} |-> CASE g = 0 -> {"a", "b", "c", "d"}
                                    [] g = 1 -> {"a", "b", "e"}
                                    [] g = 9 -> {"c"}]
MCPrefixOf == [g \in {0, 1} |-> IF g = 0 THEN MCNodes ELSE {"a", "b", "e"}]
MCByz == {"c"}
MCTargets == {"t1", "t2"}
MCFailed == {"t1"}
====
