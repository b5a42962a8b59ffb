---------------------------- MODULE MCSection ----------------------------
(* A genesis section whose key history is genesis 0, two elder changes    *)
(* (1, 2) and a split of 2 into 3 (prefix 0, ours) and 4 (prefix 1).       *)
EXTENDS Section, TLC

MCKeys == 0..4
MCKeyParent == (1 :> 0) @@ (2 :> 1) @@ (3 :> 2) @@ (4 :> 2)
MCKeyPrefix == (0 :> <<>>) @@ (1 :> <<>>) @@ (2 :> <<>>) @@ (3 :> <<0>>) @@ (4 :> <<1>>)
MCNames == {"a", "b"}
MCNameBits == ("a" :> <<0>>) @@ ("b" :> <<1>>)

\* A member of the sibling half joined under the genesis key, later left
\* under key 2, and a forged Joined for it under key 1.
MCMemberInputs ==
    { [name |-> "b", state |-> "Joined", key |-> 0, valid |-> TRUE],
      [name |-> "b", state |-> "Left",   key |-> 2, valid |-> TRUE],
      [name |-> "b", state |-> "Joined", key |-> 1, valid |-> FALSE] }

MCTasks2 == {1, 2}
MCTasks1 == {1}
=============================================================================
