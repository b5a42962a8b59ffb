--------------------------- MODULE MCElderChoice ---------------------------
(* Five names over two bits, two in each half of the first bit; elders of  *)
(* three and halves of two, so splits, shrinking and refused shrinking all *)
(* happen within a few joins and departures.                               *)
EXTENDS ElderChoice

MCNames == {"a", "b", "c", "d", "e"}
MCNameBits == [n \in MCNames |-> CASE n = "a" -> <<0, 0>> [] n = "b" -> <<0, 1>>
                                   [] n = "c" -> <<1, 0>> [] n = "d" -> <<1, 1>>
                                   [] n = "e" -> <<0, 1>>]
MCRank == [n \in MCNames |-> CASE n = "a" -> 1 [] n = "b" -> 2 [] n = "c" -> 3
                                [] n = "d" -> 4 [] n = "e" -> 5]
MCAges == {4, 6}
\* The stepwise try_split excludes nobody: exclusions are checked on the
\* atomic calls of ElderChange.
MCSplitExcluded == {{}}
====
