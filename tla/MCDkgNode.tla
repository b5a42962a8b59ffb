----------------------------- MODULE MCDkgNode -----------------------------
(* Two candidates and keys 0 and 1; an outsider has sent a forged         *)
(* DkgSessionInfo under each key.  No other section member: the ignored   *)
(* DkgStart of a non-candidate changes only the contact log.               *)
EXTENDS DkgNode

CONSTANTS a, b, o

MCCandidates == {a, b}
MCOthers == {}
\* The forged authorities: S!Auth(0, FALSE) and S!Auth(1, FALSE), written out.
MCForged == {[key |-> 0, valid |-> FALSE], [key |-> 1, valid |-> FALSE]}

====
