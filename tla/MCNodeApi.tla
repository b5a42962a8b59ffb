------------------------------ MODULE MCNodeApi ------------------------------
(* Two calls of NodeApi::new by a joining node whose local_addr is left     *)
(* unspecified (port 0), one frame that deserialises and one that does not. *)
EXTENDS NodeApi

MCFrames == {"wire_msg", "garbage"}
MCWellFormed == {"wire_msg"}

====
