---------------------------- MODULE MCDkgVoter ----------------------------
(* Three session elders; in the Byzantine model p3 signs two ephemeral     *)
(* keys and forges keys of the others, and outsider x sends its own key.  *)
EXTENDS DkgVoter, TLC

MCParticipants == {"p1", "p2", "p3"}
MCByz == {"p3"}
MCOutsiders == {"x"}
\* The violation runs need no Byzantine participant: honest redelivery
\* alone reaches them.
MCNoByz == {}
MCSymmetry == Permutations({"p1", "p2"})
=============================================================================
