------------------------- MODULE MCMsgAccumulation -------------------------
(* Four elders, the fewest with a Byzantine one beside a supermajority (3) *)
(* of honest ones.  Two of them are the recipients, so a share reaches a  *)
(* recipient both as its own HandleMsg copy and over the network.  The    *)
(* Byzantine elder sends one share: of the message or of another, valid  *)
(* or not.                                                                 *)
EXTENDS MsgAccumulation

MCElders == {"e1", "e2", "e3", "b"}
MCRecipients == {"e1", "e2"}
MCByz == {"b"}
MCPayloads == {"msg", "other"}
MCAuthKinds == {"BlsShare", "Node"}
====
