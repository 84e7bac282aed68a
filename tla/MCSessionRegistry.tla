--------------------------- MODULE MCSessionRegistry ---------------------------
(* Constants of SessionRegistry for TLC: launchers that share a session. *)
EXTENDS SessionRegistry

MCSessionOf == [l \in Launchers |-> "s1"]
==============================================================================
