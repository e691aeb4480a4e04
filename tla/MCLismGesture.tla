---------------------------- MODULE MCLismGesture ----------------------------
(* An instance of LismGesture for TLC: a threshold of two motions, and the     *)
(* shortest cooldown with CooldownCoversTap.                                   *)
EXTENDS LismGesture

SmallDeltas == {-2, -1, 1, 2}
===============================================================================
