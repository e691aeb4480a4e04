------------------------------ MODULE MCLismAml ------------------------------
(* Instances of LismAml for TLC: layer 1 is the mouse layer, layer 2 another. *)
EXTENDS LismAml

Identity == [l \in LayerIndices |-> l]
==============================================================================
