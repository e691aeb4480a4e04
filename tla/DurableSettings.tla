---------------------------- MODULE DurableSettings ----------------------------
(***************************************************************************)
(* What a settings service promises the app at the other end: it tells the *)
(* app nothing that is not stored, so that what the app was told last and  *)
(* nobody has changed since is what a power failure leaves.                *)
(*                                                                         *)
(* LismComboRpcRefinement shows that the combo service keeps the promise,  *)
(* with its queue, its work item and its dumps of many packets.            *)
(***************************************************************************)
CONSTANTS Settings, First

VARIABLES
  live,     \* what the keyboard works with
  stored,   \* what it starts with
  told      \* what the app was told last

vars == <<live, stored, told>>

Init == live = First /\ stored = First /\ told = First

Change == live' \in Settings /\ UNCHANGED <<stored, told>>

Save == stored' = live /\ UNCHANGED <<live, told>>

Tell == live = stored /\ told' = live /\ UNCHANGED <<live, stored>>

PowerFails == live' = stored /\ UNCHANGED <<stored, told>>

Next == Change \/ Save \/ Tell \/ PowerFails

Spec == Init /\ [][Next]_vars
================================================================================
