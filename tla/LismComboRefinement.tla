------------------------- MODULE LismComboRefinement -------------------------
(* The matcher implements the combo engine: its buffer, its re-entrant calls   *)
(* and its timeouts are ways of keeping presses pending.                       *)
EXTENDS LismCombo

Engine == INSTANCE ComboEngine WITH
  Editable <- MaxEdits > 0,
  combos   <- {slots[s].keys : s \in {t \in Slots : slot_is_active(t)}},
  pending  <- arrival,
  passed   <- host,
  combined <- combo_positions

\* Every step of the matcher is a step of the engine or none: presses leave in
\* order, whole combos at once, releases after them, and an edit disturbs none of
\* this (the handlers of lism_runtime_combo.c:321-419 and the edits together).
ImplementsEngine == Engine!Spec
==============================================================================
