------------------------ MODULE LismComboRpcRefinement ------------------------
(* The combo service implements the durable settings: the table is what is       *)
(* live, the last complete dump is what the app was told.                        *)
EXTENDS LismComboRpc

Durable == INSTANCE DurableSettings WITH
  Settings <- Table,
  First    <- EmptyTable,
  live     <- slots,
  stored   <- loaded,
  told     <- mirror

\* If saves succeed and there is no test combo, every step of the service is a step
\* of the durable settings or none: no dump ends, for a command or for a
\* subscription, while the table it shows is not the stored one
\* (lism_combo_rpc.c:103-201 with lism_runtime_combo.c:423-513 and :534-553).
ImplementsDurableSettings == Durable!Spec
===============================================================================
