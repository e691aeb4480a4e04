---------------------------- MODULE MCLismTrackball ----------------------------
(* An instance of LismTrackball for TLC: resolutions 2 to 4, a motion on the     *)
(* ramp and one too fast, and writes that reach every branch of on_write().      *)
EXTENDS LismTrackball

Defaults ==
  [cursor_cpi |-> 3, precision_cpi |-> 2, precision_active |-> 0, scroll_invert |-> 0,
   aml_idle_ms |-> 1, accel_enabled |-> 0, accel_max_x100 |-> 140, accel_kick_in |-> 400,
   accel_ramp |-> 800]

\* The flash of a user who has switched the acceleration on before.
Stored == {<<>>, [Defaults EXCEPT !.accel_enabled = 1]}

write(op, value) == [op |-> op, value |-> value, complete |-> TRUE]

\* 22000 counts in a millisecond are more than line 79 can take.
SomeMotions == {<<-12, 20>>, <<22000, 0>>}

\* What (22000000 - 400) * 100 wraps round to.
Wrapped == {-2095007296}

SomeWrites ==
  {write("accel_enabled", 1), write("cursor_cpi", 1), write("precision_cpi", 5),
   write("precision_active", 2), write("precision_active", 0),
   write("scroll_invert", 1), write("aml_idle_ms", 0),
   write("accel_max_x100", 50), write("accel_kick_in", 100), write("accel_ramp", 0),
   [op |-> "accel_enabled", value |-> 0, complete |-> FALSE], write("unknown", 0)}

\* Bound: motion comes before the workqueue's first event.  Neither reads or writes
\* anything the other does.
BoundedNext == TrackballNext /\ (event' # NoEvent => counts'.events = 0)

BoundedSpec == TrackballInit /\ [][BoundedNext]_allvars
================================================================================
