----------------------------- MODULE LismTrackball -----------------------------
(***************************************************************************)
(* The trackball settings service with the processor its curve goes to:    *)
(* lism_accel_handle_event() of src/src/lism_accel_cursor.c, in the input  *)
(* device's context, reads the four parameters one by one while the        *)
(* Bluetooth RX thread stores them one by one.                             *)
(***************************************************************************)
EXTENDS LismTrackballRpc, LismAccel

\* The motion events: a value, and the time since the event before, 0 for the second
\* axis of a report.
CONSTANT Motions

ASSUME MotionAssumption == Motions \subseteq Int \X Nat

\* The motion event being handled: what is read for it next, and what was read.
VARIABLE event

NoEvent == [reads |-> "enabled"]
allvars == <<vars, event>>

\* The switch and the clock: an event is left alone while the acceleration is off.
MotionBegins(value, dt) ==
  /\ event = NoEvent
  /\ accel.accel_enabled = 1
  /\ \E s \in speed(value, dt) :
       event' = [reads |-> "accel_kick_in", value |-> value, speed |-> s]
  /\ UNCHANGED vars

ReadKickIn ==
  /\ event.reads = "accel_kick_in"
  /\ event' = [reads |-> "accel_ramp", value |-> event.value, speed |-> event.speed,
               kick_in |-> accel.accel_kick_in]
  /\ UNCHANGED vars

ReadRamp ==
  /\ event.reads = "accel_ramp"
  /\ event' = [reads |-> "accel_max_x100", value |-> event.value, speed |-> event.speed,
               kick_in |-> event.kick_in, ramp |-> accel.accel_ramp]
  /\ UNCHANGED vars

\* The maximum is read last, then the event gets its value ...
ScaleMotion ==
  /\ event.reads = "accel_max_x100"
  /\ \E m \in mult_x100(event.speed, event.kick_in, event.ramp, accel.accel_max_x100) :
       \E n \in scaled(event.value, m) :
         event' = [reads |-> "nothing", value |-> event.value, speed |-> event.speed,
                   kick_in |-> event.kick_in, max_x100 |-> accel.accel_max_x100, scaled |-> n]
  /\ UNCHANGED vars

\* ... and goes on to the next processor.
MotionEnds ==
  /\ event.reads = "nothing"
  /\ event' = NoEvent
  /\ UNCHANGED vars

MotionHandler ==
  \/ \E motion \in Motions : MotionBegins(motion[1], motion[2])
  \/ ReadKickIn \/ ReadRamp \/ ScaleMotion \/ MotionEnds

\* The service's step; a reboot ends the event as well.
ServiceStep ==
  /\ Next
  /\ event' = IF counts'.reboots = counts.reboots THEN event ELSE NoEvent

TrackballInit == Init /\ event = NoEvent
TrackballNext == ServiceStep \/ MotionHandler
TrackballSpec == TrackballInit /\ [][TrackballNext]_allvars

-----------------------------------------------------------------------------
(* Properties                                                              *)

between(low, n, high) == (low <= n /\ n <= high) \/ (high <= n /\ n <= low)

\* What the curve does to this event stays within its integer types: the three
\* products of lines 79-83, and the 16 bits of the result.
InRange(e) ==
  /\ fits32(e.speed - e.kick_in, 100)
  /\ fits32(100, e.max_x100 - 100)
  /\ fits16(e.value) /\ fits32(e.value, e.max_x100)
  /\ fits16(cdiv(e.value * e.max_x100, 100))

\* An event handled while the curve is being replaced is scaled with a mixture of
\* two curves, which may be neither of them, and yet, as long as nothing overflows,
\* by a factor between 1 and the maximum it was scaled with: it never jumps further
\* than the curve with that maximum could make it, nor turns round
\* (lism_accel_cursor.c:36-41 against :72-84).  What does overflow is left open.
MixedCurvesAreBounded ==
  event.reads = "nothing" /\ InRange(event) =>
    between(event.value, event.scaled, cdiv(event.value * event.max_x100, 100))
================================================================================
