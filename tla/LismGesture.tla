----------------------------- MODULE LismGesture -----------------------------
(***************************************************************************)
(* The swipe-gesture detector: src/src/lism_gesture.c.                     *)
(*                                                                         *)
(* Motion is accumulated until one axis crosses the threshold.  The        *)
(* gesture's key is not pressed there: the handler leaves a pending        *)
(* binding and submits press_work, which presses it and schedules          *)
(* release_work for TapMs later.  Nothing but the cooldown keeps a second  *)
(* gesture from the pending binding, and both work items wait for whatever *)
(* else the system workqueue is doing, so how late they may be is a        *)
(* constant.  External and modelled from its use here: the kernel's work   *)
(* items, its clock, and zmk_behavior_invoke_binding().                    *)
(***************************************************************************)
EXTENDS Integers, Sequences

CONSTANTS
  Threshold,   \* cfg->threshold
  CooldownMs,  \* cfg->cooldown_ms
  TapMs,       \* LISM_GESTURE_TAP_MS
  Deltas,      \* values of a motion event
  MaxLate,     \* how long a submitted work item waits for the workqueue at most
  LastMotion,  \* bound: no motion is reported later
  MaxTime      \* bound: the clock

Bindings == {"left", "right", "up", "down"}
None     == "none"
Never    == -1
Works    == {"press_work", "release_work"}

ASSUME GestureAssumption ==
  /\ Threshold \in Nat \ {0} /\ CooldownMs \in Nat /\ TapMs \in Nat \ {0}
  /\ Deltas \subseteq Int /\ MaxLate \in Nat
  /\ LastMotion \in Nat /\ MaxTime \in Nat

\* The cooldown outlasts a tap whose press and release are as late as can be.
CooldownCoversTap == CooldownMs > TapMs + 2 * MaxLate

VARIABLES
  accum_x, accum_y,
  cooldown_until_ms,
  pending_binding,
  workqueue,    \* work items submitted, in order, with the time they were
  release_at,   \* when release_work is due, or Never
  held,         \* presses minus releases of each binding, at the host
  now

accums == <<accum_x, accum_y, cooldown_until_ms>>
vars   == <<accums, pending_binding, workqueue, release_at, held, now>>

-----------------------------------------------------------------------------
magnitude(n) == IF n < 0 THEN -n ELSE n

\* Mutant: an axis that has just reached the threshold does not fire.
gesture_above(x, y) ==
  CASE magnitude(x) > Threshold /\ magnitude(x) >= magnitude(y) ->
         IF x > 0 THEN "right" ELSE "left"
    [] magnitude(y) > Threshold /\ magnitude(y) > magnitude(x) ->
         IF y > 0 THEN "down" ELSE "up"
    [] OTHER -> None

\* The binding a swipe of (x, y) fires: the axis that moved most decides, x if
\* they moved alike.
gesture(x, y) ==
  CASE magnitude(x) >= Threshold /\ magnitude(x) >= magnitude(y) ->
         IF x > 0 THEN "right" ELSE "left"
    [] magnitude(y) >= Threshold /\ magnitude(y) > magnitude(x) ->
         IF y > 0 THEN "down" ELSE "up"
    [] OTHER -> None

submitted(w) == \E i \in 1 .. Len(workqueue) : workqueue[i].work = w

\* k_work_submit() of an item that is submitted already does nothing.
k_work_submit(w) ==
  IF submitted(w) THEN workqueue
  ELSE Append(workqueue, [work |-> w, since |-> now])

-----------------------------------------------------------------------------
(* The input device                                                        *)

\* lism_gesture_fire()
fire(binding) ==
  /\ pending_binding' = binding
  /\ workqueue' = k_work_submit("press_work")

\* Mutant: the cooldown does not start.
Motion_without_cooldown(dx, dy) ==
  /\ now <= LastMotion
  /\ LET x == accum_x + dx
         y == accum_y + dy
     IN  IF gesture(x, y) = None
         THEN /\ accum_x' = x /\ accum_y' = y
              /\ UNCHANGED <<cooldown_until_ms, pending_binding, workqueue>>
         ELSE /\ fire(gesture(x, y))
              /\ accum_x' = 0 /\ accum_y' = 0
              /\ UNCHANGED cooldown_until_ms
  /\ UNCHANGED <<release_at, held, now>>

\* lism_gesture_handle_event(), after the cooldown, for one axis: it runs on the
\* driver's motion work item and is not interrupted by the other two.
Motion(dx, dy) ==
  /\ now >= cooldown_until_ms /\ now <= LastMotion
  /\ LET x == accum_x + dx
         y == accum_y + dy
     IN  IF gesture(x, y) = None
         THEN /\ accum_x' = x /\ accum_y' = y
              /\ UNCHANGED <<cooldown_until_ms, pending_binding, workqueue>>
         ELSE /\ fire(gesture(x, y))
              /\ accum_x' = 0 /\ accum_y' = 0
              /\ cooldown_until_ms' = now + CooldownMs
  /\ UNCHANGED <<release_at, held, now>>

-----------------------------------------------------------------------------
(* The system workqueue                                                    *)

is_next(w) == workqueue # <<>> /\ Head(workqueue).work = w

invoke(binding, change) == held' = [held EXCEPT ![binding] = @ + change]

\* Mutant: the release is not scheduled.
PressWork_without_release ==
  /\ is_next("press_work")
  /\ workqueue' = Tail(workqueue)
  /\ IF pending_binding = None THEN UNCHANGED held ELSE invoke(pending_binding, 1)
  /\ UNCHANGED <<accums, pending_binding, release_at, now>>

\* lism_gesture_press_work_cb(); k_work_schedule() of an item that is scheduled
\* or submitted does nothing.
PressWork ==
  /\ is_next("press_work")
  /\ workqueue' = Tail(workqueue)
  /\ IF pending_binding = None
     THEN UNCHANGED <<held, release_at>>
     ELSE /\ invoke(pending_binding, 1)
          /\ release_at' = IF release_at = Never /\ ~ submitted("release_work")
                           THEN now + TapMs ELSE release_at
  /\ UNCHANGED <<accums, pending_binding, now>>

\* Mutant: the binding stays pending.
ReleaseWork_keeping_binding ==
  /\ is_next("release_work")
  /\ workqueue' = Tail(workqueue)
  /\ IF pending_binding = None THEN UNCHANGED held ELSE invoke(pending_binding, -1)
  /\ UNCHANGED <<accums, pending_binding, release_at, now>>

\* lism_gesture_release_work_cb()
ReleaseWork ==
  /\ is_next("release_work")
  /\ workqueue' = Tail(workqueue)
  /\ IF pending_binding = None THEN UNCHANGED held ELSE invoke(pending_binding, -1)
  /\ pending_binding' = None
  /\ UNCHANGED <<accums, release_at, now>>

-----------------------------------------------------------------------------
(* Time                                                                    *)

\* The kernel submits release_work when it is due.
ReleaseDue ==
  /\ release_at # Never /\ release_at <= now
  /\ workqueue' = k_work_submit("release_work")
  /\ release_at' = Never
  /\ UNCHANGED <<accums, pending_binding, held, now>>

\* Timers are on time and no work item is later than MaxLate.
Tick ==
  /\ now < MaxTime
  /\ release_at # Never => now < release_at
  /\ \A i \in 1 .. Len(workqueue) : now < workqueue[i].since + MaxLate
  /\ now' = now + 1
  /\ UNCHANGED <<accums, pending_binding, workqueue, release_at, held>>

-----------------------------------------------------------------------------
(* Specification                                                           *)

Init ==
  /\ accum_x = 0 /\ accum_y = 0 /\ cooldown_until_ms = 0
  /\ pending_binding = None
  /\ workqueue = <<>> /\ release_at = Never
  /\ held = [b \in Bindings |-> 0]
  /\ now = 0

Swipe     == \E d \in Deltas : Motion(d, 0) \/ Motion(0, d)
Workqueue == PressWork \/ ReleaseWork

Next == Swipe \/ Workqueue \/ ReleaseDue \/ Tick

Spec == Init /\ [][Next]_vars

\* The workqueue, the timers and the clock go on; nobody has to swipe.
FairSpec == Spec /\ WF_vars(Workqueue) /\ WF_vars(ReleaseDue) /\ WF_vars(Tick)

-----------------------------------------------------------------------------
(* Properties                                                              *)

\* The accumulators stay below the threshold they are compared with.
TypeOK ==
  /\ accum_x \in 1 - Threshold .. Threshold - 1
  /\ accum_y \in 1 - Threshold .. Threshold - 1
  /\ cooldown_until_ms \in Nat
  /\ pending_binding \in Bindings \cup {None}
  /\ workqueue \in Seq([work : Works, since : Nat])
  /\ release_at \in Nat \cup {Never}
  /\ held \in [Bindings -> Int] /\ now \in Nat

\* A key is down at the host only while it is the pending binding and its release
\* is on the way: the handler, which overwrites the binding, and the two work
\* items, which only look at it, never leave a key down or release another
\* (lism_gesture.c:72-90, with the cooldown of :124-126 and :149).
HeldKeyIsPending ==
  \A b \in Bindings :
    /\ held[b] \in {0, 1}
    /\ held[b] = 1 =>
         pending_binding = b /\ (release_at # Never \/ submitted("release_work"))

\* A gesture that has fired is pressed or going to be: it is not overwritten by
\* the next, and the press does not find the binding gone.
GesturesArePressed ==
  pending_binding # None => submitted("press_work") \/ held[pending_binding] = 1

\* Every gesture ends: its key is pressed and released, and the processor is
\* ready for the next one.
GesturesEnd == pending_binding # None ~> pending_binding = None /\ \A b \in Bindings : held[b] = 0
=============================================================================
