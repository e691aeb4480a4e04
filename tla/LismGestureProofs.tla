-------------------------- MODULE LismGestureProofs --------------------------
(***************************************************************************)
(* Proofs about the gesture detector.  A gesture goes through three        *)
(* stages, each with at most one work item and a deadline counted from the *)
(* time the gesture fired; the last deadline lies before the end of the    *)
(* cooldown, so no motion is looked at while a binding is pending.         *)
(***************************************************************************)
EXTENDS LismGesture, TLAPS

none_held     == \A b \in Bindings : held[b] = 0
pending_held  == \A b \in Bindings : held[b] = IF b = pending_binding THEN 1 ELSE 0

\* When the pending gesture fired.
fired_at == cooldown_until_ms - CooldownMs

Idle ==
  /\ pending_binding = None
  /\ workqueue = <<>> /\ release_at = Never /\ none_held

\* The press is submitted, ...
Fired ==
  /\ pending_binding \in Bindings
  /\ workqueue = <<[work |-> "press_work", since |-> fired_at]>>
  /\ release_at = Never /\ none_held
  /\ now <= fired_at + MaxLate

\* ... the key is down and the release scheduled, ...
Pressed ==
  /\ pending_binding \in Bindings
  /\ workqueue = <<>> /\ pending_held
  /\ release_at \in Nat
  /\ release_at <= fired_at + MaxLate + TapMs
  /\ now <= release_at

\* ... and submitted.
Releasing ==
  /\ pending_binding \in Bindings
  /\ \E since \in Nat :
       /\ workqueue = <<[work |-> "release_work", since |-> since]>>
       /\ since <= fired_at + MaxLate + TapMs
       /\ now <= since + MaxLate
  /\ release_at = Never /\ pending_held

Stages == Idle \/ Fired \/ Pressed \/ Releasing

IInv == TypeOK /\ Stages

-----------------------------------------------------------------------------
LEMMA GestureType ==
  ASSUME NEW x \in Int, NEW y \in Int
  PROVE  /\ gesture(x, y) \in Bindings \cup {None}
         /\ gesture(x, y) = None =>
              x \in 1 - Threshold .. Threshold - 1 /\ y \in 1 - Threshold .. Threshold - 1
  BY GestureAssumption DEF gesture, magnitude, Bindings, None

\* No motion is looked at while a binding is pending.
LEMMA PendingCoolsDown ==
  ASSUME TypeOK, Stages, CooldownCoversTap, pending_binding # None
  PROVE  now < cooldown_until_ms
  BY GestureAssumption DEF TypeOK, Stages, Idle, Fired, Pressed, Releasing, fired_at,
     CooldownCoversTap, Never

LEMMA InitIInv == Init => IInv
  BY GestureAssumption DEF Init, IInv, TypeOK, Stages, Idle, none_held, Bindings, None, Never

LEMMA MotionIInv ==
  ASSUME IInv, CooldownCoversTap, NEW dx \in Int, NEW dy \in Int, Motion(dx, dy)
  PROVE  IInv'
<1> DEFINE x == accum_x + dx
           y == accum_y + dy
<1> USE GestureAssumption
<1>1. x \in Int /\ y \in Int /\ now \in Nat /\ CooldownMs \in Nat
  BY DEF IInv, TypeOK
<1>2. pending_binding = None /\ Idle
  BY PendingCoolsDown DEF IInv, Motion, TypeOK, Stages, Fired, Pressed, Releasing, Bindings, None
<1>3. CASE gesture(x, y) = None
  <2>1. accum_x' = x /\ accum_y' = y
        /\ UNCHANGED <<cooldown_until_ms, pending_binding, workqueue, release_at, held, now>>
    BY <1>3 DEF Motion
  <2>2. TypeOK'
    BY <2>1, <1>1, <1>3, GestureType DEF IInv, TypeOK
  <2>3. Idle'
    BY <2>1, <1>2 DEF Idle, none_held
  <2> QED
    BY <2>2, <2>3 DEF IInv, Stages
<1>4. CASE gesture(x, y) # None
  <2>1. /\ fire(gesture(x, y)) /\ accum_x' = 0 /\ accum_y' = 0
        /\ cooldown_until_ms' = now + CooldownMs
        /\ UNCHANGED <<release_at, held, now>>
    BY <1>4 DEF Motion
  <2>2. gesture(x, y) \in Bindings
    BY <1>1, <1>4, GestureType
  <2>3. workqueue' = <<[work |-> "press_work", since |-> now]>>
    BY <2>1, <1>2 DEF fire, k_work_submit, submitted, Idle
  <2>4. TypeOK'
    <3>1. workqueue' \in Seq([work : Works, since : Nat])
      BY <2>3, <1>1 DEF Works
    <3> QED
      BY <2>1, <2>2, <3>1, <1>1 DEF fire, IInv, TypeOK
  <2>5. Fired'
    BY <2>1, <2>2, <2>3, <1>1, <1>2 DEF Idle, Fired, fire, fired_at, none_held, Never
  <2> QED
    BY <2>4, <2>5 DEF IInv, Stages
<1> QED
  BY <1>3, <1>4

LEMMA PressWorkIInv ==
  ASSUME IInv, PressWork
  PROVE  IInv'
<1> USE GestureAssumption
<1>1. Fired
  BY DEF IInv, Stages, Idle, Fired, Pressed, Releasing, PressWork, is_next
<1>2. pending_binding # None /\ workqueue # <<>> /\ ~ submitted("release_work")
  BY <1>1 DEF Fired, Bindings, None, submitted
<1>3. /\ workqueue' = <<>> /\ release_at' = now + TapMs
      /\ held' = [held EXCEPT ![pending_binding] = @ + 1]
      /\ UNCHANGED <<accums, pending_binding, now>>
  BY <1>1, <1>2 DEF Fired, PressWork, invoke
<1>4. TypeOK'
  BY <1>1, <1>3 DEF IInv, TypeOK, accums, Fired
<1>5. Pressed'
  BY <1>1, <1>3 DEF IInv, TypeOK, Fired, Pressed, none_held, pending_held, fired_at, accums
<1> QED
  BY <1>4, <1>5 DEF IInv, Stages

LEMMA ReleaseWorkIInv ==
  ASSUME IInv, ReleaseWork
  PROVE  IInv'
<1> USE GestureAssumption
<1>1. Releasing
  BY DEF IInv, Stages, Idle, Fired, Pressed, Releasing, ReleaseWork, is_next
<1>2. pending_binding # None
  BY <1>1 DEF Releasing, Bindings, None
<1>3. /\ workqueue' = <<>> /\ pending_binding' = None
      /\ held' = [held EXCEPT ![pending_binding] = @ - 1]
      /\ UNCHANGED <<accums, release_at, now>>
  <2>1. PICK since \in Nat : workqueue = <<[work |-> "release_work", since |-> since]>>
    BY <1>1 DEF Releasing
  <2>2. Tail(workqueue) = <<>>
    BY <2>1
  <2>3. held' = [held EXCEPT ![pending_binding] = @ + (-1)] /\ held \in [Bindings -> Int]
    BY <1>2 DEF ReleaseWork, invoke, IInv, TypeOK
  <2>4. held[pending_binding] + (-1) = held[pending_binding] - 1
    BY <1>1, <2>3 DEF Releasing
  <2> QED
    BY <2>2, <2>3, <2>4, <1>2 DEF ReleaseWork
<1>4. TypeOK'
  BY <1>1, <1>3 DEF IInv, TypeOK, accums, Releasing
<1>5. Idle'
  BY <1>1, <1>3 DEF IInv, TypeOK, Releasing, Idle, none_held, pending_held
<1> QED
  BY <1>4, <1>5 DEF IInv, Stages

LEMMA ReleaseDueIInv ==
  ASSUME IInv, ReleaseDue
  PROVE  IInv'
<1> USE GestureAssumption
<1>1. Pressed /\ now = release_at /\ now \in Nat
  BY DEF IInv, TypeOK, Stages, Idle, Fired, Pressed, Releasing, ReleaseDue
<1>2. workqueue' = <<[work |-> "release_work", since |-> now]>>
  BY <1>1 DEF ReleaseDue, k_work_submit, submitted, Pressed
<1>3. TypeOK'
  <2>1. workqueue' \in Seq([work : Works, since : Nat])
    BY <1>1, <1>2 DEF Works
  <2> QED
    BY <2>1 DEF IInv, TypeOK, accums, ReleaseDue
<1>4. Releasing'
  <2>1. pending_binding' = pending_binding /\ held' = held /\ fired_at' = fired_at
        /\ release_at' = Never /\ now' = now
    BY DEF ReleaseDue, accums, fired_at
  <2>2. pending_held'
    BY <1>1, <2>1 DEF Pressed, pending_held
  <2>3. now <= fired_at + MaxLate + TapMs /\ now <= now + MaxLate
    BY <1>1 DEF Pressed
  <2>4. \E since \in Nat :
          /\ workqueue' = <<[work |-> "release_work", since |-> since]>>
          /\ since <= (fired_at + MaxLate + TapMs)'
          /\ now' <= since + MaxLate
    BY <1>1, <1>2, <2>1, <2>3
  <2> QED
    BY <1>1, <2>1, <2>2, <2>4 DEF Releasing, Pressed
<1> QED
  BY <1>3, <1>4 DEF IInv, Stages

LEMMA TickIInv ==
  ASSUME IInv, Tick
  PROVE  IInv'
<1> USE GestureAssumption
<1>1. TypeOK'
  BY DEF IInv, TypeOK, accums, Tick
<1>2. /\ UNCHANGED <<accums, pending_binding, workqueue, release_at, held>>
      /\ now' = now + 1 /\ fired_at' = fired_at /\ now \in Nat /\ fired_at \in Int
  BY DEF Tick, accums, fired_at, IInv, TypeOK
<1>3. ASSUME Idle PROVE Idle'
  BY <1>2, <1>3 DEF Idle, none_held
<1>4. ASSUME Fired PROVE Fired'
  <2>1. now < workqueue[1].since + MaxLate
    BY <1>4 DEF Fired, Tick
  <2>2. now < fired_at + MaxLate
    BY <1>4, <2>1 DEF Fired
  <2> QED
    BY <1>2, <1>4, <2>2 DEF Fired, none_held
<1>5. ASSUME Pressed PROVE Pressed'
  <2>1. now < release_at
    BY <1>5 DEF Pressed, Tick, Never
  <2> QED
    BY <1>2, <1>5, <2>1 DEF Pressed, pending_held
<1>6. ASSUME Releasing PROVE Releasing'
  <2>1. PICK since \in Nat :
          /\ workqueue = <<[work |-> "release_work", since |-> since]>>
          /\ since <= fired_at + MaxLate + TapMs
    BY <1>6 DEF Releasing
  <2>2. now < workqueue[1].since + MaxLate
    BY <2>1 DEF Tick
  <2>3. now + 1 <= since + MaxLate
    BY <2>1, <2>2, <1>2
  <2>4. \E s \in Nat :
          /\ workqueue' = <<[work |-> "release_work", since |-> s]>>
          /\ s <= (fired_at + MaxLate + TapMs)'
          /\ now' <= s + MaxLate
    BY <1>2, <2>1, <2>3
  <2> QED
    BY <1>2, <1>6, <2>4 DEF Releasing, pending_held
<1> QED
  BY <1>1, <1>3, <1>4, <1>5, <1>6 DEF IInv, Stages

LEMMA NextIInv == CooldownCoversTap /\ IInv /\ [Next]_vars => IInv'
<1> SUFFICES ASSUME CooldownCoversTap, IInv, [Next]_vars PROVE IInv'
  OBVIOUS
<1>1. ASSUME Swipe PROVE IInv'
  <2>1. PICK d \in Deltas : Motion(d, 0) \/ Motion(0, d)
    BY <1>1 DEF Swipe
  <2> QED
    BY <2>1, MotionIInv, GestureAssumption
<1>2. ASSUME Workqueue PROVE IInv'
  BY <1>2, PressWorkIInv, ReleaseWorkIInv DEF Workqueue
<1>3. ASSUME UNCHANGED vars PROVE IInv'
  BY <1>3 DEF vars, accums, IInv, TypeOK, Stages, Idle, Fired, Pressed, Releasing, none_held,
     pending_held, fired_at
<1> QED
  BY <1>1, <1>2, <1>3, ReleaseDueIInv, TickIInv DEF Next

LEMMA AlwaysIInv == CooldownCoversTap => (Spec => []IInv)
<1> SUFFICES ASSUME CooldownCoversTap PROVE Spec => []IInv
  OBVIOUS
<1>1. IInv /\ [Next]_vars => IInv'
  BY NextIInv
<1> QED
  BY <1>1, InitIInv, PTL DEF Spec

-----------------------------------------------------------------------------
\* With a cooldown that covers a late tap, a key is down only while it is the
\* pending binding and its release is on the way.
THEOREM HeldKeyStaysPending == CooldownCoversTap => (Spec => []HeldKeyIsPending)
<1> SUFFICES ASSUME CooldownCoversTap PROVE Spec => []HeldKeyIsPending
  OBVIOUS
<1>1. IInv => HeldKeyIsPending
  BY DEF IInv, TypeOK, Stages, Idle, Fired, Pressed, Releasing, none_held, pending_held,
     HeldKeyIsPending, submitted, Never
<1>2. Spec => []IInv
  BY AlwaysIInv
<1> QED
  BY <1>1, <1>2, PTL

\* ... and no gesture is overwritten before its key is pressed.
THEOREM GesturesStayPressed == CooldownCoversTap => (Spec => []GesturesArePressed)
<1> SUFFICES ASSUME CooldownCoversTap PROVE Spec => []GesturesArePressed
  OBVIOUS
<1>1. IInv => GesturesArePressed
  BY DEF IInv, TypeOK, Stages, Idle, Fired, Pressed, Releasing, none_held, pending_held,
     GesturesArePressed, submitted, Bindings, None
<1>2. Spec => []IInv
  BY AlwaysIInv
<1> QED
  BY <1>1, <1>2, PTL

-----------------------------------------------------------------------------
(* Types, whatever the cooldown: a gesture may then fire while the one before *)
(* it is still pending.                                                      *)

Job == [work : Works, since : Nat]

LEMMA Submitting ==
  ASSUME workqueue \in Seq(Job), now \in Nat, NEW w \in Works
  PROVE  k_work_submit(w) \in Seq(Job)
<1>1. [work |-> w, since |-> now] \in Job
  BY DEF Job
<1> QED
  BY <1>1 DEF k_work_submit

LEMMA NextTypeOK == TypeOK /\ [Next]_vars => TypeOK'
<1> SUFFICES ASSUME TypeOK, [Next]_vars PROVE TypeOK'
  OBVIOUS
<1> USE GestureAssumption
<1>1. workqueue \in Seq(Job) /\ now \in Nat /\ held \in [Bindings -> Int]
  BY DEF TypeOK, Job
<1>2. ASSUME NEW dx \in Int, NEW dy \in Int, Motion(dx, dy) PROVE TypeOK'
  <2> DEFINE x == accum_x + dx
             y == accum_y + dy
  <2>1. x \in Int /\ y \in Int /\ cooldown_until_ms \in Nat
    BY DEF TypeOK
  <2>2. CASE gesture(x, y) = None
    <3>1. /\ accum_x' = x /\ accum_y' = y
          /\ UNCHANGED <<cooldown_until_ms, pending_binding, workqueue, release_at, held, now>>
      BY <1>2, <2>2 DEF Motion
    <3> QED
      BY <2>1, <2>2, <3>1, GestureType DEF TypeOK
  <2>3. CASE gesture(x, y) # None
    <3>1. /\ fire(gesture(x, y)) /\ accum_x' = 0 /\ accum_y' = 0
          /\ cooldown_until_ms' = now + CooldownMs
          /\ UNCHANGED <<release_at, held, now>>
      BY <1>2, <2>3 DEF Motion
    <3>2. gesture(x, y) \in Bindings
      BY <2>1, <2>3, GestureType
    <3>3. workqueue' \in Seq(Job)
      BY <1>1, <3>1, Submitting DEF fire, Works
    <3> QED
      BY <1>1, <3>1, <3>2, <3>3 DEF TypeOK, Job, fire
  <2> QED
    BY <2>2, <2>3
<1>3. ASSUME Swipe PROVE TypeOK'
  <2>1. PICK d \in Deltas : Motion(d, 0) \/ Motion(0, d)
    BY <1>3 DEF Swipe
  <2> QED
    BY <2>1, <1>2
<1>4. ASSUME NEW w \in Works, is_next(w), workqueue' = Tail(workqueue) PROVE workqueue' \in Seq(Job)
  BY <1>1, <1>4 DEF is_next
<1>5. CASE PressWork
  <2>1. workqueue' \in Seq(Job)
    BY <1>4, <1>5 DEF PressWork, Works
  <2>2. held' \in [Bindings -> Int] /\ release_at' \in Nat \cup {Never}
    BY <1>1, <1>5 DEF PressWork, invoke, TypeOK
  <2> QED
    BY <1>5, <2>1, <2>2 DEF PressWork, accums, TypeOK, Job
<1>6. CASE ReleaseWork
  <2>1. workqueue' \in Seq(Job)
    BY <1>4, <1>6 DEF ReleaseWork, Works
  <2>2. held' \in [Bindings -> Int]
    BY <1>1, <1>6 DEF ReleaseWork, invoke, TypeOK
  <2> QED
    BY <1>6, <2>1, <2>2 DEF ReleaseWork, accums, TypeOK, Job
<1>7. CASE ReleaseDue
  <2>1. workqueue' \in Seq(Job)
    BY <1>1, <1>7, Submitting DEF ReleaseDue, Works
  <2> QED
    BY <1>7, <2>1 DEF ReleaseDue, accums, TypeOK, Job
<1>8. CASE Tick
  BY <1>8 DEF Tick, accums, TypeOK
<1>9. CASE UNCHANGED vars
  BY <1>9 DEF vars, accums, TypeOK
<1> QED
  BY <1>3, <1>5, <1>6, <1>7, <1>8, <1>9 DEF Next, Workqueue

\* The accumulators stay below the threshold they are compared with, and the
\* work items and the timer keep to their types, also with a cooldown that is
\* too short for the tap (lism_gesture.c:72-149).
THEOREM GestureTyped == Spec => []TypeOK
<1>1. Init => TypeOK
  BY GestureAssumption DEF Init, TypeOK, Bindings, None, Never
<1> QED
  BY <1>1, NextTypeOK, PTL DEF Spec
==============================================================================
