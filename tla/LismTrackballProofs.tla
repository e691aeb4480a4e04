------------------------- MODULE LismTrackballProofs -------------------------
(***************************************************************************)
(* Proofs about the trackball settings service together with the processor *)
(* of its curve.                                                           *)
(***************************************************************************)
EXTENDS LismTrackball, LismTrackballRpcProofs

-----------------------------------------------------------------------------
(* The curve                                                               *)

\* A quotient by a positive number is 0 or more.
LEMMA QuotientRange ==
  ASSUME NEW a \in Nat, NEW r \in Nat \ {0}
  PROVE  a \div r \in Nat
OBVIOUS

\* A hundredth of t percent of n lies between 0 and n.
LEMMA PercentRange ==
  ASSUME NEW t \in 0 .. 100, NEW n \in Int
  PROVE  between(0, cdiv(t * n, 100), n)
<1>1. CASE n >= 0
  <2>1. t * n \in Int /\ 0 <= t * n /\ t * n <= 100 * n
    BY <1>1
  <2>2. 0 <= (t * n) \div 100 /\ (t * n) \div 100 <= n
    BY <2>1, <1>1
  <2> QED
    BY <2>1, <2>2 DEF between, cdiv
<1>2. CASE n < 0
  <2>1. t * n \in Int /\ t * n <= 0 /\ 100 * n <= t * n
    BY <1>2
  <2>2. 0 <= (-(t * n)) \div 100 /\ (-(t * n)) \div 100 <= -n
    BY <2>1, <1>2
  <2> QED
    BY <2>1, <2>2, <1>2 DEF between, cdiv
<1> QED
  BY <1>1, <1>2

\* The multiplier lies between 1.00 and the maximum, whatever the speed, and
\* whichever curves the three parameters are from, if its products fit.
LEMMA MultiplierRange ==
  ASSUME NEW s \in Int, NEW kick_in \in Nat, NEW ramp \in Nat \ {0}, NEW max_x100 \in Nat,
         fits32(s - kick_in, 100), fits32(100, max_x100 - 100),
         NEW m \in mult_x100(s, kick_in, ramp, max_x100)
  PROVE  m \in Int /\ between(100, m, max_x100)
<1>1. CASE s > kick_in
  <2> DEFINE over == (s - kick_in) * 100
             gain == max_x100 - 100
  <2>1. over \in Nat /\ product(s - kick_in, 100) = {over}
    BY <1>1 DEF product
  <2>2. PICK t \in t_x100(s, kick_in, ramp) :
          \E n \in product(t, gain) : m = 100 + cdiv(n, 100)
    BY <1>1 DEF mult_x100
  <2>3. t \in 0 .. 100
    <3> HIDE DEF over
    <3>1. t = at_most(cdiv(over, ramp), 100)
      BY <2>1, <2>2 DEF t_x100
    <3>2. cdiv(over, ramp) \in Nat
      BY <2>1, QuotientRange DEF cdiv
    <3> QED
      BY <3>1, <3>2 DEF at_most
  <2>4. gain \in Int
    OBVIOUS
  <2>5. fits32(t, gain)
    <3>1. magnitude(t) <= magnitude(100) /\ magnitude(t) \in Nat /\ magnitude(100) \in Nat
      BY <2>3 DEF magnitude
    <3>2. gain # 0 => magnitude(gain) \in Nat \ {0}
      BY <2>4 DEF magnitude
    <3> HIDE DEF gain
    <3>3. gain # 0 => 2147483647 \div magnitude(gain) \in Nat
      BY <3>2, QuotientRange
    <3>4. gain = 0 \/ magnitude(100) <= 2147483647 \div magnitude(gain)
      BY DEF fits32, gain
    <3> QED
      BY <3>1, <3>3, <3>4 DEF fits32
  <2> HIDE DEF gain
  <2> DEFINE n == t * gain
  <2>6. m = 100 + cdiv(n, 100)
    BY <2>2, <2>5 DEF product
  <2>7. n \in Int
    BY <2>3, <2>4
  <2>8. between(0, cdiv(n, 100), gain)
    BY <2>3, <2>4, PercentRange
  <2> HIDE DEF n
  <2>9. cdiv(n, 100) \in Int
    BY <2>7 DEF cdiv
  <2> QED
    BY <2>6, <2>8, <2>9 DEF between, gain
<1>2. CASE ~ (s > kick_in)
  BY <1>2 DEF mult_x100, between
<1> QED
  BY <1>1, <1>2

\* C's division keeps the order of what is divided.
LEMMA DivisionKeepsOrder ==
  ASSUME NEW a \in Int, NEW b \in Int, a <= b
  PROVE  cdiv(a, 100) <= cdiv(b, 100) /\ cdiv(a, 100) \in Int /\ cdiv(b, 100) \in Int
BY DEF cdiv

LEMMA ProductRange ==
  ASSUME NEW v \in Int, NEW m \in Int, NEW max_x100 \in Nat, between(100, m, max_x100)
  PROVE  between(v * 100, v * m, v * max_x100)
<1>1. CASE v >= 0 /\ 100 <= m /\ m <= max_x100
  BY <1>1 DEF between
<1>2. CASE v >= 0 /\ max_x100 <= m /\ m <= 100
  BY <1>2 DEF between
<1>3. CASE v < 0 /\ 100 <= m /\ m <= max_x100
  BY <1>3 DEF between
<1>4. CASE v < 0 /\ max_x100 <= m /\ m <= 100
  BY <1>4 DEF between
<1> QED
  BY <1>1, <1>2, <1>3, <1>4 DEF between

\* What fits with a factor fits with a smaller one.
LEMMA SmallerFits ==
  ASSUME NEW v \in Int, NEW m \in Nat, NEW b \in Nat, m <= b, fits32(v, b)
  PROVE  fits32(v, m)
<1>1. CASE m = 0
  BY <1>1 DEF fits32
<1>2. CASE m # 0
  <2> DEFINE most == 2147483647
             q    == most \div b
             p    == most \div m
             r    == m * q
             bq   == b * q
             mp   == m * p
  <2>1. b \in Nat \ {0} /\ m \in Nat \ {0} /\ magnitude(m) = m /\ magnitude(b) = b
    BY <1>2 DEF magnitude
  <2>2. q \in Nat /\ bq <= most
    BY <2>1, QuotientRange
  <2>3. p \in Nat /\ most < mp + m
    BY <2>1, QuotientRange
  <2> HIDE DEF q, p
  <2>4. r <= bq
    BY <2>1, <2>2
  <2>5. m * q < m * (p + 1)
    BY <2>1, <2>2, <2>3, <2>4
  <2>6. q < p + 1
    BY <2>1, <2>2, <2>3, <2>5
  <2>7. magnitude(v) <= q /\ magnitude(v) \in Int
    BY <2>1 DEF fits32, magnitude, q
  <2>8. magnitude(v) <= p
    BY <2>2, <2>3, <2>6, <2>7
  <2> QED
    BY <2>1, <2>8 DEF fits32, p
<1> QED
  BY <1>1, <1>2

\* A value of 16 bits fits with a hundred.
LEMMA HundredFits ==
  ASSUME NEW v \in Int, fits16(v)
  PROVE  fits32(v, 100)
BY DEF fits16, fits32, magnitude

\* A scaled value that fits lies between the value and the most the maximum makes
\* of it.
LEMMA ScaledRange ==
  ASSUME NEW v \in Int, NEW m \in Int, NEW max_x100 \in Nat, fits16(v),
         between(100, m, max_x100), fits32(v, max_x100), fits16(cdiv(v * max_x100, 100)),
         NEW n \in scaled(v, m)
  PROVE  between(v, n, cdiv(v * max_x100, 100))
<1> DEFINE one  == v * 100
           here == v * m
           most == v * max_x100
<1>1. one \in Int /\ here \in Int /\ most \in Int
  OBVIOUS
<1>2. cdiv(one, 100) = v
  BY DEF cdiv
<1>3. between(one, here, most)
  BY ProductRange
<1>4. fits16(cdiv(most, 100)) /\ n = int16(cdiv(here, 100))
  <2>1. fits32(v, m)
    <3>1. m \in Nat /\ (m <= 100 \/ m <= max_x100)
      BY DEF between
    <3> QED
      BY <3>1, HundredFits, SmallerFits
  <2> QED
    BY <2>1 DEF scaled, product
<1> HIDE DEF one, here, most
<1>5. between(cdiv(one, 100), cdiv(here, 100), cdiv(most, 100))
  <2>1. CASE one <= here /\ here <= most
    BY <2>1, <1>1, DivisionKeepsOrder DEF between
  <2>2. CASE most <= here /\ here <= one
    BY <2>2, <1>1, DivisionKeepsOrder DEF between
  <2> QED
    BY <1>3, <2>1, <2>2 DEF between
<1> DEFINE low == cdiv(here, 100)
           end == cdiv(most, 100)
<1>6. low \in Int /\ end \in Int
  BY <1>1, DivisionKeepsOrder
<1> HIDE DEF low, end
<1>7. fits16(low)
  BY <1>2, <1>4, <1>5, <1>6 DEF between, fits16, low, end
<1>8. int16(low) = low
  BY <1>6, <1>7 DEF int16, fits16
<1> QED
  BY <1>2, <1>4, <1>5, <1>8 DEF low, most

-----------------------------------------------------------------------------
(* The service goes on as it does alone                                    *)

\* What is proved of the service holds in the composition: the events only read.
THEOREM ServiceIsUndisturbed == TrackballSpec => Spec
<1>1. TrackballInit => Init
  BY DEF TrackballInit
<1>2. [TrackballNext]_allvars => [Next]_vars
  BY DEF TrackballNext, ServiceStep, MotionHandler, MotionBegins, ReadKickIn, ReadRamp,
     ScaleMotion, MotionEnds, allvars
<1> QED
  BY <1>1, <1>2, PTL DEF TrackballSpec, Spec

-----------------------------------------------------------------------------
(* The event being handled                                                 *)

\* What has been read for an event is of the range it was stored in.
EventInv ==
  \/ event = NoEvent
  \/ /\ event.reads = "accel_kick_in" /\ event.value \in Int /\ event.speed \in Int
  \/ /\ event.reads = "accel_ramp" /\ event.value \in Int /\ event.speed \in Int
     /\ event.kick_in \in Nat
  \/ /\ event.reads = "accel_max_x100" /\ event.value \in Int /\ event.speed \in Int
     /\ event.kick_in \in Nat /\ event.ramp \in Nat \ {0}
  \/ /\ event.reads = "nothing"
     /\ InRange(event) =>
          between(event.value, event.scaled, cdiv(event.value * event.max_x100, 100))

LEMMA SpeedRange ==
  ASSUME NEW value \in Int, NEW dt \in Nat
  PROVE  \A s \in speed(value, dt) : s \in Int
<1> DEFINE d == elapsed(dt)
<1>1. d \in Nat \ {0}
  BY DEF elapsed, at_most
<1>2. product(magnitude(value), 1000) \subseteq Int
  BY OverflowAssumption DEF product, magnitude
<1>3. \A n \in Int, e \in Nat \ {0} : cdiv(n, e) \in Int
  BY DEF cdiv
<1> HIDE DEF d
<1> QED
  BY <1>1, <1>2, <1>3 DEF speed, d

LEMMA MotionEventInv ==
  ASSUME IInv, EventInv, MotionHandler
  PROVE  EventInv'
<1>1. accel \in [Curve -> Nat] /\ accel.accel_ramp > 0
  BY DEF IInv, Typed, TypeOK
<1>2. ASSUME NEW motion \in Motions, MotionBegins(motion[1], motion[2]) PROVE EventInv'
  <2> DEFINE value == motion[1]
             dt    == motion[2]
  <2>1. value \in Int /\ dt \in Nat
    BY MotionAssumption
  <2> HIDE DEF value, dt
  <2>2. \A s \in speed(value, dt) : s \in Int
    BY <2>1, SpeedRange
  <2> QED
    BY <1>2, <2>1, <2>2 DEF MotionBegins, EventInv, value, dt
<1>3. CASE ReadKickIn
  BY <1>1, <1>3 DEF ReadKickIn, EventInv, NoEvent, Curve
<1>4. CASE ReadRamp
  BY <1>1, <1>4 DEF ReadRamp, EventInv, NoEvent, Curve
<1>5. CASE ScaleMotion
  <2> DEFINE v   == event.value
             max == accel.accel_max_x100
  <2>1. /\ v \in Int /\ event.speed \in Int /\ event.kick_in \in Nat
        /\ event.ramp \in Nat \ {0}
    BY <1>5 DEF ScaleMotion, EventInv, NoEvent
  <2>2. max \in Nat
    BY <1>1 DEF Curve
  <2>3. PICK m \in mult_x100(event.speed, event.kick_in, event.ramp, max) :
          \E n \in scaled(v, m) :
            event' = [reads |-> "nothing", value |-> v, speed |-> event.speed,
                      kick_in |-> event.kick_in, max_x100 |-> max, scaled |-> n]
    BY <1>5 DEF ScaleMotion
  <2>4. PICK n \in scaled(v, m) :
          event' = [reads |-> "nothing", value |-> v, speed |-> event.speed,
                    kick_in |-> event.kick_in, max_x100 |-> max, scaled |-> n]
    BY <2>3
  <2>5. /\ event'.reads = "nothing" /\ event'.value = v /\ event'.max_x100 = max
        /\ event'.scaled = n /\ event'.speed = event.speed /\ event'.kick_in = event.kick_in
    BY <2>4
  <2>6. ASSUME InRange(event')
        PROVE  between(v, n, cdiv(v * max, 100))
    <3> HIDE DEF v, max
    <3>1. /\ fits32(event.speed - event.kick_in, 100) /\ fits32(100, max - 100)
          /\ fits16(v) /\ fits32(v, max) /\ fits16(cdiv(v * max, 100))
      BY <2>5, <2>6 DEF InRange
    <3>2. m \in Int /\ between(100, m, max)
      BY <2>1, <2>2, <3>1, MultiplierRange
    <3> QED
      BY <2>1, <2>2, <3>1, <3>2, ScaledRange DEF v
  <2> HIDE DEF v, max
  <2> QED
    BY <2>5, <2>6 DEF EventInv
<1>6. CASE MotionEnds
  BY <1>6 DEF MotionEnds, EventInv
<1> QED
  BY <1>2, <1>3, <1>4, <1>5, <1>6 DEF MotionHandler

TrackballInv == IInv /\ EventInv

LEMMA NextTrackballInv == TrackballInv /\ [TrackballNext]_allvars => TrackballInv'
<1> SUFFICES ASSUME TrackballInv, [TrackballNext]_allvars PROVE TrackballInv'
  OBVIOUS
<1>1. [Next]_vars
  BY DEF TrackballNext, ServiceStep, MotionHandler, MotionBegins, ReadKickIn, ReadRamp,
     ScaleMotion, MotionEnds, allvars
<1>2. IInv'
  BY <1>1, NextIInv DEF TrackballInv
<1>3. EventInv'
  <2>1. CASE ServiceStep
    <3>1. event' = event \/ event' = NoEvent
      BY <2>1 DEF ServiceStep
    <3> QED
      BY <3>1 DEF TrackballInv, EventInv
  <2>2. CASE MotionHandler
    BY <2>2, MotionEventInv DEF TrackballInv
  <2>3. CASE UNCHANGED allvars
    BY <2>3 DEF allvars, TrackballInv, EventInv
  <2> QED
    BY <2>1, <2>2, <2>3 DEF TrackballNext
<1> QED
  BY <1>2, <1>3 DEF TrackballInv

-----------------------------------------------------------------------------
\* Whatever curves are written and whatever events come, an event scaled with parts of
\* two curves goes no further than the maximum it was scaled with makes it go, unless
\* the code's integers overflow in it.
THEOREM MixedCurvesStayBounded == TrackballSpec => []MixedCurvesAreBounded
<1>1. TrackballInit => TrackballInv
  BY InitIInv DEF TrackballInit, TrackballInv, EventInv
<1>2. TrackballInv /\ [TrackballNext]_allvars => TrackballInv'
  BY NextTrackballInv
<1>3. TrackballInv => MixedCurvesAreBounded
  BY DEF TrackballInv, EventInv, MixedCurvesAreBounded, NoEvent
<1> QED
  BY <1>1, <1>2, <1>3, PTL DEF TrackballSpec
==============================================================================
