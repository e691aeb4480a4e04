------------------------------ MODULE LismAccel ------------------------------
(***************************************************************************)
(* The cursor acceleration curve: the arithmetic of                        *)
(* lism_accel_handle_event() in src/src/lism_accel_cursor.c, on int32_t    *)
(* products, which may overflow, integers that divide as C's do, and a     *)
(* result cut to 16 bits.  An operator yields the set of what the code may *)
(* compute: one value, unless a product has overflowed.                    *)
(***************************************************************************)
EXTENDS Integers

CONSTANT Overflows   \* what may become of a product that does not fit 32 bits

ASSUME OverflowAssumption == Overflows \subseteq Int

magnitude(n) == IF n < 0 THEN -n ELSE n

\* Whether a * b is an int32_t; the least of them counts as none.
fits32(a, b) == b = 0 \/ magnitude(a) <= 2147483647 \div magnitude(b)

product(a, b) == IF fits32(a, b) THEN {a * b} ELSE Overflows

\* Division of C: towards zero.
cdiv(a, b) == IF a >= 0 THEN a \div b ELSE -((-a) \div b)

fits16(n) == -32768 <= n /\ n <= 32767
int16(n)  == ((n + 32768) % 65536) - 32768

at_most(a, b) == IF a <= b THEN a ELSE b

\* The time since the last event, at least one millisecond and at most a second.
elapsed(dt) == IF dt <= 0 THEN 1 ELSE at_most(dt, 1000)

\* In counts per second.
speed(value, dt) == {cdiv(n, elapsed(dt)) : n \in product(magnitude(value), 1000)}

\* Mutant: the ramp goes on for ever.
t_x100_unlimited(s, kick_in, ramp) == {cdiv(n, ramp) : n \in product(s - kick_in, 100)}

\* How far the ramp has gone at a speed above kick_in, in percent.
t_x100(s, kick_in, ramp) ==
  {at_most(cdiv(n, ramp), 100) : n \in product(s - kick_in, 100)}

\* The curve: 1.00 up to kick_in, then a ramp to max_x100 / 100.
mult_x100(s, kick_in, ramp, max_x100) ==
  IF s > kick_in
  THEN {100 + cdiv(n, 100) :
          n \in UNION {product(t, max_x100 - 100) : t \in t_x100(s, kick_in, ramp)}}
  ELSE {100}

scaled(value, m) == {int16(cdiv(n, 100)) : n \in product(value, m)}
==============================================================================
