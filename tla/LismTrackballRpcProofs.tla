------------------------ MODULE LismTrackballRpcProofs ------------------------
(***************************************************************************)
(* Proofs about the trackball settings service.  What matters is what each *)
(* thread has still to do: a processor may be behind the settings only     *)
(* while the call that applies them is still to come, and the flash only   *)
(* while the save is; and the save comes before the answer.                *)
(***************************************************************************)
EXTENDS LismTrackballRpc, SequenceTheorems, TLAPS

Calls == Curve \cup {"sensitivity", "scroll_invert", "aml_idle_ms", "save", "notify_state",
                     "notify_layer_state"}
Notices == {"notify_state", "notify_layer_state"}

has(s, c) == \E i \in 1 .. Len(s) : s[i] = c

\* Nothing is saved after the first notification.
ordered(s) == \A i, j \in 1 .. Len(s) : i < j /\ s[i] \in Notices => s[j] # "save"

-----------------------------------------------------------------------------
(* The lists of calls                                                      *)

LEMMA TailCalls ==
  ASSUME NEW s \in Seq(Calls), s # <<>>
  PROVE  /\ Tail(s) \in Seq(Calls) /\ Len(Tail(s)) = Len(s) - 1
         /\ \A c : has(s, c) => c = Head(s) \/ has(Tail(s), c)
         /\ ordered(s) => ordered(Tail(s))
         /\ ordered(s) /\ Head(s) \in Notices => ~ has(s, "save")
<1>1. /\ Len(s) \in Nat /\ Len(s) >= 1 /\ Head(s) = s[1]
      /\ Tail(s) \in Seq(Calls) /\ Len(Tail(s)) = Len(s) - 1
      /\ \A i \in 1 .. Len(s) - 1 : Tail(s)[i] = s[i + 1]
  BY HeadTailProperties, EmptySeq
<1>2. ASSUME NEW c, has(s, c), c # Head(s) PROVE has(Tail(s), c)
  <2>1. PICK i \in 1 .. Len(s) : s[i] = c
    BY <1>2 DEF has
  <2>2. i - 1 \in 1 .. Len(s) - 1 /\ Tail(s)[i - 1] = c
    BY <1>1, <1>2, <2>1
  <2> QED
    BY <1>1, <2>2 DEF has
<1>3. ordered(s) => ordered(Tail(s))
  <2> SUFFICES ASSUME ordered(s), NEW i \in 1 .. Len(s) - 1, NEW j \in 1 .. Len(s) - 1,
                      i < j, Tail(s)[i] \in Notices
               PROVE  Tail(s)[j] # "save"
    BY <1>1 DEF ordered
  <2>1. i + 1 \in 1 .. Len(s) /\ j + 1 \in 1 .. Len(s) /\ i + 1 < j + 1
    BY <1>1
  <2> QED
    BY <1>1, <2>1 DEF ordered
<1>4. ordered(s) /\ Head(s) \in Notices => ~ has(s, "save")
  BY <1>1 DEF ordered, has, Notices
<1> QED
  BY <1>1, <1>2, <1>3, <1>4

LEMMA EmptyHasNothing == /\ <<>> \in Seq(Calls) /\ Len(<<>>) = 0 /\ ordered(<<>>)
                         /\ \A c : ~ has(<<>>, c)
BY DEF has, ordered

LEMMA AppliesAreCalls ==
  ASSUME NEW write \in Write, is_set(write), NEW s \in State
  PROVE  /\ applies(write, s) \in Seq(Calls)
         /\ Len(applies(write, s)) \in 0 .. 4
         /\ \A c \in Notices : ~ has(applies(write, s), c)
<1>1. \/ applies(write, s) = <<>>
      \/ applies(write, s) = <<"sensitivity">>
      \/ applies(write, s) = <<"scroll_invert">>
      \/ applies(write, s) = <<"aml_idle_ms">>
      \/ applies(write, s) = apply_accel
  BY DEF applies
<1>2. CASE applies(write, s) = <<>>
  BY <1>2, EmptyHasNothing
<1>3. ASSUME NEW c \in {"sensitivity", "scroll_invert", "aml_idle_ms"},
             applies(write, s) = <<c>>
      PROVE  /\ applies(write, s) \in Seq(Calls) /\ Len(applies(write, s)) = 1
             /\ \A d \in Notices : ~ has(applies(write, s), d)
  BY <1>3 DEF Calls, Notices, has
<1>4. CASE applies(write, s) = apply_accel
  <2>1. apply_accel \in Seq(Calls) /\ Len(apply_accel) = 4
    BY DEF apply_accel, Calls, Curve
  <2>2. \A i \in 1 .. 4 : apply_accel[i] \in Curve
    BY DEF apply_accel, Curve
  <2> QED
    BY <1>4, <2>1, <2>2 DEF Notices, has, Curve
<1> QED
  BY <1>1, <1>2, <1>3, <1>4

LEMMA WriteCalls ==
  ASSUME NEW write \in Write, NEW s \in State
  PROVE  /\ calls(write, s) \in Seq(Calls) /\ Len(calls(write, s)) <= 6
         /\ ordered(calls(write, s))
         /\ is_set(write) => /\ has(calls(write, s), "save")
                             /\ \A c : has(applies(write, s), c) => has(calls(write, s), c)
<1>1. CASE is_set(write)
  <2> DEFINE a == applies(write, s)
             b == <<"save", "notify_state">>
  <2>1. a \in Seq(Calls) /\ Len(a) \in 0 .. 4 /\ \A c \in Notices : ~ has(a, c)
    BY <1>1, AppliesAreCalls
  <2>2. b \in Seq(Calls) /\ Len(b) = 2 /\ b[1] = "save" /\ b[2] = "notify_state"
    BY DEF Calls
  <2>3. calls(write, s) = a \o b
    BY <1>1 DEF calls, is_set, Fields, Switches, Speeds, Curve
  <2> HIDE DEF a, b
  <2>4. /\ a \o b \in Seq(Calls) /\ Len(a \o b) = Len(a) + 2
        /\ \A i \in 1 .. Len(a) + 2 : (a \o b)[i] = IF i <= Len(a) THEN a[i] ELSE b[i - Len(a)]
    <3>1. Len(b) = 2
      BY <2>2
    <3>2. /\ a \o b \in Seq(Calls) /\ Len(a \o b) = Len(a) + Len(b)
          /\ \A i \in 1 .. Len(a) + Len(b) :
               (a \o b)[i] = IF i <= Len(a) THEN a[i] ELSE b[i - Len(a)]
      BY <2>1, <2>2, ConcatProperties
    <3> QED
      BY <3>1, <3>2
  <2>5. ordered(a \o b)
    <3> SUFFICES ASSUME NEW i \in 1 .. Len(a) + 2, NEW j \in 1 .. Len(a) + 2,
                        i < j, (a \o b)[i] \in Notices
                 PROVE  (a \o b)[j] # "save"
      BY <2>4 DEF ordered
    <3>1. i > Len(a)
      BY <2>1, <2>4 DEF has
    <3>2. i = Len(a) + 1 /\ (a \o b)[i] = "save"
      BY <2>1, <2>2, <2>4, <3>1
    <3> QED
      BY <3>2 DEF Notices
  <2>6. has(a \o b, "save")
    <3>1. Len(a) + 1 \in 1 .. Len(a) + 2 /\ (a \o b)[Len(a) + 1] = "save"
      BY <2>1, <2>2, <2>4
    <3> QED
      BY <2>4, <3>1 DEF has
  <2>7. ASSUME NEW c, has(a, c) PROVE has(a \o b, c)
    BY <2>1, <2>4, <2>7 DEF has
  <2>8. /\ calls(write, s) \in Seq(Calls) /\ Len(calls(write, s)) <= 6
        /\ ordered(calls(write, s)) /\ has(calls(write, s), "save")
    <3>1. Len(a \o b) <= 6
      <4>1. Len(a \o b) = Len(a) + 2
        BY <2>4
      <4>2. Len(a) \in 0 .. 4
        BY <2>1
      <4>3. \A n \in 0 .. 4 : n + 2 <= 6
        OBVIOUS
      <4> QED
        BY <4>1, <4>2, <4>3, Zenon
    <3>2. a \o b \in Seq(Calls)
      BY <2>4
    <3> QED
      BY <2>3, <2>5, <2>6, <3>1, <3>2, Zenon
  <2>9. \A c : has(applies(write, s), c) => has(calls(write, s), c)
    BY <2>3, <2>7 DEF a
  <2> QED
    BY <2>8, <2>9
<1>2. CASE ~ is_set(write)
  <2>1. calls(write, s) = <<>> \/ calls(write, s) = <<"notify_state">>
    BY <1>2 DEF calls
  <2>2. CASE calls(write, s) = <<>>
    <3>1. Len(<<>>) <= 6
      BY EmptyHasNothing
    <3> QED
      BY <1>2, <2>2, <3>1, EmptyHasNothing, Zenon
  <2>3. CASE calls(write, s) = <<"notify_state">>
    BY <1>2, <2>3 DEF Calls, ordered
  <2> QED
    BY <2>1, <2>2, <2>3
<1> QED
  BY <1>1, <1>2

\* A write that sets something is answered.
LEMMA CallsNotify ==
  ASSUME NEW write \in Write, is_set(write), NEW s \in State
  PROVE  has(calls(write, s), "notify_state")
<1> DEFINE a == applies(write, s)
           b == <<"save", "notify_state">>
<1>1. a \in Seq(Calls) /\ b \in Seq(Calls) /\ Len(b) = 2 /\ b[2] = "notify_state"
  BY AppliesAreCalls DEF Calls
<1>2. calls(write, s) = a \o b
  BY DEF calls, is_set, Fields, Switches, Speeds, Curve
<1> HIDE DEF a, b
<1>3. /\ Len(a) \in Nat /\ Len(a \o b) = Len(a) + Len(b)
      /\ \A i \in 1 .. Len(a) + Len(b) :
           (a \o b)[i] = IF i <= Len(a) THEN a[i] ELSE b[i - Len(a)]
  <2>1. Len(a) \in Nat
    BY <1>1
  <2>2. /\ Len(a \o b) = Len(a) + Len(b)
        /\ \A i \in 1 .. Len(a) + Len(b) :
             (a \o b)[i] = IF i <= Len(a) THEN a[i] ELSE b[i - Len(a)]
    BY <1>1, ConcatProperties
  <2> QED
    BY <2>1, <2>2
<1>4. Len(a) + 2 \in 1 .. Len(a) + Len(b) /\ (a \o b)[Len(a) + 2] = "notify_state"
  BY <1>1, <1>3
<1> QED
  BY <1>2, <1>3, <1>4 DEF has

-----------------------------------------------------------------------------
(* The settings                                                            *)

LEMMA SettingsFacts ==
  ASSUME NEW s \in Settings
  PROVE  /\ s \in State /\ s # NoState
         /\ wanted_resolution(s) \in CPI_MIN .. CPI_MAX
         /\ s.scroll_invert \in {0, 1} /\ s.aml_idle_ms \in Nat
         /\ curve(s) \in [Curve -> Nat] /\ curve(s).accel_ramp > 0
<1>1. s \in State
  BY DEF Settings
<1>2. s # NoState
  <2>1. DOMAIN s # {}
    BY <1>1 DEF State, Fields, Speeds
  <2>2. DOMAIN NoState = {}
    BY DEF NoState
  <2> QED
    BY <2>1, <2>2
<1>3. wanted_resolution(s) \in CPI_MIN .. CPI_MAX
  BY DEF Settings, wanted_resolution, Speeds
<1>4. s.scroll_invert \in {0, 1} /\ s.aml_idle_ms \in Nat
  BY <1>1 DEF Settings, State, Fields, Switches
<1>5. curve(s) \in [Curve -> Nat] /\ curve(s).accel_ramp > 0
  BY <1>1 DEF curve, State, Fields, Curve
<1> QED
  BY <1>1, <1>2, <1>3, <1>4, <1>5

\* A write leaves settings the sensor and the processors can work with.
LEMMA WrittenSettings ==
  ASSUME NEW s \in Settings, NEW write \in Write, is_set(write)
  PROVE  [s EXCEPT ![write.op] = written(write.op, write.value)] \in Settings
<1> DEFINE f == write.op
           v == written(write.op, write.value)
<1>1. f \in Fields /\ write.value \in Nat
  BY DEF is_set, Write
<1>2. clamp(write.value) \in CPI_MIN .. CPI_MAX
  BY <1>1, TrackballAssumption DEF clamp
<1>3. f \in Speeds => f \notin Switches
  BY DEF Speeds, Switches
<1>4. /\ f \in Speeds => v \in CPI_MIN .. CPI_MAX
      /\ f \in Switches => v \in {0, 1}
      /\ v \in Nat
  BY <1>1, <1>2, <1>3, TrackballAssumption DEF written
<1> HIDE DEF f, v
<1>5. [s EXCEPT ![f] = v] \in State
  BY <1>1, <1>4 DEF Settings, State
<1>6. \A g \in Speeds : [s EXCEPT ![f] = v][g] \in CPI_MIN .. CPI_MAX
  BY <1>4 DEF Settings, State, Fields
<1>7. \A g \in Switches : [s EXCEPT ![f] = v][g] \in {0, 1}
  BY <1>4 DEF Settings, State, Fields
<1> QED
  BY <1>5, <1>6, <1>7 DEF Settings, f, v

\* What on_write() does not apply has not changed.
LEMMA AppliesWhatChanged ==
  ASSUME NEW s \in Settings, NEW write \in Write, is_set(write),
         NEW n, n = [s EXCEPT ![write.op] = written(write.op, write.value)]
  PROVE  /\ has(applies(write, s), "sensitivity")
              \/ wanted_resolution(n) = wanted_resolution(s)
         /\ has(applies(write, s), "scroll_invert") \/ n.scroll_invert = s.scroll_invert
         /\ has(applies(write, s), "aml_idle_ms") \/ n.aml_idle_ms = s.aml_idle_ms
         /\ \A f \in Curve : has(applies(write, s), f) \/ curve(n)[f] = curve(s)[f]
<1>1. s \in State /\ n \in State /\ n \in Settings
  BY WrittenSettings DEF Settings
<1>2. s.precision_active \in {0, 1}
  BY DEF Settings, Switches
<1>3. \A f \in Fields \ {write.op} : n[f] = s[f]
  BY <1>1 DEF State
<1>4. \A c : has(<<c>>, c)
  BY DEF has
<1>5. write.op \in Fields
  BY DEF is_set
<1>6. ASSUME write.op \notin Curve PROVE \A f \in Curve : curve(n)[f] = curve(s)[f]
  BY <1>1, <1>3, <1>6 DEF curve, Fields
<1>7. CASE write.op = "cursor_cpi"
  BY <1>2, <1>3, <1>4, <1>6, <1>7
  DEF applies, wanted_resolution, Fields, Switches, Speeds, Curve
<1>8. CASE write.op = "precision_cpi"
  BY <1>2, <1>3, <1>4, <1>6, <1>8
  DEF applies, wanted_resolution, Fields, Switches, Speeds, Curve
<1>9. CASE write.op = "precision_active"
  BY <1>3, <1>4, <1>6, <1>9 DEF applies, Fields, Switches, Speeds, Curve
<1>10. CASE write.op = "scroll_invert"
  BY <1>3, <1>4, <1>6, <1>10
  DEF applies, wanted_resolution, Fields, Switches, Speeds, Curve
<1>11. CASE write.op = "aml_idle_ms"
  BY <1>3, <1>4, <1>6, <1>11
  DEF applies, wanted_resolution, Fields, Switches, Speeds, Curve
<1>12. CASE write.op \in Curve
  <2>1. applies(write, s) = apply_accel
    BY <1>12 DEF applies, Curve
  <2>2. /\ Len(apply_accel) = 4
        /\ apply_accel[1] = "accel_enabled" /\ apply_accel[2] = "accel_max_x100"
        /\ apply_accel[3] = "accel_kick_in" /\ apply_accel[4] = "accel_ramp"
    BY DEF apply_accel
  <2>3. \A f \in Curve : has(apply_accel, f)
    BY <2>2 DEF has, Curve
  <2> QED
    BY <1>3, <1>12, <2>1, <2>3 DEF wanted_resolution, Fields, Switches, Speeds, Curve
<1> QED
  BY <1>5, <1>7, <1>8, <1>9, <1>10, <1>11, <1>12 DEF Fields, Switches, Speeds, Curve

-----------------------------------------------------------------------------
(* The invariant                                                           *)

\* A thread with a packet is in a notification.
Typed ==
  /\ TypeOK
  /\ stored \in Settings \cup {NoState}
  /\ todo \in [Threads -> Seq(Calls)]
  /\ packet = [t \in Threads |-> packet[t]]
  /\ \A t \in Threads : packet[t] # NoPacket => todo[t] # <<>> /\ Head(todo[t]) \in Notices

pending(c) == has(todo["rx"], c)

\* What has not been applied yet is still to be applied ...
Applied ==
  /\ pending("sensitivity") \/ unset \/ resolution = wanted_resolution(state)
  /\ pending("scroll_invert") \/ scroll_invert_flag = state.scroll_invert
  /\ pending("aml_idle_ms") \/ idle_after = state.aml_idle_ms
  /\ \A f \in Curve : pending(f) \/ accel[f] = curve(state)[f]

\* ... what has not been saved yet to be saved, and before the answer, which
\* carries the settings as they are.
Saved ==
  /\ pending("save") \/ unsaved \/ state = loaded
  /\ ordered(todo["rx"])
  /\ packet["rx"].kind = "state" => packet["rx"].settings = state

IInv == Typed /\ Applied /\ Saved

\* The state TypeOK speaks of are Settings.
LEMMA StateIsSettings == Typed => state \in Settings /\ loaded \in Settings
<1> SUFFICES ASSUME Typed PROVE state \in Settings /\ loaded \in Settings
  OBVIOUS
<1>1. state \in Settings
  BY DEF Typed, TypeOK, Settings
<1>2. DefaultState \in Settings
  BY TrackballAssumption
<1> QED
  BY <1>1, <1>2 DEF loaded, Typed

\* A call that returns takes itself off the list and nothing else.
LEMMA CallReturns ==
  ASSUME Typed, NEW t \in Threads, todo[t] # <<>>, returns(t)
  PROVE  /\ todo' \in [Threads -> Seq(Calls)]
         /\ todo'[t] = Tail(todo[t])
         /\ \A u \in Threads \ {t} : todo'[u] = todo[u]
         /\ \A c : has(todo[t], c) => c = Head(todo[t]) \/ has(todo'[t], c)
         /\ \A u \in Threads : Len(todo'[u]) <= 6
         /\ ordered(todo[t]) => ordered(todo'[t])
         /\ ordered(todo[t]) /\ Head(todo[t]) \in Notices => ~ has(todo[t], "save")
<1>1. todo \in [Threads -> Seq(Calls)] /\ \A u \in Threads : Len(todo[u]) <= 6
  BY DEF Typed, TypeOK
<1>2. todo[t] \in Seq(Calls)
  BY <1>1
<1>3. /\ Tail(todo[t]) \in Seq(Calls) /\ Len(Tail(todo[t])) = Len(todo[t]) - 1
      /\ \A c : has(todo[t], c) => c = Head(todo[t]) \/ has(Tail(todo[t]), c)
      /\ ordered(todo[t]) => ordered(Tail(todo[t]))
      /\ ordered(todo[t]) /\ Head(todo[t]) \in Notices => ~ has(todo[t], "save")
  BY <1>2, TailCalls
<1>4. /\ todo' \in [Threads -> Seq(Calls)]
      /\ todo'[t] = Tail(todo[t])
      /\ \A u \in Threads \ {t} : todo'[u] = todo[u]
  BY <1>1, <1>3 DEF returns
<1>5. \A u \in Threads : Len(todo'[u]) <= 6
  <2>1. Len(todo'[t]) <= 6
    <3>1. Len(todo[t]) \in Nat /\ Len(todo[t]) <= 6
      BY <1>1, <1>2
    <3> QED
      BY <1>3, <1>4, <3>1
  <2> QED
    BY <1>1, <1>4, <2>1
<1> QED
  BY <1>3, <1>4, <1>5

\* A thread that is idle takes on a list of calls.
LEMMA CallsBegin ==
  ASSUME Typed, NEW t \in Threads, NEW cs \in Seq(Calls), Len(cs) <= 6, begins(t, cs)
  PROVE  /\ todo[t] = <<>> /\ packet[t] = NoPacket
         /\ todo' \in [Threads -> Seq(Calls)] /\ todo'[t] = cs
         /\ \A u \in Threads \ {t} : todo'[u] = todo[u]
         /\ \A u \in Threads : Len(todo'[u]) <= 6
BY DEF Typed, TypeOK, begins, is_idle

\* A step that touches neither the settings nor what the Bluetooth RX thread has
\* to do.
LEMMA RxUndisturbed ==
  ASSUME IInv, UNCHANGED <<settings, targets>>, todo'["rx"] = todo["rx"],
         packet'["rx"] = packet["rx"]
  PROVE  Applied' /\ Saved'
BY DEF IInv, Applied, Saved, pending, settings, targets, loaded, wanted_resolution, curve

-----------------------------------------------------------------------------
(* The steps                                                               *)

LEMMA BatteriesRead ==
  \A level \in Levels :
    [central |-> level, peripheral |-> 0] \in [{"central", "peripheral"} -> Levels]
<1> SUFFICES ASSUME NEW level \in Levels
             PROVE  [central |-> level, peripheral |-> 0]
                      \in [{"central", "peripheral"} -> Levels]
  OBVIOUS
<1>1. 0 \in Levels
  BY TrackballAssumption
<1> QED
  BY <1>1

LEMMA InitIInv == Init => IInv
<1> SUFFICES ASSUME Init PROVE IInv
  OBVIOUS
<1>1. /\ stored \in Settings \cup {NoState} /\ loaded \in Settings /\ state = loaded
      /\ stored # NoState => loaded = stored
  BY TrackballAssumption DEF Init, loaded
<1>2. <<>> \in Seq(Calls) /\ Len(<<>>) <= 6 /\ ordered(<<>>)
  BY EmptyHasNothing
<1>3. TypeOK
  <2>1. /\ state \in State /\ \A f \in Speeds : state[f] \in CPI_MIN .. CPI_MAX
        /\ \A f \in Switches : state[f] \in {0, 1}
        /\ stored \in State \cup {NoState}
    BY <1>1 DEF Settings
  <2>2. /\ resolution \in CPI_MIN .. CPI_MAX \cup {0} /\ scroll_invert_flag \in {0, 1}
        /\ idle_after \in Nat /\ accel \in [Curve -> Nat] /\ accel.accel_ramp > 0
    BY <1>1, SettingsFacts DEF Init
  <2>3. \A t \in Threads : Len(todo[t]) <= 6 /\ packet[t].kind \in {"state", "layer", "none"}
    BY <1>2 DEF Init, NoPacket
  <2>4. /\ battery_level \in [{"central", "peripheral"} -> Levels]
        /\ notify_enabled \in BOOLEAN /\ newest \in Threads /\ overtaken \subseteq Threads
        /\ unset \in BOOLEAN /\ unsaved \in BOOLEAN
    BY BatteriesRead DEF Init, Threads
  <2> QED
    BY <2>1, <2>2, <2>3, <2>4 DEF TypeOK
<1>4. Typed
  BY <1>1, <1>2, <1>3 DEF Typed, Init, Threads
<1>5. Applied
  BY <1>1 DEF Applied, Init
<1>6. Saved
  BY <1>1, <1>2 DEF Saved, Init, loaded, Threads, NoPacket
<1> QED
  BY <1>4, <1>5, <1>6 DEF IInv

LEMMA OnWriteIInv ==
  ASSUME IInv, NEW write \in Writes, OnWrite(write)
  PROVE  IInv'
<1> DEFINE cs == calls(write, state)
<1>1. write \in Write /\ state \in Settings /\ state \in State /\ Typed
  BY StateIsSettings, TrackballAssumption DEF IInv, Settings
<1>2. /\ cs \in Seq(Calls) /\ Len(cs) <= 6 /\ ordered(cs)
      /\ is_set(write) => /\ has(cs, "save")
                          /\ \A c : has(applies(write, state), c) => has(cs, c)
  BY <1>1, WriteCalls
<1>3. begins("rx", cs) /\ "rx" \in Threads
  BY DEF OnWrite, Threads
<1> HIDE DEF cs
<1>4. /\ todo["rx"] = <<>> /\ packet["rx"] = NoPacket
      /\ todo' \in [Threads -> Seq(Calls)] /\ todo'["rx"] = cs
      /\ \A u \in Threads \ {"rx"} : todo'[u] = todo[u]
      /\ \A u \in Threads : Len(todo'[u]) <= 6
  BY <1>1, <1>2, <1>3, CallsBegin
<1>5. \A c : ~ pending(c)
  BY <1>4, EmptyHasNothing DEF pending
<1>6. state' \in Settings
  BY <1>1, WrittenSettings DEF OnWrite
<1>7. Typed'
  <2>1. TypeOK'
    BY <1>1, <1>4, <1>6 DEF OnWrite, Typed, TypeOK, Settings, targets, traffic
  <2> QED
    BY <1>1, <1>4, <2>1 DEF OnWrite, Typed, traffic
<1>8. Applied'
  <2>1. /\ unset \/ resolution = wanted_resolution(state)
        /\ scroll_invert_flag = state.scroll_invert /\ idle_after = state.aml_idle_ms
        /\ \A f \in Curve : accel[f] = curve(state)[f]
    BY <1>5 DEF IInv, Applied
  <2>2. UNCHANGED targets
    BY DEF OnWrite
  <2>3. CASE is_set(write)
    <3>1. state' = [state EXCEPT ![write.op] = written(write.op, write.value)]
      BY <2>3 DEF OnWrite
    <3>2. /\ has(cs, "sensitivity") \/ wanted_resolution(state') = wanted_resolution(state)
          /\ has(cs, "scroll_invert") \/ state'.scroll_invert = state.scroll_invert
          /\ has(cs, "aml_idle_ms") \/ state'.aml_idle_ms = state.aml_idle_ms
          /\ \A f \in Curve : has(cs, f) \/ curve(state')[f] = curve(state)[f]
      BY <1>1, <1>2, <2>3, <3>1, AppliesWhatChanged, ZenonT(60)
    <3> QED
      BY <1>4, <2>1, <2>2, <3>2 DEF Applied, pending, targets
  <2>4. CASE ~ is_set(write)
    <3>1. state' = state
      BY <2>4 DEF OnWrite
    <3> QED
      BY <2>1, <2>2, <3>1 DEF Applied, targets
  <2> QED
    BY <2>3, <2>4
<1>9. Saved'
  <2>1. ordered(todo'["rx"]) /\ packet'["rx"].kind # "state"
    BY <1>2, <1>4 DEF OnWrite, traffic, NoPacket
  <2>2. pending("save")' \/ unsaved' \/ state' = loaded'
    <3>1. CASE is_set(write)
      BY <1>2, <1>4, <3>1 DEF pending
    <3>2. CASE ~ is_set(write)
      BY <1>5, <3>2 DEF OnWrite, IInv, Saved, loaded
    <3> QED
      BY <3>1, <3>2
  <2> QED
    BY <2>1, <2>2 DEF Saved
<1> QED
  BY <1>7, <1>8, <1>9 DEF IInv

LEMMA SubscribeIInv == IInv /\ Subscribe => IInv'
<1> SUFFICES ASSUME IInv, Subscribe PROVE IInv'
  OBVIOUS
<1> DEFINE cs == <<"notify_state", "notify_layer_state">>
<1>1. cs \in Seq(Calls) /\ Len(cs) <= 6 /\ ordered(cs)
  BY DEF Calls, ordered
<1>2. begins("rx", cs) /\ "rx" \in Threads /\ Typed
  BY DEF Subscribe, Threads, IInv
<1> HIDE DEF cs
<1>3. /\ todo["rx"] = <<>> /\ packet["rx"] = NoPacket
      /\ todo' \in [Threads -> Seq(Calls)] /\ todo'["rx"] = cs
      /\ \A u \in Threads \ {"rx"} : todo'[u] = todo[u]
      /\ \A u \in Threads : Len(todo'[u]) <= 6
  BY <1>1, <1>2, CallsBegin
<1>4. \A c : ~ pending(c)
  BY <1>3, EmptyHasNothing DEF pending
<1>5. UNCHANGED <<settings, targets, traffic, battery_level>> /\ notify_enabled' \in BOOLEAN
  BY DEF Subscribe
<1>6. Typed'
  <2>1. TypeOK'
    BY <1>2, <1>3, <1>5 DEF Typed, TypeOK, settings, targets, traffic
  <2> QED
    BY <1>2, <1>3, <1>5, <2>1 DEF Typed, settings, traffic
<1>7. Applied'
  BY <1>4, <1>5 DEF IInv, Applied, settings, targets
<1>8. Saved'
  BY <1>1, <1>3, <1>4, <1>5 DEF IInv, Saved, settings, traffic, loaded, NoPacket
<1> QED
  BY <1>6, <1>7, <1>8 DEF IInv

LEMMA UnsubscribeIInv == IInv /\ Unsubscribe => IInv'
<1> SUFFICES ASSUME IInv, Unsubscribe PROVE IInv'
  OBVIOUS
<1>1. UNCHANGED <<settings, targets, traffic, battery_level, todo>> /\ notify_enabled' \in BOOLEAN
  BY DEF Unsubscribe
<1>2. Typed'
  BY <1>1 DEF IInv, Typed, TypeOK, settings, targets, traffic
<1>3. Applied' /\ Saved'
  BY <1>1, RxUndisturbed DEF traffic
<1> QED
  BY <1>2, <1>3 DEF IInv

\* A call of the Bluetooth RX thread that is not a notification.
LEMMA RxCallReturns ==
  ASSUME IInv, NEW c, c \notin Notices, is_next("rx", c), returns("rx")
  PROVE  /\ todo' \in [Threads -> Seq(Calls)] /\ \A u \in Threads : Len(todo'[u]) <= 6
         /\ \A d : pending(d) => d = c \/ has(todo'["rx"], d)
         /\ ordered(todo'["rx"])
         /\ packet["rx"] = NoPacket
         /\ \A u \in Threads : packet[u] # NoPacket => todo'[u] = todo[u]
<1>1. Typed /\ "rx" \in Threads /\ todo["rx"] # <<>> /\ Head(todo["rx"]) = c /\ ordered(todo["rx"])
  BY DEF IInv, Threads, is_next, Saved
<1>2. /\ todo' \in [Threads -> Seq(Calls)]
      /\ \A u \in Threads \ {"rx"} : todo'[u] = todo[u]
      /\ \A d : has(todo["rx"], d) => d = Head(todo["rx"]) \/ has(todo'["rx"], d)
      /\ \A u \in Threads : Len(todo'[u]) <= 6
      /\ ordered(todo["rx"]) => ordered(todo'["rx"])
  BY <1>1, CallReturns
<1>3. packet["rx"] = NoPacket
  BY <1>1 DEF Typed
<1> QED
  BY <1>1, <1>2, <1>3 DEF pending

LEMMA ApplyCursorSensitivityIInv == IInv /\ ApplyCursorSensitivity => IInv'
<1> SUFFICES ASSUME IInv, ApplyCursorSensitivity PROVE IInv'
  OBVIOUS
<1>1. /\ is_next("rx", "sensitivity") /\ returns("rx")
      /\ UNCHANGED <<settings, battery_level, notify_enabled, scroll_invert_flag, idle_after,
                     accel, traffic>>
      /\ \/ resolution' = wanted_resolution(state) /\ unset' = FALSE
         \/ unset' = TRUE /\ resolution' = resolution
  BY DEF ApplyCursorSensitivity
<1>2. /\ todo' \in [Threads -> Seq(Calls)] /\ \A u \in Threads : Len(todo'[u]) <= 6
      /\ \A d : pending(d) => d = "sensitivity" \/ has(todo'["rx"], d)
      /\ ordered(todo'["rx"])
      /\ packet["rx"] = NoPacket
      /\ \A u \in Threads : packet[u] # NoPacket => todo'[u] = todo[u]
  BY <1>1, RxCallReturns DEF Notices
<1>3. wanted_resolution(state) \in CPI_MIN .. CPI_MAX
  BY StateIsSettings, SettingsFacts DEF IInv
<1>4. Typed'
  <2>1. TypeOK'
    BY <1>1, <1>2, <1>3 DEF IInv, Typed, TypeOK, settings, traffic
  <2> QED
    BY <1>1, <1>2, <2>1 DEF IInv, Typed, settings, traffic
<1>5. Applied'
  <2>1. unset' \/ resolution' = wanted_resolution(state')
    BY <1>1 DEF settings, wanted_resolution
  <2> QED
    BY <1>1, <1>2, <2>1 DEF IInv, Applied, pending, settings, curve, Curve
<1>6. Saved'
  BY <1>1, <1>2 DEF IInv, Saved, pending, settings, traffic, loaded
<1> QED
  BY <1>4, <1>5, <1>6 DEF IInv

LEMMA ApplyScrollInvertIInv == IInv /\ ApplyScrollInvert => IInv'
<1> SUFFICES ASSUME IInv, ApplyScrollInvert PROVE IInv'
  OBVIOUS
<1>1. /\ is_next("rx", "scroll_invert") /\ returns("rx")
      /\ UNCHANGED <<settings, battery_level, notify_enabled, resolution, unset, idle_after,
                     accel, traffic>>
      /\ scroll_invert_flag' = state.scroll_invert
  BY DEF ApplyScrollInvert
<1>2. /\ todo' \in [Threads -> Seq(Calls)] /\ \A u \in Threads : Len(todo'[u]) <= 6
      /\ \A d : pending(d) => d = "scroll_invert" \/ has(todo'["rx"], d)
      /\ ordered(todo'["rx"])
      /\ packet["rx"] = NoPacket
      /\ \A u \in Threads : packet[u] # NoPacket => todo'[u] = todo[u]
  BY <1>1, RxCallReturns DEF Notices
<1>3. state.scroll_invert \in {0, 1}
  BY StateIsSettings, SettingsFacts DEF IInv
<1>4. Typed'
  <2>1. TypeOK'
    BY <1>1, <1>2, <1>3 DEF IInv, Typed, TypeOK, settings, traffic
  <2> QED
    BY <1>1, <1>2, <2>1 DEF IInv, Typed, settings, traffic
<1>5. Applied'
  BY <1>1, <1>2 DEF IInv, Applied, pending, settings, wanted_resolution, curve, Curve
<1>6. Saved'
  BY <1>1, <1>2 DEF IInv, Saved, pending, settings, traffic, loaded
<1> QED
  BY <1>4, <1>5, <1>6 DEF IInv

LEMMA ApplyAmlIdleIInv == IInv /\ ApplyAmlIdle => IInv'
<1> SUFFICES ASSUME IInv, ApplyAmlIdle PROVE IInv'
  OBVIOUS
<1>1. /\ is_next("rx", "aml_idle_ms") /\ returns("rx")
      /\ UNCHANGED <<settings, battery_level, notify_enabled, resolution, unset,
                     scroll_invert_flag, accel, traffic>>
      /\ idle_after' = state.aml_idle_ms
  BY DEF ApplyAmlIdle
<1>2. /\ todo' \in [Threads -> Seq(Calls)] /\ \A u \in Threads : Len(todo'[u]) <= 6
      /\ \A d : pending(d) => d = "aml_idle_ms" \/ has(todo'["rx"], d)
      /\ ordered(todo'["rx"])
      /\ packet["rx"] = NoPacket
      /\ \A u \in Threads : packet[u] # NoPacket => todo'[u] = todo[u]
  BY <1>1, RxCallReturns DEF Notices
<1>3. state.aml_idle_ms \in Nat
  BY StateIsSettings, SettingsFacts DEF IInv
<1>4. Typed'
  <2>1. TypeOK'
    BY <1>1, <1>2, <1>3 DEF IInv, Typed, TypeOK, settings, traffic
  <2> QED
    BY <1>1, <1>2, <2>1 DEF IInv, Typed, settings, traffic
<1>5. Applied'
  BY <1>1, <1>2 DEF IInv, Applied, pending, settings, wanted_resolution, curve, Curve
<1>6. Saved'
  BY <1>1, <1>2 DEF IInv, Saved, pending, settings, traffic, loaded
<1> QED
  BY <1>4, <1>5, <1>6 DEF IInv

LEMMA StoreAccelIInv == IInv /\ StoreAccel => IInv'
<1> SUFFICES ASSUME IInv, StoreAccel PROVE IInv'
  OBVIOUS
<1>1. PICK f \in Curve :
        /\ is_next("rx", f) /\ returns("rx")
        /\ accel' = [accel EXCEPT ![f] = curve(state)[f]]
        /\ UNCHANGED <<settings, battery_level, notify_enabled, resolution, scroll_invert_flag,
                       idle_after, unset, traffic>>
  BY DEF StoreAccel
<1>2. /\ todo' \in [Threads -> Seq(Calls)] /\ \A u \in Threads : Len(todo'[u]) <= 6
      /\ \A d : pending(d) => d = f \/ has(todo'["rx"], d)
      /\ ordered(todo'["rx"])
      /\ packet["rx"] = NoPacket
      /\ \A u \in Threads : packet[u] # NoPacket => todo'[u] = todo[u]
  <2>1. f \notin Notices
    BY DEF Curve, Notices
  <2> QED
    BY <1>1, <2>1, RxCallReturns
<1>3. curve(state) \in [Curve -> Nat] /\ curve(state).accel_ramp > 0
  BY StateIsSettings, SettingsFacts DEF IInv
<1>4. accel' \in [Curve -> Nat] /\ accel'.accel_ramp > 0
  BY <1>1, <1>3 DEF IInv, Typed, TypeOK, Curve
<1>5. Typed'
  <2>1. TypeOK'
    BY <1>1, <1>2, <1>4 DEF IInv, Typed, TypeOK, settings, traffic
  <2> QED
    BY <1>1, <1>2, <2>1 DEF IInv, Typed, settings, traffic
<1>6. Applied'
  <2>1. \A g \in Curve : has(todo'["rx"], g) \/ accel'[g] = curve(state)[g]
    BY <1>1, <1>2 DEF IInv, Applied, Typed, TypeOK
  <2>2. f \notin {"sensitivity", "scroll_invert", "aml_idle_ms"}
    BY DEF Curve
  <2> QED
    BY <1>1, <1>2, <2>1, <2>2 DEF IInv, Applied, pending, settings, wanted_resolution, curve
<1>7. Saved'
  <2>1. f # "save"
    BY DEF Curve
  <2> QED
    BY <1>1, <1>2, <2>1 DEF IInv, Saved, pending, settings, traffic, loaded
<1> QED
  BY <1>5, <1>6, <1>7 DEF IInv

LEMMA SaveStateIInv == IInv /\ SaveState => IInv'
<1> SUFFICES ASSUME IInv, SaveState PROVE IInv'
  OBVIOUS
<1>1. /\ is_next("rx", "save") /\ returns("rx")
      /\ UNCHANGED <<state, battery_level, notify_enabled, targets, traffic>>
      /\ \/ stored' = state /\ unsaved' = FALSE
         \/ unsaved' = TRUE /\ stored' = stored
  BY DEF SaveState
<1>2. /\ todo' \in [Threads -> Seq(Calls)] /\ \A u \in Threads : Len(todo'[u]) <= 6
      /\ \A d : pending(d) => d = "save" \/ has(todo'["rx"], d)
      /\ ordered(todo'["rx"])
      /\ packet["rx"] = NoPacket
      /\ \A u \in Threads : packet[u] # NoPacket => todo'[u] = todo[u]
  BY <1>1, RxCallReturns DEF Notices
<1>3. state \in Settings /\ state \in State /\ state # NoState
  BY StateIsSettings, SettingsFacts DEF IInv
<1>4. Typed'
  <2>1. TypeOK'
    BY <1>1, <1>2, <1>3 DEF IInv, Typed, TypeOK, targets, traffic
  <2> QED
    BY <1>1, <1>2, <1>3, <2>1 DEF IInv, Typed, traffic
<1>5. Applied'
  BY <1>1, <1>2 DEF IInv, Applied, pending, targets, wanted_resolution, curve, Curve
<1>6. Saved'
  <2>1. unsaved' \/ state' = loaded'
    BY <1>1, <1>3 DEF loaded
  <2> QED
    BY <1>1, <1>2, <2>1 DEF IInv, Saved, traffic
<1> QED
  BY <1>4, <1>5, <1>6 DEF IInv

LEMMA EventsIInv == IInv /\ Events => IInv'
<1> SUFFICES ASSUME IInv, Events PROVE IInv'
  OBVIOUS
<1>1. /\ \E c \in Notices : begins("workqueue", <<c>>)
      /\ UNCHANGED <<settings, notify_enabled, targets, traffic>>
      /\ battery_level' \in [{"central", "peripheral"} -> Levels]
  <2>1. CASE \E half \in {"central", "peripheral"}, level \in Levels : BatteryChanged(half, level)
    BY <2>1 DEF BatteryChanged, Notices, IInv, Typed, TypeOK
  <2>2. CASE \E layer \in Layers : LayerChanged(layer)
    BY <2>2 DEF LayerChanged, Notices, IInv, Typed, TypeOK
  <2> QED
    BY <2>1, <2>2 DEF Events
<1>2. PICK c \in Notices : begins("workqueue", <<c>>)
  BY <1>1
<1>3. <<c>> \in Seq(Calls) /\ Len(<<c>>) <= 6 /\ Typed /\ "workqueue" \in Threads
  BY DEF Notices, Calls, IInv, Threads
<1>4. /\ packet["workqueue"] = NoPacket
      /\ todo' \in [Threads -> Seq(Calls)]
      /\ \A u \in Threads \ {"workqueue"} : todo'[u] = todo[u]
      /\ \A u \in Threads : Len(todo'[u]) <= 6
  BY <1>2, <1>3, CallsBegin
<1>5. Typed'
  <2>1. TypeOK'
    BY <1>1, <1>3, <1>4 DEF Typed, TypeOK, settings, targets, traffic
  <2> QED
    BY <1>1, <1>3, <1>4, <2>1 DEF Typed, settings, traffic
<1>6. Applied' /\ Saved'
  <2>1. todo'["rx"] = todo["rx"] /\ packet'["rx"] = packet["rx"]
    BY <1>1, <1>4 DEF Threads, traffic
  <2> QED
    BY <1>1, <2>1, RxUndisturbed
<1> QED
  BY <1>5, <1>6 DEF IInv

\* A notification takes nothing off the list that is to be applied or saved.
LEMMA NotificationReturns ==
  ASSUME IInv, NEW t \in Threads, todo[t] # <<>>, Head(todo[t]) \in Notices, returns(t),
         UNCHANGED <<settings, targets>>
  PROVE  /\ todo' \in [Threads -> Seq(Calls)] /\ \A u \in Threads : Len(todo'[u]) <= 6
         /\ \A u \in Threads \ {t} : todo'[u] = todo[u]
         /\ Applied' /\ ordered(todo'["rx"])
         /\ pending("save")' \/ unsaved' \/ state' = loaded'
<1>1. /\ todo' \in [Threads -> Seq(Calls)]
      /\ \A u \in Threads \ {t} : todo'[u] = todo[u]
      /\ \A c : has(todo[t], c) => c = Head(todo[t]) \/ has(todo'[t], c)
      /\ \A u \in Threads : Len(todo'[u]) <= 6
      /\ ordered(todo[t]) => ordered(todo'[t])
  BY CallReturns DEF IInv
<1>2. /\ \A c : pending(c) => c \in Notices \/ has(todo'["rx"], c)
      /\ ordered(todo'["rx"])
  BY <1>1 DEF IInv, Saved, pending, Threads
<1>3. \A c \in Curve \cup {"sensitivity", "scroll_invert", "aml_idle_ms", "save"} : c \notin Notices
  BY DEF Curve, Notices
<1>4. Applied'
  BY <1>2, <1>3 DEF IInv, Applied, pending, settings, targets, wanted_resolution, curve
<1>5. pending("save")' \/ unsaved' \/ state' = loaded'
  BY <1>2, <1>3 DEF IInv, Saved, pending, settings, loaded
<1> QED
  BY <1>1, <1>2, <1>4, <1>5

LEMMA NotifyNobodyIInv == ASSUME IInv, NEW t \in Threads, NotifyNobody(t) PROVE IInv'
<1>1. /\ todo[t] # <<>> /\ Head(todo[t]) \in Notices /\ returns(t) /\ packet[t] = NoPacket
      /\ UNCHANGED <<settings, battery_level, notify_enabled, targets, traffic>>
  BY DEF NotifyNobody, notifies, is_next, Notices
<1>2. /\ todo' \in [Threads -> Seq(Calls)] /\ \A u \in Threads : Len(todo'[u]) <= 6
      /\ \A u \in Threads \ {t} : todo'[u] = todo[u]
      /\ Applied' /\ ordered(todo'["rx"])
      /\ pending("save")' \/ unsaved' \/ state' = loaded'
  BY <1>1, NotificationReturns
<1>3. Typed'
  <2>1. TypeOK'
    BY <1>1, <1>2 DEF IInv, Typed, TypeOK, settings, targets, traffic
  <2> QED
    BY <1>1, <1>2, <2>1 DEF IInv, Typed, settings, traffic
<1>4. Saved'
  BY <1>1, <1>2 DEF IInv, Saved, settings, traffic
<1> QED
  BY <1>2, <1>3, <1>4 DEF IInv

LEMMA BuildPacketIInv == ASSUME IInv, NEW t \in Threads, BuildPacket(t) PROVE IInv'
<1>1. /\ todo[t] # <<>> /\ Head(todo[t]) \in Notices
      /\ packet' = [packet EXCEPT ![t] = packet_of(Head(todo[t]))]
      /\ newest' = t /\ overtaken' = overtaken \ {t}
      /\ UNCHANGED <<settings, battery_level, notify_enabled, targets, todo>>
  BY DEF BuildPacket, notifies, is_next, Notices
<1>2. \A c : /\ packet_of(c).kind \in {"state", "layer"}
             /\ packet_of(c).kind = "state" => packet_of(c).settings = state
  BY DEF packet_of
<1>3. Typed'
  <2>1. \A u \in Threads : packet'[u].kind \in {"state", "layer", "none"}
    BY <1>1, <1>2 DEF IInv, Typed, TypeOK
  <2>2. TypeOK'
    BY <1>1, <2>1 DEF IInv, Typed, TypeOK, settings, targets
  <2> QED
    BY <1>1, <2>2 DEF IInv, Typed, settings
<1>4. Applied'
  BY <1>1 DEF IInv, Applied, pending, settings, targets, wanted_resolution, curve
<1>5. Saved'
  BY <1>1, <1>2 DEF IInv, Typed, Saved, pending, settings, loaded
<1> QED
  BY <1>3, <1>4, <1>5 DEF IInv

LEMMA SendIInv == ASSUME IInv, NEW t \in Threads, Send(t) PROVE IInv'
<1>1. /\ packet[t] # NoPacket /\ returns(t)
      /\ packet' = [packet EXCEPT ![t] = NoPacket]
      /\ newest' = "rx" /\ overtaken' = (overtaken \cup overtakes(t)) \ {t}
      /\ UNCHANGED <<settings, battery_level, notify_enabled, targets>>
  BY DEF Send
<1>2. todo[t] # <<>> /\ Head(todo[t]) \in Notices
  BY <1>1 DEF IInv, Typed
<1>3. /\ todo' \in [Threads -> Seq(Calls)] /\ \A u \in Threads : Len(todo'[u]) <= 6
      /\ \A u \in Threads \ {t} : todo'[u] = todo[u]
      /\ Applied' /\ ordered(todo'["rx"])
      /\ pending("save")' \/ unsaved' \/ state' = loaded'
  BY <1>1, <1>2, NotificationReturns
<1>4. NoPacket.kind = "none"
  BY DEF NoPacket
<1>5. Typed'
  <2>1. \A u \in Threads : packet'[u].kind \in {"state", "layer", "none"}
    BY <1>1, <1>4 DEF IInv, Typed, TypeOK
  <2>2. newest' \in Threads /\ overtaken' \subseteq Threads
    BY <1>1 DEF IInv, Typed, TypeOK, overtakes, Threads
  <2>3. TypeOK'
    BY <1>1, <1>3, <2>1, <2>2 DEF IInv, Typed, TypeOK, settings, targets
  <2> QED
    BY <1>1, <1>3, <2>3 DEF IInv, Typed, settings
<1>6. Saved'
  BY <1>1, <1>3, <1>4 DEF IInv, Typed, Saved, settings
<1> QED
  BY <1>3, <1>5, <1>6 DEF IInv

LEMMA RebootIInv == IInv /\ Reboot => IInv'
<1> SUFFICES ASSUME IInv, Reboot PROVE IInv'
  OBVIOUS
<1>1. loaded \in Settings
  BY StateIsSettings DEF IInv
<1> DEFINE s == loaded
<1>2. /\ s \in State /\ wanted_resolution(s) \in CPI_MIN .. CPI_MAX
      /\ s.scroll_invert \in {0, 1} /\ s.aml_idle_ms \in Nat
      /\ curve(s) \in [Curve -> Nat] /\ curve(s).accel_ramp > 0
  BY <1>1, SettingsFacts
<1>3. boots_with(s) /\ stored' = stored
  BY DEF Reboot
<1>4. s' = s
  BY <1>3 DEF loaded
<1>5. /\ todo' = [u \in Threads |-> <<>>] /\ packet' = [u \in Threads |-> NoPacket]
      /\ newest' = "rx" /\ overtaken' = {} /\ notify_enabled' = FALSE
      /\ battery_level' \in [{"central", "peripheral"} -> Levels]
  BY BatteriesRead DEF Reboot
<1> HIDE DEF s
<1>6. Typed'
  <2>1. state' \in Settings
    BY <1>1, <1>3 DEF boots_with, s
  <2>2. \A u \in Threads : /\ Len(todo'[u]) <= 6 /\ todo'[u] \in Seq(Calls)
                           /\ packet'[u].kind \in {"state", "layer", "none"}
    BY <1>5, EmptyHasNothing DEF NoPacket
  <2>3. TypeOK'
    <3>1. resolution' \in CPI_MIN .. CPI_MAX \cup {0} /\ unset' \in BOOLEAN /\ unsaved' \in BOOLEAN
      BY <1>2, <1>3 DEF boots_with
    <3>2. scroll_invert_flag' \in {0, 1} /\ idle_after' \in Nat /\ accel' \in [Curve -> Nat]
          /\ accel'.accel_ramp > 0
      BY <1>2, <1>3 DEF boots_with
    <3>3. stored' \in State \cup {NoState}
      BY <1>3 DEF IInv, Typed, TypeOK
    <3> QED
      BY <1>5, <2>1, <2>2, <3>1, <3>2, <3>3 DEF TypeOK, Settings, Threads
  <2> QED
    BY <1>3, <1>5, <2>2, <2>3 DEF IInv, Typed
<1>7. Applied'
  BY <1>3 DEF boots_with, Applied, wanted_resolution, curve
<1>8. Saved'
  <2>1. ordered(todo'["rx"]) /\ packet'["rx"].kind # "state"
    BY <1>5, EmptyHasNothing DEF Threads, NoPacket
  <2>2. state' = loaded'
    BY <1>3, <1>4 DEF boots_with, s
  <2> QED
    BY <2>1, <2>2 DEF Saved
<1> QED
  BY <1>6, <1>7, <1>8 DEF IInv

LEMMA StutterIInv == IInv /\ UNCHANGED vars => IInv'
<1> SUFFICES ASSUME IInv, UNCHANGED vars PROVE IInv'
  OBVIOUS
<1>1. UNCHANGED <<settings, battery_level, notify_enabled, targets, todo, traffic>>
  BY DEF vars
<1>2. Typed'
  BY <1>1 DEF IInv, Typed, TypeOK, settings, targets, traffic
<1>3. Applied' /\ Saved'
  BY <1>1, RxUndisturbed DEF traffic
<1> QED
  BY <1>2, <1>3 DEF IInv

LEMMA NextIInv == IInv /\ [Next]_vars => IInv'
<1> SUFFICES ASSUME IInv, [Next]_vars PROVE IInv'
  OBVIOUS
<1>1. CASE App
  BY <1>1, OnWriteIInv, SubscribeIInv, UnsubscribeIInv DEF App
<1>2. CASE RxThread
  BY <1>2, ApplyCursorSensitivityIInv, ApplyScrollInvertIInv, ApplyAmlIdleIInv, StoreAccelIInv,
     SaveStateIInv DEF RxThread
<1>3. CASE Notify
  BY <1>3, NotifyNobodyIInv, BuildPacketIInv, SendIInv DEF Notify
<1> QED
  BY <1>1, <1>2, <1>3, EventsIInv, RebootIInv, StutterIInv DEF Next

LEMMA AlwaysIInv == Spec => []IInv
BY InitIInv, NextIInv, PTL DEF Spec

-----------------------------------------------------------------------------
\* The sensor never gets a resolution it does not have, the acceleration never a
\* ramp of width 0, whatever is written, and in whatever order.
THEOREM SettingsTyped == Spec => []TypeOK
<1>1. IInv => TypeOK
  BY DEF IInv, Typed
<1> QED
  BY <1>1, AlwaysIInv, PTL

\* Between two writes, sensor and processors work with the settings the service
\* keeps.
THEOREM WritesAreApplied == Spec => []AppliedIsCurrent
<1>1. IInv => AppliedIsCurrent
  <2> SUFFICES ASSUME IInv, is_idle("rx") PROVE AppliedIsCurrent
    BY DEF AppliedIsCurrent
  <2>1. \A c : ~ pending(c)
    BY EmptyHasNothing DEF pending, is_idle
  <2>2. accel \in [Curve -> Nat] /\ curve(state) \in [Curve -> Nat]
    BY StateIsSettings, SettingsFacts DEF IInv, Typed, TypeOK
  <2>3. accel = curve(state)
    <3>1. \A f \in Curve : accel[f] = curve(state)[f]
      BY <2>1 DEF IInv, Applied
    <3> QED
      BY <2>2, <3>1
  <2> QED
    BY <2>1, <2>3 DEF IInv, Applied, AppliedIsCurrent
<1> QED
  BY <1>1, AlwaysIInv, PTL

\* The answer to a write carries what a reboot brings back, unless the save failed.
THEOREM WritesAreDurable == Spec => []AnswersAreDurable
<1>1. IInv => AnswersAreDurable
  <2> SUFFICES ASSUME IInv, packet["rx"].kind = "state", ~ unsaved
               PROVE  packet["rx"].settings = loaded
    BY DEF AnswersAreDurable
  <2>1. packet["rx"] # NoPacket /\ "rx" \in Threads
    BY DEF NoPacket, Threads
  <2>2. todo["rx"] \in Seq(Calls) /\ todo["rx"] # <<>> /\ Head(todo["rx"]) \in Notices
    BY <2>1 DEF IInv, Typed
  <2>3. ~ pending("save")
    BY <2>2, TailCalls DEF IInv, Saved, pending
  <2> QED
    BY <2>3 DEF IInv, Saved
<1> QED
  BY <1>1, AlwaysIInv, PTL

-----------------------------------------------------------------------------
(* What the app knows                                                      *)

Kinds      == {"state", "layer"}
call_of(k) == IF k = "state" THEN "notify_state" ELSE "notify_layer_state"
cur(k)     == packet_of(call_of(k))

\* A call for which no packet has been built yet.
unbuilt(t, c) == IF packet[t] = NoPacket THEN has(todo[t], c) ELSE has(Tail(todo[t]), c)

\* A packet that would tell the app something old, if it were the last.
outdated(t, k) == packet[t].kind = k /\ packet[t] # cur(k) /\ t \notin overtaken

\* What the app has not been told yet, it is going to be told: a packet is still to be
\* built, or the app knows and nothing old is on the way, or the packet on the way is
\* current and anything old on the way is older than it.
Told(k) ==
  \/ \E t \in Threads : unbuilt(t, call_of(k))
  \/ mirror[k] \in {cur(k), Lost} /\ \A t \in Threads : ~ outdated(t, k)
  \/ \E t \in Threads : /\ packet[t] = cur(k) /\ t \notin overtaken
                        /\ \A u \in Threads \ {t} : outdated(u, k) => newest = t

MirrorInv ==
  /\ mirror = [k \in Kinds |-> mirror[k]]
  /\ notify_enabled => \A k \in Kinds : Told(k)

LEMMA PacketKinds ==
  \A k \in Kinds : /\ cur(k).kind = k /\ cur(k) # NoPacket /\ NoPacket.kind # k
                   /\ call_of(k) \in Notices
                   /\ \A c \in Notices : c # call_of(k) => packet_of(c).kind # k
BY DEF Kinds, cur, call_of, packet_of, NoPacket, Notices

LEMMA PacketsAreSomething == \A c : packet_of(c)' # NoPacket /\ packet_of(c) # NoPacket
BY DEF packet_of, NoPacket

\* A step that builds and sends nothing, and changes nothing the app is told of.
LEMMA ToldUndisturbed ==
  ASSUME NEW k \in Kinds, Told(k),
         UNCHANGED <<state, battery_level, top_layer, traffic>>,
         \A t \in Threads : unbuilt(t, call_of(k)) => unbuilt(t, call_of(k))'
  PROVE  Told(k)'
<1>1. cur(k)' = cur(k)
  BY DEF cur, packet_of, call_of
<1>2. UNCHANGED <<packet, mirror, newest, overtaken>>
  BY DEF traffic
<1>3. \A t \in Threads : outdated(t, k)' <=> outdated(t, k)
  BY <1>1, <1>2 DEF outdated
<1> QED
  BY <1>1, <1>2, <1>3 DEF Told

LEMMA OnWriteMirror ==
  ASSUME IInv, MirrorInv, NEW write \in Writes, OnWrite(write)
  PROVE  MirrorInv'
<1>1. write \in Write /\ state \in State /\ Typed
  BY StateIsSettings, TrackballAssumption DEF IInv, Settings
<1>2. calls(write, state) \in Seq(Calls) /\ Len(calls(write, state)) <= 6
  BY <1>1, WriteCalls
<1>3. /\ todo["rx"] = <<>> /\ packet["rx"] = NoPacket
      /\ todo'["rx"] = calls(write, state)
      /\ todo'["workqueue"] = todo["workqueue"]
  BY <1>1, <1>2, CallsBegin DEF OnWrite, Threads
<1>4. UNCHANGED <<battery_level, notify_enabled, traffic, top_layer>>
  BY DEF OnWrite
<1> SUFFICES ASSUME notify_enabled, NEW k \in Kinds, Told(k) PROVE Told(k)'
  BY <1>4 DEF MirrorInv, traffic
<1>5. \A t \in Threads : unbuilt(t, call_of(k)) => unbuilt(t, call_of(k))'
  BY <1>3, <1>4, EmptyHasNothing DEF unbuilt, Threads, traffic
<1>6. CASE state' = state
  BY <1>4, <1>5, <1>6, ToldUndisturbed
<1>7. CASE k = "layer"
  <2>1. cur(k)' = cur(k)
    BY <1>4, <1>7 DEF cur, packet_of, call_of
  <2>2. \A t \in Threads : outdated(t, k)' <=> outdated(t, k)
    BY <1>4, <2>1 DEF outdated, traffic
  <2> QED
    BY <1>4, <1>5, <2>1, <2>2 DEF Told, traffic
<1>8. CASE state' # state /\ k = "state"
  <2>1. is_set(write)
    BY <1>8 DEF OnWrite
  <2>2. has(calls(write, state), "notify_state")
    BY <1>1, <2>1, CallsNotify
  <2>3. unbuilt("rx", call_of(k))'
    BY <1>3, <1>4, <1>8, <2>2 DEF unbuilt, call_of, traffic
  <2> QED
    BY <2>3 DEF Told, Threads
<1> QED
  BY <1>6, <1>7, <1>8 DEF Kinds

LEMMA SubscribeMirror == IInv /\ MirrorInv /\ Subscribe => MirrorInv'
<1> SUFFICES ASSUME IInv, MirrorInv, Subscribe PROVE MirrorInv'
  OBVIOUS
<1> DEFINE cs == <<"notify_state", "notify_layer_state">>
<1>1. /\ cs \in Seq(Calls) /\ Len(cs) = 2 /\ Len(cs) <= 6
      /\ cs[1] = "notify_state" /\ cs[2] = "notify_layer_state"
  BY DEF Calls
<1>2. begins("rx", cs) /\ UNCHANGED traffic /\ "rx" \in Threads /\ Typed
  BY DEF Subscribe, Threads, IInv
<1> HIDE DEF cs
<1>3. packet["rx"] = NoPacket /\ todo'["rx"] = cs
  BY <1>1, <1>2, CallsBegin
<1>4. ASSUME NEW k \in Kinds PROVE Told(k)'
  <2>1. has(cs, call_of(k))
    BY <1>1 DEF has, call_of
  <2>2. unbuilt("rx", call_of(k))'
    BY <1>2, <1>3, <2>1 DEF unbuilt, traffic, call_of
  <2> QED
    BY <2>2 DEF Told, Threads
<1> QED
  BY <1>2, <1>4 DEF MirrorInv, traffic

\* A call of the Bluetooth RX thread that is not a notification.
LEMMA RxCallMirror ==
  ASSUME IInv, MirrorInv, NEW c, c \notin Notices, is_next("rx", c), returns("rx"),
         UNCHANGED <<state, battery_level, notify_enabled, traffic, top_layer>>
  PROVE  MirrorInv'
<1>1. /\ \A d : pending(d) => d = c \/ has(todo'["rx"], d)
      /\ packet["rx"] = NoPacket
  BY RxCallReturns
<1>2. todo'["workqueue"] = todo["workqueue"]
  BY DEF returns, IInv, Typed, Threads
<1> SUFFICES ASSUME notify_enabled, NEW k \in Kinds, Told(k) PROVE Told(k)'
  BY DEF MirrorInv, traffic
<1>3. call_of(k) # c
  BY PacketKinds
<1>4. \A t \in Threads : unbuilt(t, call_of(k)) => unbuilt(t, call_of(k))'
  BY <1>1, <1>2, <1>3 DEF unbuilt, Threads, traffic, pending, call_of
<1> QED
  BY <1>4, ToldUndisturbed

LEMMA EventsMirror == IInv /\ MirrorInv /\ Events => MirrorInv'
<1> SUFFICES ASSUME IInv, MirrorInv, Events PROVE MirrorInv'
  OBVIOUS
<1>1. PICK j \in Kinds :
        /\ begins("workqueue", <<call_of(j)>>)
        /\ UNCHANGED <<settings, notify_enabled, traffic>>
        /\ \A k \in Kinds \ {j} : cur(k)' = cur(k)
  <2>1. ASSUME NEW half \in {"central", "peripheral"}, NEW level \in Levels,
               BatteryChanged(half, level)
        PROVE  /\ begins("workqueue", <<call_of("state")>>)
               /\ UNCHANGED <<settings, notify_enabled, traffic>>
               /\ cur("layer")' = cur("layer")
    BY <2>1 DEF BatteryChanged, call_of, cur, packet_of
  <2>2. ASSUME NEW layer \in Layers, LayerChanged(layer)
        PROVE  /\ begins("workqueue", <<call_of("layer")>>)
               /\ UNCHANGED <<settings, notify_enabled, traffic>>
               /\ cur("state")' = cur("state")
    BY <2>2 DEF LayerChanged, call_of, cur, packet_of, settings
  <2> QED
    BY <2>1, <2>2 DEF Events, Kinds
<1> DEFINE c == call_of(j)
<1>2. c \in Notices
  BY PacketKinds
<1> HIDE DEF c
<1>3. /\ <<c>> \in Seq(Calls) /\ Len(<<c>>) = 1 /\ Len(<<c>>) <= 6 /\ <<c>>[1] = c
      /\ begins("workqueue", <<c>>) /\ "workqueue" \in Threads /\ Typed
  <2>1. begins("workqueue", <<c>>)
    BY <1>1 DEF c
  <2> QED
    BY <1>2, <2>1 DEF Notices, Calls, Threads, IInv
<1>4. /\ todo["workqueue"] = <<>> /\ packet["workqueue"] = NoPacket
      /\ todo'["workqueue"] = <<c>> /\ todo'["rx"] = todo["rx"]
  <2>1. "rx" \in Threads \ {"workqueue"}
    BY DEF Threads
  <2> QED
    BY <1>3, <2>1, CallsBegin
<1> SUFFICES ASSUME notify_enabled, NEW k \in Kinds, Told(k) PROVE Told(k)'
  BY <1>1 DEF MirrorInv, traffic
<1>5. CASE k = j
  <2>1. has(<<c>>, c)
    BY <1>3 DEF has
  <2>2. call_of(k)' = c
    BY <1>5 DEF c, call_of
  <2>3. unbuilt("workqueue", call_of(k))'
    BY <1>1, <1>4, <2>1, <2>2 DEF unbuilt, traffic
  <2> QED
    BY <2>3 DEF Told, Threads
<1>6. CASE k # j
  <2>1. cur(k)' = cur(k) /\ UNCHANGED <<packet, mirror, newest, overtaken>>
    BY <1>1, <1>6 DEF traffic
  <2>2. \A t \in Threads : outdated(t, k)' <=> outdated(t, k)
    BY <2>1 DEF outdated
  <2>3. \A t \in Threads : unbuilt(t, call_of(k)) => unbuilt(t, call_of(k))'
    BY <1>4, <2>1, EmptyHasNothing DEF unbuilt, Threads, call_of
  <2> QED
    BY <2>1, <2>2, <2>3 DEF Told
<1> QED
  BY <1>5, <1>6

LEMMA BuildPacketMirror ==
  ASSUME IInv, MirrorInv, NEW t \in Threads, BuildPacket(t) PROVE MirrorInv'
<1> DEFINE c == Head(todo[t])
<1>1. /\ todo[t] # <<>> /\ c \in Notices /\ packet[t] = NoPacket
      /\ packet' = [packet EXCEPT ![t] = packet_of(c)]
      /\ newest' = t /\ overtaken' = overtaken \ {t}
      /\ UNCHANGED <<settings, battery_level, notify_enabled, todo, mirror, top_layer>>
  BY DEF BuildPacket, notifies, is_next, Notices
<1>2. /\ packet'[t] = packet_of(c)
      /\ \A u \in Threads \ {t} : packet'[u] = packet[u]
  BY <1>1 DEF IInv, Typed
<1>3. \A d : has(todo[t], d) => d = c \/ has(Tail(todo[t]), d)
  BY <1>1, TailCalls DEF IInv, Typed
<1> HIDE DEF c
<1> SUFFICES ASSUME NEW k \in Kinds, Told(k) PROVE Told(k)'
  BY <1>1 DEF MirrorInv
<1>4. cur(k)' = cur(k)
  BY <1>1 DEF cur, packet_of, call_of, settings
<1>5. CASE c = call_of(k)
  <2>1. packet'[t] = cur(k)'
    BY <1>2, <1>4, <1>5 DEF cur
  <2> QED
    BY <1>1, <2>1 DEF Told
<1>6. CASE c # call_of(k)
  <2>1. packet_of(c).kind # k /\ cur(k) # NoPacket /\ NoPacket.kind # k
    BY <1>1, <1>6, PacketKinds
  <2>2. /\ ~ outdated(t, k)'
        /\ \A u \in Threads \ {t} : outdated(u, k)' <=> outdated(u, k)
    BY <1>1, <1>2, <1>4, <2>1 DEF outdated
  <2>3. \A u \in Threads : unbuilt(u, call_of(k)) => unbuilt(u, call_of(k))'
    <3>1. packet'[t] # NoPacket
      BY <1>1, <1>2, PacketsAreSomething
    <3>2. unbuilt(t, call_of(k)) => unbuilt(t, call_of(k))'
      BY <1>1, <1>3, <1>6, <3>1 DEF unbuilt, call_of
    <3>3. \A u \in Threads \ {t} : unbuilt(u, call_of(k)) => unbuilt(u, call_of(k))'
      BY <1>1, <1>2 DEF unbuilt, call_of
    <3> QED
      BY <3>2, <3>3
  <2>4. CASE \E u \in Threads : unbuilt(u, call_of(k))
    BY <2>3, <2>4 DEF Told
  <2>5. CASE mirror[k] \in {cur(k), Lost} /\ \A u \in Threads : ~ outdated(u, k)
    BY <1>1, <1>4, <2>2, <2>5 DEF Told
  <2>6. ASSUME NEW u \in Threads, packet[u] = cur(k), u \notin overtaken
        PROVE  Told(k)'
    <3>1. u # t /\ packet'[u] = cur(k)' /\ u \notin overtaken'
      BY <1>1, <1>2, <1>4, <2>1, <2>6
    <3>2. \A v \in Threads \ {u} : ~ outdated(v, k)'
      BY <2>2, <3>1 DEF Threads
    <3> QED
      BY <3>1, <3>2 DEF Told
  <2> QED
    BY <2>4, <2>5, <2>6 DEF Told
<1> QED
  BY <1>5, <1>6

LEMMA SendMirror ==
  ASSUME IInv, MirrorInv, NEW t \in Threads, Send(t) PROVE MirrorInv'
<1> DEFINE p == packet[t]
<1>1. /\ p # NoPacket /\ returns(t)
      /\ packet' = [packet EXCEPT ![t] = NoPacket]
      /\ newest' = "rx" /\ overtaken' = (overtaken \cup overtakes(t)) \ {t}
      /\ UNCHANGED <<settings, battery_level, notify_enabled, top_layer>>
      /\ \/ t \notin overtaken /\ mirror' = [mirror EXCEPT ![p.kind] = p]
         \/ mirror' = [mirror EXCEPT ![p.kind] = Lost]
  BY DEF Send
<1>2. /\ packet'[t] = NoPacket
      /\ \A u \in Threads \ {t} : packet'[u] = packet[u]
  BY <1>1 DEF IInv, Typed
<1>3. todo'[t] = Tail(todo[t]) /\ \A u \in Threads \ {t} : todo'[u] = todo[u]
  BY <1>1 DEF returns, IInv, Typed
<1>4. PICK o \in Threads : o # t /\ Threads = {t, o}
  BY DEF Threads
<1>5. newest \in Threads
  BY DEF IInv, Typed, TypeOK
<1>6. mirror' = [k \in Kinds |-> mirror'[k]]
  BY <1>1 DEF MirrorInv
<1> HIDE DEF p
<1> SUFFICES ASSUME NEW k \in Kinds, Told(k) PROVE Told(k)'
  BY <1>1, <1>6 DEF MirrorInv
<1>7. cur(k)' = cur(k) /\ cur(k) # NoPacket /\ NoPacket.kind # k /\ cur(k).kind = k
  BY <1>1, PacketKinds DEF cur, packet_of, call_of, settings
<1>8. ~ outdated(t, k)'
  BY <1>2, <1>7 DEF outdated
<1>9. /\ p.kind # k => mirror'[k] = mirror[k]
      /\ p.kind = k => mirror'[k] = Lost \/ (t \notin overtaken /\ mirror'[k] = p)
  BY <1>1 DEF MirrorInv
<1>10. o \in overtaken => o \in overtaken'
  BY <1>1, <1>4
<1>11. outdated(o, k)' => outdated(o, k)
  BY <1>2, <1>4, <1>7, <1>10 DEF outdated
<1>12. CASE \E u \in Threads : unbuilt(u, call_of(k))
  <2>1. \A u \in Threads : unbuilt(u, call_of(k)) => unbuilt(u, call_of(k))'
    BY <1>1, <1>2, <1>3 DEF unbuilt, call_of, p
  <2> QED
    BY <1>12, <2>1 DEF Told
<1>13. CASE mirror[k] \in {cur(k), Lost} /\ \A u \in Threads : ~ outdated(u, k)
  <2>1. mirror'[k] \in {cur(k), Lost}
    BY <1>9, <1>13 DEF outdated, p
  <2> QED
    BY <1>4, <1>7, <1>8, <1>11, <1>13, <2>1 DEF Told
<1>14. CASE packet[t] = cur(k) /\ t \notin overtaken /\ (outdated(o, k) => newest = t)
  <2>1. mirror'[k] \in {cur(k), Lost}
    BY <1>7, <1>9, <1>14 DEF p
  <2>2. ~ outdated(o, k)'
    <3>1. outdated(o, k) => o \in overtakes(t)
      BY <1>4, <1>7, <1>14 DEF outdated, overtakes
    <3> QED
      BY <1>1, <1>4, <1>11, <3>1 DEF outdated
  <2> QED
    BY <1>4, <1>7, <1>8, <2>1, <2>2 DEF Told
<1>15. CASE packet[o] = cur(k) /\ o \notin overtaken /\ (outdated(t, k) => newest = o)
  <2>1. ~ outdated(o, k)'
    BY <1>2, <1>4, <1>7, <1>15 DEF outdated
  <2>2. CASE o \notin overtakes(t)
    <3>1. packet'[o] = cur(k)' /\ o \notin overtaken'
      BY <1>1, <1>2, <1>4, <1>7, <1>15, <2>2
    <3> QED
      BY <1>4, <1>8, <3>1 DEF Told
  <2>3. CASE o \in overtakes(t)
    <3>1. newest = t /\ packet[o].kind = p.kind
      BY <2>3 DEF overtakes, p
    <3>2. ~ outdated(t, k) /\ p.kind = k
      BY <1>4, <1>7, <1>15, <3>1
    <3>3. mirror'[k] \in {cur(k), Lost}
      BY <1>9, <3>2 DEF outdated, p
    <3> QED
      BY <1>4, <1>7, <1>8, <2>1, <3>3 DEF Told
  <2> QED
    BY <2>2, <2>3
<1> QED
  BY <1>4, <1>12, <1>13, <1>14, <1>15 DEF Told

LEMMA NextMirror == IInv /\ MirrorInv /\ [Next]_vars => MirrorInv'
<1> SUFFICES ASSUME IInv, MirrorInv, [Next]_vars PROVE MirrorInv'
  OBVIOUS
<1>1. CASE RxThread
  <2>1. PICK c \in Calls \ Notices :
          /\ is_next("rx", c) /\ returns("rx")
          /\ UNCHANGED <<state, battery_level, notify_enabled, traffic, top_layer>>
    BY <1>1 DEF RxThread, ApplyCursorSensitivity, ApplyScrollInvert, ApplyAmlIdle, StoreAccel,
       SaveState, settings, Calls, Notices, Curve
  <2> QED
    BY <2>1, RxCallMirror
<1>2. CASE Unsubscribe \/ Reboot \/ (\E t \in Threads : NotifyNobody(t))
  BY <1>2 DEF Unsubscribe, Reboot, NotifyNobody, MirrorInv, traffic
<1>3. CASE UNCHANGED vars
  BY <1>3 DEF vars, MirrorInv, Told, unbuilt, outdated, cur, packet_of, call_of, traffic, settings
<1> QED
  BY <1>1, <1>2, <1>3, OnWriteMirror, SubscribeMirror, EventsMirror, BuildPacketMirror, SendMirror
  DEF Next, App, Notify

\* Once both threads are done, a subscribed app knows what there is to know, unless the
\* last packet was lost or overtaken.
THEOREM MirrorStaysCurrent == Spec => []MirrorIsCurrent
<1>1. Init => MirrorInv
  BY DEF Init, MirrorInv, Kinds
<1>2. IInv /\ MirrorInv => MirrorIsCurrent
  <2> SUFFICES ASSUME IInv, MirrorInv, notify_enabled, is_idle("rx"), is_idle("workqueue")
               PROVE  \A k \in Kinds : mirror[k] \in {cur(k), Lost}
    BY DEF MirrorIsCurrent, Kinds, cur, call_of
  <2>1. \A t \in Threads : todo[t] = <<>> /\ packet[t] = NoPacket
    BY DEF IInv, Typed, is_idle, Threads
  <2>2. \A t \in Threads, c \in Notices : ~ unbuilt(t, c)
    BY <2>1, EmptyHasNothing DEF unbuilt
  <2> QED
    BY <2>1, <2>2, PacketKinds DEF MirrorInv, Told
<1> QED
  BY <1>1, <1>2, NextMirror, AlwaysIInv, InitIInv, NextIInv, PTL DEF Spec
==============================================================================
