--------------------------- MODULE LismTrackballRpc ---------------------------
(***************************************************************************)
(* The trackball settings service: src/src/trackball_rpc.c.                *)
(*                                                                         *)
(* The Bluetooth RX thread writes a setting, applies it to the processor   *)
(* or sensor it belongs to, saves the settings and notifies the app.  The  *)
(* system workqueue notifies the app of battery levels and layers.  The    *)
(* two share the settings, the levels and the subscription without a lock, *)
(* so what a thread has still to do is a variable, `todo`, and each of its *)
(* calls a step.  External and modelled from its use here: the sensor,     *)
(* bt_gatt_notify_uuid, the settings backend, the keymap and the battery   *)
(* events; the processors' stores are what trackball_rpc_apply_... sets.    *)
(***************************************************************************)
EXTENDS Integers, Sequences

CONSTANTS
  CPI_MIN, CPI_MAX,
  DefaultState,   \* the initializer of state
  StoredStates,   \* what an earlier boot may have stored, NoState: nothing
  Writes,         \* what the app may write
  Levels,         \* battery levels, 0 (not read yet) among them
  Layers,         \* 0 .. ZMK_KEYMAP_LAYERS_LEN - 1
  MaxWrites,      \* bound: writes of the app
  MaxEvents,      \* bound: battery and layer events and power failures
  MaxSubscribes   \* bound: subscriptions

Threads  == {"rx", "workqueue"}
Switches == {"precision_active", "scroll_invert", "accel_enabled"}
Speeds   == {"cursor_cpi", "precision_cpi"}
Curve    == {"accel_enabled", "accel_max_x100", "accel_kick_in", "accel_ramp"}
Fields   == Switches \cup Speeds \cup Curve \cup {"aml_idle_ms"}

\* `complete`: the write is as long as its opcode wants it.
Write == [op : Fields \cup {"get_all", "unknown"}, value : Nat, complete : BOOLEAN]
State == [Fields -> Nat]

\* The settings the service keeps: speeds the sensor has, switches that are 0 or 1.
Settings ==
  {s \in State : /\ \A f \in Speeds : s[f] \in CPI_MIN .. CPI_MAX
                /\ \A f \in Switches : s[f] \in {0, 1}}

NoState  == <<>>                \* nothing stored yet

ASSUME TrackballAssumption ==
  /\ CPI_MIN \in Nat /\ CPI_MAX \in Nat /\ CPI_MIN <= CPI_MAX
  /\ DefaultState \in Settings /\ StoredStates \subseteq Settings \cup {NoState}
  /\ Writes \subseteq Write
  /\ 0 \in Levels /\ 0 \in Layers
  /\ MaxWrites \in Nat /\ MaxEvents \in Nat /\ MaxSubscribes \in Nat

NoPacket == [kind |-> "none"]
Lost     == [kind |-> "lost"]   \* the last packet was lost or overtaken

VARIABLES
  state,           \* the settings in RAM
  stored,          \* what settings_save_one() last stored
  battery_level,   \* of the central and the peripheral half
  notify_enabled,
  resolution,      \* of the sensor
  scroll_invert_flag, idle_after, accel,   \* what the three processors read
  todo,            \* of each thread, the calls it has still to make
  packet,          \* of each thread, the packet it has built and not sent
  top_layer,       \* the highest active layer of the keymap
  mirror,          \* history: the last packet of each kind the app got, or Lost
  newest,          \* history: of two packets built, the thread of the newer one
  overtaken,       \* history: threads whose packet is older than one that went out
  unset, unsaved,  \* history: the sensor refused its resolution, the backend the save
  counts           \* writes, events, subscriptions and reboots so far

targets  == <<resolution, scroll_invert_flag, idle_after, accel, unset>>
traffic  == <<packet, mirror, newest, overtaken>>
settings == <<state, stored, unsaved>>
vars     == <<settings, battery_level, notify_enabled, targets, todo, traffic, top_layer, counts>>

-----------------------------------------------------------------------------
(* What a write does                                                       *)

clamp(n) == IF n < CPI_MIN THEN CPI_MIN ELSE IF n > CPI_MAX THEN CPI_MAX ELSE n

\* What a field becomes of the value written.
written(field, value) ==
  CASE field \in Speeds   -> clamp(value)
    [] field \in Switches -> IF value = 0 THEN 0 ELSE 1
    [] OTHER              -> value

apply_accel == <<"accel_enabled", "accel_max_x100", "accel_kick_in", "accel_ramp">>

is_set(write) == write.op \in Fields /\ write.complete

\* Mutant: switching the precision mode off leaves the sensor alone.
applies_when_on(write, s) ==
  CASE write.op = "cursor_cpi" -> IF s.precision_active = 0 THEN <<"sensitivity">> ELSE <<>>
    [] write.op = "precision_cpi" -> IF s.precision_active = 1 THEN <<"sensitivity">> ELSE <<>>
    [] write.op = "precision_active" -> IF write.value = 0 THEN <<>> ELSE <<"sensitivity">>
    [] write.op = "scroll_invert" -> <<"scroll_invert">>
    [] write.op = "aml_idle_ms" -> <<"aml_idle_ms">>
    [] OTHER -> apply_accel

\* The calls that apply it.
applies(write, s) ==
  CASE write.op = "cursor_cpi" -> IF s.precision_active = 0 THEN <<"sensitivity">> ELSE <<>>
    [] write.op = "precision_cpi" -> IF s.precision_active = 1 THEN <<"sensitivity">> ELSE <<>>
    [] write.op = "precision_active" -> <<"sensitivity">>
    [] write.op = "scroll_invert" -> <<"scroll_invert">>
    [] write.op = "aml_idle_ms" -> <<"aml_idle_ms">>
    [] OTHER -> apply_accel

\* Mutant: the app is answered before the save.
calls_answering_first(write, s) ==
  CASE is_set(write)          -> applies(write, s) \o <<"notify_state", "save">>
    [] write.op = "unknown"   -> <<>>
    [] OTHER                  -> <<"notify_state">>

\* All the calls on_write() makes: an unknown opcode is refused, a write that is
\* too short only answered.
calls(write, s) ==
  CASE is_set(write)          -> applies(write, s) \o <<"save", "notify_state">>
    [] write.op = "unknown"   -> <<>>
    [] OTHER                  -> <<"notify_state">>

-----------------------------------------------------------------------------
(* The Bluetooth RX thread                                                 *)

is_idle(t)     == todo[t] = <<>>
is_next(t, c)  == todo[t] # <<>> /\ Head(todo[t]) = c
returns(t)     == todo' = [todo EXCEPT ![t] = Tail(@)]
begins(t, cs)  == is_idle(t) /\ todo' = [todo EXCEPT ![t] = cs]
counted(what)  == counts' = [counts EXCEPT ![what] = @ + 1]
event_left     == counts.events + counts.reboots < MaxEvents

\* on_write() up to the first call
OnWrite(write) ==
  /\ counts.writes < MaxWrites /\ counted("writes")
  /\ begins("rx", calls(write, state))
  /\ state' = IF is_set(write)
              THEN [state EXCEPT ![write.op] = written(write.op, write.value)] ELSE state
  /\ UNCHANGED <<stored, unsaved, battery_level, notify_enabled, targets, traffic, top_layer>>

wanted_resolution(s) == IF s.precision_active = 1 THEN s.precision_cpi ELSE s.cursor_cpi

\* apply_cursor_sensitivity(): what paw32xx_set_resolution() returns is only logged.
ApplyCursorSensitivity ==
  /\ is_next("rx", "sensitivity") /\ returns("rx")
  /\ \/ resolution' = wanted_resolution(state) /\ unset' = FALSE
     \/ unset' = TRUE /\ UNCHANGED resolution
  /\ UNCHANGED <<settings, battery_level, notify_enabled, scroll_invert_flag, idle_after,
                 accel, traffic, top_layer, counts>>

\* trackball_rpc_apply_scroll_invert()
ApplyScrollInvert ==
  /\ is_next("rx", "scroll_invert") /\ returns("rx")
  /\ scroll_invert_flag' = state.scroll_invert
  /\ UNCHANGED <<settings, battery_level, notify_enabled, resolution, idle_after, accel, unset,
                 traffic, top_layer, counts>>

\* trackball_rpc_apply_aml_idle_ms()
ApplyAmlIdle ==
  /\ is_next("rx", "aml_idle_ms") /\ returns("rx")
  /\ idle_after' = state.aml_idle_ms
  /\ UNCHANGED <<settings, battery_level, notify_enabled, resolution, scroll_invert_flag, accel,
                 unset, traffic, top_layer, counts>>

\* Mutant: the width is stored as it is.
curve_unguarded(s) == [f \in Curve |-> s[f]]

\* The curve the processor gets: a ramp of no width has width 1.
curve(s) == [f \in Curve |-> IF f = "accel_ramp" /\ s[f] = 0 THEN 1 ELSE s[f]]

\* trackball_rpc_apply_accel(): four atomic stores, one by one.
StoreAccel ==
  \E f \in Curve :
    /\ is_next("rx", f) /\ returns("rx")
    /\ accel' = [accel EXCEPT ![f] = curve(state)[f]]
    /\ UNCHANGED <<settings, battery_level, notify_enabled, resolution, scroll_invert_flag,
                   idle_after, unset, traffic, top_layer, counts>>

\* save_state(): what settings_save_one() returns is not looked at.
SaveState ==
  /\ is_next("rx", "save") /\ returns("rx")
  /\ \/ stored' = state /\ unsaved' = FALSE
     \/ unsaved' = TRUE /\ UNCHANGED stored
  /\ UNCHANGED <<state, battery_level, notify_enabled, targets, traffic, top_layer, counts>>

\* ccc_cfg_changed()
Subscribe ==
  /\ counts.subscribes < MaxSubscribes /\ counted("subscribes")
  /\ ~ notify_enabled /\ notify_enabled' = TRUE
  /\ begins("rx", <<"notify_state", "notify_layer_state">>)
  /\ UNCHANGED <<settings, battery_level, targets, traffic, top_layer>>

Unsubscribe ==
  /\ is_idle("rx") /\ notify_enabled /\ notify_enabled' = FALSE
  /\ UNCHANGED <<settings, battery_level, targets, todo, traffic, top_layer, counts>>

-----------------------------------------------------------------------------
(* The system workqueue                                                    *)

\* Mutant: the app is not told of a level.
BatteryChanged_silently(half, level) ==
  /\ event_left /\ counted("events")
  /\ begins("workqueue", <<>>)
  /\ battery_level[half] # level
  /\ battery_level' = [battery_level EXCEPT ![half] = level]
  /\ UNCHANGED <<settings, notify_enabled, targets, traffic, top_layer>>

\* trackball_rpc_battery_listener(); the event is raised when a level changes.
BatteryChanged(half, level) ==
  /\ event_left /\ counted("events")
  /\ begins("workqueue", <<"notify_state">>)
  /\ battery_level[half] # level
  /\ battery_level' = [battery_level EXCEPT ![half] = level]
  /\ UNCHANGED <<settings, notify_enabled, targets, traffic, top_layer>>

\* trackball_rpc_layer_listener(), after the keymap has changed a layer
LayerChanged(layer) ==
  /\ event_left /\ counted("events")
  /\ begins("workqueue", <<"notify_layer_state">>)
  /\ layer # top_layer /\ top_layer' = layer
  /\ UNCHANGED <<settings, battery_level, notify_enabled, targets, traffic>>

-----------------------------------------------------------------------------
(* Notifications, by either thread                                         *)

notifies(t) == is_next(t, "notify_state") \/ is_next(t, "notify_layer_state")

\* The packet notify_state() or notify_layer_state() builds.
packet_of(c) ==
  IF c = "notify_state"
  THEN [kind |-> "state", settings |-> state, battery |-> battery_level]
  ELSE [kind |-> "layer", layer |-> top_layer]

\* Without a subscriber there is nothing to build and to send.
NotifyNobody(t) ==
  /\ notifies(t) /\ packet[t] = NoPacket /\ ~ notify_enabled
  /\ returns(t)
  /\ UNCHANGED <<settings, battery_level, notify_enabled, targets, traffic, top_layer, counts>>

BuildPacket(t) ==
  /\ notifies(t) /\ packet[t] = NoPacket /\ notify_enabled
  /\ packet' = [packet EXCEPT ![t] = packet_of(Head(todo[t]))]
  /\ newest' = t /\ overtaken' = overtaken \ {t}
  /\ UNCHANGED <<settings, battery_level, notify_enabled, targets, todo, mirror, top_layer,
                 counts>>

\* The packet of the other thread, if it is of the same kind and older.
overtakes(t) ==
  {u \in Threads \ {t} : newest = t /\ packet[u].kind = packet[t].kind}

\* bt_gatt_notify_uuid(): whether the packet gets through is only logged.
Send(t) ==
  /\ packet[t] # NoPacket /\ returns(t)
  /\ packet' = [packet EXCEPT ![t] = NoPacket]
  /\ newest' = "rx"
  /\ overtaken' = (overtaken \cup overtakes(t)) \ {t}
  /\ \/ /\ notify_enabled /\ t \notin overtaken
        /\ mirror' = [mirror EXCEPT ![packet[t].kind] = packet[t]]
     \/ mirror' = [mirror EXCEPT ![packet[t].kind] = Lost]
  /\ UNCHANGED <<settings, battery_level, notify_enabled, targets, top_layer, counts>>

-----------------------------------------------------------------------------
(* Boot                                                                    *)

\* What trackball_rpc_settings_set() leaves in state: a stored value of another
\* size is ignored.
loaded == IF stored = NoState THEN DefaultState ELSE stored

\* trackball_rpc_init(): the loaded settings are applied, the batteries read.
boots_with(s) ==
  /\ state' = s /\ unsaved' = FALSE
  /\ \/ resolution' = wanted_resolution(s) /\ unset' = FALSE
     \/ resolution' = 0 /\ unset' = TRUE
  /\ scroll_invert_flag' = s.scroll_invert /\ idle_after' = s.aml_idle_ms
  /\ accel' = curve(s)

\* RAM is lost.
Reboot ==
  /\ event_left /\ counted("reboots")
  /\ boots_with(loaded)
  /\ \E level \in Levels : battery_level' = [central |-> level, peripheral |-> 0]
  /\ notify_enabled' = FALSE /\ top_layer' = 0
  /\ todo' = [t \in Threads |-> <<>>] /\ packet' = [t \in Threads |-> NoPacket]
  /\ newest' = "rx" /\ overtaken' = {}
  /\ UNCHANGED <<stored, mirror>>

-----------------------------------------------------------------------------
(* Specification                                                           *)

Init ==
  /\ stored \in StoredStates /\ state = loaded /\ unsaved = FALSE
  /\ \E level \in Levels : battery_level = [central |-> level, peripheral |-> 0]
  /\ notify_enabled = FALSE
  /\ resolution = wanted_resolution(loaded) /\ unset = FALSE
  /\ scroll_invert_flag = loaded.scroll_invert
  /\ idle_after = loaded.aml_idle_ms /\ accel = curve(loaded)
  /\ todo = [t \in Threads |-> <<>>] /\ packet = [t \in Threads |-> NoPacket]
  /\ top_layer = 0
  /\ mirror = [kind \in {"state", "layer"} |-> NoPacket]
  /\ newest = "rx" /\ overtaken = {}
  /\ counts = [writes |-> 0, events |-> 0, subscribes |-> 0, reboots |-> 0]

RxThread ==
  \/ ApplyCursorSensitivity \/ ApplyScrollInvert \/ ApplyAmlIdle \/ StoreAccel
  \/ SaveState

Notify == \E t \in Threads : NotifyNobody(t) \/ BuildPacket(t) \/ Send(t)

App == (\E write \in Writes : OnWrite(write)) \/ Subscribe \/ Unsubscribe

Events ==
  \/ \E half \in {"central", "peripheral"}, level \in Levels : BatteryChanged(half, level)
  \/ \E layer \in Layers : LayerChanged(layer)

Next == App \/ RxThread \/ Events \/ Notify \/ Reboot

Spec == Init /\ [][Next]_vars

-----------------------------------------------------------------------------
(* Properties                                                              *)

\* Whatever is written, the sensor gets a resolution it has (0: it has refused
\* the first) and the acceleration never divides by 0.
TypeOK ==
  /\ state \in State /\ stored \in State \cup {NoState}
  /\ \A f \in Speeds : state[f] \in CPI_MIN .. CPI_MAX
  /\ \A f \in Switches : state[f] \in {0, 1}
  /\ battery_level \in [{"central", "peripheral"} -> Levels]
  /\ notify_enabled \in BOOLEAN
  /\ resolution \in CPI_MIN .. CPI_MAX \cup {0}
  /\ scroll_invert_flag \in {0, 1} /\ idle_after \in Nat
  /\ accel \in [Curve -> Nat] /\ accel.accel_ramp > 0
  /\ \A t \in Threads : Len(todo[t]) <= 6
  /\ \A t \in Threads : packet[t].kind \in {"state", "layer", "none"}
  /\ newest \in Threads /\ overtaken \subseteq Threads
  /\ unset \in BOOLEAN /\ unsaved \in BOOLEAN

\* Between two writes the sensor and the processors work with the settings the
\* service keeps, however often the precision mode has been switched and either
\* speed written in the other's turn (trackball_rpc.c:270-338); the sensor may
\* have refused.
AppliedIsCurrent ==
  is_idle("rx") =>
    /\ unset \/ resolution = wanted_resolution(state)
    /\ scroll_invert_flag = state.scroll_invert
    /\ idle_after = state.aml_idle_ms
    /\ accel = curve(state)

\* "All values persist across reboot" (trackball_rpc.c:15): the settings in the
\* packet that answers a write are those a reboot brings back, unless the backend
\* failed to save them.
AnswersAreDurable ==
  packet["rx"].kind = "state" /\ ~ unsaved => packet["rx"].settings = loaded

\* "so the app can mirror real device state live" (trackball_rpc.c:194-196): once
\* both threads are done, a subscribed app knows the settings, the battery levels
\* and the layer, if the last packet of that kind was neither lost nor overtaken by
\* a newer one of the other thread.
MirrorIsCurrent ==
  notify_enabled /\ is_idle("rx") /\ is_idle("workqueue") =>
    /\ mirror["state"] \in {packet_of("notify_state"), Lost}
    /\ mirror["layer"] \in {packet_of("notify_layer_state"), Lost}
==============================================================================
