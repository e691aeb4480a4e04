------------------------------ MODULE LismCombo ------------------------------
(***************************************************************************)
(* The runtime combo matcher of src/src/lism_runtime_combo.c.              *)
(*                                                                         *)
(* All of the matcher runs on the system workqueue, one handler at a time, *)
(* but a handler is not one step: release_pressed_keys() raises captured   *)
(* key events again from inside the handler, and each of them re-enters    *)
(* the matcher before the loop that raised it goes on.  The call stack of  *)
(* the workqueue is therefore a variable (`stack`, head = the running      *)
(* call) and a step is the code between two dispatches of an event.  A     *)
(* handler is over when the stack is empty.                                *)
(*                                                                         *)
(* External and modelled from its use here: the listeners downstream of    *)
(* the matcher (the keymap), whatever else switches layers or raises       *)
(* keycodes (the mouse layer, the gestures, the behaviors of combos),      *)
(* k_work_delayable, the settings backend.                                 *)
(***************************************************************************)
EXTENDS Integers, Sequences, FiniteSets, FiniteSetsExt, SequencesExt

CONSTANTS
  Positions,       \* key positions of the keyboard (ZMK_KEYMAP_LEN of them)
  NumSlots,        \* LISM_COMBO_SLOTS
  MaxKeys,         \* LISM_COMBO_MAX_KEYS
  MaxPressed,      \* CONFIG_LISM_COMBO_RPC_MAX_PRESSED
  BehaviorIds,     \* behavior local ids a record can name
  ResolvedIds,     \* the ids this firmware has a behavior for
  ZeroId,          \* behavior local id 0, what memset leaves in a record
  TapPositions,    \* positions whose binding raises a non-modifier keycode
  LayerPositions,  \* positions whose binding holds the upper layer
  LayerBehaviors,  \* behavior ids that hold the upper layer
  OtherLayers,     \* layers other work items of the workqueue switch to
  OtherKeycodes,   \* whether other work items raise keycodes
  InitialTables,   \* slot tables the settings backend may load at boot
  NewRecords,      \* records SET_COMBO may carry
  PressGap,        \* least number of ticks between two key presses
  LastPress,       \* bound: no key is pressed after this time
  MaxTime,         \* bound: the clock stops here
  MaxEdits         \* bound: number of table edits

Slots    == 1 .. NumSlots
NoSlot   == 0           \* -1 in the code, whose slots count from 0
Never    == -1          \* no deadline: LLONG_MAX, or a work item not scheduled
LongAgo  == -1000000    \* INT32_MIN, before every timestamp and idle time
Layers   == {0, 1}

ASSUME ConstantsAssumption ==
  /\ Positions # {} /\ IsFiniteSet(Positions)
  /\ NumSlots \in Nat \ {0} /\ MaxKeys \in Nat \ {0} /\ MaxPressed \in Nat \ {0}
  /\ ResolvedIds \subseteq BehaviorIds /\ ZeroId \in BehaviorIds
  /\ TapPositions \subseteq Positions /\ LayerPositions \subseteq Positions
  /\ LayerBehaviors \subseteq BehaviorIds
  /\ OtherLayers \subseteq Layers /\ OtherKeycodes \in BOOLEAN
  /\ PressGap \in Nat /\ LastPress \in Nat /\ MaxTime \in Nat /\ MaxEdits \in Nat

\* struct lism_combo_record.  key_positions is the set of its first key_count
\* entries: validate_record admits no duplicates and no order is ever used.
Record == [active : BOOLEAN, slow : BOOLEAN, keys : SUBSET Positions,
           timeout : Nat, idle : Nat, layers : SUBSET Layers,
           behavior : BehaviorIds]

EmptyRecord == [active |-> FALSE, slow |-> FALSE, keys |-> {}, timeout |-> 0,
                idle |-> 0, layers |-> {}, behavior |-> ZeroId]

ASSUME TablesAssumption ==
  InitialTables \subseteq [Slots -> Record] /\ NewRecords \subseteq Record

\* struct lism_combo_record has room for MaxKeys positions.
ASSUME RecordsAssumption ==
  \A loaded \in InitialTables, s \in Slots : Cardinality(loaded[s].keys) <= MaxKeys

VARIABLES
  slots,                     \* the slot table
  pressed_keys,              \* captured key events; entries past the count are stale
  pressed_keys_count,
  candidates,                \* slots the captured keys may still complete
  fully_pressed_combo,       \* slot the captured keys complete, or NoSlot
  active_combos,             \* held combos: slot and the positions still held
  active_combo_count,
  timeout_task,              \* when the delayable work is due, or Never
  timeout_task_timeout_at,
  last_tapped_timestamp,
  last_combo_timestamp,
  released_keys,             \* return value of the last release_pressed_keys()
  stack,                     \* calls in progress on the workqueue
  now,                       \* k_uptime_get()
  flash,                     \* the table settings_save_one() last wrote
  edits,                     \* table edits so far (bounds the model)
  down,                      \* positions physically held
  other_layer,               \* highest layer on for another reason than a key or combo
  host,                      \* positions the keymap holds down
  held,                      \* presses minus releases of each slot's behavior
  arrival,                   \* history: pressed, neither passed on nor in a combo
  origin                     \* history: layer and last keystroke as the match began

matching == <<pressed_keys, pressed_keys_count, candidates, fully_pressed_combo, origin>>
pool     == <<active_combos, active_combo_count>>
timer    == <<timeout_task, timeout_task_timeout_at>>
taps     == <<last_tapped_timestamp, last_combo_timestamp>>
table    == <<slots, flash, edits>>
vars     == <<matching, pool, timer, taps, released_keys, stack, now, table,
              down, other_layer, host, held, arrival>>

-----------------------------------------------------------------------------
(* Predicates on a slot                                                    *)

key_count(s) == Cardinality(slots[s].keys)

slot_is_active(s) == slots[s].active /\ key_count(s) >= 2

slot_uses_position(s, p) == p \in slots[s].keys

slot_active_on_layer(s, layer) ==
  slots[s].layers = {} \/ layer \in slots[s].layers

is_quick_tap(s, timestamp) ==
  last_tapped_timestamp + slots[s].idle > timestamp

\* zmk_keymap_highest_layer_active(): external.  A key the keymap holds, a combo's
\* behavior or other work (the mouse layer's, say) turns the upper layer on.
highest_layer_active ==
  IF \/ host \cap LayerPositions # {}
     \/ \E s \in Slots : held[s] > 0 /\ slots[s].behavior \in LayerBehaviors
  THEN 1 ELSE other_layer

\* zmk_behavior_find_behavior_name_from_local_id(id) != NULL: external
resolves(id) == id \in ResolvedIds

\* Mutant: the layer of the slot is not looked at.
setup_candidates_on_any_layer(p, timestamp) ==
  {s \in Slots : slot_is_active(s) /\ slot_uses_position(s, p) /\ ~ is_quick_tap(s, timestamp)}

setup_candidates_for_first_keypress(p, timestamp) ==
  {s \in Slots : /\ slot_is_active(s)
                 /\ slot_uses_position(s, p)
                 /\ slot_active_on_layer(s, highest_layer_active)
                 /\ ~ is_quick_tap(s, timestamp)}

\* Mutant: no candidate is dropped for the keys it does not have.
filter_candidates_none(cands, p) == cands

filter_candidates(cands, p) == {s \in cands : slot_uses_position(s, p)}

\* Mutant: a candidate survives its own deadline.
filter_timed_out_candidates_late(cands, timestamp) ==
  {s \in cands : pressed_keys[1].timestamp + slots[s].timeout >= timestamp}

filter_timed_out_candidates(cands, timestamp) ==
  {s \in cands : pressed_keys[1].timestamp + slots[s].timeout > timestamp}

validate_record(rec) ==
  /\ Cardinality(rec.keys) \in 2 .. MaxKeys
  /\ rec.timeout > 0
  /\ resolves(rec.behavior)

-----------------------------------------------------------------------------
(* The timeout work item                                                   *)

first_candidate_timeout(keys, count, cands) ==
  IF count = 0 \/ cands = {} THEN Never
  ELSE keys[1].timestamp + Min({slots[s].timeout : s \in cands})

\* An item that was cancelled while its handler runs is being cancelled until
\* the handler returns: external, k_work_cancel_delayable().
canceling == \E i \in 1 .. Len(stack) : stack[i].op = "timed_out"

\* update_timeout_task() when first_candidate_timeout() returned `first`.
\* k_work_schedule() returns 0 and does nothing to an item that is scheduled or
\* being cancelled already, and the new deadline is recorded all the same.
timeout_at_after_update(first) == IF first = Never THEN 0 ELSE first

timeout_task_after_update(task, first) ==
  IF timeout_task_timeout_at = first THEN task
  ELSE IF first = Never THEN Never
  ELSE IF task = Never /\ ~ canceling THEN Max({first, now}) ELSE task

-----------------------------------------------------------------------------
(* The pool of held combos                                                 *)

FreeEntry == [slot |-> NoSlot, keys |-> {}]

\* Mutant: any entry will do.
any_entry == 1 .. MaxPressed

\* store_active_combo(): the first unused entry, if there is one.
free_entries == {i \in 1 .. MaxPressed : active_combos[i].slot = NoSlot}

\* Mutant: the entry is cleared where it is, and nothing takes its place.
deactivate_combo_in_place(combos, i) == [combos EXCEPT ![i] = FreeEntry]

\* Mutant: the last entry is cleared and never moved.
deactivate_last_combo(combos, i) == [combos EXCEPT ![active_combo_count] = FreeEntry]

\* deactivate_combo(): the last entry in use takes the place of the removed one.
deactivate_combo(combos, i) ==
  [combos EXCEPT ![i] = combos[active_combo_count], ![active_combo_count] = FreeEntry]

\* move_pressed_keys_to_active_combo(): how many of `count` captured keys the
\* combo takes, and the buffer left behind.
combo_length(s, count) == Min({count, key_count(s)})

\* Mutant: the keys behind the combo stay where they are.
not_shifted(keys, count, length) == keys

shifted(keys, count, length) ==
  [i \in 1 .. MaxKeys |->
     IF i + length <= count THEN keys[i + length] ELSE keys[i]]

positions_of(keys, first, last) == {keys[i].position : i \in first .. last}

\* invoke_slot_behavior() reaches the behavior only if the id resolves.
invoke_slot_behavior(s, delta) ==
  IF resolves(slots[s].behavior) THEN [held EXCEPT ![s] = @ + delta] ELSE held

-----------------------------------------------------------------------------
(* Calls on the stack of the workqueue                                     *)

Event == [position : Positions, timestamp : Nat]

Down(e)          == [op |-> "down", event |-> e]         \* position_state_down
Bubble(e)        == [op |-> "bubble", event |-> e]       \* ... returned BUBBLE
Up(e)            == [op |-> "up", event |-> e]           \* position_state_up
UpCleaned(e)     == [op |-> "up_cleaned", event |-> e]   \* ... after cleanup()
ReleaseLoop(i,n) == [op |-> "release", next |-> i, count |-> n]
ReleaseAgain     == [op |-> "release_again"]             \* end of cleanup()
TimedOut         == [op |-> "timed_out"]                 \* end of the handler
SetSlot(s, r)    == [op |-> "set", slot |-> s, record |-> r]
DeleteSlot(s)    == [op |-> "delete", slot |-> s]
ClearFrom(s)     == [op |-> "clear", slot |-> s]
ClearSlot(s)     == [op |-> "clear_slot", slot |-> s]    \* ... after quiesce

Idle    == stack = <<>>
top     == Head(stack)
rest    == Tail(stack)
Runs(op) == stack # <<>> /\ top.op = op

\* History: the presses left in seq when those at the positions P leave.  (A
\* SelectSeq, written out for the prover, which cannot expand SelectSeq.)
without(seq, P) ==
  LET kept[i \in 0 .. Len(seq)] ==
        IF i = 0 THEN <<>>
        ELSE IF seq[i] \in P THEN kept[i - 1] ELSE Append(kept[i - 1], seq[i])
  IN  kept[Len(seq)]

\* Mutant: the count is not reset before the loop.
release_without_reset(count, caller) ==
  /\ pressed_keys_count' = count
  /\ stack' = <<ReleaseLoop(1, count)>> \o caller

\* Mutant: the loop starts one key too late.
release_from_second(count, caller) ==
  /\ pressed_keys_count' = 0
  /\ stack' = <<ReleaseLoop(2, count)>> \o caller

\* release_pressed_keys() on `count` captured keys, then the calls in `caller`:
\* the count is reset before the loop starts.
release_pressed_keys(count, caller) ==
  /\ pressed_keys_count' = 0
  /\ stack' = <<ReleaseLoop(1, count)>> \o caller

\* activate_combo(s) and then the release at the end of cleanup().
activate_combo(s, keys, count, caller) ==
  \/ /\ free_entries = {}
     /\ pressed_keys' = keys
     /\ release_pressed_keys(count, <<ReleaseAgain>> \o caller)
     /\ UNCHANGED <<pool, last_combo_timestamp, held, arrival>>
  \/ /\ free_entries # {}
     /\ LET length == combo_length(s, count)
            taken  == positions_of(keys, 1, length)
        IN  /\ active_combos' = [active_combos EXCEPT
                                   ![Min(free_entries)] = [slot |-> s, keys |-> taken]]
            /\ active_combo_count' = active_combo_count + 1
            /\ pressed_keys' = shifted(keys, count, length)
            /\ last_combo_timestamp' =
                 IF ~ resolves(slots[s].behavior) THEN last_combo_timestamp
                 ELSE IF length = 0 THEN 0 ELSE keys[1].timestamp
            /\ held' = invoke_slot_behavior(s, 1)
            /\ arrival' = without(arrival, taken)
            /\ release_pressed_keys(count - length, caller)

\* History: what setup_candidates_for_first_keypress() saw of the keyboard.
Origin   == [layer : Layers, tapped : Nat \cup {LongAgo}]
NoOrigin == [layer |-> 0, tapped |-> LongAgo]
here     == [layer |-> highest_layer_active, tapped |-> last_tapped_timestamp]

\* cleanup(), with the match state its caller has reached.
cleanup(keys, count, full, caller) ==
  /\ timeout_task' = Never
  /\ candidates' = {}
  /\ fully_pressed_combo' = NoSlot
  /\ origin' = NoOrigin
  /\ \/ /\ full # NoSlot
        /\ activate_combo(full, keys, count, caller)
     \/ /\ full = NoSlot
        /\ pressed_keys' = keys
        /\ release_pressed_keys(count, caller)
        /\ UNCHANGED <<pool, last_combo_timestamp, held, arrival>>

\* The event goes on to the keymap.  A key bound to a plain keycode raises
\* keycode_state_changed, which comes back to keycode_state_changed_listener.
pass_down(e) ==
  /\ host' = host \cup {e.position}
  /\ arrival' = without(arrival, {e.position})
  /\ last_tapped_timestamp' =
       IF e.position \in TapPositions /\ e.timestamp > last_combo_timestamp
       THEN e.timestamp ELSE last_tapped_timestamp

pass_up(e) == host' = host \ {e.position}

-----------------------------------------------------------------------------
(* Key events                                                              *)

\* The user presses a key: a fresh event enters the listener chain.
Press(p) ==
  /\ Idle /\ p \notin down
  /\ now + PressGap <= LastPress
  /\ now' = now + PressGap
  /\ down' = down \cup {p}
  /\ arrival' = Append(arrival, p)
  /\ stack' = <<Down([position |-> p, timestamp |-> now'])>>
  /\ UNCHANGED <<matching, pool, timer, taps, released_keys, table, other_layer, host,
                 held>>

Release(p) ==
  /\ Idle /\ p \in down
  /\ down' = down \ {p}
  /\ stack' = <<Up([position |-> p, timestamp |-> now])>>
  /\ UNCHANGED <<matching, pool, timer, taps, released_keys, now, table, other_layer, host,
                 held, arrival>>

\* Mutant: a key no combo wants is passed on in the middle of a match, too.
DownIgnored_in_a_match ==
  /\ Runs("down")
  /\ setup_candidates_for_first_keypress(top.event.position, top.event.timestamp) = {}
  /\ pass_down(top.event)
  /\ stack' = rest
  /\ UNCHANGED <<matching, pool, timer, last_combo_timestamp, released_keys, now, table,
                 down, other_layer, held>>

\* position_state_down() of a first key no combo wants.
DownIgnored ==
  /\ Runs("down")
  /\ pressed_keys_count = 0
  /\ setup_candidates_for_first_keypress(top.event.position, top.event.timestamp) = {}
  /\ pass_down(top.event)
  /\ stack' = rest
  /\ UNCHANGED <<matching, pool, timer, last_combo_timestamp, released_keys, now, table,
                 down, other_layer, held>>

\* position_state_down() otherwise: narrow the candidates, capture the key,
\* and finish the match if it failed or nothing longer is possible.
DownCaptured ==
  /\ Runs("down")
  /\ LET e     == top.event
         fresh == setup_candidates_for_first_keypress(e.position, e.timestamp)
         first == pressed_keys_count = 0
         cands == IF first THEN candidates \cup fresh
                  ELSE filter_candidates(
                         filter_timed_out_candidates(candidates, e.timestamp), e.position)
         num   == Cardinality(IF first THEN fresh ELSE cands)
         room  == pressed_keys_count < MaxKeys
         keys  == IF room THEN [pressed_keys EXCEPT ![pressed_keys_count + 1] = e]
                  ELSE pressed_keys
         count == IF room THEN pressed_keys_count + 1 ELSE pressed_keys_count
         full  == {s \in cands : key_count(s) = count}
         due   == first_candidate_timeout(keys, count, cands)
         caller == IF room THEN rest ELSE <<Bubble(e)>> \o rest
     IN  /\ ~ (first /\ fresh = {})
         /\ timeout_task_timeout_at' = timeout_at_after_update(due)
         /\ \/ /\ num = 0
               /\ cleanup(keys, count, fully_pressed_combo, caller)
            \/ /\ num = 1 /\ full # {}
               /\ cleanup(keys, count, Min(full), caller)
            \/ /\ num # 0 /\ ~ (num = 1 /\ full # {})
               /\ pressed_keys' = keys
               /\ pressed_keys_count' = count
               /\ candidates' = cands
               /\ fully_pressed_combo' = IF full = {} THEN fully_pressed_combo ELSE Min(full)
               /\ origin' = IF first THEN here ELSE origin
               /\ timeout_task' = timeout_task_after_update(timeout_task, due)
               /\ stack' = caller
               /\ UNCHANGED <<pool, last_combo_timestamp, held, arrival>>
  /\ UNCHANGED <<last_tapped_timestamp, released_keys, now, table, down, other_layer, host>>

\* An event that found the buffer full goes on once cleanup() is done.
BubbleDown ==
  /\ Runs("bubble")
  /\ pass_down(top.event)
  /\ stack' = rest
  /\ UNCHANGED <<matching, pool, timer, last_combo_timestamp, released_keys, now, table,
                 down, other_layer, held>>

\* release_pressed_keys(): the first key continues down the chain ...
ReleaseFirstKey ==
  /\ Runs("release")
  /\ top.next = 1 /\ top.count >= 1
  /\ pass_down(pressed_keys[1])
  /\ stack' = <<ReleaseLoop(2, top.count)>> \o rest
  /\ UNCHANGED <<matching, pool, timer, last_combo_timestamp, released_keys, now, table,
                 down, other_layer, held>>

\* ... and every later one is raised from the start of the chain.
ReraiseKey ==
  /\ Runs("release")
  /\ top.next \in 2 .. top.count
  /\ stack' = <<Down(pressed_keys[top.next]), ReleaseLoop(top.next + 1, top.count)>> \o rest
  /\ UNCHANGED <<matching, pool, timer, taps, released_keys, now, table, down, other_layer,
                 host, held, arrival>>

ReleaseDone ==
  /\ Runs("release")
  /\ top.next > top.count
  /\ released_keys' = top.count
  /\ stack' = rest
  /\ UNCHANGED <<matching, pool, timer, taps, now, table, down, other_layer, host, held,
                 arrival>>

\* cleanup() after activate_combo() found no free entry.
CleanupReleasesAgain ==
  /\ Runs("release_again")
  /\ release_pressed_keys(pressed_keys_count, rest)
  /\ UNCHANGED <<pressed_keys, candidates, fully_pressed_combo, origin, pool, timer, taps,
                 released_keys, now, table, down, other_layer, host, held, arrival>>

\* position_state_up(): whatever was being matched is over ...
UpCleanup ==
  /\ Runs("up")
  /\ cleanup(pressed_keys, pressed_keys_count, fully_pressed_combo,
             <<UpCleaned(top.event)>> \o rest)
  /\ UNCHANGED <<timeout_task_timeout_at, last_tapped_timestamp, released_keys, now, table,
                 down, other_layer, host>>

\* Mutant: the last held combo is not looked at.
combos_with_but_last(p) == {i \in 1 .. active_combo_count - 1 : p \in active_combos[i].keys}

\* release_combo_key(): the first held combo that contains the position.
combos_with(p) == {i \in 1 .. active_combo_count : p \in active_combos[i].keys}

\* ... a key of a held combo is consumed,
UpHandled ==
  /\ Runs("up_cleaned")
  /\ combos_with(top.event.position) # {}
  /\ LET i         == Min(combos_with(top.event.position))
         s         == active_combos[i].slot
         all       == Cardinality(active_combos[i].keys) = key_count(s)
         remaining == active_combos[i].keys \ {top.event.position}
         combos    == [active_combos EXCEPT ![i].keys = remaining]
     IN  /\ held' = IF (slots[s].slow /\ remaining = {}) \/ (~ slots[s].slow /\ all)
                    THEN invoke_slot_behavior(s, -1) ELSE held
         /\ active_combos' = IF remaining = {} THEN deactivate_combo(combos, i) ELSE combos
         /\ active_combo_count' = IF remaining = {} THEN active_combo_count - 1
                                  ELSE active_combo_count
  /\ stack' = rest
  /\ UNCHANGED <<matching, timer, taps, released_keys, now, table, down, other_layer, host,
                 arrival>>

\* Mutant: the release is raised again also when nothing was released.
UpReraised_always ==
  /\ Runs("up_cleaned")
  /\ combos_with(top.event.position) = {}
  /\ stack' = <<Up(top.event)>> \o rest
  /\ UNCHANGED <<matching, pool, timer, taps, released_keys, now, table, down, other_layer,
                 host, held, arrival>>

\* ... the event follows the keys that were raised again,
UpReraised ==
  /\ Runs("up_cleaned")
  /\ combos_with(top.event.position) = {}
  /\ released_keys > 1
  /\ stack' = <<Up(top.event)>> \o rest
  /\ UNCHANGED <<matching, pool, timer, taps, released_keys, now, table, down, other_layer,
                 host, held, arrival>>

\* Mutant: the release goes on at once, past the keys raised again.
UpBubbles_at_once ==
  /\ Runs("up_cleaned")
  /\ combos_with(top.event.position) = {}
  /\ pass_up(top.event)
  /\ stack' = rest
  /\ UNCHANGED <<matching, pool, timer, taps, released_keys, now, table, down, other_layer,
                 held, arrival>>

\* ... or it goes on to the keymap.
UpBubbles ==
  /\ Runs("up_cleaned")
  /\ combos_with(top.event.position) = {}
  /\ released_keys <= 1
  /\ pass_up(top.event)
  /\ stack' = rest
  /\ UNCHANGED <<matching, pool, timer, taps, released_keys, now, table, down, other_layer,
                 held, arrival>>

-----------------------------------------------------------------------------
(* The timeout                                                             *)

\* The clock moves only between handlers.
Tick ==
  /\ Idle /\ now < MaxTime
  /\ now' = now + 1
  /\ UNCHANGED <<matching, pool, timer, taps, released_keys, stack, table, down,
                 other_layer, host, held, arrival>>

\* combo_timeout_handler() that comes too early for the recorded deadline.
TimeoutTooEarly ==
  /\ Idle /\ timeout_task # Never /\ timeout_task <= now
  /\ timeout_task_timeout_at = 0 \/ now < timeout_task_timeout_at
  /\ timeout_task' = Never
  /\ UNCHANGED <<matching, pool, timeout_task_timeout_at, taps, released_keys, stack, now,
                 table, down, other_layer, host, held, arrival>>

TimeoutExpires ==
  /\ Idle /\ timeout_task # Never /\ timeout_task <= now
  /\ timeout_task_timeout_at # 0 /\ now >= timeout_task_timeout_at
  /\ LET cands == filter_timed_out_candidates(candidates, timeout_task_timeout_at)
         due   == first_candidate_timeout(pressed_keys, pressed_keys_count, cands)
     IN  \/ /\ cands = {}
            /\ cleanup(pressed_keys, pressed_keys_count, fully_pressed_combo, <<TimedOut>>)
            /\ UNCHANGED timeout_task_timeout_at
         \/ /\ cands # {}
            /\ candidates' = cands
            /\ timeout_task' = timeout_task_after_update(Never, due)
            /\ timeout_task_timeout_at' = timeout_at_after_update(due)
            /\ UNCHANGED <<pressed_keys, pressed_keys_count, fully_pressed_combo, origin,
                           pool, last_combo_timestamp, stack, held, arrival>>
  /\ UNCHANGED <<last_tapped_timestamp, released_keys, now, table, down, other_layer, host>>

\* The update_timeout_task() at the end of the handler.
TimeoutReturns ==
  /\ Runs("timed_out")
  /\ LET due == first_candidate_timeout(pressed_keys, pressed_keys_count, candidates)
     IN  /\ timeout_task' = timeout_task_after_update(timeout_task, due)
         /\ timeout_task_timeout_at' = timeout_at_after_update(due)
  /\ stack' = rest
  /\ UNCHANGED <<matching, pool, taps, released_keys, now, table, down, other_layer, host,
                 held, arrival>>

-----------------------------------------------------------------------------
(* Other work items of the workqueue                                       *)

\* keycode_state_changed_listener() of a keycode that a gesture presses, or late the
\* behavior of a combo or a key.  (A keycode a combo presses at once has the time of the
\* combo, and the listener leaves it out.)
KeycodeRaised(timestamp) ==
  /\ Idle /\ OtherKeycodes
  /\ timestamp > last_combo_timestamp
  /\ last_tapped_timestamp' = timestamp
  /\ UNCHANGED <<matching, pool, timer, last_combo_timestamp, released_keys, stack, now,
                 table, down, other_layer, host, held, arrival>>

\* The mouse layer goes on or off, say, also while keys are captured.
LayerSwitches(layer) ==
  /\ Idle
  /\ other_layer' = layer
  /\ UNCHANGED <<matching, pool, timer, taps, released_keys, stack, now, table, down, host,
                 held, arrival>>

-----------------------------------------------------------------------------
(* Runtime configuration                                                   *)

\* Mutant: the captured keys are dropped, not released.
quiesce_match_dropping(caller) ==
  /\ pressed_keys_count' = 0 /\ candidates' = {} /\ fully_pressed_combo' = NoSlot
  /\ timeout_task' = Never
  /\ stack' = caller
  /\ UNCHANGED <<pressed_keys, origin, timeout_task_timeout_at, pool, taps, held, arrival>>

\* Mutant: the match in flight goes on with the table it did not begin with.
quiesce_match_ignored(caller) ==
  /\ stack' = caller
  /\ UNCHANGED <<matching, pool, timer, taps, held, arrival>>

\* The first half of quiesce_slot(): abort the match in flight, if there is
\* one, and go on with `caller`.
quiesce_match(caller) ==
  \/ /\ pressed_keys_count > 0 \/ candidates # {}
     /\ cleanup(pressed_keys, pressed_keys_count, NoSlot, caller)
     /\ UNCHANGED <<timeout_task_timeout_at, last_tapped_timestamp>>
  \/ /\ pressed_keys_count = 0 /\ candidates = {}
     /\ stack' = caller
     /\ UNCHANGED <<matching, pool, timer, taps, held, arrival>>

\* Mutant: the held combo is forgotten, its behavior left pressed.
quiesce_held_silently(s) ==
  LET entries == {i \in 1 .. active_combo_count : active_combos[i].slot = s}
  IN  \/ entries = {} /\ UNCHANGED <<pool, held>>
      \/ /\ entries # {}
         /\ active_combos' = deactivate_combo(active_combos, Min(entries))
         /\ active_combo_count' = active_combo_count - 1
         /\ UNCHANGED held

\* The second half: force-release the slot's combo if it is held.
quiesce_held(s) ==
  LET entries == {i \in 1 .. active_combo_count : active_combos[i].slot = s}
  IN  \/ entries = {} /\ UNCHANGED <<pool, held>>
      \/ /\ entries # {}
         /\ held' = invoke_slot_behavior(s, -1)
         /\ active_combos' = deactivate_combo(active_combos, Min(entries))
         /\ active_combo_count' = active_combo_count - 1

\* lism_combo_set() and lism_combo_delete() of a slot in range.
StartSet(s, rec) ==
  /\ Idle /\ edits < MaxEdits /\ validate_record(rec)
  /\ quiesce_match(<<SetSlot(s, rec)>>)
  /\ UNCHANGED <<released_keys, now, table, down, other_layer, host>>

StartDelete(s) ==
  /\ Idle /\ edits < MaxEdits
  /\ quiesce_match(<<DeleteSlot(s)>>)
  /\ UNCHANGED <<released_keys, now, table, down, other_layer, host>>

\* The table changes and is saved.
write_slot(s, rec) ==
  /\ slots' = [slots EXCEPT ![s] = rec]
  /\ flash' = slots'
  /\ edits' = edits + 1

FinishSet ==
  /\ Runs("set")
  /\ quiesce_held(top.slot)
  /\ write_slot(top.slot, [top.record EXCEPT !.active = TRUE])
  /\ stack' = rest
  /\ UNCHANGED <<matching, timer, taps, released_keys, now, down, other_layer, host,
                 arrival>>

FinishDelete ==
  /\ Runs("delete")
  /\ quiesce_held(top.slot)
  /\ write_slot(top.slot, EmptyRecord)
  /\ stack' = rest
  /\ UNCHANGED <<matching, timer, taps, released_keys, now, down, other_layer, host,
                 arrival>>

\* lism_combo_clear_all(): slot by slot, each active one quiesced on its own.
StartClearAll ==
  /\ Idle /\ edits < MaxEdits
  /\ stack' = <<ClearFrom(1)>>
  /\ UNCHANGED <<matching, pool, timer, taps, released_keys, now, table, down, other_layer,
                 host, held, arrival>>

ClearAllQuiesces ==
  /\ Runs("clear")
  /\ top.slot <= NumSlots /\ slot_is_active(top.slot)
  /\ quiesce_match(<<ClearSlot(top.slot)>>)
  /\ UNCHANGED <<released_keys, now, table, down, other_layer, host>>

ClearAllWipes ==
  /\ \/ Runs("clear_slot") /\ quiesce_held(top.slot)
     \/ /\ Runs("clear") /\ top.slot <= NumSlots /\ ~ slot_is_active(top.slot)
        /\ UNCHANGED <<pool, held>>
  /\ slots' = [slots EXCEPT ![top.slot] = EmptyRecord]
  /\ stack' = <<ClearFrom(top.slot + 1)>> \o rest
  /\ UNCHANGED <<matching, timer, taps, released_keys, now, flash, edits, down, other_layer,
                 host, arrival>>

ClearAllSaves ==
  /\ Runs("clear")
  /\ top.slot > NumSlots
  /\ flash' = slots
  /\ edits' = edits + 1
  /\ stack' = rest
  /\ UNCHANGED <<matching, pool, timer, taps, released_keys, now, slots, down, other_layer,
                 host, held, arrival>>

-----------------------------------------------------------------------------
(* Specification                                                           *)

\* Zero-initialised data; the table is what the settings backend loaded.
Init ==
  /\ slots \in InitialTables
  /\ flash = slots /\ edits = 0
  /\ pressed_keys = [i \in 1 .. MaxKeys |->
                       [position |-> CHOOSE p \in Positions : TRUE, timestamp |-> 0]]
  /\ pressed_keys_count = 0 /\ candidates = {} /\ fully_pressed_combo = NoSlot
  /\ active_combos = [i \in 1 .. MaxPressed |-> FreeEntry] /\ active_combo_count = 0
  /\ timeout_task = Never /\ timeout_task_timeout_at = 0
  /\ last_tapped_timestamp = LongAgo /\ last_combo_timestamp = LongAgo
  /\ released_keys = 0 /\ stack = <<>> /\ now = 0
  /\ down = {} /\ other_layer = 0 /\ host = {} /\ held = [s \in Slots |-> 0]
  /\ arrival = <<>> /\ origin = NoOrigin

\* Steps of a handler that is running.
Handler ==
  \/ DownIgnored \/ DownCaptured \/ BubbleDown
  \/ ReleaseFirstKey \/ ReraiseKey \/ ReleaseDone \/ CleanupReleasesAgain
  \/ UpCleanup \/ UpHandled \/ UpReraised \/ UpBubbles
  \/ TimeoutReturns
  \/ FinishSet \/ FinishDelete \/ ClearAllQuiesces \/ ClearAllWipes \/ ClearAllSaves

Timeout == TimeoutTooEarly \/ TimeoutExpires

Keys == \E p \in Positions : Press(p) \/ Release(p)

Edits ==
  \/ \E s \in Slots, rec \in NewRecords : StartSet(s, rec)
  \/ \E s \in Slots : StartDelete(s)
  \/ StartClearAll

Others ==
  \/ \E timestamp \in 0 .. now : KeycodeRaised(timestamp)
  \/ \E layer \in OtherLayers : LayerSwitches(layer)

Next == Handler \/ Timeout \/ Tick \/ Keys \/ Edits \/ Others

Spec == Init /\ [][Next]_vars

\* A handler on the workqueue runs to its end; the queue is first in first out,
\* so an item that is due is run although other handlers keep coming; and time
\* passes.  Nothing is assumed of the user.
FairSpec == Spec /\ WF_vars(Handler) /\ SF_vars(Timeout) /\ SF_vars(Tick)

-----------------------------------------------------------------------------
(* Properties                                                              *)

Frame ==
  [op : {"down", "bubble", "up", "up_cleaned"}, event : Event]
    \cup [op : {"release"}, next : 1 .. MaxKeys + 1, count : 0 .. MaxKeys]
    \cup [op : {"release_again", "timed_out"}]
    \cup [op : {"set"}, slot : Slots, record : Record]
    \cup [op : {"delete", "clear_slot"}, slot : Slots]
    \cup [op : {"clear"}, slot : 1 .. NumSlots + 1]

Entry == [slot : Slots \cup {NoSlot}, keys : SUBSET Positions]

\* Every variable keeps to the values its C type and its use admit: indexes
\* within the arrays they index, counts within the arrays they count.
\* (PressesConserved says what arrival is.)
TypeOK ==
  /\ slots \in [Slots -> Record] /\ flash \in [Slots -> Record] /\ edits \in Nat
  /\ pressed_keys \in [1 .. MaxKeys -> Event] /\ pressed_keys_count \in 0 .. MaxKeys
  /\ candidates \subseteq Slots /\ fully_pressed_combo \in Slots \cup {NoSlot}
  /\ active_combos \in [1 .. MaxPressed -> Entry] /\ active_combo_count \in 0 .. MaxPressed
  /\ timeout_task \in Nat \cup {Never} /\ timeout_task_timeout_at \in Nat
  /\ last_tapped_timestamp \in Nat \cup {LongAgo}
  /\ last_combo_timestamp \in Nat \cup {LongAgo}
  /\ released_keys \in 0 .. MaxKeys /\ stack \in Seq(Frame) /\ now \in Nat
  /\ down \subseteq Positions /\ host \subseteq Positions
  /\ other_layer \in Layers /\ origin \in Origin
  /\ held \in [Slots -> Int]

\* The key presses the matcher still holds, oldest first: the captured ones,
\* then those of the calls in progress, the running call first.
keys_of_call(f) ==
  IF f.op \in {"down", "bubble"} THEN <<f.event.position>>
  ELSE IF f.op = "release"
       THEN [i \in 1 .. f.count - f.next + 1 |-> pressed_keys[f.next + i - 1].position]
       ELSE <<>>

presses_in_matcher ==
  [i \in 1 .. pressed_keys_count |-> pressed_keys[i].position]
    \o FlattenSeq([i \in 1 .. Len(stack) |-> keys_of_call(stack[i])])

\* No key press is lost, duplicated or overtaken inside the matcher, although
\* release_pressed_keys() re-enters the matcher and overwrites the buffer it
\* is still reading: what is captured or on its way is exactly what was
\* pressed and has neither been passed on nor become part of a combo.
PressesConserved == presses_in_matcher = arrival

\* ... and presses leave the matcher, down the chain or into a combo, in the
\* order in which they were made.
PressesLeaveInOrder ==
  [][\/ \E p \in Positions : arrival' = Append(arrival, p)
     \/ IsSuffix(arrival', arrival)]_vars

held_combos == {i \in 1 .. MaxPressed : active_combos[i].slot # NoSlot}

\* deactivate_combo() keeps the pool dense: release_combo_key() and
\* quiesce_slot(), which look at the first active_combo_count entries, see
\* every held combo.
PoolDense == held_combos = 1 .. active_combo_count

captured_positions == positions_of(pressed_keys, 1, pressed_keys_count)
combo_positions == UNION {active_combos[i].keys : i \in held_combos}

\* Between handlers every key that is down is in exactly one place: captured,
\* part of one held combo, or down for the keymap; and nothing else is.
\* (A table edit drops a held combo whose keys are still down.)
KeysAccountedFor ==
  Idle =>
    /\ captured_positions \cap combo_positions = {}
    /\ captured_positions \cap host = {}
    /\ combo_positions \cap host = {}
    /\ \A i, j \in held_combos : i # j => active_combos[i].keys \cap active_combos[j].keys = {}
    /\ captured_positions \cup combo_positions \cup host \subseteq down
    /\ edits = 0 => down \subseteq captured_positions \cup combo_positions \cup host

\* No edit has been made and none is under way.
unedited ==
  /\ edits = 0
  /\ \A i \in 1 .. Len(stack) : stack[i].op \notin {"set", "delete", "clear", "clear_slot"}

\* A slot's behavior is held exactly while one held combo of the slot keeps it
\* so: until its last key is released for a slow combo, its first otherwise.
\* An edit may let go of it once more than it was pressed (quiesce_slot() does
\* not look at the keys that are left), but never leaves it held for nothing.
BehaviorsBalanced ==
  \A s \in Slots :
    LET keeping == {i \in held_combos :
                     /\ active_combos[i].slot = s
                     /\ resolves(slots[s].behavior)
                     /\ slots[s].slow \/ Cardinality(active_combos[i].keys) = key_count(s)}
    IN  /\ held[s] <= Cardinality(keeping)
        /\ unedited => held[s] = Cardinality(keeping)

\* A combo fires by pressing its own keys, all of them and no others: whatever
\* is left in a held combo is a key of its slot, and a slot that is fully
\* pressed has its keys at the front of the buffer.
CombosFireByTheirKeys ==
  /\ \A i \in held_combos : /\ active_combos[i].keys # {}
                            /\ active_combos[i].keys \subseteq slots[active_combos[i].slot].keys
  /\ fully_pressed_combo # NoSlot =>
       LET s == fully_pressed_combo
       IN  /\ key_count(s) <= pressed_keys_count
           /\ positions_of(pressed_keys, 1, key_count(s)) = slots[s].keys

\* Every candidate contains every captured key, and with nothing captured no
\* match is under way: a stale candidate would join the next match.
CandidatesFit ==
  /\ \A s \in candidates : captured_positions \subseteq slots[s].keys
  /\ pressed_keys_count = 0 => candidates = {} /\ fully_pressed_combo = NoSlot

\* A key release never overtakes a press: when a release reaches the keymap
\* every press before it has left the matcher, whatever cleanup() raised again
\* and the matcher captured anew.
ReleasesFollowPresses ==
  [][\A p \in Positions : p \in host \ host' => arrival = <<>>]_vars

new_combo(i) == active_combos[i].slot = NoSlot /\ active_combos'[i].slot # NoSlot

\* Layer and prior idle time of a slot are looked at when the first key of a match
\* comes, not again when the combo fires, and layers and keystrokes change meanwhile
\* (lism_runtime_combo.c:127-140 against lism_aml_temp_layer.c:85-128).  However many
\* handlers, timeouts and switches later a combo fires, it was in its place as that key
\* came, and it fires whole: no candidate of an earlier match, which began on another
\* layer or after another keystroke, joins this one.
CombosFireInTheirPlace ==
  [][\A i \in 1 .. MaxPressed : new_combo(i) =>
       LET s == active_combos'[i].slot
       IN  /\ slot_active_on_layer(s, origin.layer)
           /\ Cardinality(active_combos'[i].keys) = key_count(s)
           /\ origin.tapped + slots[s].idle <= pressed_keys[1].timestamp]_vars

loops == {i \in 1 .. Len(stack) : stack[i].op = "release"}

\* Re-raised keys re-enter the matcher at most MaxKeys - 1 deep, so the stack
\* of the workqueue bounds the recursion.
RecursionBounded == Cardinality(loops) <= MaxKeys

\* Every handler returns, the release loops and the re-raised releases included.
HandlersReturn == []<>Idle

\* With two-key combos that share one timeout, and presses at distinct times,
\* a captured key does not stay captured: it fires, or its timeout lets it go.
CapturedKeysLeave ==
  \A p \in Positions : p \in captured_positions ~> p \notin captured_positions

-----------------------------------------------------------------------------
(* What the matcher relies on                                              *)

\* Positions whose release is on its way through the calls q.
releasing(q) ==
  {q[i].event.position : i \in {j \in 1 .. Len(q) : q[j].op \in {"up", "up_cleaned"}}}

\* The pool suffices while it has an entry left, or the keys the user holds (one of
\* which may just be going up) are too few for a combo besides those it is full of.
PoolSuffices ==
  free_entries # {} \/ Cardinality(down \cup releasing(stack)) <= MaxPressed + 1

\* An edit finds at most one key captured: aborting the match then raises no key
\* again, and none starts another match under the old table.
CalmEdits == [][Edits => pressed_keys_count <= 1]_vars

-----------------------------------------------------------------------------
(* What the comments of the code say                                       *)

\* An edited combo that is held "is force-released so nothing ends up stuck"
\* (lines 428-430): with every key up, no behavior is held.
NothingEndsUpStuck == Idle /\ down = {} => \A s \in Slots : held[s] <= 0
==============================================================================
