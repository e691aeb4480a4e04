# A verification development for the LisM ZMK module

The repository is a ZMK (Zephyr) module for a split keyboard with a trackball: combos that
can be edited at run time over Bluetooth, live trackball settings, an automatic mouse layer, a
swipe-gesture detector, a cursor acceleration curve and a scroll-invert switch. This directory
holds TLA+ models of its core, the TLC runs that check them on small instances, and proofs,
checked by TLAPS, of what matters most for every value of the constants.

Source paths below are relative to the repository, whose C files are in `src/`.

## 1. Inventory

| Part | Source | State | Operations | Modelled in |
|---|---|---|---|---|
| Runtime combo matcher | `src/lism_runtime_combo.c` 51-419 | capture buffer, candidates, fully pressed slot, pool of held combos, one timeout work item, two timestamps | key down, key up, timeout, keycode seen | `LismCombo` |
| Combo table and persistence | `src/lism_runtime_combo.c` 421-617, `src/lism_combo.h` | slot table, `settings_found` | set, delete, clear all, load, save, seed the test combo | `LismCombo` (effect on a match), `LismComboRpc` (durability) |
| Combo RPC service | `src/lism_combo_rpc.c` | command queue, work item, last operation and result, subscription | write, (un)subscribe, process one command, dump the table | `LismComboRpc` |
| Automatic mouse layer | `src/lism_aml_temp_layer.c` | the layer, `is_active`, last keystroke, queue of layer actions, one idle timer per layer | motion, key press, keycode, layer change, idle timeout, action work | `LismAml` |
| Swipe gestures | `src/lism_gesture.c` | two accumulators, cooldown, pending binding, two work items | motion, press work, release work | `LismGesture` |
| Trackball RPC service | `src/trackball_rpc.c` | the settings, battery levels, subscription | write, subscribe, battery, layer and boot events | `LismTrackballRpc` |
| Cursor acceleration | `src/lism_accel_cursor.c` | four atomics, time of the last event | scale an event, set the curve | `LismAccel` (arithmetic), `LismTrackball` (reads against stores) |
| Scroll invert | `src/lism_runtime_scroll_invert.c` | one flag | set the flag, negate an event | the flag in `LismTrackballRpc`; the negation is not modelled |
| Build, devicetree bindings | `CMakeLists.txt`, `Kconfig`, `dts/`, `zephyr/` | limits and defaults | - | constants of the modules |

How they interact. Key events travel down ZMK's listener chain; the matcher sits in it and may
let an event pass, capture it, or raise captured ones again, so it calls itself through the
chain. Everything of the matcher, and every edit of its table, runs on the system workqueue.
The Bluetooth RX thread only queues commands and submits a work item; the work item runs one
command and notifies the app of the whole table. The mouse layer is driven from two contexts:
the input device (motion) and the workqueue (keys, timers, layer changes); a mutex, a message
queue and a work item join them. The trackball service keeps one set of settings and writes them,
from the Bluetooth thread, into the sensor and three processors: the scroll-invert flag, the idle
time of the mouse layer (`SetIdle` of `LismAml` is the other end of `ApplyAmlIdle` of
`LismTrackballRpc`) and the four parameters of the acceleration, which the input context reads. Its
battery and layer listeners run on the workqueue and notify the app too. The gesture detector
accumulates in the input context and presses and releases on the workqueue.

What is hard. (a) *Re-entrancy*: the loop that raises captured keys reads a buffer which the
calls it makes overwrite. (b) *Order*: a release must not overtake presses that were raised again.
(c) *Edits in the middle of a match.* (d) *Late and lost timeouts*: `k_work_schedule` does nothing
to an item its own handler has just cancelled. (e) *Two threads and a queue*: lost wake-ups, dumps
that are mixtures, answers that do not belong to their command. (f) *Power failures* and saves
that fail. (g) *Decisions made in one context and performed in another* in the mouse layer and the gestures.
(h) *Sharing without a lock*: settings, levels, packets and the acceleration parameters of the
trackball service.
`PROJECT.json` lists the hazards line by line with the properties that cover them.

## 2. The modules

| Module | What it is |
|---|---|
| `LismCombo` | the matcher and the edits of its table |
| `MCLismCombo` | slot tables for TLC: overlapping, nested, equal, layered combos |
| `LismComboProofs` | theorems about the matcher |
| `LismComboPressProofs` | theorems about the matcher: where the keys are, when combos fire, and that it is a `ComboEngine` |
| `LismComboRpc` | the table as the app and the flash see it: commands, dumps, reboots |
| `MCLismComboRpc` | two slots and a few commands for TLC |
| `LismComboRpcProofs` | theorems about the service |
| `LismAml` | the automatic mouse layer |
| `MCLismAml` | three layers for TLC |
| `LismAmlProofs` | theorems about the mouse layer |
| `ComboEngine` | what a combo engine promises of the keys that go through it (abstract) |
| `LismComboRefinement` | `LismCombo` as a `ComboEngine` |
| `DurableSettings` | what a settings service promises of what it tells the app (abstract) |
| `LismComboRpcRefinement` | `LismComboRpc` as a `DurableSettings` |
| `LismGesture` | the swipe-gesture detector and its two work items |
| `MCLismGesture` | motions for TLC |
| `LismGestureProofs` | theorems about the gestures |
| `LismTrackballRpc` | the trackball settings between two threads, the processors, the flash and the app |
| `LismAccel` | the arithmetic of the acceleration curve |
| `LismTrackball` | the service composed with a motion event that reads the curve |
| `MCLismTrackball` | settings and writes for TLC |
| `LismTrackballRpcProofs` | theorems about the service |
| `LismTrackballProofs` | theorems about the composition |
| `LismLemmas` | facts about `Min`, `Max`, `RemoveFirst` and `FlattenSeq` the proofs share |

### LismCombo

A handler is not one step. `release_pressed_keys()` raises events from inside the handler and
each re-enters the matcher, so the call stack of the workqueue is a variable, `stack`, and a step
is the code between two dispatches of an event. `Down(e)` and `Up(e)` are calls of
`position_state_down()` and `position_state_up()`; `UpCleaned(e)` is the latter after its
`cleanup()`; `ReleaseLoop(i, n)` is the loop of `release_pressed_keys()` with its index and count;
`ReleaseAgain`, `TimedOut`, `Bubble(e)` are what is left of `cleanup()`, `combo_timeout_handler()`
and a down event that found the buffer full; `SetSlot`, `DeleteSlot`, `ClearFrom`, `ClearSlot` are
edits that wait for the abort of the match. A handler is over when the stack is empty (`Idle`),
and only then does another work item, a key or a tick come.

Variables have the names of the C variables. `pressed_keys` keeps the entries behind its count,
because the release loop and `first_candidate_timeout()` read them. Behind the code's state there
are the environment (`down`: keys physically held; `host`: keys the keymap holds down; `other_layer`:
the layer others have put on top), the effect (`held`: presses minus releases of each slot's behavior)
and two history variables: `arrival`, the presses that have neither been passed on nor become part of
a combo, and `origin`, the layer and the last keystroke as the match under way began.

The layer and the last keystroke change with keys passed on, with combos that fire
(`LayerBehaviors`), and between handlers by the doing of others, `Others`: the mouse layer's work and
the behaviors of gestures, macros and hold-taps run on the same workqueue and switch layers
(`LayerSwitches`, `OtherLayers`) and raise keycodes (`KeycodeRaised`, `OtherKeycodes`) while keys are
captured. The matcher looks at neither after the first key of a match
(`lism_runtime_combo.c:127-140`), so a combo of layer 0 may fire after the mouse layer went on
(`lism_aml_temp_layer.c:85-128`) or shortly after a keystroke: `CombosFireInTheirPlace` is a statement
about the place the *first* key of the combo was pressed in, and no more than that is true.

A record's key positions are a set: `validate_record` refuses duplicates and the order is never
used. Behaviors are ids that resolve or not. The ids, parameters and usage pages are data no
property tells apart and are left out.

Modelled from their use (external): the keymap (layers, keycodes raised by a key), the kernel's
delayable work - including that an item being cancelled by its own handler cannot be scheduled
until the handler returns (`canceling`) - and the settings backend.

### LismComboRpc

The Bluetooth thread (`Write`, `WriteSubmits`, `Subscribe`, `Unsubscribe`) and the work item
(`TakeCommand`, `SaveSlots`, `Resubmit`, `TakeNothing`, `SendBegin`, `SendRecord`, `SendEnd`,
`NotifyGivesUp`) interleave at every point where the code sleeps or calls out. A command is what
it leaves in the table; what an edit does to a match is the subject of `LismCombo`. `mirror` is
the last dump the app saw to its end and `in_flight` the requests it waits for an answer to. A
`DUMP_END` carries the last operation and its result and no more, so the app takes any for the
answer to its oldest request, that of a subscription's dump as well.
`Reboot` may happen between any two steps. The ten attempts of `notify_packet()` are one step that
succeeds or gives up.

### LismAml

Each handler holds the mutex from its first to its last access and is one step; the action work,
which holds it while it empties the message queue, is `ActionWorkStarts`, one `PerformAction` for
each message, and `ActionWorkEnds`, with `draining` the mutex. `set_layers` is a change of the
keymap's layers *with* the `layer_state_changed` event it raises, which is handled before the call
returns. Timers (`disable_at`) and the submitted work items (`workqueue`, first in first out) are
the kernel's. The clock waits for nothing on the workqueue: a dump of the combo service sleeps on it,
up to 100 ms for each packet (`lism_combo_rpc.c:91-97`), so a callback may be late by any time. The
history variable `lost` says that the last deactivation was dropped, because the queue of actions was
full and no timer was left.

### LismGesture

`Motion(dx, dy)` is the whole handler for one axis: nothing while the cooldown lasts, else it
accumulates, and a swipe over the threshold leaves `pending_binding` and submits `press_work`.
`PressWork` and `ReleaseWork` are the two callbacks, `ReleaseDue` the timer of the second. The
workqueue serves its items in order and may be late; `MaxLate` says by how much at most. Nothing in
the code but the cooldown keeps a second swipe from the pending binding, so the properties are about
configurations with `CooldownCoversTap`: the cooldown outlasts a tap whose press and release are as
late as they can be. The defaults of the code (300 ms, with a tap of 20 ms) leave each of the two
work items 139 ms to be late.

### LismTrackballRpc

A write changes the state, then makes a number of calls: it applies, saves and notifies. Each call is
a step, and `todo` is what a thread has still to call. A notification builds its packet
(`BuildPacket`) and sends it (`Send`) in two steps, between which the other thread may build and send
one of its own. `mirror` is the last packet of each kind that arrived; `newest` and `overtaken`
remember which of two packets is older, so that a packet that arrives after a newer one counts as
`Lost`. `Reboot` may happen between any two calls. `StoreAccel` is one of the four stores of
`trackball_rpc_apply_accel()`.

### LismAccel and LismTrackball

`LismAccel` has the arithmetic of the handler: products of `int32_t`, C's division and the cut to 16
bits. A product that fits 32 bits has one value; one that does not is undefined in C, and its outcome
is any of `Overflows`. Speeds, multipliers and results are therefore sets of numbers.
`LismTrackball` interleaves the handler's reads of switch, kick-in, ramp and maximum with the
service's stores, so that an event may see half of each of two curves. `InRange(e)` says of an event
that no product of lines 79-83 and no conversion to 16 bits overflows for it. `StoredStates` are the
states the flash may hold at the first boot, so a run may begin with the acceleration switched on.

### The abstract specifications

`ComboEngine` knows the keys held, the presses not let go yet (`pending`), the keys down downstream
and the keys in combos. Presses leave in their order, one by one or as the whole of a combo, and no
release overtakes them. `LismComboRefinement` maps `pending` to `arrival`: capture buffer, candidates,
timeouts and re-entrant calls are ways of keeping presses pending. An edit of the table is the engine's
`Edit`: other sets of keys are combos from then on and a held combo may be let go, but no press is
touched.

`DurableSettings` has the settings in RAM, in the flash and as the app knows them, and allows the app
to be told only what is stored. `LismComboRpcRefinement` maps the knowledge of the app to the last
dump that came to its end.

## 3. The runs

Passing runs (bounds in brackets):

| Run | What it shows |
|---|---|
| `combo` | [4 keys of which 3 are down at a time, three tables of up to 3 combos, a pool of 2, time 0 and 1, one edit of one of the tables] the tables have overlapping and nested combos, layers, a prior idle time, a slow release and a slot without behavior; the pool fills while a match is in progress, and a table is edited while combos are held and at most one key is captured. With the layered table others switch layers and raise keycodes between any two handlers. The matcher implements `ComboEngine` (`ImplementsEngine`): no press is lost, doubled or overtaken, whole combos leave the buffer, releases follow presses. Each key is in one place (`PressesConserved`, `KeysAccountedFor`), behaviors are balanced and none stays pressed (`NothingEndsUpStuck`), candidates contain the captured keys (`CandidatesFit`), and combos fire by their keys and only if their slot allowed it where and when their first key was pressed, also after keys were raised again. This is what the theorems that assume `PoolSuffices` and `CalmEdits` say, on small instances |
| `combo_edits` | [4 keys, 3 slots, buffer of 2, pool of 1, presses at time 0, 2 ticks, one edit at any time, keycodes raised by others] the buffer and the pool fill, two combos with the same keys wait for their timeout, and a slot is set, deleted or all are cleared in the middle of it: presses stay conserved and in order, keys are accounted for, the recursion is bounded |
| `combo_timeouts` | [two-key combos with one timeout, 7 ticks, fair] handlers return and no key stays captured |
| `aml` | [3 layers, queue of 2, 4 ticks, a late workqueue, live idle time] flag and layer agree, queued actions are served and never stale |
| `aml_idle` | [queue of 2, 7 ticks, fair, a workqueue late by any time, only the mouse layer changes, the idle time positive] the layer goes off after the trackball rests, unless the deactivation is dropped because the queue is full |
| `rpc` | [2 slots, queue of 2, 3 writes, 2 subscriptions, 1 power failure, failing notifications] queued commands are served, dumps are snapshots, the mirror is current, acknowledged changes are durable if saves succeed, and the service implements `DurableSettings` |
| `rpc_live` | [2 slots, queue of 2, 3 writes, 2 subscriptions, fair, the test combo, failing saves] every accepted command is processed, and as long as notifications succeed the app never waits for more answers than the keyboard is still going to give (`NoRequestIsForgotten`), whenever it subscribes and writes |
| `gesture` | [threshold 3, motions of 1 and 2 either way, cooldown 4, tap 1, lateness 1, motion until 10, fair] with the shortest cooldown that covers a late tap no gesture is overwritten, no key stays down or is released unpressed, and every gesture ends |
| `trackball` | [2 writes of 12 kinds, one battery or layer event or power failure, one subscription, refusing sensor, failing saves and notifications, motion on the ramp and motion too fast for 32 bits, a flash that is empty or has the acceleration on] sensor and processors work with what the service keeps, answers are durable, a subscribed app is up to date unless its last packet was lost or overtaken, and a motion scaled with a mixture of the curves before, between and after two writes stays between itself and what its maximum allows, unless a product overflows |

Runs that must be violated: the code disagrees with what the repository says of it. Each is a
finding of `PROJECT.json`, with the quoted line.

| Run | Disagreement |
|---|---|
| `combo_edit_stuck` | aborting a match for an edit starts a new one, which is in flight while the table changes and may fire with a record of another length, whose behavior is then never released |
| `aml_stranded` | a layer change between queued activation and its work cancels the idle timer; the layer stays on |
| `rpc_answers` | the dump of a subscription ends in a `DUMP_END` too, which the app takes for the answer to a command it has written meanwhile, and answers shift by one |

**Hazards without a run.** Some things the code does are nowhere promised against, or are only
reached with an option for hardware tests; they are listed with the hazards of `PROJECT.json` and can
be seen with a change of a cfg:

- a failed save is acknowledged as ok (`SaveFails = TRUE` in `LismComboRpc.cfg`: `AckedIsDurable` and
  `ImplementsDurableSettings` fail);
- the test combo is seeded over a table the app has emptied since the boot, and without a dump
  (`TestCombo = TRUE` in the same file: `ImplementsDurableSettings` fails);
- with the pool full and two more keys down the keys are released twice and candidates of the match begun
  in between are left behind (`CandidatesFit` in `LismComboEdits.cfg` fails);
- an edit of a combo that let go of its behavior with its first key lets go of it again
  (`BehaviorsBalanced` without `unedited`);
- a gesture whose work items are later than the cooldown covers is overwritten and its key stays down
  (`CooldownMs = 3` in `LismGesture.cfg`: `HeldKeyIsPending` fails);
- a dump that is given up has no `DUMP_END`, and its command is never answered (`NotifyFails = TRUE` in
  `LismComboRpcLive.cfg`: `NoRequestIsForgotten` fails);
- with the queue of layer actions full, two activations behind a late workqueue, the deactivation is
  dropped and the mouse layer stays on until motion, a key or another layer ends it (`LayerGoesOff`
  without `\/ lost` fails in `LismAmlIdle.cfg`);
- a combo fires after its layer lost the top, or too soon after a keystroke, if that came after its first
  key (`CombosFireInTheirPlace` with `highest_layer_active` for `origin.layer` fails in `LismComboAll.cfg`);
- a keystroke between the decision to activate the mouse layer and the work that performs it does not
  stop the activation;
- a packet of the trackball service may be overtaken by one the other thread built before it;
- a scaled motion may leave 16 bits and turn round, for large maxima (line 83 of
  `lism_accel_cursor.c`), and the product of line 79 leaves 32 bits for more than 21 475 counts in a
  millisecond at a kick-in of 400 (`MixedCurvesAreBounded` without `InRange` fails in `LismTrackball.cfg`).

**Bounds.** Time is counted in ticks and timeouts are 1 or 2 of them: what matters is the order of
deadlines, presses and ticks, and with `PressGap = 0` any number of keys may be pressed between two
ticks. In `combo` keys are pressed at two ticks and the timeouts of one tick expire; in
`combo_edits` keys are pressed in one tick and both timeouts expire, the work scheduled again for
the second. In `combo` the three keys a user may hold fill the pool of two and leave one to be
captured, and the edit gives a combo other keys, another length and a prior idle time, so that a
match in flight, were it not aborted, would fire by the wrong keys or too soon; the constraints of
the environment, also that others switch layers and raise keycodes with the layered table only, are in
`CalmNext` of `MCLismCombo`. Three key combos with a two-key combo inside are
the smallest that make a released key start a nested match; the stuck behavior of `combo_edit_stuck`
needs four. A buffer of two and a pool of one are the smallest that fill. Releases raised again need
a buffer of three, which `combo` has. Two slots suffice for a dump to mix, two queue entries for the
queue to hold one command while another is processed and to be full. `LastPress`, `MaxTime`,
`LastMotion`, `MaxEdits`, `MaxWrites`, `MaxSubscribes` and `MaxReboots` bound the counters and are
guards of the actions of the environment only. In `gesture` the time left after `LastMotion` is
enough for the last tap; the accumulators' range and two full gestures one after the other fit. In
`trackball` two writes are needed for a speed written in the other speed's turn, or a switch
followed by a parameter; one event is enough for the threads to overlap, and one subscription for a
packet to be pending when it comes. One of the two motions is on the ramp, and negative; the other
overflows line 79, with the outcome a 32-bit machine wraps to. As the flash may have the acceleration
switched on, both writes can replace parameters of a curve in use: kick-in 100 instead of 400 and a
maximum of 50 instead of 140 give four curves, and the events read mixtures of them. `BoundedNext` of
`MCLismTrackball` has motion only before the first event of the workqueue: neither reads or writes
anything the other does. Other values of motion and curve are the theorem's.

Deadlock is checked in the runs whose environment always has a step left. `CHECK_DEADLOCK FALSE`
stands where a bound ends the run with the system at rest: the passing runs of the matcher (no key is
pressed after `LastPress`, the clock stops at `MaxTime`), `aml_idle`, `gesture` (no motion after
`LastMotion`), and the RPC and trackball runs (the app stops writing).

**Fairness.** `LismCombo`: weak fairness of a running handler (the workqueue's thread runs), strong
fairness of the timeout work and of the clock (both are enabled only between handlers, and other
handlers keep coming; the queue is first in first out, so an item that is due is reached). `LismAml`:
weak fairness of the work items, of the kernel's timeouts and of the clock; a work item may be late by
any time, and is only assumed to run some day. `LismComboRpc`: weak
fairness of the two threads. `LismGesture`: weak fairness of the workqueue, the timer and the clock. Nothing is assumed of the user, the app or the trackball.
`CapturedKeysLeave` needs presses at distinct times and combos of two keys with one timeout: with
several timeouts the deadline of a match can be recorded without the work being scheduled (hazard at
line 316), and then only the next key event ends the match.

**Mutants.** Every property of a passing run has at least one mutant: a definition of the model
changed the way a plausible bug would change the code. They stand before the definition they replace
and are marked "Mutant".

## 4. The proofs

All proofs are checked to the last leaf. They assume only the named `ASSUME`s of the modules, and
what a theorem's statement says.

| Theorem | Statement | Argument |
|---|---|---|
| `LismComboProofs!TypeCorrect` | `Spec => []TypeOK` | `TypeOK` alone is not inductive: that the buffer's index stays in range needs that a release loop's count is at most the buffer's, that a held combo is removed from a place in use, and that the pool is dense. The invariant is proved together with the density of the pool, one lemma for each of the code's procedures |
| `LismComboProofs!PoolStaysDense` | `Spec => []PoolDense` | the used entries are `1 .. active_combo_count`; storing takes the first free entry (a least element, `MinOfNaturals`), removing moves the last |
| `LismComboProofs!RecursionStaysBounded` | `Spec => []RecursionBounded` | each loop but the running one has raised at least two keys, and a loop that has raised `k` keys has at most `k - 2` captured behind it; so the counts of the loops in progress grow outwards and are different numbers up to `MaxKeys` |
| `LismComboPressProofs!PressesStayConserved` | `Spec => []PressesConserved` | `arrival` is the captured keys followed by what each call on the stack is still to raise. The entries a loop has not raised yet lie behind those captured since, because loops nest (the invariant of `RecursionStaysBounded`), so nothing overwrites them |
| `LismComboPressProofs!KeysStayAccountedFor` | `Spec => []KeysAccountedFor` | no key is twice in `arrival`; a key is pressed into it, leaves it for the keymap or for one entry of the pool (`Places`), and is released where it is |
| `LismComboPressProofs!ReleasesFollow` | `Spec => ReleasesFollowPresses` | after `cleanup()` has raised its keys at most the key that triggered it is pending, so the release that follows has nothing before it |
| `LismComboPressProofs!FewKeysSuffice` | `Spec /\ [](Cardinality(down) <= MaxPressed + 1) => []PoolSuffices` | a key is counted from its press until the call of its release is over (`FewKeys`), and only the root of a handler is such a call |
| `LismComboPressProofs!CandidatesStayFit` | `Spec /\ []PoolSuffices /\ CalmEdits => []CandidatesFit` | a match in progress keeps candidates that contain its keys; only an edit that raises keys again or the second release of a full pool would run `cleanup` with candidates of a match it did not begin |
| `LismComboPressProofs!CombosFireByKeys` | same conditions: `[]CombosFireByTheirKeys` | `FireInv`: the entries in use hold keys of their slots, no slot has two (`OwnKeys`), and a slot fully pressed has its keys at the front of the buffer. A captured key is new (no key is twice in `arrival`), so a candidate with as many keys as are captured has just these |
| `LismComboPressProofs!NothingStaysStuck` | same conditions: `[]NothingEndsUpStuck` | `balance`, how often a behavior is held beyond the entries that keep it held, is never above 0: activation and release keep it, an edit removes at most one entry of a slot that has only one, and writes the slot when it has none. With every key up the pool is empty |
| `LismComboPressProofs!BehaviorsStayBalanced` | same conditions: `[]BehaviorsBalanced` | the balance is never above 0, as before, and 0 until an edit begins (`Balances`): only the calls of an edit, which `EditingShows`, disturb it |
| `LismComboPressProofs!CombosFireInPlace` | `Spec /\ []PoolSuffices /\ CalmEdits => CombosFireInTheirPlace` | the candidates are chosen as the first key comes and only grow fewer, so each of them, and the slot fully pressed, fits the layer and the keystroke the match began under (`MatchInv`, which speaks of `origin`); whatever others do to layers and keystrokes in between leaves `origin` alone. This needs that a full buffer is that of a complete combo (`RecordsAssumption`: a record has room for `MaxKeys` positions), so that a key that finds no room is passed on last (`BubblesLast`) |
| `LismComboPressProofs!MatcherIsAnEngine` | same conditions: `ImplementsEngine` | `PassesOn`: a press that goes on is the oldest, because the matcher has captured nothing then; `CleanupCombines`: a match that ends takes a complete combo off the front of `arrival`, or nothing; `UpHandledCombines`, `UpBubblesPasses`: a release finds its key in one place and no press before it; an edit is the engine's; every other step stutters |
| `LismComboPressProofs!PressesLeaveOrdered` | same conditions: `PressesLeaveInOrder` | from the steps of the engine: each appends to `pending` or leaves a suffix of it |
| `LismComboRpcProofs!TypeCorrect` | `Spec => []TypeOK` | inductive |
| `LismComboRpcProofs!NoLostWakeup` | `Spec => []QueuedCommandsAreServed` | inductive on the types: every step that leaves a command in the queue leaves a submitter |
| `LismComboRpcProofs!DumpsStaySnapshots` | `Spec => []DumpsAreSnapshots` | only the workqueue changes the table, and not in the phase `dump` |
| `LismComboRpcProofs!MirrorStaysCurrent` | `~ TestCombo => (Spec => []MirrorIsCurrent)` | on top of the snapshot: the table differs from the mirror only on the way from a command to its `DUMP_END`, or while `dirty` |
| `LismComboRpcProofs!RequestsStayAnswered` | `~ NotifyFails => (Spec => []NoRequestIsForgotten)` | with two facts more it is inductive (`AnswerInv`): nobody waits who is not subscribed, so a dump that is given up is missed by nobody, and a command's number is not 0, so the handler that takes it has it to answer |
| `LismComboRpcProofs!AcksAreDurable` | `~ SaveFails => (Spec => []AckedIsDurable)` | strengthened with the phases before the dump |
| `LismComboRpcProofs!ServiceIsDurable` | `~ SaveFails /\ ~ TestCombo => (Spec => ImplementsDurableSettings)` | one lemma per step of the service; that the app is told only what is stored needs that in the phase of the dump RAM and flash agree, on top of the invariants of `LismComboRpcProofs` |
| `LismGestureProofs!GestureTyped` | `Spec => []TypeOK` | an accumulator that reaches the threshold is reset by the same motion, so one that is kept is below it |
| `LismGestureProofs!HeldKeyStaysPending`, `GesturesStayPressed` | `CooldownCoversTap => (Spec => []...)` | the stages of a gesture: fired, pressed, due, released, each with the time by which it is over. The sum of these times is under the cooldown, so the next `Motion` over the threshold finds no binding pending |
| `LismTrackballRpcProofs!SettingsTyped` | `Spec => []TypeOK` | the calls still to come are those of a write, so at most six |
| `LismTrackballRpcProofs!WritesAreApplied` | `Spec => []AppliedIsCurrent` | inductive form: each target is current *or the call that sets it is still to come* |
| `LismTrackballRpcProofs!WritesAreDurable` | `Spec => []AnswersAreDurable` | the same for the flash: stored, unsaved, or `save` comes before `notify_state` |
| `LismTrackballRpcProofs!MirrorStaysCurrent` | `Spec => []MirrorIsCurrent` | the app is told, or a thread is still to build a packet, or the newer of the packets built is current and the older will count as overtaken |
| `LismTrackballProofs!ServiceIsUndisturbed` | `TrackballSpec => Spec` | the composition steps or stutters in the service, which transfers the four theorems to it |
| `LismTrackballProofs!MixedCurvesStayBounded` | `TrackballSpec => []MixedCurvesAreBounded` | for all motions, parameters and outcomes of an overflow; the property itself is about events that are `InRange`. Lemmas about C's division, the products and the ramp: what fits for the whole ramp fits for each part of it (`SmallerFits`), so the multiplier lies between 100 and the maximum whatever the other parameters are (`MultiplierRange`), and scaling is monotone (`ScaledRange`) |
| `LismAmlProofs!TypeCorrect` | `Spec => []TypeOK` | inductive |
| `LismAmlProofs!ActionsStayServed` | `Spec => []ActionsAreServed` | inductive on the types: cancelling a timer takes no action work off the queue (`RemoveFirstKeeps`) |
| `LismAmlProofs!ActivationsStayFresh` | `Spec => []NoStaleActivation` | inductive: the flag is set only while the queue is being drained |
| `LismAmlProofs!ActiveLayerStaysOn`, `NoLayerStaysBehind` | with `OneMouseLayer` and `PlainIndices`: `Spec => []ActiveLayerIsOn`, `Spec => []NoLayerLeftBehind` | together, strengthened with `LayerIsSettled`: a pending activation or an active flag means that `toggle_layer` is the mouse layer, so the next motion does not change it under the flag |

Only model-checked: the liveness properties (`HandlersReturn`, `CapturedKeysLeave`, `LayerGoesOff`,
`CommandsGetProcessed`, `GesturesEnd`), because the prover has no `ENABLED`; and `PressesLeaveInOrder` with
any edits and a full pool (run `combo_edits`).

**The conditions on pool and edits.** The theorems on combos hold of the code under two conditions, and
neither can be dropped.

- `PoolSuffices`: the pool has a free entry, or the keys held are at most one more than the pool has
  entries. A full pool holds a key in each entry, so with one more key no combo can be complete, and a
  combo that fires finds an entry (`Room`). With two more a combo of two finds none: the code then
  releases its keys twice, and may leave candidates behind that do not fit (`combo_edits` has the case).
  `FewKeysSuffice` turns the condition into one on the user alone: with
  `CONFIG_LISM_COMBO_RPC_MAX_PRESSED` entries, hold at most that many keys and one.
- `CalmEdits`: an edit finds at most one key captured. The abort of the match then raises one key as the
  first of a loop, which goes straight to the keymap and starts nothing; the handler of the edit has
  one of the shapes of `Editing`, and every other handler calls only what `PlainCalls` lists. With two
  captured keys the second is raised through the matcher again and may start a match under the table
  about to change; that this goes wrong is what `combo_edit_stuck` shows.

`MatcherInv` is the inductive invariant of all these theorems: the invariants of the part without
conditions, one of the two shapes of the stack, `CandidatesFit`, `FireInv`, `MatchInv` and
`BubblesLast`. None of its parts is inductive alone: a candidate that does not fit could complete a combo by
keys that are not its own, and a combo that is not complete would leave keys behind a full buffer.

## 5. Not modelled

Left out: the GATT attribute table and the wire layout of a record (a build assertion ties it to the
struct), logging, the negation of a scroll event, the build files, and ZMK and Zephyr themselves, which appear as the
operators marked external. The matcher's bitmask of candidates is a set, so its limit of 32 slots,
which a build assertion guards, is not a question the model asks. Several instances of the mouse
layer processor share one queue and one action work that serves the first instance only; the model
has one instance. The acceleration's switch is read together with the start of an event, and the
conversion of the settings to and from packets is data no property tells apart. How long a dump holds
the workqueue is real time, which the models only have as "the workqueue may be late".

## 6. Plan

1. *Done:* every component with state of its own, their runs, two refinements, and a theorem for every
   invariant, action property and refinement that a passing run checks.
2. *Done:* what an edit or a full pool may do to the properties of combos, as a condition on the edit and
   on the user under which they hold.
3. Left: a measure of the calls on the stack that every step of a handler lowers, which is the safety part of
   `HandlersReturn`; and a composition of the matcher with the combo service, in which the edits of
   the one are the commands of the other.
