---------------------------- MODULE LismComboProofs ----------------------------
(***************************************************************************)
(* Theorems about the combo matcher, for any slot table, any number of     *)
(* keys, slots and held combos, and any edits.  TypeOK and PoolDense are   *)
(* inductive together: an entry of the pool is found free only because the *)
(* used ones are the first active_combo_count.                             *)
(***************************************************************************)
EXTENDS LismCombo, LismLemmas, SequenceTheorems, TLAPS

-----------------------------------------------------------------------------
(* Calls on the stack                                                      *)

LEMMA EventFrames ==
  ASSUME NEW e \in Event
  PROVE  Down(e) \in Frame /\ Bubble(e) \in Frame /\ Up(e) \in Frame /\ UpCleaned(e) \in Frame
BY DEF Down, Bubble, Up, UpCleaned, Frame

LEMMA ReleaseFrames ==
  ASSUME NEW n \in 1 .. MaxKeys + 1, NEW c \in 0 .. MaxKeys
  PROVE  ReleaseLoop(n, c) \in Frame /\ ReleaseAgain \in Frame /\ TimedOut \in Frame
BY DEF ReleaseLoop, ReleaseAgain, TimedOut, Frame

LEMMA EditFrames ==
  ASSUME NEW s \in Slots, NEW rec \in Record
  PROVE  SetSlot(s, rec) \in Frame /\ DeleteSlot(s) \in Frame /\ ClearSlot(s) \in Frame
BY DEF SetSlot, DeleteSlot, ClearSlot, Frame

LEMMA ClearFrames ==
  ASSUME NEW s \in 1 .. NumSlots + 1
  PROVE  ClearFrom(s) \in Frame
BY DEF ClearFrom, Frame

\* What the name of a call says of its fields.
LEMMA FrameFields ==
  ASSUME NEW f \in Frame
  PROVE  /\ f.op \in {"down", "bubble", "up", "up_cleaned"} => f.event \in Event
         /\ f.op = "release" => f.next \in 1 .. MaxKeys + 1 /\ f.count \in 0 .. MaxKeys
         /\ f.op \in {"set", "delete", "clear_slot"} => f.slot \in Slots
         /\ f.op = "set" => f.record \in Record
         /\ f.op = "clear" => f.slot \in 1 .. NumSlots + 1
BY DEF Frame

LEMMA StackPops ==
  ASSUME stack \in Seq(Frame), stack # <<>>
  PROVE  top \in Frame /\ rest \in Seq(Frame)
BY HeadTailProperties DEF top, rest

LEMMA StackPushes ==
  ASSUME NEW f \in Frame, NEW caller \in Seq(Frame)
  PROVE  <<f>> \o caller \in Seq(Frame)
BY ConcatProperties

-----------------------------------------------------------------------------
(* Numbers                                                                 *)

LEMMA ConstantFacts ==
  /\ NumSlots \in Nat \ {0} /\ MaxKeys \in Nat \ {0} /\ MaxPressed \in Nat \ {0}
  /\ Slots \subseteq Nat /\ NoSlot \notin Slots
  /\ IsFiniteSet(Positions) /\ Positions # {}
BY ConstantsAssumption DEF Slots, NoSlot

LEMMA KeyCount ==
  ASSUME TypeOK, NEW s \in Slots
  PROVE  key_count(s) \in Nat
<1>1. slots[s].keys \in SUBSET Positions
  BY DEF TypeOK, Record
<1>2. QED
  BY <1>1, FS_Subset, FS_CardinalityType, ConstantFacts DEF key_count

LEMMA ComboLength ==
  ASSUME TypeOK, NEW s \in Slots, NEW count \in Nat
  PROVE  combo_length(s, count) \in 0 .. count
<1>1. {count, key_count(s)} \in SUBSET Nat
  BY KeyCount
<1>2. QED
  BY <1>1, MinOfNaturals DEF combo_length

\* The deadline of a match is a time, or there is none.
LEMMA FirstTimeout ==
  ASSUME TypeOK, NEW keys \in [1 .. MaxKeys -> Event], NEW count, NEW cands \in SUBSET Slots
  PROVE  first_candidate_timeout(keys, count, cands) \in Nat \cup {Never}
<1>1. CASE count = 0 \/ cands = {}
  BY <1>1 DEF first_candidate_timeout
<1>2. CASE ~ (count = 0 \/ cands = {})
  <2> DEFINE timeouts == {slots[s].timeout : s \in cands}
  <2>1. timeouts \in SUBSET Nat /\ timeouts # {}
    <3>1. \A s \in cands : slots[s].timeout \in Nat
      BY DEF TypeOK, Record
    <3> QED
      BY <1>2, <3>1
  <2>2. Min(timeouts) \in Nat
    <3> HIDE DEF timeouts
    <3> QED
      BY <2>1, MinOfNaturals
  <2>3. keys[1].timestamp \in Nat
    BY ConstantFacts DEF Event
  <2>4. QED
    BY <1>2, <2>2, <2>3 DEF first_candidate_timeout
<1>3. QED
  BY <1>1, <1>2

LEMMA TimerUpdates ==
  ASSUME TypeOK, NEW first \in Nat \cup {Never}, NEW task \in Nat \cup {Never}
  PROVE  /\ timeout_at_after_update(first) \in Nat
         /\ timeout_task_after_update(task, first) \in Nat \cup {Never}
<1>1. timeout_at_after_update(first) \in Nat
  BY DEF timeout_at_after_update, Never
<1>2. first # Never => Max({first, now}) \in Nat
  BY MaxOfTwo DEF TypeOK
<1>3. QED
  BY <1>1, <1>2 DEF timeout_task_after_update

-----------------------------------------------------------------------------
(* The pool                                                                *)

Inv == TypeOK /\ PoolDense

LEMMA EntryTypes ==
  ASSUME NEW s \in Slots \cup {NoSlot}, NEW keys \in SUBSET Positions
  PROVE  [slot |-> s, keys |-> keys] \in Entry
BY DEF Entry

\* An unused entry is the one behind the last held combo.
LEMMA FirstFreeEntry ==
  ASSUME Inv, free_entries # {}
  PROVE  Min(free_entries) = active_combo_count + 1 /\ active_combo_count < MaxPressed
<1>1. free_entries = active_combo_count + 1 .. MaxPressed
  BY ConstantFacts DEF Inv, TypeOK, PoolDense, held_combos, free_entries
<1>2. active_combo_count \in Nat
  BY DEF Inv, TypeOK
<1>3. free_entries \in SUBSET Nat
  BY ConstantFacts DEF free_entries
<1>4. active_combo_count < MaxPressed /\ active_combo_count + 1 \in free_entries
  BY <1>1, <1>2, ConstantFacts
<1>5. Min(free_entries) \in free_entries /\ Min(free_entries) <= active_combo_count + 1
  BY <1>3, <1>4, MinOfNaturals
<1>6. QED
  BY <1>1, <1>2, <1>4, <1>5

\* Storing a combo behind the last one keeps the pool dense ...
LEMMA StoreKeepsPool ==
  ASSUME Inv, free_entries # {}, NEW s \in Slots, NEW keys \in SUBSET Positions,
         active_combos' = [active_combos EXCEPT
                             ![Min(free_entries)] = [slot |-> s, keys |-> keys]],
         active_combo_count' = active_combo_count + 1
  PROVE  /\ active_combos' \in [1 .. MaxPressed -> Entry]
         /\ active_combo_count' \in 0 .. MaxPressed
         /\ PoolDense'
<1>1. active_combos' \in [1 .. MaxPressed -> Entry]
  BY EntryTypes DEF Inv, TypeOK
<1>2. active_combo_count' \in 0 .. MaxPressed
  BY FirstFreeEntry, ConstantFacts DEF Inv, TypeOK
<1>3. \A i \in 1 .. MaxPressed :
         active_combos'[i].slot = IF i = active_combo_count + 1 THEN s ELSE active_combos[i].slot
  BY FirstFreeEntry DEF Inv, TypeOK
<1>4. held_combos' = held_combos \cup {active_combo_count + 1}
  BY <1>3, FirstFreeEntry, ConstantFacts DEF held_combos, Inv, TypeOK
<1>5. QED
  BY <1>1, <1>2, <1>4 DEF PoolDense, Inv, TypeOK

\* ... and so does removing one, whose place the last one takes.
LEMMA DeactivateKeepsPool ==
  ASSUME Inv, NEW combos \in [1 .. MaxPressed -> Entry],
         \A j \in 1 .. MaxPressed : combos[j].slot = active_combos[j].slot,
         NEW i \in 1 .. active_combo_count,
         active_combos' = deactivate_combo(combos, i),
         active_combo_count' = active_combo_count - 1
  PROVE  /\ active_combos' \in [1 .. MaxPressed -> Entry]
         /\ active_combo_count' \in 0 .. MaxPressed
         /\ PoolDense'
<1>1. FreeEntry \in Entry /\ FreeEntry.slot = NoSlot
  BY EntryTypes DEF FreeEntry
<1>2. active_combo_count \in 1 .. MaxPressed
  BY DEF Inv, TypeOK
<1>3. active_combos' \in [1 .. MaxPressed -> Entry]
  BY <1>1, <1>2 DEF deactivate_combo
<1>4. \A j \in 1 .. MaxPressed :
        active_combos'[j].slot = IF j = active_combo_count THEN NoSlot
                                 ELSE IF j = i THEN active_combos[active_combo_count].slot
                                 ELSE active_combos[j].slot
  BY <1>1, <1>2 DEF deactivate_combo
<1>5. \A j \in 1 .. MaxPressed : active_combos[j].slot # NoSlot <=> j \in 1 .. active_combo_count
  BY DEF held_combos, Inv, PoolDense
<1>6. \A j \in 1 .. MaxPressed :
        active_combos'[j].slot # NoSlot <=> j \in 1 .. active_combo_count - 1
  BY <1>2, <1>4, <1>5
<1>7. held_combos' = 1 .. active_combo_count'
  BY <1>2, <1>6, ConstantFacts DEF held_combos
<1>8. QED
  BY <1>2, <1>3, <1>7, ConstantFacts DEF PoolDense

-----------------------------------------------------------------------------
(* The two halves of the invariant: what a call of cleanup() may change,   *)
(* and the rest.                                                           *)

EngineOK ==
  /\ pressed_keys \in [1 .. MaxKeys -> Event] /\ pressed_keys_count \in 0 .. MaxKeys
  /\ candidates \subseteq Slots /\ fully_pressed_combo \in Slots \cup {NoSlot}
  /\ active_combos \in [1 .. MaxPressed -> Entry] /\ active_combo_count \in 0 .. MaxPressed
  /\ PoolDense
  /\ timeout_task \in Nat \cup {Never}
  /\ last_combo_timestamp \in Nat \cup {LongAgo}
  /\ held \in [Slots -> Int] /\ stack \in Seq(Frame) /\ origin \in Origin

RestOK ==
  /\ slots \in [Slots -> Record] /\ flash \in [Slots -> Record] /\ edits \in Nat
  /\ timeout_task_timeout_at \in Nat
  /\ last_tapped_timestamp \in Nat \cup {LongAgo}
  /\ released_keys \in 0 .. MaxKeys /\ now \in Nat
  /\ down \subseteq Positions /\ host \subseteq Positions /\ other_layer \in Layers

LEMMA InvHalves == Inv <=> EngineOK /\ RestOK
BY DEF Inv, TypeOK, EngineOK, RestOK

LEMMA InvokeTypes ==
  ASSUME TypeOK, NEW s \in Slots, NEW delta \in Int
  PROVE  invoke_slot_behavior(s, delta) \in [Slots -> Int]
BY DEF TypeOK, invoke_slot_behavior

LEMMA ReleaseTypes ==
  ASSUME NEW count \in 0 .. MaxKeys, NEW caller \in Seq(Frame),
         release_pressed_keys(count, caller)
  PROVE  pressed_keys_count' \in 0 .. MaxKeys /\ stack' \in Seq(Frame)
<1>1. 1 \in 1 .. MaxKeys + 1 /\ 0 \in 0 .. MaxKeys
  BY ConstantFacts
<1>2. <<ReleaseLoop(1, count)>> \o caller \in Seq(Frame)
  BY <1>1, ReleaseFrames, StackPushes
<1>3. QED
  BY <1>1, <1>2 DEF release_pressed_keys

LEMMA ActivateTypes ==
  ASSUME Inv, NEW s \in Slots, NEW keys \in [1 .. MaxKeys -> Event],
         NEW count \in 0 .. MaxKeys, NEW caller \in Seq(Frame),
         activate_combo(s, keys, count, caller)
  PROVE  /\ pressed_keys' \in [1 .. MaxKeys -> Event] /\ pressed_keys_count' \in 0 .. MaxKeys
         /\ active_combos' \in [1 .. MaxPressed -> Entry]
         /\ active_combo_count' \in 0 .. MaxPressed
         /\ PoolDense'
         /\ last_combo_timestamp' \in Nat \cup {LongAgo}
         /\ held' \in [Slots -> Int] /\ stack' \in Seq(Frame)
<1>1. CASE free_entries = {}
  <2>1. <<ReleaseAgain>> \o caller \in Seq(Frame)
    BY ReleaseFrames, StackPushes, ConstantFacts, SMTT(30)
  <2>2. /\ pressed_keys' = keys
        /\ release_pressed_keys(count, <<ReleaseAgain>> \o caller)
        /\ UNCHANGED <<pool, last_combo_timestamp, held>>
    BY <1>1 DEF activate_combo
  <2>3. PoolDense'
    BY <2>2 DEF Inv, PoolDense, held_combos, pool
  <2>4. QED
    BY <2>1, <2>2, <2>3, ReleaseTypes DEF Inv, TypeOK, pool
<1>2. CASE free_entries # {}
  <2> DEFINE length == combo_length(s, count)
             taken  == positions_of(keys, 1, length)
  <2>1. length \in 0 .. count /\ count - length \in 0 .. MaxKeys
    <3>1. TypeOK /\ count \in Nat
      BY ConstantFacts DEF Inv
    <3>2. length \in 0 .. count
      BY <3>1, ComboLength
    <3> HIDE DEF length
    <3>3. QED
      BY <3>2, ConstantFacts
  <2>2. taken \in SUBSET Positions
    BY <2>1, ConstantFacts DEF positions_of, Event
  <2>3. /\ active_combos' = [active_combos EXCEPT
                               ![Min(free_entries)] = [slot |-> s, keys |-> taken]]
        /\ active_combo_count' = active_combo_count + 1
        /\ pressed_keys' = shifted(keys, count, length)
        /\ last_combo_timestamp' =
             IF ~ resolves(slots[s].behavior) THEN last_combo_timestamp
             ELSE IF length = 0 THEN 0 ELSE keys[1].timestamp
        /\ held' = invoke_slot_behavior(s, 1)
        /\ release_pressed_keys(count - length, caller)
    BY <1>2 DEF activate_combo
  <2>4. shifted(keys, count, length) \in [1 .. MaxKeys -> Event]
    BY <2>1, ConstantFacts DEF shifted
  <2>5. keys[1].timestamp \in Nat
    BY ConstantFacts DEF Event
  <2>6. last_combo_timestamp' \in Nat \cup {LongAgo}
    BY <2>3, <2>5 DEF Inv, TypeOK
  <2>7. held' \in [Slots -> Int]
    BY <2>3, InvokeTypes DEF Inv
  <2>8. /\ active_combos' \in [1 .. MaxPressed -> Entry]
        /\ active_combo_count' \in 0 .. MaxPressed
        /\ PoolDense'
    <3> HIDE DEF taken, length
    <3> QED
      BY <1>2, <2>2, <2>3, StoreKeepsPool
  <2>9. pressed_keys_count' \in 0 .. MaxKeys /\ stack' \in Seq(Frame)
    BY <2>1, <2>3, ReleaseTypes
  <2>10. QED
    BY <2>3, <2>4, <2>6, <2>7, <2>8, <2>9
<1>3. QED
  BY <1>1, <1>2

LEMMA CleanupTypes ==
  ASSUME Inv, NEW keys \in [1 .. MaxKeys -> Event], NEW count \in 0 .. MaxKeys,
         NEW full \in Slots \cup {NoSlot}, NEW caller \in Seq(Frame),
         cleanup(keys, count, full, caller)
  PROVE  EngineOK'
<1>1. /\ timeout_task' = Never /\ candidates' = {} /\ fully_pressed_combo' = NoSlot
      /\ origin' \in Origin
  BY DEF cleanup, NoOrigin, Origin, Layers, LongAgo
<1>2. CASE full # NoSlot
  <2>1. full \in Slots /\ activate_combo(full, keys, count, caller)
    BY <1>2 DEF cleanup
  <2>2. QED
    BY <1>1, <2>1, ActivateTypes DEF EngineOK
<1>3. CASE full = NoSlot
  <2>1. /\ pressed_keys' = keys
        /\ release_pressed_keys(count, caller)
        /\ UNCHANGED <<pool, last_combo_timestamp, held>>
    BY <1>3 DEF cleanup
  <2>2. PoolDense'
    BY <2>1 DEF Inv, PoolDense, held_combos, pool
  <2>3. pressed_keys_count' \in 0 .. MaxKeys /\ stack' \in Seq(Frame)
    BY <2>1, ReleaseTypes
  <2>4. QED
    BY <1>1, <2>1, <2>2, <2>3 DEF Inv, TypeOK, EngineOK, pool
<1>4. QED
  BY <1>2, <1>3

-----------------------------------------------------------------------------
(* Steps                                                                   *)

\* A step that leaves the pool alone leaves it dense.
LEMMA SamePool ==
  ASSUME PoolDense, UNCHANGED pool
  PROVE  PoolDense'
BY DEF PoolDense, held_combos, pool

LEMMA RunningCall ==
  ASSUME Inv, NEW op, Runs(op)
  PROVE  /\ top \in Frame /\ top.op = op /\ rest \in Seq(Frame)
BY StackPops DEF Inv, TypeOK, Runs

LEMMA HereIsOrigin ==
  ASSUME TypeOK
  PROVE  here \in Origin
BY DEF TypeOK, here, highest_layer_active, Origin, Layers

LEMMA PassDownTypes ==
  ASSUME TypeOK, NEW e \in Event, pass_down(e)
  PROVE  /\ host' \subseteq Positions
         /\ last_tapped_timestamp' \in Nat \cup {LongAgo}
BY DEF TypeOK, pass_down, Event

LEMMA InitInv == Init => Inv
<1> SUFFICES ASSUME Init PROVE Inv
  OBVIOUS
<1>1. RestOK
  BY TablesAssumption, ConstantFacts DEF Init, RestOK, LongAgo, Layers
<1>2. [i \in 1 .. MaxKeys |-> [position |-> CHOOSE p \in Positions : TRUE, timestamp |-> 0]]
        \in [1 .. MaxKeys -> Event]
  BY ConstantFacts DEF Event
<1>3. active_combos \in [1 .. MaxPressed -> Entry]
  BY EntryTypes DEF Init, FreeEntry
<1>4. \A i \in 1 .. MaxPressed : active_combos[i].slot = NoSlot
  BY DEF Init, FreeEntry
<1>5. PoolDense
  BY <1>4 DEF Init, PoolDense, held_combos
<1>6. origin \in Origin
  BY DEF Init, NoOrigin, Origin, Layers, LongAgo
<1>7. EngineOK
  BY <1>2, <1>3, <1>5, <1>6, ConstantFacts DEF Init, EngineOK, LongAgo
<1>8. QED
  BY <1>1, <1>7, InvHalves

LEMMA KeysInv ==
  ASSUME Inv, NEW p \in Positions, Press(p) \/ Release(p)
  PROVE  Inv'
<1>1. CASE Press(p)
  <2>1. now' \in Nat
    BY <1>1, ConstantsAssumption DEF Press, Inv, TypeOK
  <2>2. [position |-> p, timestamp |-> now'] \in Event
    BY <2>1 DEF Event
  <2>3. stack' \in Seq(Frame)
    BY <1>1, <2>2, EventFrames DEF Press
  <2>4. PoolDense'
    BY <1>1, SamePool DEF Inv, Press
  <2>5. QED
    BY <1>1, <2>1, <2>3, <2>4
       DEF Press, Inv, TypeOK, matching, pool, timer, taps, table
<1>2. CASE Release(p)
  <2>1. [position |-> p, timestamp |-> now] \in Event
    BY DEF Event, Inv, TypeOK
  <2>2. stack' \in Seq(Frame)
    BY <1>2, <2>1, EventFrames DEF Release
  <2>3. PoolDense'
    BY <1>2, SamePool DEF Inv, Release
  <2>4. QED
    BY <1>2, <2>2, <2>3 DEF Release, Inv, TypeOK, matching, pool, timer, taps, table
<1>3. QED
  BY <1>1, <1>2

\* An event that goes on down the chain.
LEMMA PassedOnInv ==
  ASSUME Inv, DownIgnored \/ BubbleDown
  PROVE  Inv'
<1>1. PICK op \in {"down", "bubble"} :
        /\ Runs(op) /\ pass_down(top.event) /\ stack' = rest
        /\ UNCHANGED <<matching, pool, timer, last_combo_timestamp, released_keys, now, table,
                       down, other_layer, held>>
  BY DEF DownIgnored, BubbleDown
<1>2. top.event \in Event /\ rest \in Seq(Frame)
  BY <1>1, RunningCall, FrameFields
<1>3. host' \subseteq Positions /\ last_tapped_timestamp' \in Nat \cup {LongAgo}
  BY <1>1, <1>2, PassDownTypes DEF Inv
<1>4. PoolDense'
  BY <1>1, SamePool DEF Inv
<1>5. QED
  BY <1>1, <1>2, <1>3, <1>4 DEF Inv, TypeOK, matching, pool, timer, table

LEMMA DownCapturedInv ==
  ASSUME Inv, DownCaptured
  PROVE  Inv'
<1> DEFINE e     == top.event
           fresh == setup_candidates_for_first_keypress(e.position, e.timestamp)
           first == pressed_keys_count = 0
           cands == IF first THEN candidates \cup fresh
                    ELSE filter_candidates(
                           filter_timed_out_candidates(candidates, e.timestamp), e.position)
           num   == Cardinality(IF first THEN fresh ELSE cands)
           room  == pressed_keys_count < MaxKeys
           keys  == IF room THEN [pressed_keys EXCEPT ![pressed_keys_count + 1] = e]
                    ELSE pressed_keys
           count == IF room THEN pressed_keys_count + 1 ELSE pressed_keys_count
           full  == {s \in cands : key_count(s) = count}
           due   == first_candidate_timeout(keys, count, cands)
           caller == IF room THEN rest ELSE <<Bubble(e)>> \o rest
<1>1. e \in Event /\ rest \in Seq(Frame)
  BY RunningCall, FrameFields DEF DownCaptured
<1>2. cands \in SUBSET Slots
  BY DEF Inv, TypeOK, setup_candidates_for_first_keypress, filter_candidates,
         filter_timed_out_candidates
<1>3. keys \in [1 .. MaxKeys -> Event] /\ count \in 0 .. MaxKeys
  BY <1>1, ConstantFacts DEF Inv, TypeOK
<1>4. caller \in Seq(Frame)
  BY <1>1, EventFrames, StackPushes
<1>5. full # {} => Min(full) \in Slots
  <2>1. full \in SUBSET Slots
    BY <1>2
  <2> HIDE DEF full
  <2>2. QED
    BY <2>1, ConstantFacts, MinOfNaturals
<1>6. due \in Nat \cup {Never}
  <2> HIDE DEF cands, keys, count
  <2> QED
    BY <1>2, <1>3, FirstTimeout DEF Inv
<1>7. /\ timeout_task_timeout_at' = timeout_at_after_update(due)
      /\ \/ cleanup(keys, count, fully_pressed_combo, caller)
         \/ full # {} /\ cleanup(keys, count, Min(full), caller)
         \/ /\ pressed_keys' = keys
            /\ pressed_keys_count' = count
            /\ candidates' = cands
            /\ fully_pressed_combo' = IF full = {} THEN fully_pressed_combo ELSE Min(full)
            /\ origin' = IF first THEN here ELSE origin
            /\ timeout_task' = timeout_task_after_update(timeout_task, due)
            /\ stack' = caller
            /\ UNCHANGED <<pool, last_combo_timestamp, held>>
      /\ UNCHANGED <<last_tapped_timestamp, released_keys, now, table, down, other_layer, host>>
  BY DEF DownCaptured
<1> HIDE DEF e, fresh, first, cands, num, room, keys, count, full, due, caller
<1>8. RestOK'
  BY <1>6, <1>7, TimerUpdates DEF Inv, TypeOK, RestOK, table
<1>9. EngineOK'
  <2>1. CASE cleanup(keys, count, fully_pressed_combo, caller)
    BY <1>3, <1>4, <2>1, CleanupTypes DEF Inv, TypeOK
  <2>2. CASE full # {} /\ cleanup(keys, count, Min(full), caller)
    BY <1>3, <1>4, <1>5, <2>2, CleanupTypes
  <2>3. CASE /\ pressed_keys' = keys
             /\ pressed_keys_count' = count
             /\ candidates' = cands
             /\ fully_pressed_combo' = IF full = {} THEN fully_pressed_combo ELSE Min(full)
             /\ origin' = IF first THEN here ELSE origin
             /\ timeout_task' = timeout_task_after_update(timeout_task, due)
             /\ stack' = caller
             /\ UNCHANGED <<pool, last_combo_timestamp, held>>
    <3>1. timeout_task' \in Nat \cup {Never}
      BY <1>6, <2>3, TimerUpdates DEF Inv, TypeOK
    <3>2. PoolDense'
      BY <2>3, SamePool DEF Inv
    <3>3. QED
      BY <1>2, <1>3, <1>4, <1>5, <2>3, <3>1, <3>2, HereIsOrigin DEF Inv, TypeOK, EngineOK, pool
  <2>4. QED
    BY <1>7, <2>1, <2>2, <2>3
<1>10. QED
  BY <1>8, <1>9, InvHalves, PTL

\* The loop of release_pressed_keys().
LEMMA ReleaseLoopInv ==
  ASSUME Inv, ReleaseFirstKey \/ ReraiseKey \/ ReleaseDone \/ CleanupReleasesAgain
  PROVE  Inv'
<1>1. CASE ReleaseFirstKey
  <2>1. top.count \in 0 .. MaxKeys /\ rest \in Seq(Frame)
    BY <1>1, RunningCall, FrameFields DEF ReleaseFirstKey
  <2>2. pressed_keys[1] \in Event
    BY ConstantFacts DEF Inv, TypeOK
  <2>3. host' \subseteq Positions /\ last_tapped_timestamp' \in Nat \cup {LongAgo}
    BY <1>1, <2>2, PassDownTypes DEF Inv, ReleaseFirstKey
  <2>4. ReleaseLoop(2, top.count) \in Frame
    BY <2>1, ReleaseFrames, ConstantFacts
  <2>5. stack' \in Seq(Frame)
    BY <1>1, <2>1, <2>4, StackPushes DEF ReleaseFirstKey
  <2>6. PoolDense'
    BY <1>1, SamePool DEF Inv, ReleaseFirstKey
  <2>7. QED
    BY <1>1, <2>3, <2>5, <2>6 DEF ReleaseFirstKey, Inv, TypeOK, matching, pool, timer, table
<1>2. CASE ReraiseKey
  <2>1. /\ top.count \in 0 .. MaxKeys /\ top.next \in 2 .. top.count
        /\ rest \in Seq(Frame)
    BY <1>2, RunningCall, FrameFields DEF ReraiseKey
  <2>2. pressed_keys[top.next] \in Event /\ top.next + 1 \in 1 .. MaxKeys + 1
    BY <2>1, ConstantFacts DEF Inv, TypeOK
  <2>3. Down(pressed_keys[top.next]) \in Frame /\ ReleaseLoop(top.next + 1, top.count) \in Frame
    BY <2>1, <2>2, EventFrames, ReleaseFrames
  <2>4. stack' \in Seq(Frame)
    BY <1>2, <2>1, <2>3, ConcatProperties DEF ReraiseKey
  <2>5. PoolDense'
    BY <1>2, SamePool DEF Inv, ReraiseKey
  <2>6. QED
    BY <1>2, <2>4, <2>5 DEF ReraiseKey, Inv, TypeOK, matching, pool, timer, taps, table
<1>3. CASE ReleaseDone
  <2>1. top.count \in 0 .. MaxKeys /\ rest \in Seq(Frame)
    BY <1>3, RunningCall, FrameFields DEF ReleaseDone
  <2>2. PoolDense'
    BY <1>3, SamePool DEF Inv, ReleaseDone
  <2>3. QED
    BY <1>3, <2>1, <2>2 DEF ReleaseDone, Inv, TypeOK, matching, pool, timer, taps, table
<1>4. CASE CleanupReleasesAgain
  <2>1. rest \in Seq(Frame)
    BY <1>4, RunningCall DEF CleanupReleasesAgain
  <2>2. pressed_keys_count' \in 0 .. MaxKeys /\ stack' \in Seq(Frame)
    BY <1>4, <2>1, ReleaseTypes DEF CleanupReleasesAgain, Inv, TypeOK
  <2>3. PoolDense'
    BY <1>4, SamePool DEF Inv, CleanupReleasesAgain
  <2>4. QED
    BY <1>4, <2>2, <2>3 DEF CleanupReleasesAgain, Inv, TypeOK, pool, timer, taps, table
<1>5. QED
  BY <1>1, <1>2, <1>3, <1>4

\* position_state_up() with no held combo to release.
LEMMA UpInv ==
  ASSUME Inv, UpCleanup \/ UpReraised \/ UpBubbles
  PROVE  Inv'
<1>1. CASE UpCleanup
  <2>1. top.event \in Event /\ rest \in Seq(Frame)
    BY <1>1, RunningCall, FrameFields DEF UpCleanup
  <2>2. <<UpCleaned(top.event)>> \o rest \in Seq(Frame)
    BY <2>1, EventFrames, StackPushes
  <2>3. EngineOK'
    BY <1>1, <2>2, CleanupTypes DEF UpCleanup, Inv, TypeOK
  <2>4. RestOK'
    BY <1>1 DEF UpCleanup, Inv, TypeOK, RestOK, table
  <2>5. QED
    BY <2>3, <2>4, InvHalves, PTL
<1>2. CASE UpReraised
  <2>1. top.event \in Event /\ rest \in Seq(Frame)
    BY <1>2, RunningCall, FrameFields DEF UpReraised
  <2>2. stack' \in Seq(Frame)
    BY <1>2, <2>1, EventFrames, StackPushes DEF UpReraised
  <2>3. PoolDense'
    BY <1>2, SamePool DEF Inv, UpReraised
  <2>4. QED
    BY <1>2, <2>2, <2>3 DEF UpReraised, Inv, TypeOK, matching, pool, timer, taps, table
<1>3. CASE UpBubbles
  <2>1. rest \in Seq(Frame)
    BY <1>3, RunningCall DEF UpBubbles
  <2>2. PoolDense'
    BY <1>3, SamePool DEF Inv, UpBubbles
  <2>3. QED
    BY <1>3, <2>1, <2>2
       DEF UpBubbles, pass_up, Inv, TypeOK, matching, pool, timer, taps, table
<1>4. QED
  BY <1>1, <1>2, <1>3

\* release_combo_key(): the entry loses a key, or goes.
LEMMA UpHandledInv ==
  ASSUME Inv, UpHandled
  PROVE  Inv'
<1> DEFINE p         == top.event.position
           i         == Min(combos_with(p))
           s         == active_combos[i].slot
           remaining == active_combos[i].keys \ {p}
           combos    == [active_combos EXCEPT ![i].keys = remaining]
<1>1. rest \in Seq(Frame)
  BY RunningCall DEF UpHandled
<1>2. i \in 1 .. active_combo_count /\ i \in 1 .. MaxPressed
  <2>1. combos_with(p) \in SUBSET Nat /\ combos_with(p) # {}
    BY DEF combos_with, UpHandled
  <2>2. Min(combos_with(p)) \in combos_with(p)
    BY <2>1, MinOfNaturals
  <2>3. i \in 1 .. active_combo_count
    BY <2>2 DEF combos_with
  <2> HIDE DEF i
  <2>4. QED
    BY <2>3, ConstantFacts, SMTT(30) DEF Inv, TypeOK
<1>3. s \in Slots
  BY <1>2, ConstantFacts, SMTT(30) DEF Inv, PoolDense, held_combos, TypeOK, Entry
<1>4. /\ held' = held \/ held' = invoke_slot_behavior(s, -1)
      /\ \/ /\ remaining = {}
            /\ active_combos' = deactivate_combo(combos, i)
            /\ active_combo_count' = active_combo_count - 1
         \/ active_combos' = combos /\ active_combo_count' = active_combo_count
      /\ stack' = rest
      /\ UNCHANGED <<matching, timer, taps, released_keys, now, table, down, other_layer, host>>
  BY DEF UpHandled
<1>5. /\ combos \in [1 .. MaxPressed -> Entry]
      /\ \A j \in 1 .. MaxPressed : combos[j].slot = active_combos[j].slot
  BY <1>2 DEF Inv, TypeOK, Entry
<1>6. held' \in [Slots -> Int]
  <2>1. held \in [Slots -> Int] /\ TypeOK
    BY DEF Inv, TypeOK
  <2> HIDE DEF i, s
  <2> QED
    BY <1>3, <1>4, <2>1, InvokeTypes
<1> HIDE DEF p, i, s, remaining, combos
<1>7. /\ active_combos' \in [1 .. MaxPressed -> Entry]
      /\ active_combo_count' \in 0 .. MaxPressed
      /\ PoolDense'
  <2>1. CASE /\ active_combos' = deactivate_combo(combos, i)
             /\ active_combo_count' = active_combo_count - 1
    BY <1>2, <1>5, <2>1, DeactivateKeepsPool
  <2>2. CASE active_combos' = combos /\ active_combo_count' = active_combo_count
    BY <1>5, <2>2 DEF Inv, TypeOK, PoolDense, held_combos
  <2>3. QED
    BY <1>4, <2>1, <2>2
<1>8. QED
  BY <1>1, <1>4, <1>6, <1>7 DEF Inv, TypeOK, matching, timer, taps, table

-----------------------------------------------------------------------------
(* The timeout and the clock                                               *)

LEMMA TimeoutInv ==
  ASSUME Inv, TimeoutTooEarly \/ TimeoutExpires
  PROVE  Inv'
<1>1. CASE TimeoutTooEarly
  <2>1. PoolDense'
    BY <1>1, SamePool DEF Inv, TimeoutTooEarly
  <2>2. QED
    BY <1>1, <2>1 DEF TimeoutTooEarly, Inv, TypeOK, matching, pool, taps, table
<1>2. CASE TimeoutExpires
  <2> DEFINE cands == filter_timed_out_candidates(candidates, timeout_task_timeout_at)
             due   == first_candidate_timeout(pressed_keys, pressed_keys_count, cands)
  <2>1. cands \in SUBSET Slots
    BY DEF filter_timed_out_candidates, Inv, TypeOK
  <2>2. due \in Nat \cup {Never}
    <3> HIDE DEF cands
    <3> QED
      BY <2>1, FirstTimeout DEF Inv, TypeOK
  <2>3. <<TimedOut>> \in Seq(Frame)
    BY ReleaseFrames, ConstantFacts
  <2>4. /\ \/ /\ cleanup(pressed_keys, pressed_keys_count, fully_pressed_combo, <<TimedOut>>)
              /\ UNCHANGED timeout_task_timeout_at
           \/ /\ candidates' = cands
              /\ timeout_task' = timeout_task_after_update(Never, due)
              /\ timeout_task_timeout_at' = timeout_at_after_update(due)
              /\ UNCHANGED <<pressed_keys, pressed_keys_count, fully_pressed_combo, origin, pool,
                             last_combo_timestamp, stack, held>>
        /\ UNCHANGED <<last_tapped_timestamp, released_keys, now, table, down, other_layer, host>>
    BY <1>2 DEF TimeoutExpires
  <2> HIDE DEF cands, due
  <2>5. CASE /\ cleanup(pressed_keys, pressed_keys_count, fully_pressed_combo, <<TimedOut>>)
             /\ UNCHANGED timeout_task_timeout_at
    <3>1. EngineOK'
      BY <2>3, <2>5, CleanupTypes DEF Inv, TypeOK
    <3>2. RestOK'
      BY <2>4, <2>5 DEF Inv, TypeOK, RestOK, table
    <3>3. QED
      BY <3>1, <3>2, InvHalves, PTL
  <2>6. CASE /\ candidates' = cands
             /\ timeout_task' = timeout_task_after_update(Never, due)
             /\ timeout_task_timeout_at' = timeout_at_after_update(due)
             /\ UNCHANGED <<pressed_keys, pressed_keys_count, fully_pressed_combo, origin, pool,
                            last_combo_timestamp, stack, held>>
    <3>1. timeout_task' \in Nat \cup {Never} /\ timeout_task_timeout_at' \in Nat
      BY <2>2, <2>6, TimerUpdates DEF Inv, TypeOK
    <3>2. PoolDense'
      BY <2>6, SamePool DEF Inv
    <3>3. QED
      BY <2>1, <2>4, <2>6, <3>1, <3>2 DEF Inv, TypeOK, pool, table
  <2>7. QED
    BY <2>4, <2>5, <2>6
<1>3. QED
  BY <1>1, <1>2

LEMMA TimeoutReturnsInv ==
  ASSUME Inv, TimeoutReturns
  PROVE  Inv'
<1> DEFINE due == first_candidate_timeout(pressed_keys, pressed_keys_count, candidates)
<1>1. rest \in Seq(Frame)
  BY RunningCall DEF TimeoutReturns
<1>2. due \in Nat \cup {Never}
  BY FirstTimeout DEF Inv, TypeOK
<1>3. timeout_task' \in Nat \cup {Never} /\ timeout_task_timeout_at' \in Nat
  BY <1>2, TimerUpdates DEF TimeoutReturns, Inv, TypeOK
<1>4. PoolDense'
  BY SamePool DEF Inv, TimeoutReturns
<1>5. QED
  BY <1>1, <1>3, <1>4 DEF TimeoutReturns, Inv, TypeOK, matching, pool, taps, table

LEMMA TickInv ==
  ASSUME Inv, Tick
  PROVE  Inv'
<1>1. PoolDense'
  BY SamePool DEF Inv, Tick
<1>2. QED
  BY <1>1 DEF Tick, Inv, TypeOK, matching, pool, timer, taps, table

LEMMA OthersInv ==
  ASSUME Inv, Others
  PROVE  Inv'
<1>1. ASSUME NEW timestamp \in 0 .. now, KeycodeRaised(timestamp)
      PROVE  Inv'
  <2>1. PoolDense'
    BY <1>1, SamePool DEF Inv, KeycodeRaised
  <2>2. timestamp \in Nat
    BY <1>1 DEF Inv, TypeOK
  <2> QED
    BY <1>1, <2>1, <2>2 DEF KeycodeRaised, Inv, TypeOK, matching, pool, timer, table
<1>2. ASSUME NEW layer \in OtherLayers, LayerSwitches(layer)
      PROVE  Inv'
  <2>1. PoolDense'
    BY <1>2, SamePool DEF Inv, LayerSwitches
  <2> QED
    BY <1>2, <2>1, ConstantsAssumption
       DEF LayerSwitches, Inv, TypeOK, matching, pool, timer, taps, table
<1> QED
  BY <1>1, <1>2 DEF Others

-----------------------------------------------------------------------------
(* Edits                                                                   *)

LEMMA QuiesceMatchInv ==
  ASSUME Inv, NEW caller \in Seq(Frame), quiesce_match(caller),
         UNCHANGED <<released_keys, now, table, down, other_layer, host>>
  PROVE  Inv'
<1>1. CASE /\ cleanup(pressed_keys, pressed_keys_count, NoSlot, caller)
           /\ UNCHANGED <<timeout_task_timeout_at, last_tapped_timestamp>>
  <2>1. EngineOK'
    BY <1>1, CleanupTypes DEF Inv, TypeOK
  <2>2. RestOK'
    BY <1>1 DEF Inv, TypeOK, RestOK, table
  <2>3. QED
    BY <2>1, <2>2, InvHalves, PTL
<1>2. CASE stack' = caller /\ UNCHANGED <<matching, pool, timer, taps, held>>
  <2>1. PoolDense'
    BY <1>2, SamePool DEF Inv
  <2>2. QED
    BY <1>2, <2>1 DEF Inv, TypeOK, matching, pool, timer, taps, table
<1>3. QED
  BY <1>1, <1>2 DEF quiesce_match

LEMMA QuiesceHeldTypes ==
  ASSUME Inv, NEW s \in Slots, quiesce_held(s)
  PROVE  /\ active_combos' \in [1 .. MaxPressed -> Entry]
         /\ active_combo_count' \in 0 .. MaxPressed
         /\ PoolDense'
         /\ held' \in [Slots -> Int]
<1> DEFINE entries == {i \in 1 .. active_combo_count : active_combos[i].slot = s}
<1>1. CASE UNCHANGED <<pool, held>>
  BY <1>1, SamePool DEF Inv, TypeOK, pool
<1>2. CASE /\ entries # {}
           /\ held' = invoke_slot_behavior(s, -1)
           /\ active_combos' = deactivate_combo(active_combos, Min(entries))
           /\ active_combo_count' = active_combo_count - 1
  <2>1. entries \in SUBSET Nat
    OBVIOUS
  <2>2. Min(entries) \in entries
    BY <1>2, <2>1, MinOfNaturals
  <2>3. Min(entries) \in 1 .. active_combo_count
    BY <2>2
  <2>4. held' \in [Slots -> Int]
    BY <1>2, InvokeTypes DEF Inv
  <2> HIDE DEF entries
  <2>5. QED
    BY <1>2, <2>3, <2>4, DeactivateKeepsPool DEF Inv, TypeOK
<1>3. QED
  BY <1>1, <1>2 DEF quiesce_held

LEMMA StartEditInv ==
  ASSUME Inv,
         \/ \E s \in Slots, rec \in NewRecords : StartSet(s, rec)
         \/ \E s \in Slots : StartDelete(s)
         \/ StartClearAll
         \/ ClearAllQuiesces
  PROVE  Inv'
<1>1. ASSUME NEW s \in Slots, NEW rec \in NewRecords, StartSet(s, rec)
      PROVE  Inv'
  <2>1. <<SetSlot(s, rec)>> \in Seq(Frame)
    BY EditFrames, TablesAssumption
  <2>2. QED
    BY <1>1, <2>1, QuiesceMatchInv DEF StartSet
<1>2. ASSUME NEW s \in Slots, StartDelete(s)
      PROVE  Inv'
  <2>1. DeleteSlot(s) \in Frame
    BY DEF DeleteSlot, Frame
  <2>2. <<DeleteSlot(s)>> \in Seq(Frame)
    BY <2>1
  <2>3. QED
    BY <1>2, <2>2, QuiesceMatchInv DEF StartDelete
<1>3. CASE StartClearAll
  <2>1. stack' \in Seq(Frame)
    BY <1>3, ClearFrames, ConstantFacts DEF StartClearAll
  <2>2. PoolDense'
    BY <1>3, SamePool DEF Inv, StartClearAll
  <2>3. QED
    BY <1>3, <2>1, <2>2 DEF StartClearAll, Inv, TypeOK, matching, pool, timer, taps, table
<1>4. CASE ClearAllQuiesces
  <2>1. top.slot \in Slots
    BY <1>4, RunningCall, FrameFields, ConstantFacts DEF ClearAllQuiesces, Slots
  <2>2. ClearSlot(top.slot) \in Frame
    BY <2>1 DEF ClearSlot, Frame
  <2>3. <<ClearSlot(top.slot)>> \in Seq(Frame)
    BY <2>2
  <2>4. QED
    BY <1>4, <2>3, QuiesceMatchInv DEF ClearAllQuiesces
<1>5. QED
  BY <1>1, <1>2, <1>3, <1>4

LEMMA EmptyRecordType == EmptyRecord \in Record
BY ConstantsAssumption DEF EmptyRecord, Record

\* The steps that change the table.
LEMMA FinishEditInv ==
  ASSUME Inv, FinishSet \/ FinishDelete
  PROVE  Inv'
<1>1. PICK s \in Slots, rec \in Record :
        /\ quiesce_held(s) /\ write_slot(s, rec)
        /\ stack' = rest
        /\ UNCHANGED <<matching, timer, taps, released_keys, now, down, other_layer, host>>
  <2>1. CASE FinishSet
    <3>1. top.slot \in Slots /\ top.record \in Record
      BY <2>1, RunningCall, FrameFields DEF FinishSet
    <3>2. [top.record EXCEPT !.active = TRUE] \in Record
      BY <3>1 DEF Record
    <3>3. QED
      BY <2>1, <3>1, <3>2 DEF FinishSet
  <2>2. CASE FinishDelete
    <3>1. top.slot \in Slots
      BY <2>2, RunningCall, FrameFields DEF FinishDelete
    <3>2. QED
      BY <2>2, <3>1, EmptyRecordType DEF FinishDelete
  <2>3. QED
    BY <2>1, <2>2
<1>2. rest \in Seq(Frame)
  BY RunningCall DEF FinishSet, FinishDelete
<1>3. /\ slots' \in [Slots -> Record] /\ flash' \in [Slots -> Record] /\ edits' \in Nat
  BY <1>1 DEF write_slot, Inv, TypeOK
<1>4. QED
  BY <1>1, <1>2, <1>3, QuiesceHeldTypes DEF Inv, TypeOK, matching, timer, taps

LEMMA ClearAllInv ==
  ASSUME Inv, ClearAllWipes \/ ClearAllSaves
  PROVE  Inv'
<1>1. CASE ClearAllWipes
  <2>1. /\ top.slot \in Slots /\ rest \in Seq(Frame)
        /\ quiesce_held(top.slot) \/ UNCHANGED <<pool, held>>
    <3>1. CASE Runs("clear_slot") /\ quiesce_held(top.slot)
      BY <3>1, RunningCall, FrameFields
    <3>2. CASE /\ Runs("clear") /\ top.slot <= NumSlots
               /\ UNCHANGED <<pool, held>>
      BY <3>2, RunningCall, FrameFields, ConstantFacts DEF Slots
    <3>3. QED
      BY <1>1, <3>1, <3>2 DEF ClearAllWipes
  <2>2. /\ active_combos' \in [1 .. MaxPressed -> Entry]
        /\ active_combo_count' \in 0 .. MaxPressed
        /\ PoolDense'
        /\ held' \in [Slots -> Int]
    BY <2>1, QuiesceHeldTypes, SamePool DEF Inv, TypeOK, pool
  <2>3. top.slot + 1 \in 1 .. NumSlots + 1
    BY <2>1, ConstantFacts DEF Slots
  <2>4. stack' \in Seq(Frame)
    BY <1>1, <2>1, <2>3, ClearFrames, StackPushes DEF ClearAllWipes
  <2>5. slots' \in [Slots -> Record]
    BY <1>1, EmptyRecordType DEF ClearAllWipes, Inv, TypeOK
  <2>6. QED
    BY <1>1, <2>2, <2>4, <2>5 DEF ClearAllWipes, Inv, TypeOK, matching, timer, taps
<1>2. CASE ClearAllSaves
  <2>1. rest \in Seq(Frame)
    BY <1>2, RunningCall DEF ClearAllSaves
  <2>2. PoolDense'
    BY <1>2, SamePool DEF Inv, ClearAllSaves
  <2>3. QED
    BY <1>2, <2>1, <2>2 DEF ClearAllSaves, Inv, TypeOK, matching, pool, timer, taps
<1>3. QED
  BY <1>1, <1>2

-----------------------------------------------------------------------------
(* The theorems                                                            *)

LEMMA NextInv == Inv /\ [Next]_vars => Inv'
<1> SUFFICES ASSUME Inv, [Next]_vars PROVE Inv'
  OBVIOUS
<1>1. CASE Handler
  BY <1>1, PassedOnInv, DownCapturedInv, ReleaseLoopInv, UpInv, UpHandledInv,
     TimeoutReturnsInv, StartEditInv, FinishEditInv, ClearAllInv DEF Handler
<1>2. CASE Timeout
  BY <1>2, TimeoutInv DEF Timeout
<1>3. CASE Tick
  BY <1>3, TickInv
<1>4. CASE Keys
  BY <1>4, KeysInv DEF Keys
<1>5. CASE Edits
  BY <1>5, StartEditInv DEF Edits
<1>6. CASE Others
  BY <1>6, OthersInv
<1>7. CASE UNCHANGED vars
  BY <1>7, SamePool DEF vars, Inv, TypeOK, matching, pool, timer, taps, table
<1>8. QED
  BY <1>1, <1>2, <1>3, <1>4, <1>5, <1>6, <1>7 DEF Next

\* Every index the matcher uses is within its array and every count within
\* what it counts, in every reachable state: the buffer of captured keys and
\* the pool of held combos are never overrun, though release_pressed_keys()
\* re-enters the matcher and edits interrupt it.
THEOREM TypeCorrect == Spec => []TypeOK
<1>1. Inv => TypeOK
  BY DEF Inv
<1>2. QED
  BY <1>1, InitInv, NextInv, PTL DEF Spec

\* release_combo_key() and quiesce_slot(), which look at the first
\* active_combo_count entries only, see every combo that is held.
THEOREM PoolStaysDense == Spec => []PoolDense
<1>1. Inv => PoolDense
  BY DEF Inv
<1>2. QED
  BY <1>1, InitInv, NextInv, PTL DEF Spec

-----------------------------------------------------------------------------
(* The recursion                                                           *)
(*                                                                         *)
(* A loop that has raised k of its keys again has at most k keys captured  *)
(* behind it, and so has every loop that starts in the meantime: the       *)
(* counts of the loops in progress decrease from the outermost inwards.    *)

is_loop(f) == f.op = "release"

\* Calls on which n captured keys may be released: every loop among them has already
\* raised that many.
Under(q, n) ==
  /\ \A j \in 1 .. Len(q) : q[j].op # "down"
  /\ \A j \in 1 .. Len(q) :
       is_loop(q[j]) => /\ q[j].next >= 3 /\ q[j].next <= q[j].count + 1
                        /\ n <= q[j].next - 2
  /\ \A i, j \in 1 .. Len(q) :
       i < j /\ is_loop(q[i]) /\ is_loop(q[j]) => q[i].count <= q[j].next - 2

\* The keys captured, and the one being raised.
in_hand == IF Runs("down") THEN pressed_keys_count + 1 ELSE pressed_keys_count

LoopsNest ==
  stack # <<>> =>
    /\ Under(rest, in_hand)
    /\ is_loop(top) => /\ top.next <= top.count + 1 /\ Under(rest, top.count)
                       /\ in_hand <= top.next - 2 \/ in_hand = 0

LEMMA PushedCalls ==
  ASSUME NEW f \in Frame, NEW q \in Seq(Frame)
  PROVE  /\ <<f>> \o q \in Seq(Frame) /\ <<f>> \o q # <<>>
         /\ Head(<<f>> \o q) = f /\ Tail(<<f>> \o q) = q
         /\ Len(<<f>> \o q) = Len(q) + 1 /\ (<<f>> \o q)[1] = f
         /\ \A j \in 2 .. Len(q) + 1 : (<<f>> \o q)[j] = q[j - 1]
<1> DEFINE s == <<f>> \o q
<1>1. <<f>> \in Seq(Frame) /\ Len(<<f>>) = 1 /\ <<f>>[1] = f
  OBVIOUS
<1>2. /\ s \in Seq(Frame) /\ Len(s) = Len(<<f>>) + Len(q)
      /\ \A i \in 1 .. Len(<<f>>) + Len(q) :
           s[i] = IF i <= Len(<<f>>) THEN <<f>>[i] ELSE q[i - Len(<<f>>)]
  BY <1>1, ConcatProperties
<1>3. Len(q) \in Nat
  OBVIOUS
<1> HIDE DEF s
<1>4. /\ s \in Seq(Frame) /\ Len(s) = Len(q) + 1 /\ s[1] = f
      /\ \A j \in 2 .. Len(q) + 1 : s[j] = q[j - 1]
  BY <1>1, <1>2, <1>3
<1>5. s # <<>> /\ Head(s) = f
  BY <1>3, <1>4
<1>6. /\ Tail(s) \in Seq(Frame) /\ Len(Tail(s)) = Len(q)
      /\ \A j \in 1 .. Len(q) : Tail(s)[j] = q[j]
  BY <1>3, <1>4, <1>5, HeadTailProperties
<1>7. Tail(s) = q
  BY <1>6
<1> QED
  BY <1>4, <1>5, <1>7 DEF s

\* A call may be put on top, a loop only if it has raised its second key and the
\* calls below it have room for all of its keys.
LEMMA UnderOneMore ==
  ASSUME NEW f \in Frame, f.op # "down", NEW q \in Seq(Frame), NEW n \in Nat, Under(q, n),
         is_loop(f) => /\ f.next >= 3 /\ f.next <= f.count + 1 /\ n <= f.next - 2
                       /\ Under(q, f.count)
  PROVE  Under(<<f>> \o q, n) /\ <<f>> \o q \in Seq(Frame)
<1> DEFINE s == <<f>> \o q
<1>1. /\ s \in Seq(Frame) /\ Len(s) = Len(q) + 1 /\ s[1] = f /\ Len(q) \in Nat
      /\ \A j \in 2 .. Len(q) + 1 : s[j] = q[j - 1]
  BY PushedCalls
<1> HIDE DEF s
<1>2. \A j \in 1 .. Len(s) : j # 1 => j - 1 \in 1 .. Len(q) /\ s[j] = q[j - 1]
  BY <1>1
<1>3. \A j \in 1 .. Len(s) : s[j].op # "down"
  BY <1>1, <1>2 DEF Under
<1>4. ASSUME NEW j \in 1 .. Len(s), is_loop(s[j])
      PROVE  s[j].next >= 3 /\ s[j].next <= s[j].count + 1 /\ n <= s[j].next - 2
  <2>1. CASE j = 1
    BY <1>1, <1>4, <2>1
  <2>2. CASE j # 1
    BY <1>2, <1>4, <2>2 DEF Under
  <2> QED
    BY <2>1, <2>2
<1>5. ASSUME NEW i \in 1 .. Len(s), NEW j \in 1 .. Len(s), i < j, is_loop(s[i]), is_loop(s[j])
      PROVE  s[i].count <= s[j].next - 2
  <2>1. j # 1 /\ j - 1 \in 1 .. Len(q) /\ s[j] = q[j - 1]
    BY <1>1, <1>2, <1>5
  <2>2. CASE i = 1
    <3>1. Under(q, f.count) /\ s[i] = f
      BY <1>1, <1>5, <2>2
    <3> QED
      BY <1>5, <2>1, <3>1 DEF Under
  <2>3. CASE i # 1
    <3>1. i - 1 \in 1 .. Len(q) /\ s[i] = q[i - 1] /\ i - 1 < j - 1
      BY <1>1, <1>2, <1>5, <2>3
    <3> QED
      BY <1>5, <2>1, <3>1 DEF Under
  <2> QED
    BY <2>2, <2>3
<1>6. Under(s, n)
  BY <1>3, <1>4, <1>5 DEF Under
<1> QED
  BY <1>1, <1>6 DEF s

LEMMA UnderFewer ==
  ASSUME NEW q \in Seq(Frame), NEW n \in Nat, NEW m \in Nat, Under(q, n), m <= n
  PROVE  Under(q, m)
<1>1. \A j \in 1 .. Len(q) : is_loop(q[j]) => q[j].next \in Nat
  BY FrameFields, ConstantFacts DEF is_loop
<1> QED
  BY <1>1 DEF Under

\* The call at the bottom of a handler is no loop.
LEMMA UnderNothing ==
  ASSUME NEW f \in Frame, f.op \notin {"down", "release"}, NEW n
  PROVE  Under(<<f>>, n) /\ <<f>> \in Seq(Frame) /\ Under(<<>>, n) /\ <<>> \in Seq(Frame)
BY DEF Under, is_loop

\* Going on with calls that have room.
LEMMA CallsGoOn ==
  ASSUME NEW q \in Seq(Frame), NEW n \in Nat, Under(q, n), stack' = q,
         pressed_keys_count' \in Nat, pressed_keys_count' <= n
  PROVE  LoopsNest'
<1> DEFINE m == pressed_keys_count'
<1>1. CASE q = <<>>
  BY <1>1 DEF LoopsNest
<1>2. CASE q # <<>>
  <2>1. /\ Len(q) \in Nat /\ Len(q) >= 1 /\ Head(q) = q[1] /\ Tail(q) \in Seq(Frame)
        /\ Len(Tail(q)) = Len(q) - 1 /\ \A j \in 1 .. Len(q) - 1 : Tail(q)[j] = q[j + 1]
    BY <1>2, HeadTailProperties
  <2>2. in_hand' = m
    <3>1. Head(q).op # "down"
      BY <2>1 DEF Under
    <3> QED
      BY <3>1 DEF in_hand, Runs, top
  <2>3. Under(q, m)
    BY UnderFewer
  <2>4. \A j \in 1 .. Len(Tail(q)) : j + 1 \in 1 .. Len(q) /\ Tail(q)[j] = q[j + 1]
    BY <2>1
  <2>5. Under(Tail(q), m)
    BY <2>1, <2>3, <2>4 DEF Under
  <2>6. ASSUME is_loop(Head(q))
        PROVE  /\ Head(q).next <= Head(q).count + 1 /\ m <= Head(q).next - 2
               /\ Under(Tail(q), Head(q).count)
    <3>1. Head(q).next <= Head(q).count + 1 /\ m <= Head(q).next - 2
      BY <2>1, <2>3, <2>6 DEF Under
    <3>2. \A j \in 1 .. Len(Tail(q)) : is_loop(Tail(q)[j]) => Head(q).count <= Tail(q)[j].next - 2
      BY <2>1, <2>4, <2>6 DEF Under
    <3> QED
      BY <2>5, <2>6, <3>1, <3>2 DEF Under
  <2> QED
    BY <2>2, <2>5, <2>6 DEF LoopsNest, top, rest
<1> QED
  BY <1>1, <1>2

\* A loop starts.
LEMMA LoopStarts ==
  ASSUME NEW caller \in Seq(Frame), NEW n \in 0 .. MaxKeys, Under(caller, n),
         release_pressed_keys(n, caller)
  PROVE  LoopsNest'
<1> DEFINE f == ReleaseLoop(1, n)
<1>1. f \in Frame /\ f.op = "release" /\ f.next = 1 /\ f.count = n
  BY ReleaseFrames, ConstantFacts DEF ReleaseLoop
<1>2. stack' = <<f>> \o caller /\ pressed_keys_count' = 0
  BY DEF release_pressed_keys
<1> HIDE DEF f
<1>3. stack' # <<>> /\ Head(stack') = f /\ Tail(stack') = caller
  BY <1>1, <1>2, PushedCalls
<1>4. in_hand' = 0
  BY <1>1, <1>2, <1>3 DEF in_hand, Runs, top
<1>5. Under(caller, 0) /\ n \in Nat
  BY UnderFewer, ConstantFacts
<1>6. Under(Tail(stack'), in_hand') /\ Under(Tail(stack'), Head(stack').count)
  BY <1>1, <1>3, <1>4, <1>5
<1>7. Head(stack').next <= Head(stack').count + 1
  BY <1>1, <1>3, <1>5
<1> QED
  BY <1>4, <1>6, <1>7 DEF LoopsNest, top, rest

LEMMA CleanupNests ==
  ASSUME Inv, NEW keys, NEW count \in 0 .. MaxKeys, NEW full \in Slots \cup {NoSlot},
         NEW caller \in Seq(Frame), Under(caller, count), cleanup(keys, count, full, caller)
  PROVE  LoopsNest'
<1>1. CASE full = NoSlot
  BY <1>1, LoopStarts DEF cleanup
<1>2. CASE full # NoSlot
  <2>1. full \in Slots /\ activate_combo(full, keys, count, caller)
    BY <1>2 DEF cleanup
  <2>2. CASE free_entries = {}
    <3>1. ReleaseAgain \in Frame /\ ReleaseAgain.op = "release_again" /\ count \in Nat
      BY ReleaseFrames, ConstantFacts DEF ReleaseAgain
    <3>2. Under(<<ReleaseAgain>> \o caller, count) /\ <<ReleaseAgain>> \o caller \in Seq(Frame)
      BY <3>1, UnderOneMore DEF is_loop
    <3>3. release_pressed_keys(count, <<ReleaseAgain>> \o caller)
      BY <2>1, <2>2 DEF activate_combo
    <3> QED
      BY <3>2, <3>3, LoopStarts
  <2>3. CASE free_entries # {}
    <3> DEFINE n == count - combo_length(full, count)
    <3>1. n \in 0 .. MaxKeys /\ n <= count /\ count \in Nat /\ n \in Nat
      <4> DEFINE length == combo_length(full, count)
      <4>1. TypeOK /\ count \in Nat
        BY ConstantFacts DEF Inv
      <4>2. length \in 0 .. count
        BY <2>1, <4>1, ComboLength
      <4> HIDE DEF length
      <4>3. count - length \in 0 .. MaxKeys /\ count - length <= count /\ count - length \in Nat
        BY <4>2, ConstantFacts
      <4> QED
        BY <4>1, <4>3 DEF length
    <3>2. release_pressed_keys(n, caller)
      BY <2>1, <2>3 DEF activate_combo
    <3> HIDE DEF n
    <3>3. Under(caller, n)
      BY <3>1, UnderFewer
    <3> QED
      BY <3>1, <3>2, <3>3, LoopStarts
  <2> QED
    BY <2>2, <2>3
<1> QED
  BY <1>1, <1>2

\* What LoopsNest says of the calls below the one that runs.
LEMMA BelowTop ==
  ASSUME Inv, LoopsNest, stack # <<>>
  PROVE  /\ rest \in Seq(Frame) /\ top \in Frame
         /\ pressed_keys_count \in Nat /\ pressed_keys_count \in 0 .. MaxKeys
         /\ Under(rest, pressed_keys_count)
         /\ Runs("down") => Under(rest, pressed_keys_count + 1)
<1>1. /\ rest \in Seq(Frame) /\ top \in Frame
      /\ pressed_keys_count \in Nat /\ pressed_keys_count \in 0 .. MaxKeys
  BY StackPops, ConstantFacts DEF Inv, TypeOK
<1>2. CASE Runs("down")
  <2>1. Under(rest, pressed_keys_count + 1)
    BY <1>2 DEF LoopsNest, in_hand
  <2>2. Under(rest, pressed_keys_count)
    <3>1. pressed_keys_count + 1 \in Nat /\ pressed_keys_count <= pressed_keys_count + 1
      BY <1>1
    <3> QED
      BY <1>1, <2>1, <3>1, UnderFewer
  <2> QED
    BY <1>1, <2>1, <2>2
<1>3. CASE ~ Runs("down")
  BY <1>1, <1>3 DEF LoopsNest, in_hand
<1> QED
  BY <1>2, <1>3

\* A handler that returns, or calls what is no loop.
LEMMA ReturnNests ==
  ASSUME Inv, LoopsNest, stack # <<>>, UNCHANGED pressed_keys_count,
         \/ stack' = rest
         \/ \E f \in Frame : f.op \notin {"down", "release"} /\ stack' = <<f>> \o rest
  PROVE  LoopsNest'
<1> DEFINE n == pressed_keys_count
<1>0. /\ n \in Nat /\ pressed_keys_count' \in Nat /\ pressed_keys_count' <= n
      /\ Under(rest, n) /\ rest \in Seq(Frame)
  BY BelowTop
<1> HIDE DEF n
<1>1. CASE stack' = rest
  BY <1>0, <1>1, CallsGoOn
<1>2. CASE \E f \in Frame : f.op \notin {"down", "release"} /\ stack' = <<f>> \o rest
  <2>1. PICK f \in Frame : f.op \notin {"down", "release"} /\ stack' = <<f>> \o rest
    BY <1>2
  <2>2. Under(<<f>> \o rest, n) /\ <<f>> \o rest \in Seq(Frame)
    BY <1>0, <2>1, UnderOneMore DEF is_loop
  <2> QED
    BY <1>0, <2>1, <2>2, CallsGoOn
<1> QED
  BY <1>1, <1>2

\* The steps of a handler that returns or calls no loop.
LEMMA ReturnsNest ==
  ASSUME Inv, LoopsNest,
         \/ DownIgnored \/ BubbleDown \/ ReleaseDone \/ UpHandled \/ UpReraised \/ UpBubbles
         \/ TimeoutReturns \/ FinishSet \/ FinishDelete \/ ClearAllWipes \/ ClearAllSaves
  PROVE  LoopsNest'
<1>1. stack # <<>> /\ UNCHANGED pressed_keys_count
  BY DEF Runs, matching, DownIgnored, BubbleDown, ReleaseDone, UpHandled, UpReraised, UpBubbles,
         TimeoutReturns, FinishSet, FinishDelete, ClearAllWipes, ClearAllSaves
<1>2. CASE UpReraised
  <2>1. top.event \in Event
    BY <1>2, RunningCall, FrameFields DEF UpReraised
  <2>2. Up(top.event) \in Frame /\ Up(top.event).op = "up"
    BY <2>1, EventFrames DEF Up
  <2> QED
    BY <1>1, <1>2, <2>2, ReturnNests DEF UpReraised
<1>3. CASE ClearAllWipes
  <2>1. top.slot \in 1 .. NumSlots
    <3>1. CASE Runs("clear_slot")
      BY <3>1, RunningCall, FrameFields DEF Slots
    <3>2. CASE Runs("clear") /\ top.slot <= NumSlots
      BY <3>2, RunningCall, FrameFields, ConstantFacts
    <3> QED
      BY <1>3, <3>1, <3>2 DEF ClearAllWipes
  <2>2. top.slot + 1 \in 1 .. NumSlots + 1
    BY <2>1, ConstantFacts
  <2>3. ClearFrom(top.slot + 1) \in Frame /\ ClearFrom(top.slot + 1).op = "clear"
    BY <2>2, ClearFrames DEF ClearFrom
  <2> QED
    BY <1>1, <1>3, <2>3, ReturnNests DEF ClearAllWipes
<1>4. CASE ~ UpReraised /\ ~ ClearAllWipes
  <2>1. stack' = rest
    BY <1>4, SMTT(30)
    DEF DownIgnored, BubbleDown, ReleaseDone, UpHandled, UpBubbles,
                TimeoutReturns, FinishSet, FinishDelete, ClearAllSaves
  <2> QED
    BY <1>1, <2>1, ReturnNests, SMTT(30)
<1> QED
  BY <1>2, <1>3, <1>4, SMTT(30)

\* The loop's own steps: what it raises is behind it.
LEMMA LoopStepsNest ==
  ASSUME Inv, LoopsNest, ReleaseFirstKey \/ ReraiseKey \/ CleanupReleasesAgain
  PROVE  LoopsNest'
<1>1. CASE CleanupReleasesAgain
  <2>1. stack # <<>>
    BY <1>1 DEF CleanupReleasesAgain, Runs
  <2> QED
    BY <1>1, <2>1, BelowTop, LoopStarts DEF CleanupReleasesAgain
<1>2. CASE ReleaseFirstKey \/ ReraiseKey
  <2> DEFINE k == top.next
             c == top.count
             n == pressed_keys_count
  <2>1. /\ Runs("release") /\ stack # <<>> /\ top.op = "release" /\ top \in Frame
        /\ UNCHANGED pressed_keys_count
    BY <1>2, RunningCall DEF ReleaseFirstKey, ReraiseKey, Runs, matching
  <2>2. /\ rest \in Seq(Frame) /\ n \in Nat /\ k \in 1 .. MaxKeys + 1 /\ c \in 0 .. MaxKeys
        /\ c \in Nat /\ k \in Nat
    BY <2>1, BelowTop, FrameFields, ConstantFacts
  <2>3. in_hand = n
    BY <2>1 DEF in_hand, Runs
  <2>4. k <= c + 1 /\ Under(rest, c) /\ (n <= k - 2 \/ n = 0)
    BY <2>1, <2>3 DEF LoopsNest, is_loop
  <2>5. CASE ReleaseFirstKey
    <3> DEFINE f == ReleaseLoop(2, c)
    <3>1. f \in Frame /\ f.op = "release" /\ f.next = 2 /\ f.count = c
      BY <2>2, ReleaseFrames, ConstantFacts DEF ReleaseLoop
    <3>2. k = 1 /\ c >= 1 /\ stack' = <<f>> \o rest
      BY <2>5 DEF ReleaseFirstKey
    <3> HIDE DEF f
    <3>3. stack' # <<>> /\ Head(stack') = f /\ Tail(stack') = rest
      BY <2>2, <3>1, <3>2, PushedCalls
    <3>4. n = 0
      BY <2>2, <2>4, <3>2
    <3>5. in_hand' = 0
      BY <2>1, <3>1, <3>3, <3>4 DEF in_hand, Runs, top
    <3>6. Under(rest, 0)
      BY <2>2, <2>4, UnderFewer
    <3>7. Under(Tail(stack'), in_hand') /\ Under(Tail(stack'), Head(stack').count)
      BY <2>4, <3>1, <3>3, <3>5, <3>6
    <3>8. Head(stack').next <= Head(stack').count + 1
      BY <2>2, <3>1, <3>2, <3>3
    <3> QED
      BY <3>5, <3>7, <3>8 DEF LoopsNest, top, rest
  <2>6. CASE ReraiseKey
    <3> DEFINE d == Down(pressed_keys[k])
               f == ReleaseLoop(k + 1, c)
    <3>1. k \in 2 .. c /\ stack' = <<d, f>> \o rest
      BY <2>6 DEF ReraiseKey
    <3>2. pressed_keys[k] \in Event /\ k + 1 \in 1 .. MaxKeys + 1
      BY <2>2, <3>1, ConstantFacts DEF Inv, TypeOK
    <3>3. d \in Frame /\ d.op = "down"
      BY <3>2, EventFrames DEF Down
    <3>4. f \in Frame /\ f.op = "release" /\ f.next = k + 1 /\ f.count = c
      BY <2>2, <3>2, ReleaseFrames DEF ReleaseLoop
    <3> HIDE DEF d, f
    <3> DEFINE q == <<f>> \o rest
    <3>5. /\ n + 1 \in Nat /\ n + 1 <= c /\ f.next >= 3 /\ f.next <= f.count + 1
          /\ n + 1 <= f.next - 2
      BY <2>2, <2>4, <3>1, <3>4
    <3>6. Under(rest, n + 1)
      BY <2>2, <2>4, <3>5, UnderFewer
    <3>7. Under(q, n + 1) /\ q \in Seq(Frame)
      BY <2>2, <2>4, <3>4, <3>5, <3>6, UnderOneMore
    <3>8. <<d, f>> \o rest = <<d>> \o q
      <4>1. <<d>> \in Seq(Frame) /\ <<f>> \in Seq(Frame) /\ <<d, f>> \in Seq(Frame)
        BY <3>3, <3>4
      <4>2. /\ <<d>> \o <<f>> \in Seq(Frame) /\ Len(<<d>> \o <<f>>) = 2
            /\ (<<d>> \o <<f>>)[1] = d /\ (<<d>> \o <<f>>)[2] = f
        BY <4>1, ConcatProperties
      <4>3. <<d, f>> = <<d>> \o <<f>>
        <5> DEFINE t == <<d>> \o <<f>>
                   u == <<d, f>>
        <5>1. /\ t \in Seq(Frame) /\ u \in Seq(Frame) /\ Len(t) = 2 /\ Len(u) = 2
              /\ t[1] = u[1] /\ t[2] = u[2]
          BY <4>1, <4>2
        <5> HIDE DEF t, u
        <5>2. \A j \in 1 .. 2 : t[j] = u[j]
          BY <5>1
        <5>3. t = u
          BY <5>1, <5>2, SeqEqual
        <5> QED
          BY <5>3 DEF t, u
      <4> QED
        BY <2>2, <4>1, <4>3, ConcatAssociative
    <3> HIDE DEF q
    <3>9. stack' # <<>> /\ Head(stack') = d /\ Tail(stack') = q
      BY <3>1, <3>3, <3>7, <3>8, PushedCalls
    <3>10. in_hand' = n + 1
      BY <2>1, <3>3, <3>9 DEF in_hand, Runs, top
    <3>11. Under(Tail(stack'), in_hand') /\ Head(stack').op # "release"
      BY <3>3, <3>7, <3>9, <3>10
    <3> QED
      BY <3>11 DEF LoopsNest, is_loop, top, rest
  <2> QED
    BY <1>2, <2>5, <2>6
<1> QED
  BY <1>1, <1>2

\* A key is captured, and the match may end: it was counted while it was raised.
LEMMA DownCapturedNests ==
  ASSUME Inv, LoopsNest, DownCaptured
  PROVE  LoopsNest'
<1> DEFINE e     == top.event
           room  == pressed_keys_count < MaxKeys
           count == IF room THEN pressed_keys_count + 1 ELSE pressed_keys_count
           caller == IF room THEN rest ELSE <<Bubble(e)>> \o rest
<1>1. Runs("down") /\ stack # <<>>
  BY DEF DownCaptured, Runs
<1>2. /\ rest \in Seq(Frame) /\ pressed_keys_count \in Nat /\ pressed_keys_count \in 0 .. MaxKeys
      /\ Under(rest, pressed_keys_count) /\ Under(rest, pressed_keys_count + 1)
  BY <1>1, BelowTop
<1>3. count \in 0 .. MaxKeys /\ count \in Nat
  BY <1>2, ConstantFacts
<1>4. caller \in Seq(Frame) /\ Under(caller, count)
  <2>1. CASE room
    BY <1>2, <2>1
  <2>2. CASE ~ room
    <3>1. Bubble(e) \in Frame /\ Bubble(e).op = "bubble"
      BY <1>1, RunningCall, FrameFields, EventFrames DEF Bubble
    <3>2. Under(<<Bubble(e)>> \o rest, pressed_keys_count) /\ <<Bubble(e)>> \o rest \in Seq(Frame)
      BY <1>2, <3>1, UnderOneMore DEF is_loop
    <3> QED
      BY <2>2, <3>2
  <2> QED
    BY <2>1, <2>2
<1>5. \/ \E keys : \E full \in Slots \cup {NoSlot} : cleanup(keys, count, full, caller)
      \/ pressed_keys_count' = count /\ stack' = caller
  <2> DEFINE fresh == setup_candidates_for_first_keypress(e.position, e.timestamp)
             cands == IF pressed_keys_count = 0 THEN candidates \cup fresh
                      ELSE filter_candidates(
                             filter_timed_out_candidates(candidates, e.timestamp), e.position)
             keys  == IF room THEN [pressed_keys EXCEPT ![pressed_keys_count + 1] = e]
                      ELSE pressed_keys
             full  == {s \in cands : key_count(s) = count}
  <2>1. \/ cleanup(keys, count, fully_pressed_combo, caller)
        \/ full # {} /\ cleanup(keys, count, Min(full), caller)
        \/ pressed_keys_count' = count /\ stack' = caller
    BY DEF DownCaptured
  <2>2. fully_pressed_combo \in Slots \cup {NoSlot}
    BY DEF Inv, TypeOK
  <2>3. full # {} => Min(full) \in Slots
    <3>1. full \in SUBSET Slots /\ full \in SUBSET Nat
      BY ConstantFacts DEF Inv, TypeOK, setup_candidates_for_first_keypress, filter_candidates,
                           filter_timed_out_candidates
    <3> HIDE DEF full
    <3>2. full # {} => Min(full) \in full
      BY <3>1, MinOfNaturals
    <3> QED
      BY <3>1, <3>2
  <2> HIDE DEF keys, full, cands, fresh, count, caller, room, e
  <2> QED
    BY <2>1, <2>2, <2>3
<1> HIDE DEF count, caller, room, e
<1>6. CASE \E keys : \E full \in Slots \cup {NoSlot} : cleanup(keys, count, full, caller)
  BY <1>3, <1>4, <1>6, CleanupNests
<1>7. CASE pressed_keys_count' = count /\ stack' = caller
  BY <1>3, <1>4, <1>7, CallsGoOn
<1> QED
  BY <1>5, <1>6, <1>7

\* A release, a timeout or an edit ends the match in flight.
LEMMA EndsNest ==
  ASSUME Inv, LoopsNest,
         \/ UpCleanup \/ TimeoutExpires \/ ClearAllQuiesces \/ StartClearAll
         \/ \E s \in Slots, rec \in NewRecords : StartSet(s, rec)
         \/ \E s \in Slots : StartDelete(s)
  PROVE  LoopsNest'
<1>1. /\ fully_pressed_combo \in Slots \cup {NoSlot} /\ NoSlot \in Slots \cup {NoSlot}
      /\ pressed_keys_count \in 0 .. MaxKeys /\ pressed_keys_count \in Nat
  BY ConstantFacts DEF Inv, TypeOK
<1>2. ASSUME NEW f \in Frame, f.op \notin {"down", "release"}, quiesce_match(<<f>>)
      PROVE  LoopsNest'
  <2>1. /\ <<f>> \in Seq(Frame) /\ Under(<<f>>, pressed_keys_count)
    BY <1>2, UnderNothing
  <2>2. CASE cleanup(pressed_keys, pressed_keys_count, NoSlot, <<f>>)
    BY <1>1, <2>1, <2>2, CleanupNests
  <2>3. CASE stack' = <<f>> /\ UNCHANGED matching
    <3>1. pressed_keys_count' \in Nat /\ pressed_keys_count' <= pressed_keys_count
      BY <1>1, <2>3 DEF matching
    <3> QED
      BY <1>1, <2>1, <2>3, <3>1, CallsGoOn
  <2> QED
    BY <1>2, <2>2, <2>3 DEF quiesce_match
<1>3. CASE UpCleanup
  <2>1. /\ Runs("up") /\ stack # <<>>
        /\ cleanup(pressed_keys, pressed_keys_count, fully_pressed_combo,
                   <<UpCleaned(top.event)>> \o rest)
    BY <1>3 DEF UpCleanup, Runs
  <2>2. UpCleaned(top.event) \in Frame /\ UpCleaned(top.event).op = "up_cleaned"
    BY <2>1, RunningCall, FrameFields, EventFrames DEF UpCleaned
  <2>3. /\ <<UpCleaned(top.event)>> \o rest \in Seq(Frame)
        /\ Under(<<UpCleaned(top.event)>> \o rest, pressed_keys_count)
    BY <2>1, <2>2, BelowTop, UnderOneMore DEF is_loop
  <2> QED
    BY <1>1, <2>1, <2>3, CleanupNests
<1>4. CASE TimeoutExpires
  <2>1. CASE cleanup(pressed_keys, pressed_keys_count, fully_pressed_combo, <<TimedOut>>)
    <3>1. TimedOut \in Frame /\ TimedOut.op = "timed_out"
      BY ReleaseFrames, ConstantFacts DEF TimedOut
    <3>2. <<TimedOut>> \in Seq(Frame) /\ Under(<<TimedOut>>, pressed_keys_count)
      BY <3>1, UnderNothing
    <3> QED
      BY <1>1, <2>1, <3>2, CleanupNests
  <2>2. CASE UNCHANGED stack
    BY <1>4, <2>2 DEF TimeoutExpires, Idle, LoopsNest
  <2> QED
    BY <1>4, <2>1, <2>2 DEF TimeoutExpires
<1>5. CASE ClearAllQuiesces
  <2>1. top.slot \in Slots
    BY <1>5, RunningCall, FrameFields, ConstantFacts DEF ClearAllQuiesces, Slots
  <2>2. ClearSlot(top.slot) \in Frame /\ ClearSlot(top.slot).op = "clear_slot"
    BY <2>1 DEF ClearSlot, Frame
  <2> QED
    BY <1>2, <1>5, <2>2 DEF ClearAllQuiesces
<1>6. CASE StartClearAll
  <2>1. ClearFrom(1) \in Frame /\ ClearFrom(1).op = "clear"
    BY ClearFrames, ConstantFacts DEF ClearFrom
  <2>2. <<ClearFrom(1)>> \in Seq(Frame) /\ Under(<<ClearFrom(1)>>, pressed_keys_count)
    BY <2>1, UnderNothing
  <2>3. pressed_keys_count' \in Nat /\ pressed_keys_count' <= pressed_keys_count
    BY <1>1, <1>6 DEF StartClearAll, matching
  <2> QED
    BY <1>1, <1>6, <2>2, <2>3, CallsGoOn DEF StartClearAll
<1>7. ASSUME NEW s \in Slots, NEW rec \in NewRecords, StartSet(s, rec)
      PROVE  LoopsNest'
  <2>1. SetSlot(s, rec) \in Frame /\ SetSlot(s, rec).op = "set"
    BY EditFrames, TablesAssumption DEF SetSlot
  <2> QED
    BY <1>2, <1>7, <2>1 DEF StartSet
<1>8. ASSUME NEW s \in Slots, StartDelete(s)
      PROVE  LoopsNest'
  <2>1. DeleteSlot(s) \in Frame /\ DeleteSlot(s).op = "delete"
    BY DEF DeleteSlot, Frame
  <2> QED
    BY <1>2, <1>8, <2>1 DEF StartDelete
<1> QED
  BY <1>3, <1>4, <1>5, <1>6, <1>7, <1>8

\* A key enters an idle matcher; the clock and other work items leave it alone.
LEMMA OthersNest ==
  ASSUME Inv, LoopsNest,
         \/ \E p \in Positions : Press(p) \/ Release(p)
         \/ Tick \/ TimeoutTooEarly \/ Others \/ UNCHANGED vars
  PROVE  LoopsNest'
<1>1. CASE UNCHANGED <<stack, pressed_keys_count>>
  BY <1>1 DEF LoopsNest, in_hand, Runs, top, rest
<1>2. ASSUME NEW p \in Positions, Press(p) \/ Release(p)
      PROVE  LoopsNest'
  <2>1. PICK f : stack' = <<f>> /\ f.op \in {"down", "up"}
    BY <1>2 DEF Press, Release, Down, Up
  <2>2. Head(stack') = f /\ Tail(stack') = <<>>
    BY <2>1
  <2>3. ASSUME NEW n
        PROVE  Under(<<>>, n)
    BY DEF Under
  <2> QED
    BY <2>1, <2>2, <2>3 DEF LoopsNest, is_loop, top, rest
<1> QED
  BY <1>1, <1>2 DEF Tick, TimeoutTooEarly, Others, KeycodeRaised, LayerSwitches, vars, matching

LEMMA NextNests == Inv /\ LoopsNest /\ [Next]_vars => LoopsNest'
BY ReturnsNest, LoopStepsNest, DownCapturedNests, EndsNest, OthersNest
   DEF Next, Handler, Timeout, Keys, Edits

\* The counts of the loops in progress are different, all but the running one's
\* are 2 or more, and so they are no more than the keys.
LEMMA NestedLoopsAreFew ==
  ASSUME Inv, LoopsNest
  PROVE  RecursionBounded
<1>1. stack \in Seq(Frame) /\ Len(stack) \in Nat
  BY DEF Inv, TypeOK
<1>2. \A j \in loops : /\ j \in 1 .. Len(stack) /\ is_loop(stack[j]) /\ stack[j] \in Frame
                       /\ stack[j].count \in 0 .. MaxKeys /\ stack[j].next \in 1 .. MaxKeys + 1
  BY <1>1, FrameFields DEF loops, is_loop
<1>3. \A j \in loops : j # 1 => /\ stack # <<>> /\ j - 1 \in 1 .. Len(rest) /\ stack[j] = rest[j - 1]
  <2>1. CASE stack = <<>>
    BY <2>1 DEF loops
  <2>2. CASE stack # <<>>
    <3>1. Len(Tail(stack)) = Len(stack) - 1 /\ \A j \in 1 .. Len(stack) - 1 : Tail(stack)[j] = stack[j + 1]
      BY <1>1, <2>2, HeadTailProperties
    <3> QED
      BY <1>1, <1>2, <2>2, <3>1 DEF rest
  <2> QED
    BY <2>1, <2>2
<1>4. \A j \in loops : j # 1 => stack[j].next >= 3 /\ stack[j].next <= stack[j].count + 1
  BY <1>2, <1>3 DEF LoopsNest, Under
<1>5. ASSUME NEW i \in loops, NEW j \in loops, i < j
      PROVE  stack[i].count <= stack[j].next - 2
  <2>1. j # 1 /\ j - 1 \in 1 .. Len(rest) /\ stack[j] = rest[j - 1] /\ stack # <<>>
    BY <1>1, <1>2, <1>3, <1>5
  <2>2. CASE i = 1
    <3>1. top = stack[1]
      BY <1>1, <2>1, HeadTailProperties DEF top
    <3>2. Under(rest, stack[1].count)
      BY <1>2, <2>1, <2>2, <3>1 DEF LoopsNest
    <3> QED
      BY <1>2, <2>1, <2>2, <3>2 DEF Under
  <2>3. CASE i # 1
    <3>1. i - 1 \in 1 .. Len(rest) /\ stack[i] = rest[i - 1] /\ i - 1 < j - 1
      BY <1>1, <1>2, <1>3, <1>5, <2>3
    <3>2. Under(rest, in_hand)
      BY <2>1 DEF LoopsNest
    <3> QED
      BY <1>2, <2>1, <3>1, <3>2 DEF Under
  <2> QED
    BY <2>2, <2>3
<1> DEFINE size == [j \in loops |-> IF stack[j].count = 0 THEN 1 ELSE stack[j].count]
<1>6. size \in [loops -> 1 .. MaxKeys]
  BY <1>2, ConstantFacts
<1>7. ASSUME NEW i \in loops, NEW j \in loops, i < j
      PROVE  size[i] # size[j]
  <2>1. j # 1
    BY <1>2, <1>7
  <2>2. /\ stack[i].count \in Nat /\ stack[j].count \in Nat /\ stack[j].next \in Nat
        /\ stack[j].next >= 3 /\ stack[j].next <= stack[j].count + 1
        /\ stack[i].count <= stack[j].next - 2
    BY <1>2, <1>4, <1>5, <1>7, <2>1, ConstantFacts
  <2> QED
    BY <2>2
<1>8. \A i, j \in loops : size[i] = size[j] => i = j
  BY <1>1, <1>2, <1>7
<1> HIDE DEF size
<1>9. size \in Injection(loops, 1 .. MaxKeys)
  BY <1>6, <1>8 DEF Injection, IsInjective
<1>10. IsFiniteSet(1 .. MaxKeys) /\ Cardinality(1 .. MaxKeys) = MaxKeys
  BY FS_Interval, ConstantFacts
<1>11. Cardinality(loops) <= Cardinality(1 .. MaxKeys)
  BY <1>9, <1>10, FS_Injection
<1> QED
  BY <1>10, <1>11 DEF RecursionBounded

\* release_pressed_keys() raises keys that come back to the matcher, which may
\* release them again: there are never more of its loops on the workqueue's stack
\* than keys in the buffer, whatever the table, the user and the app do.
THEOREM RecursionStaysBounded == Spec => []RecursionBounded
<1>1. Init => LoopsNest
  BY DEF Init, LoopsNest
<1>2. Inv /\ LoopsNest => RecursionBounded
  BY NestedLoopsAreFew
<1>3. QED
  BY <1>1, <1>2, InitInv, NextInv, NextNests, PTL DEF Spec
==============================================================================
