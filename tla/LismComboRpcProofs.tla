-------------------------- MODULE LismComboRpcProofs --------------------------
(***************************************************************************)
(* Theorems about the combo service, for any table, queue and commands.    *)
(* Each invariant is shown on top of the ones before it: the dump needs    *)
(* the types, the app's mirror needs the dump.  The refinement comes last: *)
(* outside a save what is live is what is stored, and a dump, which is a   *)
(* snapshot, ends outside a save.                                          *)
(***************************************************************************)
EXTENDS LismComboRpcRefinement, FiniteSetTheorems, SequenceTheorems, TLAPS

Accepted == [cmd : Command, number : Nat]

LEMMA SlotFacts ==
  /\ NumSlots \in Nat \ {0} /\ 0 \in Slots /\ Slots \subseteq Int
  /\ -1 \in -1 .. NumSlots /\ 0 \in -1 .. NumSlots
<1>1. NumSlots \in Nat \ {0}
  BY RpcAssumption
<1>2. QED
  BY <1>1 DEF Slots

LEMMA EmptyQueues ==
  /\ <<>> \in Seq(Accepted) /\ <<>> \in Seq(Nat)
  /\ Len(<<>>) <= QueueSize
<1>1. QueueSize \in Nat
  BY RpcAssumption
<1>2. QED
  BY <1>1, EmptySeq

LEMMA EmptyTableType == EmptyTable \in Table
BY DEF EmptyTable, Table

LEMMA ActiveCountType == lism_combo_active_count \in Nat
<1>1. IsFiniteSet(Slots)
  BY SlotFacts, FS_Interval DEF Slots
<1>2. {s \in Slots : slots[s] # NoRecord} \in SUBSET Slots
  OBVIOUS
<1>3. QED
  BY <1>1, <1>2, FS_Subset, FS_CardinalityType DEF lism_combo_active_count

\* An edit leaves a table.
LEMMA TableAfterType ==
  ASSUME slots \in Table, NEW cmd \in Command
  PROVE  table_after(cmd) \in Table /\ result_of(cmd) \in Results
<1>1. result_of(cmd) \in Results
  BY DEF result_of, Results
<1>2. CASE result_of(cmd) = "ok" /\ cmd.op = "set"
  <2>1. cmd.slot \in Slots /\ cmd.record \in Records
    BY <1>2, RpcAssumption DEF result_of
  <2>2. QED
    BY <1>1, <1>2, <2>1 DEF table_after, Table
<1>3. CASE result_of(cmd) = "ok" /\ cmd.op = "delete"
  BY <1>1, <1>3 DEF table_after, Table
<1>4. CASE result_of(cmd) = "ok" /\ cmd.op = "clear"
  BY <1>1, <1>4, EmptyTableType DEF table_after
<1>5. CASE result_of(cmd) # "ok" \/ cmd.op \notin {"set", "delete", "clear"}
  <2>1. table_after(cmd) = slots
    BY <1>5 DEF table_after
  <2>2. QED
    BY <1>1, <2>1
<1>6. QED
  BY <1>2, <1>3, <1>4, <1>5

LEMMA InitType == Init => TypeOK
<1> SUFFICES ASSUME Init PROVE TypeOK
  OBVIOUS
<1>1. combo_cmd_q \in Seq(Accepted) /\ Len(combo_cmd_q) <= QueueSize /\ in_flight \in Seq(Nat)
  BY EmptyQueues DEF Init
<1>2. TestCombo \in BOOLEAN
  BY RpcAssumption
<1>3. QED
  BY <1>1, <1>2, EmptyTableType, SlotFacts DEF Init, TypeOK, Results, Accepted

LEMMA NextType == TypeOK /\ [Next]_vars => TypeOK'
<1> SUFFICES ASSUME TypeOK, [Next]_vars PROVE TypeOK'
  OBVIOUS
<1> USE DEF TypeOK, store, queue, dump, app, counters
<1>1. ASSUME NEW cmd \in Commands, Write(cmd) PROVE TypeOK'
  <2>1. [cmd |-> cmd, number |-> accepted + 1] \in Accepted
    BY RpcAssumption DEF Accepted
  <2>2. combo_cmd_q' \in Seq(Accepted) /\ Len(combo_cmd_q') = Len(combo_cmd_q) + 1
    BY <1>1, <2>1, AppendProperties DEF Write, Accepted
  <2>3. Len(combo_cmd_q') <= QueueSize
    BY <1>1, <2>2, RpcAssumption DEF Write
  <2>4. in_flight' \in Seq(Nat)
    BY <1>1, AppendProperties DEF Write
  <2>5. QED
    BY <1>1, <2>2, <2>3, <2>4 DEF Write, Accepted
<1>2. CASE WriteSubmits
  BY <1>2 DEF WriteSubmits
<1>3. CASE Subscribe
  BY <1>3 DEF Subscribe
<1>4. CASE Unsubscribe
  BY <1>4, EmptyQueues DEF Unsubscribe
<1>5. CASE TakeCommand
  <2>1. Head(combo_cmd_q) \in Accepted /\ Tail(combo_cmd_q) \in Seq(Accepted)
        /\ Len(Tail(combo_cmd_q)) = Len(combo_cmd_q) - 1
    BY <1>5, HeadTailProperties DEF TakeCommand, Accepted
  <2>2. Head(combo_cmd_q).cmd \in Command /\ Head(combo_cmd_q).number \in Nat
    BY <2>1 DEF Accepted
  <2>3. slots' \in Table /\ last_result' \in Results
    BY <1>5, <2>2, TableAfterType DEF TakeCommand
  <2>4. last_op' \in Ops
    BY <1>5, <2>2 DEF TakeCommand, Command
  <2>5. Len(combo_cmd_q') <= QueueSize /\ combo_cmd_q' \in Seq(Accepted)
    BY <1>5, <2>1, RpcAssumption DEF TakeCommand
  <2>6. phase' \in {"save", "resubmit"}
    BY <1>5 DEF TakeCommand, edits_table
  <2>7. QED
    BY <1>5, <2>2, <2>3, <2>4, <2>5, <2>6 DEF TakeCommand, Accepted
<1>6. CASE SaveSlots
  BY <1>6 DEF SaveSlots
<1>7. CASE Resubmit
  BY <1>7, SlotFacts DEF Resubmit, start_dump
<1>8. CASE TakeNothing
  <2>1. phase' \in {"idle", "dump"} /\ next_packet' \in -1 .. NumSlots
    BY <1>8, SlotFacts DEF TakeNothing, start_dump
  <2>2. QED
    BY <1>8, <2>1 DEF TakeNothing
<1>9. CASE SendBegin
  BY <1>9, ActiveCountType, EmptyTableType, SlotFacts DEF SendBegin
<1>10. CASE SendRecord
  <2>1. received' \in Table
    BY <1>10 DEF SendRecord, Table
  <2>2. next_packet' \in -1 .. NumSlots
    BY <1>10, SlotFacts DEF SendRecord, Slots
  <2>3. QED
    BY <1>10, <2>1, <2>2 DEF SendRecord
<1>11. CASE SendEnd
  <2>1. in_flight' \in Seq(Nat)
    BY <1>11, EmptyQueues, HeadTailProperties DEF SendEnd
  <2>2. QED
    BY <1>11, <2>1 DEF SendEnd
<1>12. CASE NotifyGivesUp
  BY <1>12 DEF NotifyGivesUp
<1>13. CASE SeedTestCombo
  <2>1. slots' \in Table
    BY <1>13 DEF SeedTestCombo, Table
  <2>2. QED
    BY <1>13, <2>1 DEF SeedTestCombo
<1>14. CASE Reboot
  <2>1. slots' \in Table
    BY <1>14, EmptyTableType DEF Reboot, loaded
  <2>2. seed_test_combo_work' \in BOOLEAN
    BY <1>14, RpcAssumption DEF Reboot
  <2>3. /\ combo_cmd_q' \in Seq(Accepted) /\ Len(combo_cmd_q') <= QueueSize
        /\ in_flight' \in Seq(Nat)
    BY <1>14, EmptyQueues DEF Reboot
  <2>4. reboots' \in Nat /\ next_packet' \in -1 .. NumSlots
    BY <1>14, SlotFacts DEF Reboot
  <2>5. settings_found' \in BOOLEAN /\ flash' \in Table \cup {NoTable}
    BY <1>14 DEF Reboot
  <2>6. QED
    BY <1>14, <2>1, <2>2, <2>3, <2>4, <2>5 DEF Reboot, Results, Accepted
<1>15. CASE UNCHANGED vars
  BY <1>15 DEF vars
<1>16. QED
  BY <1>1, <1>2, <1>3, <1>4, <1>5, <1>6, <1>7, <1>8, <1>9, <1>10, <1>11, <1>12, <1>13,
     <1>14, <1>15 DEF Next, App, RxThread, Workqueue

\* Every variable keeps its type; the command queue never outgrows its length.
THEOREM TypeCorrect == Spec => []TypeOK
BY InitType, NextType, PTL DEF Spec

-----------------------------------------------------------------------------
(* No lost wake-up                                                         *)

\* Whenever commands are queued the work item is submitted, or about to be by
\* the RX thread or by its own handler: inductive as it stands, which is what
\* makes the code right, for the RX thread may queue a command at any moment.
THEOREM NoLostWakeup == Spec => []QueuedCommandsAreServed
<1>1. Init => QueuedCommandsAreServed
  BY DEF Init, QueuedCommandsAreServed
<1>2. QueuedCommandsAreServed /\ [Next]_vars => QueuedCommandsAreServed'
  <2> SUFFICES ASSUME QueuedCommandsAreServed, [Next]_vars PROVE QueuedCommandsAreServed'
    OBVIOUS
  <2> USE DEF QueuedCommandsAreServed, queue
  <2>1. ASSUME NEW cmd \in Commands, Write(cmd) PROVE QueuedCommandsAreServed'
    BY <2>1 DEF Write
  <2>2. CASE WriteSubmits \/ Subscribe \/ Unsubscribe
    BY <2>2 DEF WriteSubmits, Subscribe, Unsubscribe
  <2>3. CASE TakeCommand
    BY <2>3 DEF TakeCommand
  <2>4. CASE SaveSlots
    BY <2>4 DEF SaveSlots
  <2>5. CASE Resubmit
    BY <2>5 DEF Resubmit
  <2>6. CASE TakeNothing
    BY <2>6 DEF TakeNothing
  <2>7. CASE SendBegin \/ SendRecord \/ SendEnd \/ NotifyGivesUp
    BY <2>7 DEF SendBegin, SendRecord, SendEnd, NotifyGivesUp
  <2>8. CASE SeedTestCombo
    BY <2>8 DEF SeedTestCombo
  <2>9. CASE Reboot
    BY <2>9 DEF Reboot
  <2>10. CASE UNCHANGED vars
    BY <2>10 DEF vars
  <2>11. QED
    BY <2>1, <2>2, <2>3, <2>4, <2>5, <2>6, <2>7, <2>8, <2>9, <2>10
       DEF Next, App, RxThread, Workqueue
<1>3. QED
  BY <1>1, <1>2, PTL DEF Spec

-----------------------------------------------------------------------------
(* Dumps                                                                   *)

LEMMA NextDump == TypeOK /\ DumpsAreSnapshots /\ [Next]_vars => DumpsAreSnapshots'
<1> SUFFICES ASSUME TypeOK, DumpsAreSnapshots, [Next]_vars PROVE DumpsAreSnapshots'
  OBVIOUS
<1>1. CASE UNCHANGED <<slots, phase, next_packet, begun, received>>
  BY <1>1 DEF DumpsAreSnapshots, lism_combo_active_count
<1>2. ASSUME NEW cmd \in Commands, Write(cmd) PROVE DumpsAreSnapshots'
  BY <1>1, <1>2 DEF Write, store, dump
<1>3. CASE WriteSubmits \/ Subscribe \/ Unsubscribe
  BY <1>1, <1>3 DEF WriteSubmits, Subscribe, Unsubscribe, store, dump
<1>4. CASE phase' # "dump" \/ next_packet' = -1
  BY <1>4 DEF DumpsAreSnapshots
<1>5. CASE TakeCommand \/ SaveSlots \/ Resubmit \/ TakeNothing
  BY <1>4, <1>5 DEF TakeCommand, SaveSlots, Resubmit, TakeNothing, start_dump
<1>6. CASE SendBegin
  <2>1. begun' = lism_combo_active_count' /\ next_packet' = 0
    BY <1>6 DEF SendBegin, lism_combo_active_count, store
  <2>2. \A s \in Slots : ~ (s < 0)
    BY SlotFacts DEF Slots
  <2>3. QED
    BY <2>1, <2>2 DEF DumpsAreSnapshots
<1>7. CASE SendRecord
  <2>1. /\ phase = "dump" /\ next_packet \in Slots /\ next_packet >= 0
        /\ next_packet' = next_packet + 1 /\ slots' = slots /\ begun' = begun
    BY <1>7, SlotFacts DEF SendRecord, store, Slots
  <2>2. begun' = lism_combo_active_count'
    BY <2>1 DEF DumpsAreSnapshots, lism_combo_active_count
  <2>3. ASSUME NEW s \in Slots, s < next_packet' PROVE received'[s] = slots'[s]
    <3>1. s = next_packet \/ s < next_packet
      BY <2>1, <2>3, SlotFacts
    <3>2. received' = [received EXCEPT ![next_packet] = slots[next_packet]]
      BY <1>7 DEF SendRecord
    <3>3. received \in [Slots -> Records \cup {NoRecord, SeedRecord}]
      BY DEF TypeOK, Table
    <3>4. QED
      BY <2>1, <3>1, <3>2, <3>3 DEF DumpsAreSnapshots
  <2>4. QED
    BY <2>2, <2>3 DEF DumpsAreSnapshots
<1>8. CASE SendEnd \/ NotifyGivesUp
  BY <1>4, <1>8 DEF SendEnd, NotifyGivesUp
<1>9. CASE SeedTestCombo \/ Reboot
  BY <1>4, <1>9 DEF SeedTestCombo, Reboot
<1>10. CASE UNCHANGED vars
  BY <1>1, <1>10 DEF vars, store, dump
<1>11. QED
  BY <1>2, <1>3, <1>5, <1>6, <1>7, <1>8, <1>9, <1>10 DEF Next, App, RxThread, Workqueue

\* The table does not change under a dump, although the workqueue sleeps
\* between two packets and commands keep coming: what was announced and sent so
\* far is the table.
THEOREM DumpsStaySnapshots == Spec => []DumpsAreSnapshots
<1>1. Init => DumpsAreSnapshots
  BY DEF Init, DumpsAreSnapshots
<1>2. QED
  BY <1>1, TypeCorrect, NextDump, PTL DEF Spec

-----------------------------------------------------------------------------
(* The app's mirror                                                        *)

LEMMA NextMirror ==
  TypeOK /\ DumpsAreSnapshots /\ MirrorIsCurrent /\ ~ seed_test_combo_work
    /\ [Next]_vars => MirrorIsCurrent'
<1> SUFFICES ASSUME TypeOK, DumpsAreSnapshots, MirrorIsCurrent, ~ seed_test_combo_work,
                    [Next]_vars
             PROVE  MirrorIsCurrent'
  OBVIOUS
<1>1. CASE \/ ~ notify_enabled' \/ phase' # "idle" \/ cmd_work' \/ writing' \/ dirty'
  BY <1>1 DEF MirrorIsCurrent
<1>2. ASSUME NEW cmd \in Commands, Write(cmd) PROVE MirrorIsCurrent'
  BY <1>1, <1>2 DEF Write
<1>3. CASE WriteSubmits \/ Subscribe \/ Unsubscribe
  BY <1>1, <1>3 DEF WriteSubmits, Subscribe, Unsubscribe
<1>4. CASE TakeCommand \/ SaveSlots
  BY <1>1, <1>4 DEF TakeCommand, SaveSlots
<1>5. CASE Resubmit \/ TakeNothing
  BY <1>1, <1>5 DEF Resubmit, TakeNothing, start_dump
<1>6. CASE SendBegin \/ SendRecord
  BY <1>1, <1>6 DEF SendBegin, SendRecord
<1>7. CASE SendEnd
  <2>1. /\ phase = "dump" /\ next_packet = NumSlots /\ slots' = slots /\ mirror' = received
    BY <1>7 DEF SendEnd, store
  <2>2. \A s \in Slots : s < NumSlots
    BY SlotFacts DEF Slots
  <2>3. NumSlots >= 0
    BY SlotFacts
  <2>4. \A s \in Slots : received[s] = slots[s]
    BY <2>1, <2>2, <2>3 DEF DumpsAreSnapshots
  <2>5. received = slots
    BY <2>4 DEF TypeOK, Table
  <2>6. QED
    BY <2>1, <2>5 DEF MirrorIsCurrent
<1>8. CASE NotifyGivesUp \/ Reboot
  BY <1>1, <1>8 DEF NotifyGivesUp, Reboot
<1>9. CASE SeedTestCombo
  BY <1>9 DEF SeedTestCombo
<1>10. CASE UNCHANGED vars
  BY <1>10 DEF vars, MirrorIsCurrent, store, queue, app
<1>11. QED
  BY <1>2, <1>3, <1>4, <1>5, <1>6, <1>7, <1>8, <1>9, <1>10 DEF Next, App, RxThread, Workqueue

LEMMA NoSeed == ~ TestCombo => (Spec => []~ seed_test_combo_work)
<1> SUFFICES ASSUME ~ TestCombo PROVE Spec => []~ seed_test_combo_work
  OBVIOUS
<1>1. Init => ~ seed_test_combo_work
  BY DEF Init
<1>2. ~ seed_test_combo_work /\ [Next]_vars => ~ seed_test_combo_work'
  BY DEF Next, App, RxThread, Workqueue, Write, WriteSubmits, Subscribe, Unsubscribe,
         TakeCommand, SaveSlots, Resubmit, TakeNothing, SendBegin, SendRecord, SendEnd,
         NotifyGivesUp, SeedTestCombo, Reboot, vars, store
<1>3. QED
  BY <1>1, <1>2, PTL DEF Spec

\* Without the test combo (it is off by default), an app that is subscribed and
\* saw its last dump to the end shows the table the keyboard uses, once the
\* keyboard has nothing left to do for it.  (The test combo is seeded behind
\* the back of a subscribed app.)
THEOREM MirrorStaysCurrent == ~ TestCombo => (Spec => []MirrorIsCurrent)
<1> SUFFICES ASSUME ~ TestCombo PROVE Spec => []MirrorIsCurrent
  OBVIOUS
<1>1. Init => MirrorIsCurrent
  BY DEF Init, MirrorIsCurrent
<1>2. Spec => []~ seed_test_combo_work
  BY NoSeed
<1>3. TypeOK /\ DumpsAreSnapshots /\ MirrorIsCurrent /\ ~ seed_test_combo_work
        /\ [Next]_vars => MirrorIsCurrent'
  BY NextMirror
<1>4. QED
  BY <1>1, <1>2, <1>3, TypeCorrect, DumpsStaySnapshots, PTL DEF Spec

-----------------------------------------------------------------------------
(* Durability                                                              *)

acknowledges == answered > 0 /\ last_op \in {"set", "delete", "clear"} /\ last_result = "ok"

\* AckedIsDurable holds from the moment the save is over.
DurableInv == phase \in {"resubmit", "dump"} /\ acknowledges => flash = slots

LEMMA NextDurable == ~ SaveFails /\ DurableInv /\ [Next]_vars => DurableInv'
<1> SUFFICES ASSUME ~ SaveFails, DurableInv, [Next]_vars PROVE DurableInv'
  OBVIOUS
<1>1. CASE UNCHANGED <<slots, flash, phase, answered, last_op, last_result>>
  BY <1>1 DEF DurableInv, acknowledges
<1>2. ASSUME NEW cmd \in Commands, Write(cmd) PROVE DurableInv'
  BY <1>1, <1>2 DEF Write, store
<1>3. CASE WriteSubmits \/ Subscribe \/ Unsubscribe
  BY <1>1, <1>3 DEF WriteSubmits, Subscribe, Unsubscribe, store, counters
<1>4. CASE TakeCommand
  <2>1. phase' = "resubmit" => ~ acknowledges'
    BY <1>4 DEF TakeCommand, edits_table, acknowledges
  <2>2. phase' \in {"save", "resubmit"}
    BY <1>4 DEF TakeCommand
  <2>3. QED
    BY <2>1, <2>2 DEF DurableInv
<1>5. CASE SaveSlots
  BY <1>5 DEF SaveSlots, DurableInv
<1>6. CASE Resubmit
  BY <1>6 DEF Resubmit, start_dump, DurableInv, acknowledges, store, counters
<1>7. CASE TakeNothing
  BY <1>7 DEF TakeNothing, DurableInv, acknowledges
<1>8. CASE SendBegin \/ SendRecord
  BY <1>1, <1>8 DEF SendBegin, SendRecord, store, counters
<1>9. CASE SendEnd \/ NotifyGivesUp \/ SeedTestCombo \/ Reboot
  BY <1>9 DEF SendEnd, NotifyGivesUp, SeedTestCombo, Reboot, DurableInv
<1>10. CASE UNCHANGED vars
  BY <1>1, <1>10 DEF vars, store, counters
<1>11. QED
  BY <1>2, <1>3, <1>4, <1>5, <1>6, <1>7, <1>8, <1>9, <1>10 DEF Next, App, RxThread, Workqueue

\* As long as saves succeed, the table the app gets as the answer to a change
\* is the one a reboot brings back.
THEOREM AcksAreDurable == ~ SaveFails => (Spec => []AckedIsDurable)
<1> SUFFICES ASSUME ~ SaveFails PROVE Spec => []AckedIsDurable
  OBVIOUS
<1>1. Init => DurableInv
  BY DEF Init, DurableInv
<1>2. DurableInv /\ [Next]_vars => DurableInv'
  BY NextDurable
<1>3. DurableInv => AckedIsDurable
  BY DEF DurableInv, AckedIsDurable, acknowledges
<1>4. QED
  BY <1>1, <1>2, <1>3, PTL DEF Spec

-----------------------------------------------------------------------------
(* Answers                                                                 *)

\* What NoRequestIsForgotten rests on: no app waits that is not subscribed, so a dump
\* that is left out or given up is missed by nobody, and a command's number is not
\* 0, so the handler that takes it has it to answer.
AnswerInv ==
  /\ NoRequestIsForgotten
  /\ notify_enabled \/ in_flight = <<>>
  /\ \A i \in 1 .. Len(combo_cmd_q) : combo_cmd_q[i].number > 0

LEMMA NobodyWaits ==
  ASSUME TypeOK, in_flight = <<>>
  PROVE  NoRequestIsForgotten
<1>1. Len(combo_cmd_q) \in Nat /\ Len(in_flight) = 0
  BY EmptySeq DEF TypeOK
<1> QED
  BY <1>1 DEF NoRequestIsForgotten, to_answer

LEMMA WriteAnswers ==
  ASSUME TypeOK, TypeOK', AnswerInv, NEW cmd \in Commands, Write(cmd)
  PROVE  AnswerInv'
<1> DEFINE written == [cmd |-> cmd, number |-> accepted + 1]
<1>1. /\ combo_cmd_q' = Append(combo_cmd_q, written)
      /\ in_flight' \in {in_flight, Append(in_flight, accepted + 1)}
      /\ ~ notify_enabled => in_flight' = in_flight
      /\ UNCHANGED <<phase, answered, notify_enabled>>
  BY DEF Write
<1>2. /\ combo_cmd_q \in Seq(Accepted) /\ in_flight \in Seq(Nat) /\ accepted \in Nat
      /\ answered \in Nat /\ Len(combo_cmd_q) \in Nat /\ Len(in_flight) \in Nat
  BY DEF TypeOK, Accepted
<1>3. written \in Accepted /\ accepted + 1 \in Nat
  BY <1>2, RpcAssumption DEF Accepted
<1>4. /\ Len(combo_cmd_q') = Len(combo_cmd_q) + 1
      /\ \A i \in 1 .. Len(combo_cmd_q) : combo_cmd_q'[i] = combo_cmd_q[i]
      /\ combo_cmd_q'[Len(combo_cmd_q) + 1] = written
  BY <1>1, <1>2, <1>3, AppendProperties
<1>5. Len(in_flight') <= Len(in_flight) + 1
  BY <1>1, <1>2, <1>3, AppendProperties
<1>6. NoRequestIsForgotten'
  BY <1>1, <1>2, <1>4, <1>5 DEF AnswerInv, NoRequestIsForgotten, to_answer
<1>7. ASSUME NEW i \in 1 .. Len(combo_cmd_q') PROVE combo_cmd_q'[i].number > 0
  <2>1. CASE i \in 1 .. Len(combo_cmd_q)
    BY <1>4, <2>1 DEF AnswerInv
  <2>2. CASE i = Len(combo_cmd_q) + 1
    BY <1>2, <1>4, <2>2
  <2> QED
    BY <1>2, <1>4, <1>7, <2>1, <2>2
<1> QED
  BY <1>1, <1>6, <1>7 DEF AnswerInv

LEMMA TakeAnswers ==
  ASSUME TypeOK, TypeOK', AnswerInv, TakeCommand
  PROVE  AnswerInv'
<1>1. /\ phase = "idle" /\ phase' # "idle" /\ combo_cmd_q # <<>>
      /\ combo_cmd_q' = Tail(combo_cmd_q) /\ answered' = Head(combo_cmd_q).number
      /\ UNCHANGED <<in_flight, notify_enabled>>
  BY DEF TakeCommand, app
<1>2. combo_cmd_q \in Seq(Accepted) /\ Len(combo_cmd_q) \in Nat /\ Len(in_flight) \in Nat
  BY DEF TypeOK, Accepted
<1>3. /\ Len(combo_cmd_q) > 0 /\ Head(combo_cmd_q) = combo_cmd_q[1]
      /\ Len(combo_cmd_q') = Len(combo_cmd_q) - 1
      /\ \A i \in 1 .. Len(combo_cmd_q') : combo_cmd_q'[i] = combo_cmd_q[i + 1]
  BY <1>1, <1>2, EmptySeq, HeadTailProperties
<1>4. answered' > 0
  BY <1>1, <1>2, <1>3 DEF AnswerInv
<1>5. NoRequestIsForgotten'
  BY <1>1, <1>2, <1>3, <1>4 DEF AnswerInv, NoRequestIsForgotten, to_answer
<1>6. \A i \in 1 .. Len(combo_cmd_q') : combo_cmd_q'[i].number > 0
  BY <1>2, <1>3 DEF AnswerInv
<1> QED
  BY <1>1, <1>5, <1>6 DEF AnswerInv

LEMMA EndAnswers ==
  ASSUME TypeOK, TypeOK', AnswerInv, SendEnd
  PROVE  AnswerInv'
<1>1. /\ in_flight' = IF in_flight = <<>> THEN <<>> ELSE Tail(in_flight)
      /\ UNCHANGED <<combo_cmd_q, answered, notify_enabled>> /\ phase' = "idle"
  BY DEF SendEnd, queue, counters
<1>2. CASE in_flight = <<>>
  BY <1>1, <1>2, NobodyWaits DEF AnswerInv, NoRequestIsForgotten, to_answer
<1>3. CASE in_flight # <<>>
  <2>1. in_flight \in Seq(Nat) /\ Len(combo_cmd_q) \in Nat /\ Len(in_flight) \in Nat
    BY DEF TypeOK
  <2>2. Len(in_flight') = Len(in_flight) - 1
    BY <1>1, <1>3, <2>1, HeadTailProperties
  <2>3. NoRequestIsForgotten'
    BY <1>1, <2>1, <2>2 DEF AnswerInv, NoRequestIsForgotten, to_answer
  <2> QED
    BY <1>1, <1>3, <2>3 DEF AnswerInv
<1> QED
  BY <1>2, <1>3

LEMMA NextAnswers ==
  ~ NotifyFails /\ TypeOK /\ TypeOK' /\ AnswerInv /\ [Next]_vars => AnswerInv'
<1> SUFFICES ASSUME ~ NotifyFails, TypeOK, TypeOK', AnswerInv, [Next]_vars PROVE AnswerInv'
  OBVIOUS
<1>1. CASE UNCHANGED <<combo_cmd_q, answered, in_flight, notify_enabled, phase>>
  BY <1>1 DEF AnswerInv, NoRequestIsForgotten, to_answer
<1>2. CASE in_flight' = <<>> /\ combo_cmd_q' \in {combo_cmd_q, <<>>}
  <2>1. \A i \in 1 .. Len(combo_cmd_q') : combo_cmd_q'[i].number > 0
    BY <1>2 DEF AnswerInv
  <2>2. Len(in_flight') = 0
    BY <1>2, EmptySeq
  <2>3. Len(combo_cmd_q') \in Nat
    BY <1>2, EmptySeq DEF TypeOK
  <2>4. NoRequestIsForgotten'
    BY <2>2, <2>3 DEF NoRequestIsForgotten, to_answer
  <2> QED
    BY <1>2, <2>1, <2>4 DEF AnswerInv
<1>3. CASE WriteSubmits \/ SendBegin \/ SendRecord \/ SeedTestCombo \/ UNCHANGED vars
  BY <1>1, <1>3 DEF WriteSubmits, SendBegin, SendRecord, SeedTestCombo, vars, store, queue, app,
                    counters
<1>4. CASE Subscribe
  <2>1. in_flight = <<>>
    BY <1>4 DEF Subscribe, AnswerInv
  <2> QED
    BY <1>2, <1>4, <2>1 DEF Subscribe, app
<1>5. CASE SaveSlots
  BY <1>5 DEF SaveSlots, queue, app, counters, AnswerInv, NoRequestIsForgotten, to_answer
<1>6. CASE Resubmit
  <2>1. /\ UNCHANGED <<combo_cmd_q, answered, in_flight, notify_enabled>>
        /\ phase = "resubmit" /\ phase' = IF notify_enabled THEN "dump" ELSE "idle"
    BY <1>6 DEF Resubmit, start_dump, app, counters
  <2>2. CASE notify_enabled
    BY <2>1, <2>2 DEF AnswerInv, NoRequestIsForgotten, to_answer
  <2>3. CASE ~ notify_enabled
    BY <1>2, <2>1, <2>3 DEF AnswerInv
  <2> QED
    BY <2>2, <2>3
<1>7. CASE TakeNothing
  <2>1. /\ combo_cmd_q = <<>> /\ combo_cmd_q' = <<>> /\ in_flight' = in_flight /\ phase = "idle"
    BY <1>7 DEF TakeNothing, app
  <2>2. Len(in_flight) <= 0 /\ in_flight \in Seq(Nat)
    BY <2>1, EmptySeq DEF AnswerInv, NoRequestIsForgotten, to_answer, TypeOK
  <2>3. in_flight = <<>>
    BY <2>2, EmptySeq
  <2> QED
    BY <1>2, <2>1, <2>3
<1>8. CASE NotifyGivesUp
  <2>1. in_flight = <<>>
    BY <1>8 DEF NotifyGivesUp, AnswerInv
  <2> QED
    BY <1>2, <1>8, <2>1 DEF NotifyGivesUp, queue
<1>9. CASE Unsubscribe \/ Reboot
  BY <1>2, <1>9 DEF Unsubscribe, Reboot, queue
<1> QED
  BY <1>3, <1>4, <1>5, <1>6, <1>7, <1>8, <1>9, WriteAnswers, TakeAnswers, EndAnswers
     DEF Next, App, RxThread, Workqueue

\* As long as notifications get through, an app that writes, subscribes and
\* unsubscribes at any moment never waits for more answers than the keyboard is
\* still going to give: no command goes without its DUMP_END.
THEOREM RequestsStayAnswered == ~ NotifyFails => (Spec => []NoRequestIsForgotten)
<1> SUFFICES ASSUME ~ NotifyFails PROVE Spec => []NoRequestIsForgotten
  OBVIOUS
<1>1. Init => AnswerInv
  BY EmptySeq DEF Init, AnswerInv, NoRequestIsForgotten, to_answer
<1>2. TypeOK /\ TypeOK' /\ AnswerInv /\ [Next]_vars => AnswerInv'
  BY NextAnswers
<1>3. AnswerInv => NoRequestIsForgotten
  BY DEF AnswerInv
<1>4. QED
  BY <1>1, <1>2, <1>3, TypeCorrect, PTL DEF Spec

-----------------------------------------------------------------------------
(* The refinement                                                          *)

StoredOutsideSaves == phase # "save" => slots = loaded

LEMMA TablesAreStored ==
  ASSUME NEW t \in Table
  PROVE  t # NoTable
<1>1. 0 \in DOMAIN t
  BY SlotFacts, RpcAssumption DEF Table, Slots
<1>2. DOMAIN NoTable = {}
  BY DEF NoTable
<1> QED
  BY <1>1, <1>2

LEMMA UneditedTable ==
  ASSUME NEW cmd \in Command, ~ edits_table(cmd)
  PROVE  table_after(cmd) = slots
BY DEF edits_table, table_after

\* The steps that change what is live or stored.
LEMMA TakeKeepsStored ==
  ASSUME TypeOK, StoredOutsideSaves, TakeCommand
  PROVE  StoredOutsideSaves' /\ slots' \in Table /\ flash' = flash /\ mirror' = mirror
<1> DEFINE cmd == Head(combo_cmd_q).cmd
<1>1. cmd \in Command
  <2>1. Head(combo_cmd_q) \in [cmd : Command, number : Nat]
    BY HeadTailProperties DEF TypeOK, TakeCommand
  <2> QED
    BY <2>1
<1>2. /\ phase = "idle" /\ slots' = table_after(cmd)
      /\ phase' = IF edits_table(cmd) THEN "save" ELSE "resubmit"
      /\ flash' = flash /\ mirror' = mirror
  BY DEF TakeCommand, app
<1>3. slots' \in Table
  BY <1>1, <1>2, TableAfterType DEF TypeOK
<1>4. ASSUME ~ edits_table(cmd) PROVE slots' = loaded'
  BY <1>1, <1>2, <1>4, UneditedTable DEF StoredOutsideSaves, loaded
<1> QED
  BY <1>2, <1>3, <1>4 DEF StoredOutsideSaves

LEMMA SaveStores ==
  ASSUME ~ SaveFails, TypeOK, SaveSlots
  PROVE  loaded' = slots /\ slots' = slots /\ mirror' = mirror
<1>1. flash' = slots /\ slots' = slots /\ mirror' = mirror
  BY DEF SaveSlots, app
<1>2. slots # NoTable
  BY TablesAreStored DEF TypeOK
<1> QED
  BY <1>1, <1>2 DEF loaded

\* The steps that leave the table and the flash alone.
Elsewhere ==
  \/ \E cmd \in Commands : Write(cmd)
  \/ Subscribe \/ Unsubscribe \/ WriteSubmits \/ Resubmit \/ TakeNothing
  \/ SendBegin \/ SendRecord \/ NotifyGivesUp

LEMMA ElsewhereNothingHappens ==
  ASSUME Elsewhere
  PROVE  UNCHANGED <<slots, flash, mirror>> /\ (phase' = "save" <=> phase = "save")
BY DEF Elsewhere, Write, Subscribe, Unsubscribe, WriteSubmits, Resubmit, TakeNothing, SendBegin,
   SendRecord, NotifyGivesUp, start_dump, store, app

LEMMA StepCases ==
  ASSUME [Next]_vars, ~ seed_test_combo_work
  PROVE  Elsewhere \/ TakeCommand \/ SaveSlots \/ SendEnd \/ Reboot \/ UNCHANGED vars
BY DEF Next, App, RxThread, Workqueue, SeedTestCombo, Elsewhere

LEMMA NextStored ==
  ASSUME ~ SaveFails, ~ seed_test_combo_work, TypeOK, StoredOutsideSaves, [Next]_vars
  PROVE  StoredOutsideSaves'
<1>1. ASSUME Elsewhere PROVE StoredOutsideSaves'
  BY <1>1, ElsewhereNothingHappens DEF StoredOutsideSaves, loaded
<1>2. ASSUME SaveSlots PROVE StoredOutsideSaves'
  BY <1>2, SaveStores DEF StoredOutsideSaves
<1>3. ASSUME SendEnd PROVE StoredOutsideSaves'
  BY <1>3 DEF SendEnd, StoredOutsideSaves, loaded, store
<1>4. ASSUME Reboot PROVE StoredOutsideSaves'
  BY <1>4 DEF Reboot, StoredOutsideSaves, loaded
<1>5. ASSUME UNCHANGED vars PROVE StoredOutsideSaves'
  BY <1>5 DEF vars, store, StoredOutsideSaves, loaded
<1> QED
  BY <1>1, <1>2, <1>3, <1>4, <1>5, TakeKeepsStored, StepCases

\* A dump ends with the whole table received.
LEMMA DumpEndsWhole ==
  ASSUME TypeOK, DumpsAreSnapshots, SendEnd
  PROVE  mirror' = slots /\ slots' = slots /\ flash' = flash /\ phase = "dump"
<1>1. /\ phase = "dump" /\ next_packet = NumSlots /\ mirror' = received
      /\ slots' = slots /\ flash' = flash
  BY DEF SendEnd, store
<1>2. \A s \in Slots : received[s] = slots[s]
  BY <1>1, RpcAssumption DEF DumpsAreSnapshots, Slots
<1>3. received \in Table /\ slots \in Table
  BY DEF TypeOK
<1> QED
  BY <1>1, <1>2, <1>3 DEF Table

LEMMA InitImplements == Init => Durable!Init
BY DEF Init, Durable!Init, loaded

LEMMA StepImplements ==
  ASSUME ~ SaveFails, ~ seed_test_combo_work, TypeOK, DumpsAreSnapshots,
         StoredOutsideSaves, [Next]_vars
  PROVE  [Durable!Next]_Durable!vars
<1> USE DEF Durable!Next, Durable!vars
<1>1. ASSUME Elsewhere PROVE UNCHANGED Durable!vars
  BY <1>1, ElsewhereNothingHappens DEF loaded
<1>2. ASSUME TakeCommand PROVE Durable!Change
  BY <1>2, TakeKeepsStored DEF Durable!Change, loaded
<1>3. ASSUME SaveSlots PROVE Durable!Save
  BY <1>3, SaveStores DEF Durable!Save
<1>4. ASSUME SendEnd PROVE Durable!Tell
  BY <1>4, DumpEndsWhole DEF Durable!Tell, StoredOutsideSaves, loaded
<1>5. ASSUME Reboot PROVE Durable!PowerFails
  BY <1>5 DEF Reboot, Durable!PowerFails, loaded
<1>6. ASSUME UNCHANGED vars PROVE UNCHANGED Durable!vars
  BY <1>6 DEF vars, store, app, loaded
<1> QED
  BY <1>1, <1>2, <1>3, <1>4, <1>5, <1>6, StepCases

\* If saves succeed and there is no test combo, the service implements the durable
\* settings, whatever its queue and its dumps do: the app is told nothing that a
\* power failure could take back.
THEOREM ServiceIsDurable ==
  ~ SaveFails /\ ~ TestCombo => (Spec => ImplementsDurableSettings)
<1> SUFFICES ASSUME ~ SaveFails, ~ TestCombo PROVE Spec => ImplementsDurableSettings
  OBVIOUS
<1>1. Spec => []~ seed_test_combo_work
  BY NoSeed
<1>2. Init => StoredOutsideSaves
  BY DEF Init, StoredOutsideSaves, loaded
<1>3. TypeOK /\ ~ seed_test_combo_work /\ StoredOutsideSaves /\ [Next]_vars
        => StoredOutsideSaves'
  BY NextStored
<1>4. TypeOK /\ DumpsAreSnapshots /\ ~ seed_test_combo_work /\ StoredOutsideSaves
        /\ [Next]_vars => [Durable!Next]_Durable!vars
  BY StepImplements
<1> QED
  BY <1>1, <1>2, <1>3, <1>4, InitImplements, TypeCorrect, DumpsStaySnapshots, PTL
     DEF Spec, ImplementsDurableSettings, Durable!Spec
===============================================================================
