----------------------------- MODULE LismComboRpc -----------------------------
(***************************************************************************)
(* The combo table and the service that edits it: src/src/lism_combo_rpc.c *)
(* with the configuration and persistence half of                          *)
(* src/src/lism_runtime_combo.c.                                           *)
(*                                                                         *)
(* The Bluetooth RX thread accepts commands into a queue and submits a     *)
(* work item; the work item, on the system workqueue, takes one command,   *)
(* edits and saves the table, and notifies the app of the whole table,     *)
(* packet by packet.  It sleeps between packets, so the RX thread runs     *)
(* between any two steps.  Power may fail at any of them.                  *)
(*                                                                         *)
(* What an edit does to a match in flight is LismCombo's subject: here an  *)
(* edit is what it leaves in the table.  External and modelled from its    *)
(* use here: bt_gatt_notify, k_msgq, k_work, the settings backend, the app *)
(***************************************************************************)
EXTENDS Integers, Sequences, FiniteSets

CONSTANTS
  NumSlots,       \* LISM_COMBO_SLOTS
  Records,        \* records a command may carry
  ValidRecords,   \* those validate_record() accepts
  SeedRecord,     \* the test combo
  NoRecord,       \* an inactive slot
  Commands,       \* commands the app may write
  QueueSize,      \* length of combo_cmd_q
  TestCombo,      \* CONFIG_LISM_COMBO_RPC_TEST_COMBO
  NotifyFails,    \* whether a notification may fail for good
  SaveFails,      \* whether the settings backend may fail to save
  MaxWrites,      \* bound: commands the app writes between two boots
  MaxSubscribes,  \* bound: subscriptions between two boots
  MaxReboots      \* bound: power failures

Slots   == 0 .. NumSlots - 1
Table   == [Slots -> Records \cup {NoRecord, SeedRecord}]
NoTable == <<>>             \* nothing stored yet

Ops     == {"set", "delete", "clear", "get", "unknown"}
Results == {"ok", "EINVAL", "ENOTSUP"}

\* `complete`: the command is as long as its opcode wants it.
Command == [op : Ops, slot : Nat, record : Records \cup {NoRecord}, complete : BOOLEAN]

ASSUME RpcAssumption ==
  /\ NumSlots \in Nat \ {0} /\ QueueSize \in Nat \ {0}
  /\ ValidRecords \subseteq Records /\ NoRecord \notin Records \cup {SeedRecord}
  /\ Commands \subseteq Command
  /\ TestCombo \in BOOLEAN /\ NotifyFails \in BOOLEAN /\ SaveFails \in BOOLEAN
  /\ MaxWrites \in Nat /\ MaxSubscribes \in Nat /\ MaxReboots \in Nat

VARIABLES
  slots,            \* the slot table in RAM
  flash,            \* the table settings_save_one() last stored
  settings_found,
  seed_test_combo_work,   \* the seeding is still to come
  combo_cmd_q,      \* commands accepted, each with its number
  writing,          \* on_write() has queued its command, not submitted the work
  cmd_work,         \* the work item is submitted
  phase,            \* where its handler is: idle, save, resubmit or dump
  next_packet,      \* of the dump: -1 BEGIN, a slot, NumSlots END
  notify_enabled,
  last_op, last_result,
  begun,            \* active_count of the last DUMP_BEGIN
  received,         \* records notified since then
  mirror,           \* history: the last complete dump
  dirty,            \* history: a dump failed since then
  accepted,         \* history: commands accepted since boot
  answered,         \* history: number of the command the running handler took, or 0
  in_flight,        \* the requests a subscribed app waits for an answer to
  subscribes, reboots

store    == <<slots, flash, settings_found, seed_test_combo_work>>
queue    == <<combo_cmd_q, writing, cmd_work>>
dump     == <<next_packet, begun, received>>
app      == <<mirror, dirty, in_flight>>
counters == <<accepted, answered, subscribes, reboots>>
vars     == <<store, queue, phase, dump, notify_enabled, last_op, last_result, app, counters>>

-----------------------------------------------------------------------------
(* The table                                                               *)

lism_combo_active_count == Cardinality({s \in Slots : slots[s] # NoRecord})

EmptyTable == [s \in Slots |-> NoRecord]

\* What process_cmd() returns to the app; ENODEV, for a behavior the firmware does
\* not have, is one of the refusals.
result_of(cmd) ==
  CASE cmd.op \in {"set", "delete"} /\ (~ cmd.complete \/ cmd.slot \notin Slots) -> "EINVAL"
    [] cmd.op = "set" /\ cmd.record \notin ValidRecords -> "EINVAL"
    [] cmd.op = "unknown" -> "ENOTSUP"
    [] OTHER -> "ok"

\* The table lism_combo_set(), lism_combo_delete() and lism_combo_clear_all()
\* leave behind.
table_after(cmd) ==
  IF result_of(cmd) # "ok" THEN slots
  ELSE CASE cmd.op = "set" -> [slots EXCEPT ![cmd.slot] = cmd.record]
         [] cmd.op = "delete" -> [slots EXCEPT ![cmd.slot] = NoRecord]
         [] cmd.op = "clear" -> EmptyTable
         [] OTHER -> slots

\* Mutant: clearing the table is not saved.
edits_table_but_clear(cmd) == cmd.op \in {"set", "delete"} /\ result_of(cmd) = "ok"

edits_table(cmd) == cmd.op \in {"set", "delete", "clear"} /\ result_of(cmd) = "ok"

-----------------------------------------------------------------------------
(* The Bluetooth RX thread                                                 *)

\* Mutant: a full queue accepts the command.
Write_into_full_queue(cmd) ==
  /\ ~ writing /\ accepted < MaxWrites
  /\ combo_cmd_q' = Append(combo_cmd_q, [cmd |-> cmd, number |-> accepted + 1])
  /\ accepted' = accepted + 1
  /\ in_flight' = IF notify_enabled THEN Append(in_flight, accepted + 1) ELSE in_flight
  /\ writing' = TRUE
  /\ UNCHANGED <<store, cmd_work, phase, dump, notify_enabled, last_op, last_result, mirror,
                 dirty, answered, subscribes, reboots>>

\* on_write(): a full queue refuses the command.
Write(cmd) ==
  /\ ~ writing /\ accepted < MaxWrites
  /\ Len(combo_cmd_q) < QueueSize
  /\ combo_cmd_q' = Append(combo_cmd_q, [cmd |-> cmd, number |-> accepted + 1])
  /\ accepted' = accepted + 1
  /\ in_flight' = IF notify_enabled THEN Append(in_flight, accepted + 1) ELSE in_flight
  /\ writing' = TRUE
  /\ UNCHANGED <<store, cmd_work, phase, dump, notify_enabled, last_op, last_result, mirror,
                 dirty, answered, subscribes, reboots>>

WriteSubmits ==
  /\ writing
  /\ writing' = FALSE /\ cmd_work' = TRUE
  /\ UNCHANGED <<store, combo_cmd_q, phase, dump, notify_enabled, last_op, last_result, app,
                 counters>>

\* Mutant: a new subscriber gets no dump.
Subscribe_silently ==
  /\ ~ writing /\ ~ notify_enabled /\ subscribes < MaxSubscribes
  /\ notify_enabled' = TRUE
  /\ subscribes' = subscribes + 1
  /\ UNCHANGED <<store, queue, phase, dump, last_op, last_result, app, accepted, answered, reboots>>

\* ccc_cfg_changed()
Subscribe ==
  /\ ~ writing /\ ~ notify_enabled /\ subscribes < MaxSubscribes
  /\ notify_enabled' = TRUE /\ cmd_work' = TRUE
  /\ subscribes' = subscribes + 1
  /\ UNCHANGED <<store, combo_cmd_q, writing, phase, dump, last_op, last_result, app,
                 accepted, answered, reboots>>

Unsubscribe ==
  /\ ~ writing /\ notify_enabled
  /\ notify_enabled' = FALSE /\ in_flight' = <<>>
  /\ UNCHANGED <<store, queue, phase, dump, last_op, last_result, mirror, dirty, counters>>

-----------------------------------------------------------------------------
(* The work item                                                           *)

\* cmd_work_handler() with a command: process_cmd() up to the save.
TakeCommand ==
  /\ phase = "idle" /\ cmd_work /\ combo_cmd_q # <<>>
  /\ LET cmd == Head(combo_cmd_q).cmd
     IN  /\ slots' = table_after(cmd)
         /\ last_op' = cmd.op /\ last_result' = result_of(cmd)
         /\ phase' = IF edits_table(cmd) THEN "save" ELSE "resubmit"
  /\ answered' = Head(combo_cmd_q).number
  /\ combo_cmd_q' = Tail(combo_cmd_q)
  /\ cmd_work' = FALSE
  /\ UNCHANGED <<flash, settings_found, seed_test_combo_work, writing, dump, notify_enabled,
                 app, accepted, subscribes, reboots>>

\* save_slots(): what settings_save_one() returns is not looked at.
SaveSlots ==
  /\ phase = "save"
  /\ flash' = slots \/ (SaveFails /\ flash' = flash)
  /\ phase' = "resubmit"
  /\ UNCHANGED <<slots, settings_found, seed_test_combo_work, queue, dump, notify_enabled,
                 last_op, last_result, app, counters>>

\* Mutant: one dump for all the commands that are queued.
start_last_dump ==
  /\ phase' = IF notify_enabled /\ combo_cmd_q = <<>> THEN "dump" ELSE "idle"
  /\ next_packet' = -1

\* emit_dump() does nothing without a subscriber.
start_dump ==
  /\ phase' = IF notify_enabled THEN "dump" ELSE "idle"
  /\ next_packet' = -1

\* Mutant: the work does not submit itself for the commands that are left.
Resubmit_never ==
  /\ phase = "resubmit"
  /\ start_dump
  /\ UNCHANGED <<store, queue, begun, received, notify_enabled, last_op, last_result, app,
                 counters>>

Resubmit ==
  /\ phase = "resubmit"
  /\ cmd_work' = (cmd_work \/ combo_cmd_q # <<>>)
  /\ start_dump
  /\ UNCHANGED <<store, combo_cmd_q, writing, begun, received, notify_enabled, last_op,
                 last_result, app, counters>>

\* cmd_work_handler() with an empty queue: only the dump.
TakeNothing ==
  /\ phase = "idle" /\ cmd_work /\ combo_cmd_q = <<>>
  /\ cmd_work' = FALSE
  /\ answered' = 0
  /\ start_dump
  /\ UNCHANGED <<store, combo_cmd_q, writing, begun, received, notify_enabled, last_op,
                 last_result, app, accepted, subscribes, reboots>>

\* emit_dump(): DUMP_BEGIN, ...
SendBegin ==
  /\ phase = "dump" /\ next_packet = -1
  /\ begun' = lism_combo_active_count
  /\ received' = EmptyTable
  /\ next_packet' = 0
  /\ UNCHANGED <<store, queue, phase, notify_enabled, last_op, last_result, app, counters>>

\* Mutant: one record too few.
SendRecord_but_last ==
  /\ phase = "dump" /\ next_packet \in Slots
  /\ received' = IF next_packet = NumSlots - 1 THEN received
                 ELSE [received EXCEPT ![next_packet] = slots[next_packet]]
  /\ next_packet' = next_packet + 1
  /\ UNCHANGED <<store, queue, phase, begun, notify_enabled, last_op, last_result, app,
                 counters>>

\* ... one COMBO_RECORD for each active slot, ...
SendRecord ==
  /\ phase = "dump" /\ next_packet \in Slots
  /\ received' = [received EXCEPT ![next_packet] = slots[next_packet]]
  /\ next_packet' = next_packet + 1
  /\ UNCHANGED <<store, queue, phase, begun, notify_enabled, last_op, last_result, app,
                 counters>>

\* ... and DUMP_END.  It does not say what it is the end of, a command's dump or a
\* subscription's, so the app takes it for the answer to its oldest request.
SendEnd ==
  /\ phase = "dump" /\ next_packet = NumSlots
  /\ mirror' = received /\ dirty' = FALSE
  /\ in_flight' = IF in_flight = <<>> THEN <<>> ELSE Tail(in_flight)
  /\ phase' = "idle"
  /\ UNCHANGED <<store, queue, dump, notify_enabled, last_op, last_result, counters>>

\* notify_packet() gives up after ten attempts, or at once without a subscriber;
\* an inactive slot has no packet to fail.
NotifyGivesUp ==
  /\ phase = "dump"
  /\ NotifyFails \/ ~ notify_enabled
  /\ next_packet \in Slots => slots[next_packet] # NoRecord
  /\ dirty' = TRUE
  /\ phase' = "idle"
  /\ UNCHANGED <<store, queue, dump, notify_enabled, last_op, last_result, mirror, in_flight,
                 counters>>

-----------------------------------------------------------------------------
(* Boot                                                                    *)

\* seed_test_combo_work_handler(), three seconds after boot, between handlers.
SeedTestCombo ==
  /\ phase = "idle" /\ seed_test_combo_work
  /\ seed_test_combo_work' = FALSE
  /\ slots' = IF settings_found \/ lism_combo_active_count > 0 THEN slots
              ELSE [slots EXCEPT ![0] = SeedRecord]
  /\ UNCHANGED <<flash, settings_found, queue, phase, dump, notify_enabled, last_op,
                 last_result, app, counters>>

\* What lism_combo_settings_set() leaves of an empty table.
loaded == IF flash = NoTable THEN EmptyTable ELSE flash

\* RAM is lost; lism_combo_init() loads what is stored.
Reboot ==
  /\ reboots < MaxReboots
  /\ reboots' = reboots + 1
  /\ slots' = loaded
  /\ settings_found' = (flash # NoTable)
  /\ seed_test_combo_work' = TestCombo
  /\ combo_cmd_q' = <<>> /\ writing' = FALSE /\ cmd_work' = FALSE
  /\ phase' = "idle" /\ next_packet' = -1
  /\ notify_enabled' = FALSE /\ last_op' = "none" /\ last_result' = "ok"
  /\ accepted' = 0 /\ answered' = 0 /\ in_flight' = <<>> /\ subscribes' = 0
  /\ dirty' = TRUE
  /\ UNCHANGED <<flash, begun, received, mirror>>

-----------------------------------------------------------------------------
(* Specification                                                           *)

Init ==
  /\ slots = EmptyTable /\ flash = NoTable /\ settings_found = FALSE
  /\ seed_test_combo_work = TestCombo
  /\ combo_cmd_q = <<>> /\ writing = FALSE /\ cmd_work = FALSE
  /\ phase = "idle" /\ next_packet = -1 /\ begun = 0 /\ received = EmptyTable
  /\ notify_enabled = FALSE /\ last_op = "none" /\ last_result = "ok"
  /\ mirror = EmptyTable /\ dirty = TRUE
  /\ accepted = 0 /\ answered = 0 /\ in_flight = <<>>
  /\ subscribes = 0 /\ reboots = 0

RxThread == WriteSubmits

Workqueue ==
  \/ TakeCommand \/ SaveSlots \/ Resubmit \/ TakeNothing
  \/ SendBegin \/ SendRecord \/ SendEnd \/ NotifyGivesUp
  \/ SeedTestCombo

App == (\E cmd \in Commands : Write(cmd)) \/ Subscribe \/ Unsubscribe

Next == App \/ RxThread \/ Workqueue \/ Reboot

Spec == Init /\ [][Next]_vars

\* The RX thread and the workqueue run; nothing is assumed of the app.
FairSpec == Spec /\ WF_vars(RxThread) /\ WF_vars(Workqueue)

-----------------------------------------------------------------------------
(* Properties                                                              *)

\* What the app sees and the flash holds are tables, and the command queue
\* never holds more than QueueSize commands, whoever writes when.
TypeOK ==
  /\ slots \in Table /\ flash \in Table \cup {NoTable} /\ settings_found \in BOOLEAN
  /\ seed_test_combo_work \in BOOLEAN
  /\ combo_cmd_q \in Seq([cmd : Command, number : Nat]) /\ Len(combo_cmd_q) <= QueueSize
  /\ writing \in BOOLEAN /\ cmd_work \in BOOLEAN
  /\ phase \in {"idle", "save", "resubmit", "dump"} /\ next_packet \in -1 .. NumSlots
  /\ notify_enabled \in BOOLEAN
  /\ last_op \in Ops \cup {"none"} /\ last_result \in Results
  /\ begun \in Nat /\ received \in Table /\ mirror \in Table /\ dirty \in BOOLEAN
  /\ accepted \in Nat /\ answered \in Nat /\ in_flight \in Seq(Nat)
  /\ subscribes \in Nat /\ reboots \in Nat

\* No lost wake-up: as long as commands are queued somebody is going to run the
\* work item for them, although submitting it twice is submitting it once.
QueuedCommandsAreServed ==
  combo_cmd_q # <<>> => cmd_work \/ writing \/ phase \in {"save", "resubmit"}

\* A dump is a snapshot: the records sent so far are those of the table now,
\* and DUMP_BEGIN announced as many as there are, however long it sleeps.
DumpsAreSnapshots ==
  phase = "dump" /\ next_packet >= 0 =>
    /\ begun = lism_combo_active_count
    /\ \A s \in Slots : s < next_packet => received[s] = slots[s]

\* A subscribed app that saw its last dump to the end knows the table, once the
\* keyboard is done with it.
MirrorIsCurrent ==
  notify_enabled /\ phase = "idle" /\ ~ cmd_work /\ ~ writing /\ ~ dirty => mirror = slots

\* Every accepted command is processed: the queue is emptied over and over,
\* although the work item takes one command at a time and submits itself again.
CommandsGetProcessed == combo_cmd_q # <<>> ~> combo_cmd_q = <<>>

\* "DUMP_END [last_op:u8][result:u8] (result 0 = ok, else +errno)"
\* (lism_combo_rpc.c:18): a change reported as ok has reached the flash, and
\* survives a reboot.
AckedIsDurable ==
  phase = "dump" /\ answered > 0 /\ last_op \in {"set", "delete", "clear"}
    /\ last_result = "ok" => flash = slots

\* What the keyboard has still to answer: the queue, and the command the running
\* handler took, which `answered` numbers.
to_answer == Len(combo_cmd_q) + (IF phase # "idle" /\ answered > 0 THEN 1 ELSE 0)

\* "each processed command produces exactly one dump ending in exactly one
\* DUMP_END" (lism_combo_rpc.c:103-105): the app never waits for more answers than
\* the keyboard is still going to give, whenever it writes, subscribes and
\* unsubscribes, as long as notifications get through.
NoRequestIsForgotten == Len(in_flight) <= to_answer

\* "the app pairs those 1:1 with its in-flight requests" (lism_combo_rpc.c:105):
\* the DUMP_END the app takes for the answer to its oldest request is that of it.
AnswersPair == [][SendEnd /\ in_flight # <<>> => answered = Head(in_flight)]_vars
=============================================================================
