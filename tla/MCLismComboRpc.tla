---------------------------- MODULE MCLismComboRpc ----------------------------
(* Instances of LismComboRpc for TLC: two slots, a record that is accepted, one *)
(* that is refused, and every kind of command.                                  *)
EXTENDS LismComboRpcRefinement

CONSTANTS good, bad

command(op, slot, record, complete) ==
  [op |-> op, slot |-> slot, record |-> record, complete |-> complete]

AllCommands ==
  {command("set", 0, good, TRUE), command("set", 1, bad, TRUE), command("set", 1, good, TRUE),
   command("delete", 0, NoRecord, TRUE),
   command("clear", 0, NoRecord, TRUE), command("unknown", 0, NoRecord, TRUE)}

FewCommands ==
  {command("set", 1, good, TRUE), command("set", 1, good, FALSE),
   command("clear", 0, NoRecord, TRUE), command("get", 0, NoRecord, TRUE)}
===============================================================================
