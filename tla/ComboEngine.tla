----------------------------- MODULE ComboEngine -----------------------------
(***************************************************************************)
(* What a combo engine promises of the keys that go through it, whatever   *)
(* it does to find out which of them make a combo: a key press is passed   *)
(* on or becomes part of a combo, once, and in the order in which the keys *)
(* were pressed; a combo is made of exactly its keys; and the release of a *)
(* key that was passed on never overtakes a press.                         *)
(*                                                                         *)
(* LismComboRefinement shows that the matcher of LismCombo keeps the       *)
(* promise, also while the combos are edited.                              *)
(***************************************************************************)
EXTENDS Naturals, Sequences

CONSTANTS
  Positions,
  Editable    \* whether the combos may change

VARIABLES
  combos,     \* the sets of keys that make a combo
  down,       \* keys the user holds
  pending,    \* presses the engine has taken in and not let go, in order
  passed,     \* keys that are down for the listeners after the engine
  combined    \* keys of the combos that are held

vars == <<combos, down, pending, passed, combined>>

keys_of(presses) == {presses[i] : i \in 1 .. Len(presses)}

Init ==
  /\ combos \subseteq SUBSET Positions
  /\ down = {} /\ pending = <<>> /\ passed = {} /\ combined = {}

Press(p) ==
  /\ p \notin down
  /\ down' = down \cup {p}
  /\ pending' = Append(pending, p)
  /\ UNCHANGED <<combos, passed, combined>>

Release(p) ==
  /\ p \in down
  /\ down' = down \ {p}
  /\ UNCHANGED <<combos, pending, passed, combined>>

\* The oldest press goes on.
Pass ==
  /\ pending # <<>>
  /\ passed' = passed \cup {Head(pending)}
  /\ pending' = Tail(pending)
  /\ UNCHANGED <<combos, down, combined>>

\* The oldest presses, and all of them, make a combo.
Combine ==
  \E n \in 1 .. Len(pending) :
    /\ keys_of(SubSeq(pending, 1, n)) \in combos
    /\ combined' = combined \cup keys_of(SubSeq(pending, 1, n))
    /\ pending' = SubSeq(pending, n + 1, Len(pending))
    /\ UNCHANGED <<combos, down, passed>>

\* A key the user has let go is let go downstream, once no press is pending ...
ReleasePassed(p) ==
  /\ p \in passed \ down
  /\ pending = <<>>
  /\ passed' = passed \ {p}
  /\ UNCHANGED <<combos, down, pending, combined>>

\* ... or leaves its combo.
ReleaseCombined(p) ==
  /\ p \in combined \ down
  /\ combined' = combined \ {p}
  /\ UNCHANGED <<combos, down, pending, passed>>

\* Other keys make a combo from now on, and a combo that is held may be let go; no press
\* and nothing that was passed on is touched.
Edit ==
  /\ Editable
  /\ combos' \in SUBSET SUBSET Positions
  /\ combined' \in SUBSET combined
  /\ UNCHANGED <<down, pending, passed>>

Next ==
  \/ Pass \/ Combine \/ Edit
  \/ \E p \in Positions : Press(p) \/ Release(p) \/ ReleasePassed(p) \/ ReleaseCombined(p)

Spec == Init /\ [][Next]_vars
==============================================================================
