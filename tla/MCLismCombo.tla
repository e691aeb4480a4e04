----------------------------- MODULE MCLismCombo -----------------------------
(* Instances of LismCombo for TLC: small slot tables of the shapes that make  *)
(* the matcher work hard.  Positions are numbers, time is counted in ticks.   *)
EXTENDS LismComboRefinement

combo(keys, timeout, slow, idle, layers) ==
  [active |-> TRUE, slow |-> slow, keys |-> keys, timeout |-> timeout, idle |-> idle,
   layers |-> layers, behavior |-> 1]

\* Combos that share keys and one that contains another; one releases slowly.
Overlapping ==
  <<combo({1, 2}, 1, FALSE, 0, {}), combo({1, 2, 3}, 2, TRUE, 0, {}),
    combo({2, 3}, 1, FALSE, 0, {})>>

\* Combos bound to a layer, one that wants the keyboard idle before it and holds the upper
\* layer, and a slot whose behavior this firmware does not have.
Layered ==
  <<[combo({1, 2}, 1, FALSE, 1, {}) EXCEPT !.behavior = 2], combo({2, 3}, 2, TRUE, 0, {1}),
    [combo({1, 3}, 1, FALSE, 0, {0}) EXCEPT !.behavior = 0]>>

\* A combo inside another, which is released slowly, and an empty slot; and the record an
\* edit brings: other keys, another length, another release and a prior idle time.
Edited == <<combo({1, 2}, 1, FALSE, 0, {}), combo({1, 2, 3}, 1, TRUE, 0, {}), EmptyRecord>>

OtherRecords == {combo({1, 3}, 1, TRUE, 1, {})}

Tables == {Overlapping, Layered, Edited}

\* Two combos with the same keys, which wait for their timeout when pressed, and
\* more combos than a pool of one holds; edits give a slot other keys, and the
\* second record is refused.
FullTables ==
  {<<combo({1, 2}, 1, FALSE, 0, {}), combo({1, 2}, 2, TRUE, 0, {}),
     combo({3, 4}, 1, FALSE, 0, {})>>}

NewKeys == {combo({2, 3}, 1, FALSE, 0, {}), combo({1}, 1, FALSE, 0, {})}

\* Aborting the match of the longest combo starts one of the other two.
NestedTables ==
  {<<combo({1, 2, 3, 4}, 1, FALSE, 0, {}), combo({2, 3}, 1, FALSE, 0, {}),
     combo({2, 3, 4}, 1, FALSE, 0, {})>>}

NestedRecords == {combo({1, 2, 4}, 1, FALSE, 0, {})}

\* Two-key combos with one timeout.
PairTables ==
  {<<combo({1, 2}, 2, FALSE, 0, {}), combo({2, 3}, 2, TRUE, 0, {}),
     combo({3, 4}, 2, FALSE, 0, {})>>}

\* The matcher as the theorems about combos find it: an app that edits while at most one
\* key is captured, and a user who holds no more than one key besides those of a full
\* pool.  To keep the instance small only one table is edited, only with the first is the
\* fourth key pressed, only with the second do layers switch, and only with these two is
\* any key pressed at a second tick.
CalmNext ==
  \/ Handler \/ Timeout \/ Tick
  \/ /\ Keys
     /\ Cardinality(down') <= MaxPressed + 1
     /\ CASE slots = Overlapping -> TRUE
          [] slots = Layered -> down' \subseteq {1, 2, 3}
          [] OTHER -> down' \subseteq (IF now = 0 THEN {1, 2, 3} ELSE down)
  \/ /\ Edits
     /\ pressed_keys_count <= 1
     /\ slots = Edited
  \/ /\ Others
     /\ slots = Layered

CalmSpec == Init /\ [][CalmNext]_vars

==============================================================================
