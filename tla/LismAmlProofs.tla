---------------------------- MODULE LismAmlProofs ----------------------------
(***************************************************************************)
(* Theorems about the automatic mouse layer, for any layers, queue length  *)
(* and idle times: the types, and with them what the queue of actions and  *)
(* the flag is_active promise to each other.                               *)
(***************************************************************************)
EXTENDS LismAml, LismLemmas

LEMMA LayerFacts ==
  /\ 0 \in LayerIndices /\ AmlLayers \subseteq LayerIndices /\ UserLayers \subseteq LayerIndices
  /\ AmlLayers \cup {0} \subseteq LayerIndices
BY AmlAssumption

LEMMA EmptyQueues ==
  <<>> \in Seq(LayerAction) /\ <<>> \in Seq(WorkItem) /\ Len(<<>>) <= MaxActions
<1>1. MaxActions \in Nat
  BY AmlAssumption
<1>2. QED
  BY <1>1, EmptySeq

LEMMA WorkItems ==
  /\ ActionWork \in WorkItem /\ \A l \in LayerIndices : DisableWork(l) \in WorkItem
  /\ \A l : DisableWork(l) # ActionWork
<1>1. \A l : DisableWork(l).work = "disable" /\ ActionWork.work = "action"
  BY DEF ActionWork, DisableWork
<1>2. QED
  BY <1>1 DEF WorkItem

\* What is put into the message queue is behind what was there, or lost.
LEMMA PutFacts ==
  ASSUME TypeOK, NEW action \in LayerAction
  PROVE  LET put == k_msgq_put(lism_aml_action_msgq, action)
         IN  /\ put \in Seq(LayerAction) /\ Len(put) <= MaxActions
             /\ \A i \in 1 .. Len(put) :
                  \/ put[i] = action
                  \/ i \in 1 .. Len(lism_aml_action_msgq) /\ put[i] = lism_aml_action_msgq[i]
<1> DEFINE msgq == lism_aml_action_msgq
<1>1. msgq \in Seq(LayerAction) /\ Len(msgq) <= MaxActions /\ Len(msgq) \in Nat
  BY LenProperties DEF TypeOK
<1>2. MaxActions \in Nat
  BY AmlAssumption
<1>3. CASE Len(msgq) < MaxActions
  <2>1. k_msgq_put(msgq, action) = Append(msgq, action)
    BY <1>3 DEF k_msgq_put
  <2>2. /\ Append(msgq, action) \in Seq(LayerAction)
        /\ Len(Append(msgq, action)) = Len(msgq) + 1
        /\ \A i \in 1 .. Len(msgq) : Append(msgq, action)[i] = msgq[i]
        /\ Append(msgq, action)[Len(msgq) + 1] = action
    BY <1>1, AppendProperties
  <2>3. QED
    BY <1>1, <1>2, <1>3, <2>1, <2>2
<1>4. CASE ~ Len(msgq) < MaxActions
  BY <1>1, <1>4 DEF k_msgq_put
<1>5. QED
  BY <1>3, <1>4

\* A work item that is submitted is queued, and no other leaves the queue.
LEMMA SubmitFacts ==
  ASSUME NEW q \in Seq(WorkItem), NEW item \in WorkItem
  PROVE  /\ k_work_submit(q, item) \in Seq(WorkItem)
         /\ Contains(k_work_submit(q, item), item)
         /\ \A f : Contains(q, f) => Contains(k_work_submit(q, item), f)
<1>1. CASE Contains(q, item)
  BY <1>1 DEF k_work_submit
<1>2. CASE ~ Contains(q, item)
  <2>1. k_work_submit(q, item) = Append(q, item)
    BY <1>2 DEF k_work_submit
  <2>2. /\ Append(q, item) \in Seq(WorkItem) /\ Len(q) \in Nat
        /\ Len(Append(q, item)) = Len(q) + 1
        /\ \A i \in 1 .. Len(q) : Append(q, item)[i] = q[i]
        /\ Append(q, item)[Len(q) + 1] = item
    BY AppendProperties, LenProperties
  <2>3. Contains(Append(q, item), item)
    <3>1. Len(q) + 1 \in 1 .. Len(Append(q, item))
      BY <2>2
    <3>2. QED
      BY <2>2, <3>1 DEF Contains
  <2>4. ASSUME NEW f, Contains(q, f) PROVE Contains(Append(q, item), f)
    <3>1. PICK i \in 1 .. Len(q) : q[i] = f
      BY <2>4 DEF Contains
    <3>2. i \in 1 .. Len(Append(q, item)) /\ Append(q, item)[i] = f
      BY <2>2, <3>1
    <3>3. QED
      BY <3>2 DEF Contains
  <2>5. QED
    BY <2>1, <2>2, <2>3, <2>4
<1>3. QED
  BY <1>1, <1>2

\* Taking the first work item leaves the others.
LEMMA TailFacts ==
  ASSUME NEW q \in Seq(WorkItem), q # <<>>
  PROVE  /\ Tail(q) \in Seq(WorkItem)
         /\ \A f : f # Head(q) /\ Contains(q, f) => Contains(Tail(q), f)
<1>1. /\ Tail(q) \in Seq(WorkItem) /\ Len(Tail(q)) = Len(q) - 1 /\ Head(q) = q[1]
      /\ \A i \in 1 .. Len(Tail(q)) : Tail(q)[i] = q[i + 1]
  BY HeadTailProperties
<1>2. Len(q) \in Nat
  BY LenProperties
<1>3. ASSUME NEW f, f # Head(q), Contains(q, f) PROVE Contains(Tail(q), f)
  <2>1. PICK i \in 1 .. Len(q) : q[i] = f
    BY <1>3 DEF Contains
  <2>2. i # 1
    BY <1>1, <1>3, <2>1
  <2>3. i - 1 \in 1 .. Len(Tail(q)) /\ i - 1 + 1 = i
    BY <1>1, <1>2, <2>1, <2>2
  <2>4. Tail(q)[i - 1] = f
    BY <1>1, <2>1, <2>3
  <2>5. QED
    BY <2>3, <2>4 DEF Contains
<1>4. QED
  BY <1>1, <1>3

\* A change of the layers, whatever it changes, sets the flag at most to what
\* was asked, and takes no work off the queue but a disable work.
LEMMA SetLayersFacts ==
  ASSUME TypeOK, NEW on \in SUBSET LayerIndices, NEW active \in BOOLEAN, set_layers(on, active)
  PROVE  /\ layers' = on
         /\ is_active' \in BOOLEAN /\ (is_active' => active)
         /\ disable_at' \in [LayerIndices -> Nat \cup {Never}]
         /\ workqueue' \in Seq(WorkItem)
         /\ Contains(workqueue, ActionWork) => Contains(workqueue', ActionWork)
<1>1. CASE on # layers /\ layer_is_gone(on)
  <2>1. /\ layers' = on /\ is_active' = FALSE
        /\ disable_at' = [disable_at EXCEPT ![toggle_layer] = Never]
        /\ workqueue' = RemoveFirst(workqueue, DisableWork(toggle_layer))
    BY <1>1 DEF set_layers
  <2>2. workqueue \in Seq(WorkItem)
    BY DEF TypeOK
  <2>3. /\ workqueue' \in Seq(WorkItem)
        /\ Contains(workqueue, ActionWork) => Contains(workqueue', ActionWork)
    BY <2>1, <2>2, RemoveFirstKeeps, WorkItems
  <2>4. disable_at' \in [LayerIndices -> Nat \cup {Never}]
    BY <2>1 DEF TypeOK
  <2>5. QED
    BY <2>1, <2>3, <2>4
<1>2. CASE ~ (on # layers /\ layer_is_gone(on))
  BY <1>2 DEF set_layers, TypeOK
<1>3. QED
  BY <1>1, <1>2

\* The same of lism_aml_update_layer_state(), which also leaves the flag as asked.
LEMMA UpdateFacts ==
  ASSUME TypeOK, NEW activate \in BOOLEAN, lism_aml_update_layer_state(activate)
  PROVE  /\ layers' \subseteq LayerIndices /\ user_layers' \subseteq layers'
         /\ is_active' \in BOOLEAN /\ (is_active' => activate)
         /\ disable_at' \in [LayerIndices -> Nat \cup {Never}]
         /\ workqueue' \in Seq(WorkItem)
         /\ Contains(workqueue, ActionWork) => Contains(workqueue', ActionWork)
<1>1. CASE is_active = activate
  BY <1>1 DEF lism_aml_update_layer_state, TypeOK
<1>2. CASE is_active # activate
  <2> DEFINE on == IF activate THEN layers \cup {toggle_layer} ELSE layers \ {toggle_layer}
  <2>1. /\ set_layers(on, activate)
        /\ user_layers' = IF activate THEN user_layers ELSE user_layers \ {toggle_layer}
    BY <1>2 DEF lism_aml_update_layer_state
  <2>2. on \in SUBSET LayerIndices
    BY LayerFacts DEF TypeOK
  <2>3. user_layers' \subseteq on
    BY <2>1 DEF TypeOK
  <2> HIDE DEF on
  <2>4. QED
    BY <2>1, <2>2, <2>3, SetLayersFacts
<1>3. QED
  BY <1>1, <1>2

-----------------------------------------------------------------------------
(* Types                                                                   *)

LEMMA InitType == Init => TypeOK
BY EmptyQueues, LayerFacts, AmlAssumption DEF Init, TypeOK, Never

LEMMA NextType == TypeOK /\ [Next]_vars => TypeOK'
<1> SUFFICES ASSUME TypeOK, [Next]_vars PROVE TypeOK'
  OBVIOUS
<1> USE DEF aml, works
<1>1. ASSUME NEW l \in LayerIndices, LayerDisableCallback(l) PROVE TypeOK'
  <2>1. [layer |-> l, activate |-> FALSE] \in LayerAction
    BY DEF LayerAction
  <2>2. lism_aml_action_msgq' \in Seq(LayerAction) /\ Len(lism_aml_action_msgq') <= MaxActions
    BY <1>1, <2>1, PutFacts DEF LayerDisableCallback
  <2>3. Tail(workqueue) \in Seq(WorkItem)
    BY <1>1, TailFacts DEF LayerDisableCallback, TypeOK
  <2>4. workqueue' \in Seq(WorkItem)
    BY <1>1, <2>3, SubmitFacts, WorkItems DEF LayerDisableCallback
  <2>5. QED
    BY <1>1, <2>2, <2>4 DEF LayerDisableCallback, TypeOK
<1>2. CASE ActionWorkStarts
  <2>1. Tail(workqueue) \in Seq(WorkItem)
    BY <1>2, TailFacts DEF ActionWorkStarts, TypeOK
  <2>2. QED
    BY <1>2, <2>1 DEF ActionWorkStarts, TypeOK
<1>3. CASE PerformAction
  <2> DEFINE action == Head(lism_aml_action_msgq)
  <2>1. /\ action \in LayerAction /\ Tail(lism_aml_action_msgq) \in Seq(LayerAction)
        /\ Len(Tail(lism_aml_action_msgq)) = Len(lism_aml_action_msgq) - 1
    BY <1>3, HeadTailProperties DEF PerformAction, TypeOK
  <2>2. Len(lism_aml_action_msgq) \in Nat /\ MaxActions \in Nat
    BY LenProperties, AmlAssumption DEF TypeOK
  <2>3. lism_aml_action_msgq' \in Seq(LayerAction) /\ Len(lism_aml_action_msgq') <= MaxActions
    BY <1>3, <2>1, <2>2 DEF PerformAction, TypeOK
  <2>4. CASE lism_aml_update_layer_state(action.activate)
    <3>1. action.activate \in BOOLEAN
      BY <2>1 DEF LayerAction
    <3>2. /\ layers' \subseteq LayerIndices /\ user_layers' \subseteq layers'
          /\ is_active' \in BOOLEAN
          /\ disable_at' \in [LayerIndices -> Nat \cup {Never}]
          /\ workqueue' \in Seq(WorkItem)
      BY <2>4, <3>1, UpdateFacts
    <3>3. QED
      BY <1>3, <2>3, <3>2 DEF PerformAction, TypeOK
  <2>5. CASE UNCHANGED <<is_active, disable_at, workqueue, layers, user_layers>>
    BY <1>3, <2>3, <2>5 DEF PerformAction, TypeOK
  <2>6. QED
    BY <1>3, <2>4, <2>5 DEF PerformAction
<1>4. CASE ActionWorkEnds
  BY <1>4 DEF ActionWorkEnds, TypeOK
<1>5. ASSUME NEW l \in LayerIndices, DisableDue(l) PROVE TypeOK'
  <2>1. workqueue' \in Seq(WorkItem)
    BY <1>5, SubmitFacts, WorkItems DEF DisableDue, TypeOK
  <2>2. disable_at' \in [LayerIndices -> Nat \cup {Never}]
    BY <1>5 DEF DisableDue, TypeOK
  <2>3. QED
    BY <1>5, <2>1, <2>2 DEF DisableDue, TypeOK
<1>6. ASSUME NEW l \in AmlLayers, Motion(l) PROVE TypeOK'
  <2>1. l \in LayerIndices /\ [layer |-> l, activate |-> TRUE] \in LayerAction
    BY LayerFacts DEF LayerAction
  <2>2. /\ lism_aml_action_msgq' \in Seq(LayerAction)
        /\ Len(lism_aml_action_msgq') <= MaxActions /\ workqueue' \in Seq(WorkItem)
    <3>1. CASE UNCHANGED works
      BY <3>1 DEF TypeOK
    <3>2. CASE /\ lism_aml_action_msgq' =
                    k_msgq_put(lism_aml_action_msgq, [layer |-> l, activate |-> TRUE])
               /\ workqueue' = k_work_submit(workqueue, ActionWork)
      <4>1. workqueue' \in Seq(WorkItem)
        BY <3>2, SubmitFacts, WorkItems DEF TypeOK
      <4>2. QED
        BY <2>1, <3>2, <4>1, PutFacts
    <3>3. QED
      BY <1>6, <3>1, <3>2 DEF Motion
  <2>3. now + lism_aml_idle_ms \in Nat
    BY AmlAssumption DEF TypeOK
  <2>4. disable_at' \in [LayerIndices -> Nat \cup {Never}]
    BY <1>6, <2>1, <2>3 DEF Motion, TypeOK
  <2>5. QED
    BY <1>6, <2>2, <2>4 DEF Motion, TypeOK
<1>7. ASSUME NEW p \in Positions, PositionPressed(p) PROVE TypeOK'
  <2>1. /\ layers' \subseteq LayerIndices /\ user_layers' \subseteq layers'
        /\ is_active' \in BOOLEAN
        /\ disable_at' \in [LayerIndices -> Nat \cup {Never}]
        /\ workqueue' \in Seq(WorkItem)
    BY <1>7, UpdateFacts DEF PositionPressed
  <2>2. QED
    BY <1>7, <2>1 DEF PositionPressed, TypeOK
<1>8. CASE KeycodePressed
  BY <1>8 DEF KeycodePressed, TypeOK
<1>9. ASSUME NEW l \in UserLayers, UserTogglesLayer(l) PROVE TypeOK'
  <2> DEFINE on == IF l \in user_layers THEN layers \ {l} ELSE layers \cup {l}
  <2>1. on \in SUBSET LayerIndices /\ user_layers' \subseteq on
    BY <1>9, LayerFacts DEF UserTogglesLayer, TypeOK
  <2>2. set_layers(on, is_active) /\ is_active \in BOOLEAN
    BY <1>9 DEF UserTogglesLayer, TypeOK
  <2> HIDE DEF on
  <2>3. /\ layers' = on /\ is_active' \in BOOLEAN
        /\ disable_at' \in [LayerIndices -> Nat \cup {Never}]
        /\ workqueue' \in Seq(WorkItem)
    BY <2>1, <2>2, SetLayersFacts
  <2>4. QED
    BY <1>9, <2>1, <2>3 DEF UserTogglesLayer, TypeOK
<1>10. ASSUME NEW ms \in IdleValues, SetIdle(ms) PROVE TypeOK'
  BY <1>10 DEF SetIdle, TypeOK
<1>11. CASE Tick
  BY <1>11 DEF Tick, TypeOK
<1>12. CASE UNCHANGED vars
  BY <1>12 DEF vars, TypeOK
<1>13. QED
  BY <1>1, <1>2, <1>3, <1>4, <1>5, <1>6, <1>7, <1>8, <1>9, <1>10, <1>11, <1>12
     DEF Next, Works, Due, User

\* The message queue never exceeds its length, however many motions and idle
\* timeouts put actions into it, and no layer of the user is off.
THEOREM TypeCorrect == Spec => []TypeOK
<1>1. QED
  BY InitType, NextType, PTL DEF Spec

-----------------------------------------------------------------------------
(* The queue of actions                                                    *)

LEMMA NextServed == TypeOK /\ ActionsAreServed /\ [Next]_vars => ActionsAreServed'
<1> SUFFICES ASSUME TypeOK, ActionsAreServed, [Next]_vars PROVE ActionsAreServed'
  OBVIOUS
<1> USE DEF aml, works
<1>1. ASSUME NEW l \in LayerIndices, LayerDisableCallback(l) PROVE ActionsAreServed'
  <2>1. Tail(workqueue) \in Seq(WorkItem)
    BY <1>1, TailFacts DEF LayerDisableCallback, TypeOK
  <2>2. Contains(workqueue', ActionWork)
    BY <1>1, <2>1, SubmitFacts, WorkItems DEF LayerDisableCallback
  <2>3. QED
    BY <2>2 DEF ActionsAreServed
<1>2. CASE ActionWorkStarts
  BY <1>2 DEF ActionWorkStarts, ActionsAreServed
<1>3. CASE PerformAction
  BY <1>3 DEF PerformAction, ActionsAreServed
<1>4. CASE ActionWorkEnds
  BY <1>4 DEF ActionWorkEnds, ActionsAreServed
<1>5. ASSUME NEW l \in LayerIndices, DisableDue(l) PROVE ActionsAreServed'
  <2>1. Contains(workqueue, ActionWork) => Contains(workqueue', ActionWork)
    BY <1>5, SubmitFacts, WorkItems DEF DisableDue, TypeOK
  <2>2. QED
    BY <1>5, <2>1 DEF DisableDue, ActionsAreServed
<1>6. ASSUME NEW l \in AmlLayers, Motion(l) PROVE ActionsAreServed'
  <2>1. CASE UNCHANGED works
    BY <1>6, <2>1 DEF Motion, ActionsAreServed
  <2>2. CASE workqueue' = k_work_submit(workqueue, ActionWork)
    <3>1. Contains(workqueue', ActionWork)
      BY <2>2, SubmitFacts, WorkItems DEF TypeOK
    <3>2. QED
      BY <3>1 DEF ActionsAreServed
  <2>3. QED
    BY <1>6, <2>1, <2>2 DEF Motion
<1>7. ASSUME NEW p \in Positions, PositionPressed(p) PROVE ActionsAreServed'
  <2>1. Contains(workqueue, ActionWork) => Contains(workqueue', ActionWork)
    BY <1>7, UpdateFacts DEF PositionPressed
  <2>2. QED
    BY <1>7, <2>1 DEF PositionPressed, ActionsAreServed
<1>8. CASE KeycodePressed
  BY <1>8 DEF KeycodePressed, ActionsAreServed
<1>9. ASSUME NEW l \in UserLayers, UserTogglesLayer(l) PROVE ActionsAreServed'
  <2> DEFINE on == IF l \in user_layers THEN layers \ {l} ELSE layers \cup {l}
  <2>1. on \in SUBSET LayerIndices /\ is_active \in BOOLEAN
    BY LayerFacts DEF TypeOK
  <2>2. set_layers(on, is_active)
    BY <1>9 DEF UserTogglesLayer
  <2> HIDE DEF on
  <2>3. Contains(workqueue, ActionWork) => Contains(workqueue', ActionWork)
    BY <2>1, <2>2, SetLayersFacts
  <2>4. QED
    BY <1>9, <2>3 DEF UserTogglesLayer, ActionsAreServed
<1>10. ASSUME NEW ms \in IdleValues, SetIdle(ms) PROVE ActionsAreServed'
  BY <1>10 DEF SetIdle, ActionsAreServed
<1>11. CASE Tick
  BY <1>11 DEF Tick, ActionsAreServed
<1>12. CASE UNCHANGED vars
  BY <1>12 DEF vars, ActionsAreServed
<1>13. QED
  BY <1>1, <1>2, <1>3, <1>4, <1>5, <1>6, <1>7, <1>8, <1>9, <1>10, <1>11, <1>12
     DEF Next, Works, Due, User

\* An action that is queued is never stranded: the work that performs it is
\* submitted, or running with the lock held.
THEOREM ActionsStayServed == Spec => []ActionsAreServed
<1>1. Init => ActionsAreServed
  BY DEF Init, ActionsAreServed
<1>2. QED
  BY <1>1, InitType, NextType, NextServed, PTL DEF Spec

LEMMA NextStale == TypeOK /\ NoStaleActivation /\ [Next]_vars => NoStaleActivation'
<1> SUFFICES ASSUME TypeOK, NoStaleActivation, [Next]_vars PROVE NoStaleActivation'
  OBVIOUS
<1> USE DEF aml, works
<1>1. ASSUME NEW l \in LayerIndices, LayerDisableCallback(l) PROVE NoStaleActivation'
  <2> DEFINE action == [layer |-> l, activate |-> FALSE]
  <2>1. action \in LayerAction
    BY DEF LayerAction
  <2>2. \A i \in 1 .. Len(lism_aml_action_msgq') :
          \/ lism_aml_action_msgq'[i] = action
          \/ /\ i \in 1 .. Len(lism_aml_action_msgq)
             /\ lism_aml_action_msgq'[i] = lism_aml_action_msgq[i]
    BY <1>1, <2>1, PutFacts DEF LayerDisableCallback
  <2>3. ~ action.activate
    OBVIOUS
  <2> HIDE DEF action
  <2>4. QED
    BY <1>1, <2>2, <2>3 DEF LayerDisableCallback, NoStaleActivation
<1>2. CASE ActionWorkStarts
  BY <1>2 DEF ActionWorkStarts, NoStaleActivation
<1>3. CASE PerformAction
  BY <1>3 DEF PerformAction, NoStaleActivation
<1>4. CASE ActionWorkEnds
  <2>1. Len(lism_aml_action_msgq') = 0
    BY <1>4 DEF ActionWorkEnds
  <2>2. QED
    BY <2>1 DEF NoStaleActivation
<1>5. ASSUME NEW l \in LayerIndices, DisableDue(l) PROVE NoStaleActivation'
  BY <1>5 DEF DisableDue, NoStaleActivation
<1>6. ASSUME NEW l \in AmlLayers, Motion(l) PROVE NoStaleActivation'
  BY <1>6 DEF Motion, NoStaleActivation
<1>7. ASSUME NEW p \in Positions, PositionPressed(p) PROVE NoStaleActivation'
  <2>1. is_active' => FALSE
    BY <1>7, UpdateFacts DEF PositionPressed
  <2>2. QED
    BY <2>1 DEF NoStaleActivation
<1>8. CASE KeycodePressed
  BY <1>8 DEF KeycodePressed, NoStaleActivation
<1>9. ASSUME NEW l \in UserLayers, UserTogglesLayer(l) PROVE NoStaleActivation'
  <2> DEFINE on == IF l \in user_layers THEN layers \ {l} ELSE layers \cup {l}
  <2>1. on \in SUBSET LayerIndices /\ is_active \in BOOLEAN
    BY LayerFacts DEF TypeOK
  <2>2. set_layers(on, is_active)
    BY <1>9 DEF UserTogglesLayer
  <2> HIDE DEF on
  <2>3. is_active' => is_active
    BY <2>1, <2>2, SetLayersFacts
  <2>4. QED
    BY <1>9, <2>3 DEF UserTogglesLayer, NoStaleActivation
<1>10. ASSUME NEW ms \in IdleValues, SetIdle(ms) PROVE NoStaleActivation'
  BY <1>10 DEF SetIdle, NoStaleActivation
<1>11. CASE Tick
  BY <1>11 DEF Tick, NoStaleActivation
<1>12. CASE UNCHANGED vars
  BY <1>12 DEF vars, NoStaleActivation
<1>13. QED
  BY <1>1, <1>2, <1>3, <1>4, <1>5, <1>6, <1>7, <1>8, <1>9, <1>10, <1>11, <1>12
     DEF Next, Works, Due, User

\* Outside the action work, an active layer has no activation pending: the
\* deactivation that follows is not undone by an older activation.
THEOREM ActivationsStayFresh == Spec => []NoStaleActivation
<1>1. Init => NoStaleActivation
  BY DEF Init, NoStaleActivation
<1>2. QED
  BY <1>1, InitType, NextType, NextStale, PTL DEF Spec

-----------------------------------------------------------------------------
(* The flag and the layer                                                  *)

\* The keyboards the layer theorems are about: one mouse layer, and no layer
\* that has been moved away from its index.
OneMouseLayer == \A l, m \in AmlLayers : l = m
PlainIndices  == \A l \in LayerIndices : index_to_id[l] = l

\* Once the processor is active, or is going to be, its layer is the mouse layer:
\* the next motion does not change toggle_layer under it.
LayerIsSettled ==
  /\ is_active => toggle_layer \in AmlLayers
  /\ \A i \in 1 .. Len(lism_aml_action_msgq) :
       lism_aml_action_msgq[i].activate => toggle_layer \in AmlLayers

LayerInv == LayerIsSettled /\ ActiveLayerIsOn /\ NoLayerLeftBehind

\* What the processor itself may do to the layers keeps flag and layer together.
LEMMA UpdateKeepsLayers ==
  ASSUME PlainIndices, TypeOK, LayerInv, NEW activate \in BOOLEAN,
         activate => toggle_layer \in AmlLayers,
         lism_aml_update_layer_state(activate), UNCHANGED toggle_layer
  PROVE  /\ ActiveLayerIsOn' /\ NoLayerLeftBehind'
         /\ is_active' => toggle_layer \in AmlLayers
<1>1. CASE is_active = activate
  BY <1>1 DEF lism_aml_update_layer_state, LayerInv, LayerIsSettled, ActiveLayerIsOn,
              NoLayerLeftBehind
<1>2. CASE is_active # activate
  <2> DEFINE on == IF activate THEN layers \cup {toggle_layer} ELSE layers \ {toggle_layer}
  <2>1. /\ set_layers(on, activate)
        /\ user_layers' = IF activate THEN user_layers ELSE user_layers \ {toggle_layer}
    BY <1>2 DEF lism_aml_update_layer_state
  <2>2. layer_is_gone(on) <=> toggle_layer \notin on
    BY LayerFacts DEF PlainIndices, TypeOK, layer_is_gone
  <2>3. is_active' = activate /\ layers' = on
    BY <2>1, <2>2 DEF set_layers, TypeOK
  <2>4. ActiveLayerIsOn' /\ (is_active' => toggle_layer \in AmlLayers)
    BY <2>3 DEF ActiveLayerIsOn
  <2>5. layers' \ (user_layers' \cup {0}) \subseteq IF activate THEN {toggle_layer} ELSE {}
    BY <1>2, <2>1, <2>3 DEF LayerInv, NoLayerLeftBehind, TypeOK
  <2>6. QED
    BY <2>3, <2>4, <2>5 DEF NoLayerLeftBehind
<1>3. QED
  BY <1>1, <1>2

LEMMA NextLayers ==
  OneMouseLayer /\ PlainIndices /\ TypeOK /\ LayerInv /\ [Next]_vars => LayerInv'
<1> SUFFICES ASSUME OneMouseLayer, PlainIndices, TypeOK, LayerInv, [Next]_vars
             PROVE  LayerInv'
  OBVIOUS
<1> USE DEF aml, works
<1>1. ASSUME NEW l \in LayerIndices, LayerDisableCallback(l) PROVE LayerInv'
  <2> DEFINE action == [layer |-> l, activate |-> FALSE]
  <2>1. action \in LayerAction
    BY DEF LayerAction
  <2>2. \A i \in 1 .. Len(lism_aml_action_msgq') :
          \/ lism_aml_action_msgq'[i] = action
          \/ /\ i \in 1 .. Len(lism_aml_action_msgq)
             /\ lism_aml_action_msgq'[i] = lism_aml_action_msgq[i]
    BY <1>1, <2>1, PutFacts DEF LayerDisableCallback
  <2>3. ~ action.activate
    OBVIOUS
  <2> HIDE DEF action
  <2>4. LayerIsSettled'
    BY <1>1, <2>2, <2>3 DEF LayerDisableCallback, LayerInv, LayerIsSettled
  <2>5. QED
    BY <1>1, <2>4 DEF LayerDisableCallback, LayerInv, ActiveLayerIsOn, NoLayerLeftBehind
<1>2. CASE PerformAction
  <2> DEFINE action == Head(lism_aml_action_msgq)
  <2>1. /\ action = lism_aml_action_msgq[1] /\ action \in LayerAction
        /\ 1 \in 1 .. Len(lism_aml_action_msgq)
        /\ Len(Tail(lism_aml_action_msgq)) = Len(lism_aml_action_msgq) - 1
        /\ \A i \in 1 .. Len(Tail(lism_aml_action_msgq)) :
             Tail(lism_aml_action_msgq)[i] = lism_aml_action_msgq[i + 1]
    <3>1. lism_aml_action_msgq \in Seq(LayerAction) /\ lism_aml_action_msgq # <<>>
      BY <1>2 DEF PerformAction, TypeOK
    <3>2. Len(lism_aml_action_msgq) \in Nat /\ Len(lism_aml_action_msgq) # 0
      BY <3>1, EmptySeq, LenProperties
    <3>3. QED
      BY <3>1, <3>2, HeadTailProperties
  <2>2. action.activate \in BOOLEAN /\ (action.activate => toggle_layer \in AmlLayers)
    BY <2>1 DEF LayerAction, LayerInv, LayerIsSettled
  <2>3. \A i \in 1 .. Len(lism_aml_action_msgq') :
          lism_aml_action_msgq'[i].activate => toggle_layer \in AmlLayers
    <3>1. Len(lism_aml_action_msgq) \in Nat
      BY LenProperties DEF TypeOK
    <3>2. ASSUME NEW i \in 1 .. Len(Tail(lism_aml_action_msgq))
          PROVE  i + 1 \in 1 .. Len(lism_aml_action_msgq)
      BY <2>1, <3>1
    <3>3. QED
      BY <1>2, <2>1, <3>2 DEF PerformAction, LayerInv, LayerIsSettled
  <2>4. CASE lism_aml_update_layer_state(action.activate)
    <3>1. UNCHANGED toggle_layer
      BY <1>2 DEF PerformAction
    <3>2. /\ ActiveLayerIsOn' /\ NoLayerLeftBehind'
          /\ is_active' => toggle_layer \in AmlLayers
      BY <2>2, <2>4, <3>1, UpdateKeepsLayers
    <3>3. QED
      BY <2>3, <3>1, <3>2 DEF LayerInv, LayerIsSettled
  <2>5. CASE UNCHANGED <<is_active, disable_at, workqueue, layers, user_layers>>
    <3>1. UNCHANGED toggle_layer
      BY <1>2 DEF PerformAction
    <3>2. QED
      BY <2>3, <2>5, <3>1 DEF LayerInv, LayerIsSettled, ActiveLayerIsOn, NoLayerLeftBehind
  <2>6. QED
    BY <1>2, <2>4, <2>5 DEF PerformAction
<1>3. ASSUME NEW l \in AmlLayers, Motion(l) PROVE LayerInv'
  <2>1. toggle_layer' = l /\ (is_active => toggle_layer = l)
    BY <1>3 DEF Motion, OneMouseLayer, LayerInv, LayerIsSettled
  <2>2. LayerIsSettled'
    BY <2>1 DEF LayerIsSettled
  <2>3. QED
    BY <1>3, <2>1, <2>2 DEF Motion, LayerInv, ActiveLayerIsOn, NoLayerLeftBehind
<1>4. ASSUME NEW p \in Positions, PositionPressed(p) PROVE LayerInv'
  <2>1. UNCHANGED <<toggle_layer, lism_aml_action_msgq>>
    BY <1>4 DEF PositionPressed
  <2>2. /\ ActiveLayerIsOn' /\ NoLayerLeftBehind'
        /\ is_active' => toggle_layer \in AmlLayers
    BY <1>4, <2>1, UpdateKeepsLayers DEF PositionPressed
  <2>3. QED
    BY <2>1, <2>2 DEF LayerInv, LayerIsSettled
<1>5. ASSUME NEW l \in UserLayers, UserTogglesLayer(l) PROVE LayerInv'
  <2> DEFINE on == IF l \in user_layers THEN layers \ {l} ELSE layers \cup {l}
  <2>1. /\ set_layers(on, is_active) /\ UNCHANGED <<toggle_layer, lism_aml_action_msgq>>
        /\ on \ (user_layers' \cup {0}) \subseteq layers \ (user_layers \cup {0})
    BY <1>5 DEF UserTogglesLayer
  <2>2. layer_is_gone(on) <=> toggle_layer \notin on
    BY LayerFacts DEF PlainIndices, TypeOK, layer_is_gone
  <2>3. layers' = on /\ is_active' = (is_active /\ ~ (on # layers /\ toggle_layer \notin on))
    BY <2>1, <2>2 DEF set_layers, TypeOK
  <2> HIDE DEF on
  <2>4. LayerIsSettled' /\ ActiveLayerIsOn'
    BY <2>1, <2>3 DEF LayerInv, LayerIsSettled, ActiveLayerIsOn
  <2>5. NoLayerLeftBehind'
    BY <2>1, <2>3 DEF LayerInv, NoLayerLeftBehind
  <2>6. QED
    BY <2>4, <2>5 DEF LayerInv
<1>6. CASE ActionWorkStarts \/ ActionWorkEnds \/ KeycodePressed \/ Tick \/ UNCHANGED vars
  BY <1>6 DEF ActionWorkStarts, ActionWorkEnds, KeycodePressed, Tick, vars,
              LayerInv, LayerIsSettled, ActiveLayerIsOn, NoLayerLeftBehind
<1>7. ASSUME NEW l \in LayerIndices, DisableDue(l) PROVE LayerInv'
  BY <1>7 DEF DisableDue, LayerInv, LayerIsSettled, ActiveLayerIsOn, NoLayerLeftBehind
<1>8. ASSUME NEW ms \in IdleValues, SetIdle(ms) PROVE LayerInv'
  BY <1>8 DEF SetIdle, LayerInv, LayerIsSettled, ActiveLayerIsOn, NoLayerLeftBehind
<1>9. QED
  BY <1>1, <1>2, <1>3, <1>4, <1>5, <1>6, <1>7, <1>8 DEF Next, Works, Due, User

LEMMA InitLayers == Init => LayerInv
BY EmptySeq DEF Init, LayerInv, LayerIsSettled, ActiveLayerIsOn, NoLayerLeftBehind

\* With one mouse layer and plain indices, the flag is_active means that the
\* mouse layer is on, whatever the user, the timers and the queue do.
THEOREM ActiveLayerStaysOn == OneMouseLayer /\ PlainIndices => (Spec => []ActiveLayerIsOn)
<1> SUFFICES ASSUME OneMouseLayer, PlainIndices PROVE Spec => []ActiveLayerIsOn
  OBVIOUS
<1>1. TypeOK /\ LayerInv /\ [Next]_vars => LayerInv'
  BY NextLayers
<1>2. LayerInv => ActiveLayerIsOn
  BY DEF LayerInv
<1>3. QED
  BY <1>1, <1>2, InitLayers, TypeCorrect, PTL DEF Spec

\* ... and a layer nobody else has turned on is on only while the flag says so.
THEOREM NoLayerStaysBehind == OneMouseLayer /\ PlainIndices => (Spec => []NoLayerLeftBehind)
<1> SUFFICES ASSUME OneMouseLayer, PlainIndices PROVE Spec => []NoLayerLeftBehind
  OBVIOUS
<1>1. TypeOK /\ LayerInv /\ [Next]_vars => LayerInv'
  BY NextLayers
<1>2. LayerInv => NoLayerLeftBehind
  BY DEF LayerInv
<1>3. QED
  BY <1>1, <1>2, InitLayers, TypeCorrect, PTL DEF Spec

==============================================================================
