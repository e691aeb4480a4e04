------------------------------- MODULE LismAml -------------------------------
(***************************************************************************)
(* The automatic mouse layer of src/src/lism_aml_temp_layer.c: motion of   *)
(* the trackball turns a layer on, and a pause in the motion, or a key,    *)
(* turns it off again.                                                     *)
(*                                                                         *)
(* Motion is handled in the context of the input device, everything else   *)
(* on the system workqueue, first in first out.  Both take data->lock, so  *)
(* a handler is one step; the action work, which holds the lock while it   *)
(* empties the message queue, is one step per message.                     *)
(*                                                                         *)
(* External and modelled from its use here: the keymap's layer state and   *)
(* the event it raises when a layer changes, k_work, k_msgq.               *)
(***************************************************************************)
EXTENDS Integers, Sequences, FiniteSets, SequencesExt

CONSTANTS
  LayerIndices,      \* 0 .. MAX_LAYERS - 1
  AmlLayers,         \* layers the devicetree passes as param1
  UserLayers,        \* layers the user's keys can turn on and off
  index_to_id,       \* zmk_keymap_layer_index_to_id(): external
  ExcludedPositions, \* positions that do not turn the layer off
  Positions,         \* positions the user presses
  PriorIdle,         \* require-prior-idle-ms
  IdleValues,        \* values of lism_aml_idle_ms
  MaxActions,        \* CONFIG_TRACKBALL_RPC_AML_MAX_ACTION_EVENTS
  LastMotion,        \* bound: the trackball rests after this time
  MaxTime            \* bound: the clock stops here

Never == -1

ASSUME AmlAssumption ==
  /\ 0 \in LayerIndices /\ LayerIndices \subseteq Nat
  /\ AmlLayers \subseteq LayerIndices \ {0} /\ UserLayers \subseteq LayerIndices \ {0}
  /\ index_to_id \in [LayerIndices -> LayerIndices]
  /\ PriorIdle \in Nat /\ IdleValues \subseteq Nat /\ IdleValues # {}
  /\ MaxActions \in Nat \ {0} /\ LastMotion \in Nat /\ MaxTime \in Nat

LayerAction == [layer : LayerIndices, activate : BOOLEAN]

\* Work items: the action work, and a disable work for every layer.
ActionWork      == [work |-> "action"]
DisableWork(l)  == [work |-> "disable", layer |-> l]
WorkItem        == {ActionWork} \cup {DisableWork(l) : l \in LayerIndices}

VARIABLES
  toggle_layer, is_active, last_tapped_timestamp,   \* struct lism_aml_state
  lism_aml_idle_ms,
  lism_aml_action_msgq,
  disable_at,         \* when each disable work is due, or Never
  workqueue,          \* submitted work items, in order
  draining,           \* the action work is running, and holds the lock
  layers,             \* layers active in the keymap
  user_layers,        \* history: those the user has turned on
  lost,               \* history: the last deactivation found the queue full
  now

aml   == <<toggle_layer, is_active>>
works == <<lism_aml_action_msgq, workqueue>>
vars  == <<aml, last_tapped_timestamp, lism_aml_idle_ms, works, disable_at, draining,
           layers, user_layers, lost, now>>

-----------------------------------------------------------------------------
(* Helpers                                                                 *)

lism_aml_position_is_excluded(p) == p \in ExcludedPositions

lism_aml_should_quick_tap(current_time) ==
  last_tapped_timestamp + PriorIdle > current_time

\* k_work_submit(): external.  An item that is queued is not queued again.
k_work_submit(queue, item) ==
  IF Contains(queue, item) THEN queue ELSE Append(queue, item)

\* Mutant: the queue has no end.
k_msgq_put_unbounded(msgq, action) == Append(msgq, action)

\* k_msgq_put() with a 10 ms timeout.  No thread can make room meanwhile: the
\* action work needs the lock, or the workqueue, the caller occupies.
k_msgq_put(msgq, action) ==
  IF Len(msgq) < MaxActions THEN Append(msgq, action) ELSE msgq

\* zmk_keymap_layer_activate() and _deactivate(): external.  A change of the
\* layer state raises layer_state_changed, which is handled before the call
\* returns: lism_aml_handle_layer_state_changed().  The layers become `on`, and
\* is_active becomes `active` unless the handler finds the layer gone; cancelling
\* a delayable work also takes it off the workqueue, where it is at most once.
layer_is_gone(on) == index_to_id[toggle_layer] \notin on

\* Mutant: the timer is cancelled whichever layer has changed.
set_layers_and_cancel(on, active) ==
  /\ layers' = on
  /\ is_active' = (active /\ ~ (on # layers /\ layer_is_gone(on)))
  /\ disable_at' = [disable_at EXCEPT ![toggle_layer] = Never]
  /\ workqueue' = RemoveFirst(workqueue, DisableWork(toggle_layer))

\* Mutant: the flag is not reset.
set_layers_keeping_active(on, active) ==
  /\ layers' = on
  /\ is_active' = active
  /\ UNCHANGED <<disable_at, workqueue>>

set_layers(on, active) ==
  /\ layers' = on
  /\ \/ /\ on # layers /\ layer_is_gone(on)
        /\ is_active' = FALSE
        /\ disable_at' = [disable_at EXCEPT ![toggle_layer] = Never]
        /\ workqueue' = RemoveFirst(workqueue, DisableWork(toggle_layer))
     \/ /\ on = layers \/ ~ layer_is_gone(on)
        /\ is_active' = active
        /\ UNCHANGED <<disable_at, workqueue>>

\* Mutant: the layer changes and the flag does not.
update_layer_state_without_flag(activate) ==
  /\ set_layers(IF activate THEN layers \cup {toggle_layer} ELSE layers \ {toggle_layer},
                is_active)
  /\ user_layers' = IF activate THEN user_layers ELSE user_layers \ {toggle_layer}

lism_aml_update_layer_state(activate) ==
  \/ /\ is_active = activate
     /\ UNCHANGED <<is_active, disable_at, workqueue, layers, user_layers>>
  \/ /\ is_active # activate
     /\ set_layers(IF activate THEN layers \cup {toggle_layer} ELSE layers \ {toggle_layer},
                   activate)
     /\ user_layers' = IF activate THEN user_layers ELSE user_layers \ {toggle_layer}

-----------------------------------------------------------------------------
(* Input events and key events                                             *)

\* lism_aml_handle_event(): the activation is queued, not done.
Motion(l) ==
  /\ ~ draining /\ now <= LastMotion
  /\ toggle_layer' = l
  /\ \/ /\ ~ is_active /\ ~ lism_aml_should_quick_tap(now)
        /\ lism_aml_action_msgq' =
             k_msgq_put(lism_aml_action_msgq, [layer |-> l, activate |-> TRUE])
        /\ workqueue' = k_work_submit(workqueue, ActionWork)
     \/ /\ is_active \/ lism_aml_should_quick_tap(now)
        /\ UNCHANGED works
  /\ disable_at' = IF lism_aml_idle_ms > 0
                   THEN [disable_at EXCEPT ![l] = now + lism_aml_idle_ms] ELSE disable_at
  /\ lost' = (lost /\ lism_aml_idle_ms = 0)
  /\ UNCHANGED <<is_active, last_tapped_timestamp, lism_aml_idle_ms, draining, layers,
                 user_layers, now>>

\* lism_aml_handle_position_state_changed() of a press that ends the layer.
PositionPressed(p) ==
  /\ ~ draining
  /\ is_active /\ ExcludedPositions # {} /\ ~ lism_aml_position_is_excluded(p)
  /\ lism_aml_update_layer_state(FALSE)
  /\ UNCHANGED <<toggle_layer, last_tapped_timestamp, lism_aml_idle_ms,
                 lism_aml_action_msgq, draining, lost, now>>

\* lism_aml_handle_keycode_state_changed(), subscribed to if there is a prior
\* idle time.
KeycodePressed ==
  /\ ~ draining /\ PriorIdle > 0
  /\ last_tapped_timestamp' = now
  /\ UNCHANGED <<aml, lism_aml_idle_ms, works, disable_at, draining, layers, user_layers, lost,
                 now>>

\* A key of the user turns a layer on or off.
UserTogglesLayer(l) ==
  /\ ~ draining
  /\ set_layers(IF l \in user_layers THEN layers \ {l} ELSE layers \cup {l}, is_active)
  /\ user_layers' = IF l \in user_layers THEN user_layers \ {l} ELSE user_layers \cup {l}
  /\ UNCHANGED <<toggle_layer, last_tapped_timestamp, lism_aml_idle_ms,
                 lism_aml_action_msgq, draining, lost, now>>

\* trackball_rpc_apply_aml_idle_ms(), from the Bluetooth thread.
SetIdle(ms) ==
  /\ ms # lism_aml_idle_ms
  /\ lism_aml_idle_ms' = ms
  /\ UNCHANGED <<aml, last_tapped_timestamp, works, disable_at, draining, layers,
                 user_layers, lost, now>>

-----------------------------------------------------------------------------
(* Work items                                                              *)

\* The kernel's timeout of a disable work: external.
DisableDue(l) ==
  /\ disable_at[l] # Never /\ disable_at[l] <= now
  /\ disable_at' = [disable_at EXCEPT ![l] = Never]
  /\ workqueue' = k_work_submit(workqueue, DisableWork(l))
  /\ UNCHANGED <<aml, last_tapped_timestamp, lism_aml_idle_ms, lism_aml_action_msgq,
                 draining, layers, user_layers, lost, now>>

\* lism_aml_layer_disable_callback().  Nobody looks at what k_msgq_put() returns: with
\* the queue full the deactivation is gone, unless the timer is armed anew already.
LayerDisableCallback(l) ==
  /\ ~ draining /\ workqueue # <<>> /\ Head(workqueue) = DisableWork(l)
  /\ lism_aml_action_msgq' =
       k_msgq_put(lism_aml_action_msgq, [layer |-> l, activate |-> FALSE])
  /\ workqueue' = k_work_submit(Tail(workqueue), ActionWork)
  /\ lost' = (lost \/ (Len(lism_aml_action_msgq) = MaxActions /\ disable_at[l] = Never))
  /\ UNCHANGED <<aml, last_tapped_timestamp, lism_aml_idle_ms, disable_at, draining, layers,
                 user_layers, now>>

\* lism_aml_action_work_cb(): takes the lock ...
ActionWorkStarts ==
  /\ ~ draining /\ workqueue # <<>> /\ Head(workqueue) = ActionWork
  /\ draining' = TRUE
  /\ workqueue' = Tail(workqueue)
  /\ UNCHANGED <<aml, last_tapped_timestamp, lism_aml_idle_ms, lism_aml_action_msgq,
                 disable_at, layers, user_layers, lost, now>>

\* ... performs one action after the other ...
PerformAction ==
  /\ draining /\ lism_aml_action_msgq # <<>>
  /\ LET action == Head(lism_aml_action_msgq)
     IN  \/ /\ action.activate \/ action.layer \in layers
            /\ lism_aml_update_layer_state(action.activate)
         \/ /\ ~ action.activate /\ action.layer \notin layers
            /\ UNCHANGED <<is_active, disable_at, workqueue, layers, user_layers>>
  /\ lism_aml_action_msgq' = Tail(lism_aml_action_msgq)
  /\ UNCHANGED <<toggle_layer, last_tapped_timestamp, lism_aml_idle_ms, draining, lost, now>>

\* Mutant: the work may end with actions left.
ActionWorkEnds_early ==
  /\ draining
  /\ draining' = FALSE
  /\ UNCHANGED <<aml, last_tapped_timestamp, lism_aml_idle_ms, works, disable_at, layers,
                 user_layers, lost, now>>

\* ... until none has come for 10 ms, and gives the lock back.
ActionWorkEnds ==
  /\ draining /\ lism_aml_action_msgq = <<>>
  /\ draining' = FALSE
  /\ UNCHANGED <<aml, last_tapped_timestamp, lism_aml_idle_ms, works, disable_at, layers,
                 user_layers, lost, now>>

\* A timeout that is due is served before the clock moves on; the workqueue may
\* be late, busy with other handlers or with a dump that sleeps on it.
Tick ==
  /\ now < MaxTime
  /\ \A l \in LayerIndices : disable_at[l] = Never \/ disable_at[l] > now
  /\ now' = now + 1
  /\ UNCHANGED <<aml, last_tapped_timestamp, lism_aml_idle_ms, works, disable_at, draining,
                 layers, user_layers, lost>>

-----------------------------------------------------------------------------
(* Specification                                                           *)

Init ==
  /\ toggle_layer = 0 /\ is_active = FALSE /\ last_tapped_timestamp = 0
  /\ lism_aml_idle_ms \in IdleValues
  /\ lism_aml_action_msgq = <<>> /\ workqueue = <<>> /\ draining = FALSE
  /\ disable_at = [l \in LayerIndices |-> Never]
  /\ layers = {0} /\ user_layers = {} /\ lost = FALSE /\ now = 0

Works ==
  \/ \E l \in LayerIndices : LayerDisableCallback(l)
  \/ ActionWorkStarts \/ PerformAction \/ ActionWorkEnds

Due == \E l \in LayerIndices : DisableDue(l)

User ==
  \/ \E l \in AmlLayers : Motion(l)
  \/ \E p \in Positions : PositionPressed(p)
  \/ KeycodePressed
  \/ \E l \in UserLayers : UserTogglesLayer(l)
  \/ \E ms \in IdleValues : SetIdle(ms)

Next == Works \/ Due \/ User \/ Tick

Spec == Init /\ [][Next]_vars

\* The workqueue runs what is submitted, timeouts fire and time passes.
\* Nothing is assumed of the user.
FairSpec == Spec /\ WF_vars(Works) /\ WF_vars(Due) /\ WF_vars(Tick)

-----------------------------------------------------------------------------
(* Properties                                                              *)

\* Layers and indices are those of the keymap, and k_msgq_put() never lets the
\* queue of layer actions grow beyond its MaxActions entries.
TypeOK ==
  /\ toggle_layer \in AmlLayers \cup {0} /\ is_active \in BOOLEAN
  /\ last_tapped_timestamp \in Nat /\ lism_aml_idle_ms \in IdleValues
  /\ lism_aml_action_msgq \in Seq(LayerAction) /\ Len(lism_aml_action_msgq) <= MaxActions
  /\ disable_at \in [LayerIndices -> Nat \cup {Never}]
  /\ workqueue \in Seq(WorkItem) /\ draining \in BOOLEAN
  /\ layers \subseteq LayerIndices /\ user_layers \subseteq layers
  /\ lost \in BOOLEAN /\ now \in Nat

\* is_active is never stale: the layer the processor has turned on is on,
\* whoever else changes layers, and however many actions are still queued.
ActiveLayerIsOn == is_active => toggle_layer \in layers

\* A layer that is on without the user is the processor's, and the processor
\* knows: none is left behind by a late or repeated action.
NoLayerLeftBehind ==
  layers \ (user_layers \cup {0}) \subseteq IF is_active THEN {toggle_layer} ELSE {}

\* An activation is pending only as long as the layer is inactive, outside the
\* work that performs it: a deactivation is never undone by an old activation.
NoStaleActivation ==
  is_active /\ ~ draining =>
    \A i \in 1 .. Len(lism_aml_action_msgq) : ~ lism_aml_action_msgq[i].activate

\* An action in the message queue has the work submitted that performs it.
ActionsAreServed ==
  lism_aml_action_msgq # <<>> => draining \/ Contains(workqueue, ActionWork)

\* A layer that is on goes off again, however late the workqueue is and whatever is queued,
\* cancelled or armed anew in between: the processor "deactivates it again after an idle
\* period" (dts/bindings/lism,input-processor-temp-layer.yaml:10-11).  The exception is a
\* deactivation that finds the queue of actions full and is dropped (line 141): nothing is
\* left then that would turn the layer off before the next motion.
LayerGoesOff == is_active ~> ~ is_active \/ lost
==============================================================================
