# Verification of the fail-safe chain and the mode logic of Autoware Universe

The repository is a collection of about three hundred ROS 2 packages. Most of
them transform data (point clouds, trajectories, filters). This project models
the ones whose difficulty is *control*: nodes that keep state, call each other,
supervise each other's messages, and together decide whether the vehicle drives
or stops. Three groups of them are modelled. The first is the chain that stops
the vehicle:

    diagnostics -> system_error_monitor -> emergency_handler -+-> mrm_comfortable_stop_operator -> velocity limit
                                                              +-> mrm_emergency_stop_operator --+
                                              MrmState        |                                 | emergency command
                                                              v                                 v
    planner, remote commands, modes, services ---------> vehicle_cmd_gate  ------------------> vehicle
                                                              |  control command                ^
                                                              +---> (heard by the emergency stop operator)

The second decides who drives:

    clients -> operation_mode_transition_manager -+-> gate mode, engage -> vehicle_cmd_gate ---+
                     ^                            +-> selection service -> external_cmd_selector|
                     |                            +-> control mode request -> vehicle -----+   |
                     +--- control mode report, and the modes of gate and selector <--------+---+

The third decides where the vehicle goes and which manoeuvre it may make:

    goals -> routing_adaptor -> default_ad_api routing -> mission_planner (route, arrival)
    operator -> rtc_interface <-> scene modules <- planner manager of behavior_path_planner
    auto mode -> rtc_auto_mode_manager -> rtc_interface

All paths below are relative to `src/`.


## 1. Inventory

Each node runs its callbacks on a ROS 2 executor. Callbacks of one mutually
exclusive callback group never overlap; messages on two topics, and the messages
and service answers of two nodes, arrive in any relative order.

### Modelled

**system/system_error_monitor** (`src/system_error_monitor_core.cpp`). *State:*
the latest diagnostic of every module, the last gate mode, autoware state and
control mode with their stamps, the hazard status (level, emergency, holding,
blamed modules), the time the emergency flag last switched, the mode of the last
judgement. *Operations:* four subscriptions, the timer (waits for data, judges,
or reports late inputs), the service that clears a held emergency. *Hard:* two
functions (`updateHazardStatus`, `updateTimeoutHazardStatus`) update the same
status by different rules and follow each other in any order; the service judges
from the data at hand, late or not; faults and timeouts alternate and each
change restarts the duration after which an emergency is held. *Correct when:*
the status agrees with itself, late input is published as a single point fault,
a held level never falls, a fault that stays is held in the end, a healthy
system recovers.

**system/emergency_handler** (`emergency_handler_core.cpp`). *State:* the last
inputs and their ages, the MRM state and behavior, the take-over request.
*Operations:* subscriptions that store, and `onTimer`, which updates the state
machine, publishes lights and gear, and cancels and calls the operators through
**blocking** service calls (`future.get()` without a timeout). *Hard:* timer and
subscriptions share one callback group, so while an operator has not answered no
message is processed and no timer fires; what was decided before the call is
stored and published after it. A late hazard status takes another branch that
sets the state without operating anything. *Correct when:* the published pair
(state, behavior) is coherent, a change of manoeuvre finishes its cancel first,
a manoeuvre ends for a recovery or a worse hazard only, an emergency stop is never
downgraded, emergencies and recoveries are reported
in the end.

**system/mrm_emergency_stop_operator**. *State:* status, previous command,
whether one was ever heard. *Operations:* subscription to the gate's output,
service, timer. *Hard:* it listens to what the gate publishes and the gate
publishes what it sends; the ramp is integrated over the jitter of the timer.
*Correct when:* the ramp only grows to its target, the speed falls to zero.

**system/mrm_comfortable_stop_operator**. *State:* status. *Operations:* the
service, which publishes a zero velocity limit or its clear command. *Hard:* the
two messages travel on two topics.

**control/vehicle_cmd_gate** (partly). *State:* modes, engagement, pause, flags
and stamps of two supervised heartbeats, the external emergency stop, the
filters' previous command. *Operations:* three command subscriptions that
select, filter and publish; the timer that supervises and publishes signals;
subscriptions and services that set flags. *Hard:* commands are published by
callbacks between two timers, supervision happens in the timer, and its early
returns leave flags as they were. *Correct when:* whatever objects to driving
wins over every command source until it is withdrawn, and then the gate opens.
Left out until the pause protocol is modelled: the lateral and acceleration
filters, publication of the pause state, the external emergency publication.

**control/operation_mode_transition_manager** (`src/node.cpp`,
`src/compatibility.cpp`), with the selection service of
**control/external_cmd_selector**. *State:* `current_mode_`, `transition_` (the
mode to fall back to, its age, whether control is still to be asked for, whether
engagement failed or was completed), the age of the synchronisation, the last
reports. *Operations:* two services, the timer, the asynchronous control mode
request and its answer, and the compatibility layer, which brings gate, selector
and engagement into the mode asked for and reads the mode back from them.
*Hard:* the answer to an earlier request arrives when another transition is
under way; the timeout races the report of the vehicle; the driver overrides;
another client engages the gate; a mode read back undoes one that was asked for.
*Correct when:* a transition ends, in its target or its fall-back; the vehicle
is driven by Autoware only on a request that still stands; the mode published
agrees with gate and selector in the end.

**planning/rtc_interface, planning/rtc_auto_mode_manager**. *State:*
`registered_status_`, `stored_commands_`, `is_locked_`, the initial auto mode.
*Operations:* the two services, on a callback group of their own; registration,
removal and `isActivated` from the planning thread, with `lockCommandUpdate` and
`unlockCommandUpdate` around a cycle; the enable service of the manager. *Hard:*
the planner sets and clears the lock flag, and walks through the stored
commands, without the mutex under which the service tests the flag and replaces them;
stored commands are applied at every unlock and never erased; the removal of a plan
erases the first command stored for it only. *Correct when:* a planning cycle rests on one command for each
plan, no command outlives its plan, a command that had to wait arrives.

**planning/behavior_path_planner** (partly: the planner manager). *State:* the
approved and the candidate modules in order, the modules registered with their
managers, the status, waiting and launch lock flag of each module, and its plan
with the operator. *Operations:* `run` with its four parts, `reset`, the entry
and exit of a module. *Hard:* an approval sends the cycle back to its start;
modules fail, succeed, wait again or are superseded in any combination, and one
instance of each is reused. *Correct when:* lists, records and flags agree,
nothing is executed without its approval, modules run together only if they may,
every cycle ends. Left out: paths, objects and shift lines, and the other scene
modules.

**system/default_ad_api** (the routing node), **routing_adaptor** of
`default_ad_api_helpers/ad_api_adaptors`, **planning/mission_planner** (partly),
the relay of **common/component_interface_utils** (partly). *State:* the
adaptor's pending request, countdown and call; what the routing node knows of
mode and route; the planner's route state, present route and the goal in its
arrival checker. *Operations:* goals and waypoints, the adaptor's timer and
calls, the relayed services and the clear service, the state reports, arrival
and modified goals. *Hard:* a goal arrives while clear and set of an earlier one
are under way; the API node waits inside its callback groups for answers taken
in the other one; a modified goal arrives after its route was replaced. *Correct
when:* the last goal asked for reaches the planner, an arrival stops the
vehicle, arrival is judged by the goal of the present route. Left out of the
planner: the search in the map and `on_set_route`, which differs from
`on_set_route_points` only in it.

### Not modelled

| component | why |
|---|---|
| system/default_ad_api, other nodes | `motion.cpp` is a state machine around an asynchronous pause request and comes next in the plan; the others convert or forward messages |
| default_ad_api_helpers, other nodes | a single call each, without state beyond it |
| localization/pose_initializer | one service handler that runs stop check, alignment, triggers and reset in sequence; what is hard in it is the alignment |
| planning/external_velocity_limit_selector | a table of limits and its minimum, one map update for each message |
| system/component_state_monitor, topic_state_monitor | compare the age and rate of one topic with thresholds; what becomes of their reports is modelled in `SystemErrorMonitor` |
| planning/scenario_selector, freespace_planner, shift_decider; control/pid_longitudinal_controller | small switches between a handful of states whose conditions are thresholds on continuous quantities: with the geometry abstract every switch is possible at any time and nothing is left to check |

The rest, which is by far the larger part of the code (behavior velocity and
motion planners, the geometry of the behavior path planner, lateral control,
localization filters, perception, sensing, map, vehicle calibration,
system_monitor, simulators, evaluators, tools, RViz plugins, and the libraries
of geometry they share), computes over continuous data, draws, or reads
hardware. Its correctness is a matter of numerics and not of states that TLC can
enumerate, and a model that abstracts the numbers away would say nothing about
it. So the models cover a small share of the repository's lines. `launch/` is not modelled but is the reference for which topic
reaches which node. The complete list, with a reason for each, is under
`components` in `PROJECT.json`.


## 2. Plan

Done, in this order:

1. `EmergencyHandler`, `MrmEmergencyStopOperator`, `MrmComfortableStopOperator`;
   `MrmSystem` composes them; `MrmPromise` is what they promise together;
   `MrmSystemProofs` proves their agreement, what is selected, the ramp and
   the safety part of the refinement.
2. `VehicleCmdGate` (all supervision and selection, one filter);
   `VehicleCmdGateProofs`.
3. `FailSafe` composes 1 and 2; `FailSafeProofs`.
4. `SystemErrorMonitor` and `SystemErrorMonitorProofs`.
5. `OperationModeTransition` with the compatibility layer, the gate, the
   selector and the vehicle as it sees them; `OperationModeProofs`.
6. `RtcInterface` with its two callback groups and the auto mode manager;
   `RtcInterfaceProofs`.
7. `PlannerManager` with its scene modules; `MCPlannerManager` instantiates it;
   `PlannerManagerProofs`.
8. `Routing`: adaptor, API node and mission planner; `RoutingProofs`.

What would come next:

9. `MotionPause`: AD API motion with the pause interface of the gate, which
   would complete the gate (pause publication and the remaining filters).
10. `PlannerManager` over `RtcInterface`, with auto mode on, in place of the
    single status by which the former represents the latter.

Every invariant and every action property that a passing run checks has a
theorem. Proofs that would still say something new:

- the safety half of liveness arguments, where a measure falls with every step:
  that within a cycle of `PlannerManager` only an approval leads back to its
  start, and the number of modules that may still be approved falls with it;
- the type correctness of `OperationModeTransition` and `FailSafe` as a
  whole (their proofs establish the part of it that the argument needs).

A module gets one run for what must hold, and a run of its own only for a claim
of the documentation that the code does not keep and that takes several steps to
refute.


## 3. Modules and how they correspond to the code

Common conventions. A callback is one action, except where the code waits in the
middle (the blocking service calls of the handler and of the routing node),
where two threads share state without a lock (`RtcInterface`), and in the loop
of the planner manager, between two steps of which the operator may answer. A
time stamp is represented by its **age** in ticks; an age stops growing one tick
past the largest value it is compared with, which keeps the state finite without
excluding a behaviour. A tick is the period of a timer. Messages carry only what
a decision looks at. A message's stamp is its time of reception.

**EmergencyHandler.** One variable per member of the class that decides
anything. `OnTimer` is `updateMrmState`, `publishControlCommands` and the part
of `operateMrm` before the first service call; `call` records what the thread
blocks on; `CallNextMrm` is the code between the answer to a cancel and the next
call; `FinishTimer` is the code after the last answer (store behavior, publish
MrmState). All subscriptions need `call = Idle` because they share the timer's
callback group. `OnTimerHazardTimeout` is the early-return branch. Not
represented: `prev_control_command_` (stored, never read), message texts, the
result of a service call (only logged by the code).

**MrmEmergencyStopOperator, MrmComfortableStopOperator.** `OperateEmergencyStop`
and `OperateComfortableStop` are the services. The ramp is kept with integer
arithmetic; only the longitudinal part is modelled. `dt` is any value from 0 to
`MaxDt`: the timer's jitter.

**MrmSystem.** The three nodes side by side. Serving a request and picking up
the answer are separate steps, with the operators' own callbacks in between.

**MrmPromise.** The abstract specification: at most one manoeuvre, only the
emergency stop may replace another, the MrmState names what runs, a change is
reported. `MrmSystem` implements it under the mapping `running <- RunningMrm`.

**VehicleCmdGate.** `PublishControlCommands(source, speed, emergencySpeed)` is
`publishControlCommands` with its guards, the three replacements (emergency, not
engaged, paused) in the order of the code and the speed filter. The branches of
`onTimer` are five actions, one per early return. A command is its speed and the
source that produced it (`out.source` is an observation: the code has no such
field). The filter in use, nominal or on transition, has its own velocity and
acceleration limit.

**FailSafe.** Handler, operators and gate by `INSTANCE` of the modules above.
The handler may die at any step. A published MrmState is in `mrm_topic` until
the gate receives it, at the latest before the next tick (a topic of depth one
within one computer); control commands may be received at any time, repeatedly
or never. `silence` is an observer, used by one property.

**SystemErrorMonitor.** `TimerWaiting`, `TimerTimeout` and `TimerJudges` are the
branches of `onTimer`; `ClearEmergency` is the service. `ClearEmergencyTooEarly`
is the call before the first judgement, where `required_modules_map_.at("")`
throws. `HazardLevels(m)` stands for `getLatestDiag`, `appendHazardDiag` and the
stale diagnostic appended after `diag_timeout_sec`. Of the configurable levels
per module two configurations are kept (`SafeFaultModules` and the rest); leaf
diagnostics are left out.

**OperationModeTransition.** `OnTimer` is the whole timer: the compatibility
layer (`SetMode`, `ReflectedMode`), `processTransition` with its cancellation
and completion (`MustCancel`, `CancelTransition`, `ContinueTransition`) and what
is published. `EnableControl`, `DisableControl` and `ChangeOperationMode` are
the accepted requests of the two services; a refused request changes nothing and
is no step. The checks of the autonomous mode, which compare trajectory and
pose, may succeed or not at any time. Gate mode and engagement, the selector's
request, the control mode requests and the negative answers are on their way for
any time; what gate and selector report of themselves is heard at once.
`granted` is an observer.

**RtcInterface.** Statuses are a function of the uuid, `None` when not
registered. The cooperate service is two steps, before and after the test of the
lock (`sawLock`), because the planner sets that flag without the service's
mutex. For the same reason `unlockCommandUpdate` is
`UnlockCommandUpdate`, which takes the lock away, `ReadStoredCommands`, where its
loop over the vector begins, and one `ApplyStoredCommand` for each element: a
service that had seen the lock may replace the vector meanwhile, and `Found` says
what the loop may then read at its next position (the old element, the new one, a
mixture of the two, or memory that names no plan any more); a service that had
not may write a status. `stored` is the vector with the order and the repetitions
of the request; `RemoveStoredCommand` erases the first match. Everything else that
takes the mutex is one step. `relay` is the queue of calls from the auto mode
manager to the interface, which keeps the last `RelayDepth`; the manager takes
requests at any time. `seen` (the command a cycle has rested on), `last` (what the
operator was last told), `doubled` (the plans some request named twice) and
`applied` are observers.

**PlannerManager.** `phase` says where `run` is, `queue` the set of modules it
still has to run: the approved ones in the order of their list, the candidates
by `Priority`. Only the approved modules are a list, since the code lets those
behind a waiting or failed one leave; the candidates are always sorted by
priority and thus a set. Modules of equal priority (the two lane changes) are
taken in any order. `RunApproved` and `SettleApproved` are `runApprovedModules`,
`FindRequests` is `getRequestModules` with the sorting and cutting of
`runRequestModules`, `RunCandidate` its loop. `SettleWaiting` and
`SettleApprovable` are the rest of it with the last steps of `run`: all
candidates wait and the cycle ends, or the highest that does not is approved and
the loop starts again. `LaneChangeRuns`, `AvoidanceRuns` and `OtherRuns`
give what one run of a module may result in; of its path only the state, the
waiting flag, the launch lock and the plan put to the operator remain. What the
environment demands of a module is chosen when the cycle starts. `leftBehind`
observes the modules that left the approved ones because one before them waits
again. A manager
admits one instance of its module (`max_module_size: 1` of the shipped
configuration), so that module, manager and name are the same. This manager is
the one built when `COMPILE_WITH_OLD_ARCHITECTURE` is `FALSE`.

**Routing.** One record for each node. `call` is the adaptor's clear or set call
and how far it has come: sent, forwarded by the API node, served by the planner,
answered. `DefaultGroupBusy` and `ClientGroupBusy` say whose callback group a
waiting handler holds; `TakeAnswerOfCall` needs the *other* group, in which the
client of that call was created. Goals are numbered in the order they are given,
so that "the last goal" can be said;
the planner remembers which request it served last and with which `outcome`. State reports travel over two topics of
depth 3, where the oldest is lost. The adaptor is the only client of the API;
the operation mode is an external that grants every STOP.

Faulty variants (`...Forgetful`, `...WithoutCancel` and so on, each marked in a
comment) stand before some definitions. No specification uses them; replacing
the definition by its variant shows that the property listed with it under
`mutants` in `PROJECT.json` really depends on the code.


## 4. Runs

| run | states | question |
|---|---|---|
| `MrmSystem` | 55 000 | do the three nodes agree on the manoeuvre that runs for every order of messages, answers and timeouts, do they end a manoeuvre only for a reason, implement `MrmPromise`, are emergencies and recoveries reported |
| `MrmEmergencyStopOperator` | 9 000 | is the ramp monotone and does it end in standstill |
| `VehicleCmdGate` | 679 000 | does whatever objects to driving win over every source; does the gate open again |
| `FailSafe` | 712 000 | does the chain stop the vehicle in time, with handlers that block or die; does the gate follow the emergency stop exactly while it runs |
| `ErrorMonitor` | 450 000 | does the hazard status stay consistent and safe; do faults become held, does a healthy system recover |
| `OperationMode` | 632 000 | does Autoware drive only on a request that still stands, does every transition end, does the mode agree with gate and selector in the end |
| `Rtc` | 590 000 | does a cycle rest on one command, does nothing outlive its plan, does what was stored arrive, does the auto mode settle |
| `Planner` | 267 000 | do lists, records and flags agree, is no lane change approved without its own approval, does a cycle end |
| `Routing` | 829 000 | does the last goal reach the planner, does an arrival stop the vehicle, is arrival judged by the present goal |

All pass, without deadlock (in `Routing` goals and routes are bounded, so that
it may stop). `EmergencyHandler` alone is not run for what must hold: its
properties are checked in `MrmSystem`, where the operators are the real ones.
The type declarations (`TypeOK`) of `OperationModeTransition`, `FailSafe` and
`SystemErrorMonitor` document the variables; those of `MrmSystem`,
`VehicleCmdGate`, `PlannerManager`, `RtcInterface` and `Routing` are proved.

Three further runs each refute one statement that a document or comment of the
repository makes:

| run | refuted | what happens |
|---|---|---|
| `EmergencyHandlerSelect` | `PersistentEmergencySelectsMrm` | a late status at standstill sets MRM_OPERATING without a manoeuvre, which becomes MRM_SUCCEEDED, where a later emergency selects none |
| `RtcStored` | `UnlockKeepsReceivedCommand` | a command stored in one cycle is applied again at the end of every later one, over a newer command that was received and answered with success |
| `RoutingDeadlock` | `RelayedCallReturns` | a clear call and a relayed call wait for each other, each in the callback group where the answer of the other would be taken |

Quotations and lines are under `findings` in `PROJECT.json`.

A consequence of the first row shapes a property of `FailSafe`: once the handler
is in MRM_SUCCEEDED it selects no manoeuvre, so a comfortable stop that ended at
standstill is not escalated when the fault becomes a single point fault.
`PersistentFaultStopsPlanner` excepts that state and says so. The third row
shapes two properties of `Routing`, which are stated for behaviours in which the
groups do not wait for each other.

### Further observations

Seen while modelling; the models contain them, no run is devoted to them.

- With `use_takeover_request` the handler renews the request for ever: the
  branch that renews it (`emergency_handler_core.cpp:384`) makes the one of its
  timeout (408) unreachable.
- With the shipped `use_emergency_handling: false`
  (`vehicle_cmd_gate.param.yaml:5`) a late hazard status stops nothing: the
  handler operates no manoeuvre and leaves it to the gate, which ignores the
  state.
- A late MrmState freezes the flag of the external heartbeat
  (`vehicle_cmd_gate.cpp:297`); the clear service trusts the flag (658), so that
  the external stop can be cleared with that heartbeat late.
- The error monitor's branch for late inputs
  (`system_error_monitor_core.cpp:630`) recomputes the hold: it may end one
  without the service and start one in manual driving, against the comments at
  650 and 666. `FaultThatStaysIsHeld` shows that a fault that stays is
  held in the end all the same; that a hold is dropped is what the code does. Its README describes `ignore_missing_diagnostics` the other way round
  (README.md:113).
- `isStopped` of the handler compares the signed velocity (467): driving
  backwards counts as standstill.
- `Compatibility::set_mode` asks selector and gate at the same time although its
  comment says "Set operation mode in order from upstream node"
  (`compatibility.cpp:78`).
- The gate's report that a transition is under way may be that of an earlier
  one; the control mode is then requested before the gate filters. Control
  disabled and enabled again while an earlier request is unanswered may be
  handed over outside of a transition. A client that requests STOP and engages
  again renews the transition without end; `TransitionEnds` therefore assumes
  that requests stop.
- The cooperate service answers success or "not found" before it looks at the
  lock: a command for an unknown plan is still stored, and a second request
  during one cycle replaces the first, which was accepted. `onAutoModeService`
  does not look at the lock.
- Modules behind an approved one that waits again are erased from the list while
  their manager still counts them as registered (`planner_manager.cpp:389`);
  they cannot be launched again until a reset. `ListsAgree`
  names them (`leftBehind`) and shows that no other registration is lost.
- `planWaitingApproval` of the avoidance (`avoidance_module.cpp:2857`) does not
  ask for a shift line 1 to 10 mm behind the ego, which `findNewShiftLine`
  (3004) still finds new: for such a line `PlannerManager::run` never ends. The
  demand `"at_ego"` represents it; the run contains it and `CycleEnds` excepts the
  cycles that meet one.
- A cooperate request may name a plan twice. Both commands are stored, the removal
  of the plan erases the first (`rtc_interface.cpp:235`), and the other activates
  the plan if its uuid comes again. `NoCommandOutlivesItsPlan` excepts such plans.
- `CycleSeesOneCommand` is about commands: `onAutoModeService` ignores the lock, so
  that the auto mode of a plan may change within a cycle, and with it whether the
  plan counts as activated.
- After the gate's own emergency stop a vehicle that is not engaged, or paused,
  may be commanded to go faster again, from 0 up to the speed that was in the
  filters (`vehicle_cmd_gate.cpp:433`): the stop by-passes them.
  `HeldVehicleOnlySlowsDown` says so.
- A module that may not be a candidate together with others may still join
  simultaneous ones of higher priority (`planner_manager.cpp:260-276` asks for
  a module's own flag only while nothing else is to be run, afterwards for the
  flags of those before it). With an
  avoidance of priority 7 TLC finds it beside a lane change of priority 5. The
  shipped priorities avoid it; `AloneFirst` in `PlannerManagerProofs` says what
  they have to satisfy.
- A stale UNSET report lets the adaptor send its set call while the route
  exists: the answer to its previous call may overtake the report that call has
  caused (`routing_adaptor.cpp:63`). The planner refuses it ("route is already set",
  `mission_planner.cpp:227`), the adaptor does not look at the answer and the goal is
  lost, although `ad_api_adaptors/README.md:21` says that the clear API is called
  before a route is set. `[](planner.outcome # "route_exists")` is false of
  `Routing`: two goals suffice. `LatestRequestReachesPlanner` has as its premise that
  the last request is not refused so.
- `async_send_request` to an API node that was restarted leaves
  `calling_service_` of the adaptor set for ever; restarts are not modelled in
  `Routing`.

### Bounds, and why they are enough

- *Timeouts* of the fail-safe chain are 0 or 1 ticks (2 for
  `HazardRecoveryTimeout`). Every age has the
  values "fresh", "at the limit" and "past it", and the code compares ages with
  nothing but their timeout. Where a property's premise is that inputs stay in
  time for good (`PersistentEmergencyIsReported`, `GateReopens`,
  `HealthySystemRecovers`) the timeouts concerned are 1, so that the premise can
  hold across a tick. The relation between two timeouts of different nodes only
  occurs in `FailSafe`, where the property is stated for their sum.
- *Hazard levels*: all four in `MrmSystem`; 0, 2 and 3 in `FailSafe`: one for
  each manoeuvre the handler can select.
- *Speeds*: the gate uses {0, 2} with limits of 1 (nominal) and 0 (on
  transition), so that the velocity limit, the rate limit and the change of
  filter all bite; `FailSafe` uses speed 0 only, since its properties ask for
  the source of a command, never for its value.
- *The ramp* is checked for every start in a small box of speeds and
  accelerations, both signs included, and steps of 0 to `MaxDt` ticks.
- *Modules* of the error monitor: two, one of which lacks automatic recovery:
  judgement is a maximum over modules, and blame is per module. The gate mode is
  AUTO and the vehicle once leaves manual driving for good; the theorems hold
  for every mode and every change of it.
- *Operation modes*: clients ask for STOP and REMOTE; AUTONOMOUS arises when
  another client engages the gate in AUTO mode, LOCAL is the selector's first
  mode, so that all four occur and both the selector and the gate mode have to
  change. Up to two control mode requests or refusals are on their way
  (`MaxPending`): one that is asked for and one that takes it back.
  `StableDuration`, `TimeoutMargin` and the transition timeout are 1, 1 and 3
  timer periods: the constructor's correction of the timeout, which makes it at
  least the sum of the other two, is translated and not exercised.
- *Plans* of `RtcInterface`: one in `Rtc`, beside a uuid of no plan, and requests of one or
  two commands (`MaxCommands`): a request may name the plan once, twice or not at
  all, at either position of the vector. The properties speak of one plan at a time,
  and what the others would add is other elements of the vector. `RtcStored` has two
  plans. Up to two auto mode requests are relayed (`RelayDepth`): two that cross, and a
  third that pushes the first out.
- *Scene modules*: two lane changes, one avoidance and the side shift, with the
  priorities and simultaneity flags of the shipped configuration: two that may
  run with others in both roles, one that may only as approved, one that must be
  alone. `Demands` has all its five values.
- *Goals and routes*: two of each, one waypoint, one reroute: a second goal at
  every point of the first one's calls, and a reroute beside each of them.
- `MrmSystem` sets the ranges of the emergency stop's numbers to zero: the
  agreement of the nodes does not depend on them, and `MrmEmergencyStopOperator`
  covers them.

### Fairness, and what justifies it

- The executor of a node fires a timer that is due and resumes a callback whose
  future is ready: weak fairness of `OnTimer` / `Timer` / `HandlerTimer` /
  `HandlerResumes` / `GateTimer`. Time passes: weak fairness of `Tick`.
- `EmergencyHandler` and `MrmSystem` assume that an operator serves a request
  (`Answer`, `Serve`): its callbacks are short and never wait. `FailSafe`
  assumes **nothing** of operators or of the handler's survival, which is what
  the supervision in the gate is for.
- `VehicleCmdGate` and `FailSafe` assume that the planner keeps sending commands
  (`OnAutoCtrlCmd`), needed for "the planner's command is published again", and,
  for the opposite property, to make it meaningful that it is not.
- `OperationModeTransition`: the timer, and each message that was sent is
  received; the vehicle answers a request, either way. Nothing is assumed of
  clients and driver.
- `RtcInterface`: the planner runs cycle after cycle and each ends; a service
  that was taken is finished. `OnAutoModeService` has strong fairness: it is on
  a callback group that the cooperate service takes again and again, and the
  executor serves both in turn.
- `PlannerManager`: a cycle that has begun goes on.
- `Routing`: each callback that is ready runs (weak fairness). `OnState` and
  `OnOperationMode` have strong fairness: the clear service may hold their group
  again and again, but between two calls the executor takes subscriptions before
  services.
- No fairness is assumed of any other message: a property that needs one says so
  in its premise (`<>[]` of the condition).


## 5. Proofs

Checked by TLAPS for every value of the constants allowed by the named
assumptions (`MrmSystemAssumption`, `EmergencyStopAssumption`,
`GateAssumption`, `FailSafeAssumption`, `MonitorAssumption`,
`OperationModeAssumption`, `RtcAssumption`, `PlannerAssumption`,
`RoutingAssumption`): any timeouts, any set of modules, any emergency level
(above "no fault" for the monitor), any ramp, any limits of the filters, any
number of control mode requests under way, any set of plans, any scene modules
with any priorities, any number of goals and routes. Two theorems have a
hypothesis of their own, given below with its reason. Each theorem stands at the
end of a chain of lemmas, one per handler or action, that show it keeps the
inductive invariant.

**MrmSystemProofs.** `TypeCorrect`: type correctness of the composed nodes.
`MrmsExclude`, `StoredIsRunning`, `PendingIsRunning`: the comfortable stop and
the emergency stop never run together; between two timers the operator that runs
is the one stored and published; while a call is pending the operators are where
that call says. None of the three is inductive: that the next manoeuvre may be
started without a second one running depends on which call was answered. The
inductive invariant is

    IInv == TypeOK /\ Runs(Expected) /\ CallAddressesChange /\ IdleIsReported

where `Expected` computes from `call`, `target` and `behavior` which single
operator should be operating at that point of the change, `Runs(b)` says that
the operators are exactly there, `CallAddressesChange` that a pending call is
addressed to the manoeuvre being left (a cancel) or entered (a call), and
`IdleIsReported` that without a call the last report names the stored behavior.
`HandlerKeepsExpected` shows that no step of the handler changes what is
expected of the operators (it sends the request, the operator acts);
`ServeMeetsExpected` that a step of an operator changes it just as the operator
changes; `OperatorsAgree` combines them, and `InvariantImpliesAgreement` draws the
three conclusions.

`MrmsEndWithReason`: an operator that runs is only cancelled for a recovery (the
emergency is over or the driver has taken over) or to make way for the emergency
stop that a single point fault needs, also when the status goes late before the
cancel is answered. `SinglePointFaultStops`: MRM_OPERATING is reported with the emergency stop while
the status is a single point fault. What is reported after the last answer was
selected before the first call, several steps ago, so that `SelectionInv` adds
to `IInv` that the selection still is the one of the state and the status (no
subscription runs while the timer's callback waits), that MRM_OPERATING rests on
an emergency, that NORMAL with a manoeuvre still to be cancelled rests on a
recovery, and that the last report names the stored behavior.

`PromiseIsKept` is the safety part of the refinement,
`Spec => Promise!Safety`: each step of handler, services and operators is one of
`MrmPromise` (`ServeKeepsPromise`: serving a call or a cancel is `Start` or
`Stop`; `PublishKeepsPromise`: the end of a timer is `Publish`) or is not seen by
it. Hypothesis: `EmergencyHazardLevel >= LatentFault`. With an emergency from
SAFE_FAULT on, which the error monitor's parameter allows and the shipped
one (2) does not use, the handler publishes MRM_OPERATING without a manoeuvre,
which the promise forbids. The liveness part stays with TLC (`PromiseKept`).

`BrakingIsRamped`, `BrakingSlowsDown` (the properties `BrakingRampsToTarget` and
`SpeedFallsWhileBraking` of the operator, within the composed system): while the emergency stop operates, each
command brakes no less than the last one, until the target deceleration and never
beyond it, and the speed neither rises nor turns negative; for every jerk,
deceleration and timer jitter.

**VehicleCmdGateProofs.** `TypeCorrect` bounds every published speed by the
larger limit. `LateMrmStateStops` and `LateExternalHeartbeatStops`: from the
timer of the tick on in which the input is late, no callback slips a command in.
That a callback publishes depends on flags set by a timer that may have returned
early, so that `LateInv` adds what each branch leaves behind: a late MrmState
has set the flag that shuts out every command callback, a late external
heartbeat the two flags that refuse the clear service, unless that timer already
stopped at the late MrmState. `HeldVehicleSlowsDown`: a vehicle that is not
engaged, or paused, is never commanded to go faster than by the command published
last or, after the gate's own emergency stop, than by the last command before that
stop. Its lemmas say that neither filter ever raises a command above the one it
starts from; `FilterInv` that the filters hold the command published last unless that
was the stop of the gate.

**FailSafeProofs.** Four nodes, of which the handler may be blocked or die at
any point. `GateFollowsOperator` and `CompletedStopReachesGate`: the gate takes
the commands of the emergency stop exactly while that runs, up to the MrmState
under way. Neither is inductive; `AgreementInv` follows the emergency stop from
the pending call (`PendingChange`) over the operator (`StopRunsAsCalled`) and the
report (`ReportNamesStored`) to the gate (`GateKnowsReport`).
`MissingStatusStops`: without hazard statuses the vehicle is stopped within the
sum of both timeouts, whether the handler notices, blocks or dies. `SilenceInv`
relates the four clocks: the handler's age of the status to the silence
(`StatusIsOld`), a report under way and the last one received to a cycle
in which that age was in time (`ReportIsTimely`, `ReceivedIsTimely`), and the
gate's flag to its age (`LateStateStops`).

**SystemErrorMonitorProofs.** `PublishesConsistentStatus`: the status held and
the one published agree with themselves (the emergency flag is the level's, and
only an emergency is held). `HeldLevelIsKept`: no step but the clear service
lowers the level of an emergency that stays held. Both follow from an invariant
that types the level and, for the first, a lemma for each of the two update
functions (`JudgedStatus`, `TimeoutStatus`).

**OperationModeProofs.** `ControlIsGranted`: Autoware drives the vehicle only on
a request that was not given up, whatever answers, reports, overrides and
timeouts cross. The property is not inductive: what the vehicle does next depends
on the requests under way and their order. `ControlInv` adds that, once control
was given up, either the vehicle has returned it already or the last request
under way is the one that returns it (`GivenUp`), and that a transition which
still has to ask for control belongs to a grant, so that no request for
`AUTONOMOUS` follows that one. `SentIsLast` and `ServedLeavesLast` are the two
facts about the queue of requests; `ServiceKeeps`, `TimerKeeps` (over
`ProcessKeeps`), `VehicleKeeps`, `OverrideKeeps` and `RejectedKeeps` are the
steps.

**RtcInterfaceProofs.** `TypeCorrect` also says that the interface is locked
exactly while the planner is inside of a cycle. `OneCommandInEachCycle`: a
locked cycle rests on one command for each plan, although lock and service share
no mutex. The invariant `CycleInv` adds why: only a cycle has read anything,
only registered plans are read, no cycle begins before the stored commands of the
earlier one are applied, and a service that tested the lock before it was
set still holds the mutex that `isActivated` needs, so that the cycle it runs
into has not read anything yet. `NothingOutlivesAPlan`: a plan for which no
command arrived since it was removed has none stored and starts deactivated,
unless some request has named it twice. Its invariant `LifeInv` adds that the stored
vector names any other plan once at most, so that `removeStoredCommand` erases
what there is, and that a service under way and the loop of an unlock hold commands
of the present life of each plan only: a status is removed neither while the
service holds the mutex nor inside of the loop. (The theorem does *not* say that a stored command is applied once;
`RtcStored` shows that it is not.)

**RoutingProofs.** `TypeCorrect` includes that no topic holds more than three
reports. `ArrivalChecksPresentGoal`: the arrival checker holds the goal of the
present route and no other, for any number of goals, routes and late modified
goals; the property is inductive together with the types. `GroupsWaitForEver`:
once the two callback groups of the API node wait for each other, no step of any
node ends it. This is the permanence that the run `RoutingDeadlock` shows on one
behaviour.

**PlannerManagerProofs.** `TypeCorrect`; `ListsAndRecordsAgree`: between two
cycles no module is in both lists, those registered are exactly the ones in a list or
left behind an approved one that waited again, the approved do not wait and the
candidates do; `LaneChangesAreAuthorised`: no lane change is approved
before its own plan was activated since its entry; `ApprovedAreCompatible`: a
module that must be approved alone is alone. They hold between and inside
cycles for different reasons, and `ManagerInv` says what each phase knows
(`PhaseInv`): modules wait only while they are being run, those to be run are none
of the approved and none left behind, and those run so far are registered as well
(`RunCandidates`); a lane change that does not wait has been activated
(`Authorised`); and modules only run as candidates beside approved ones if all may
be executed together (`Joining`). `CompatibleModules` says the same of the
candidates, under the hypothesis `AloneFirst`: modules that must be the only
candidate have the higher priorities. The shipped parameters satisfy it, the run
`Planner` too, and without it the statement is false (further observations).

**Only model-checked** are the liveness properties: `PromiseKept` beyond its
safety part, `PersistentEmergencyIsReported`, `RecoveryIsReported`,
`OperatingReachesStandstill`, `GateReopens`, `PersistentFaultStopsPlanner`,
`FaultThatStaysIsHeld`, `HealthySystemRecovers`, `ModeSettles`, `TransitionEnds`,
`StoredCommandIsApplied`, `AutoModeSettles`, `CycleEnds`,
`LatestRequestReachesPlanner` and `ArrivalStopsDriving`. The prover handles neither
liveness under fairness nor ENABLED, and no induction over data; no module with a
theorem uses a recursive operator.
