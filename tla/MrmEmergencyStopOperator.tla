----------------------- MODULE MrmEmergencyStopOperator -----------------------
(***************************************************************************)
(* The node system/mrm_emergency_stop_operator.  It listens to the control *)
(* command the gate sends to the vehicle; once operated it stops listening *)
(* and, at every timer, continues from its own last command with a jerk    *)
(* limited deceleration.  Speeds and accelerations are integers in units   *)
(* chosen by the constants, time steps are numbers of ticks.               *)
(***************************************************************************)
EXTENDS Integers

CONSTANTS
  TargetDeceleration,   \* -target_acceleration
  TargetJerkDown,       \* -target_jerk
  MaxSpeed, MaxBrake, MaxDrive,  \* range of the commands listened to
  MaxDt                 \* longest time between two commands

ASSUME EmergencyStopAssumption ==
  /\ TargetDeceleration \in Nat \ {0}
  /\ TargetJerkDown \in Nat \ {0}
  /\ MaxSpeed \in Nat /\ MaxBrake \in Nat /\ MaxDrive \in Nat
  /\ MaxDt \in Nat \ {0}

TargetAcceleration == -TargetDeceleration
TargetJerk         == -TargetJerkDown

MrmBehaviorStates == {"AVAILABLE", "OPERATING"}

\* The longitudinal part of the command: the lateral part is carried along.
InputCommands == [speed : -MaxSpeed .. MaxSpeed, acc : -MaxBrake .. MaxDrive]

VARIABLES
  es_state,        \* status_.state
  es_prev,         \* prev_control_cmd_
  es_subscribed,   \* is_prev_control_cmd_subscribed_
  es_out           \* the last control command published

es_vars == <<es_state, es_prev, es_subscribed, es_out>>

Zero == [speed |-> 0, acc |-> 0]

TypeOK ==
  /\ es_state \in MrmBehaviorStates
  /\ es_prev \in [speed : Int, acc : Int]
  /\ es_subscribed \in BOOLEAN
  /\ es_out \in [speed : Int, acc : Int]

Init ==
  /\ es_state = "AVAILABLE"
  /\ es_prev = Zero
  /\ es_subscribed = FALSE
  /\ es_out = Zero

AtLeast(x, low) == IF x < low THEN low ELSE x

\* Faulty variant: the speed is not limited to zero.
CalcTargetAccelerationUnlimited(prev, dt) ==
  IF ~es_subscribed
  THEN [speed |-> 0, acc |-> TargetAcceleration]
  ELSE [speed |-> prev.speed + prev.acc * dt,
        acc   |-> AtLeast(prev.acc + TargetJerk * dt, TargetAcceleration)]

\* calcTargetAcceleration, dt being the age of the previous command.
CalcTargetAcceleration(prev, dt) ==
  IF ~es_subscribed
  THEN [speed |-> 0, acc |-> TargetAcceleration]
  ELSE [speed |-> AtLeast(prev.speed + prev.acc * dt, 0),
        acc   |-> AtLeast(prev.acc + TargetJerk * dt, TargetAcceleration)]

\* Faulty variant: the echo of the own command is listened to.
OnAnyControlCommand(c) ==
  /\ es_prev' = c
  /\ es_subscribed' = TRUE
  /\ UNCHANGED <<es_state, es_out>>

OnControlCommand(c) ==
  /\ IF es_state # "OPERATING"
     THEN es_prev' = c /\ es_subscribed' = TRUE
     ELSE UNCHANGED <<es_prev, es_subscribed>>
  /\ UNCHANGED <<es_state, es_out>>

OperateEmergencyStop(operate) ==
  /\ es_state' = IF operate THEN "OPERATING" ELSE "AVAILABLE"
  /\ UNCHANGED <<es_prev, es_subscribed, es_out>>

\* Faulty variant: the command is published but not remembered.
OnTimerForgetful(dt) ==
  /\ es_out' = IF es_state = "OPERATING"
               THEN CalcTargetAcceleration(es_prev, dt) ELSE es_prev
  /\ UNCHANGED <<es_state, es_prev, es_subscribed>>

\* onTimer also publishes the status, which carries es_state itself.
OnTimer(dt) ==
  /\ es_out' = IF es_state = "OPERATING"
               THEN CalcTargetAcceleration(es_prev, dt) ELSE es_prev
  /\ es_prev' = es_out'
  /\ UNCHANGED <<es_state, es_subscribed>>

Next ==
  \/ \E c \in InputCommands : OnControlCommand(c)
  \/ \E operate \in BOOLEAN : OperateEmergencyStop(operate)
  \/ \E dt \in 0 .. MaxDt : OnTimer(dt)

Spec == Init /\ [][Next]_es_vars

\* The timer keeps firing and the clock advances between its firings.
FairSpec == Spec /\ WF_es_vars(\E dt \in 1 .. MaxDt : OnTimer(dt))

-----------------------------------------------------------------------------
(* Properties. *)

\* While the operator operates, the deceleration it commands only grows until
\* it is the target: an echo of the gate's own output, which arrives on the
\* topic it listens to, cannot reset the ramp.  (A command that already brakes
\* harder than the target when the operator starts is relaxed to the target.)
BrakingRampsToTarget ==
  [][es_state = "OPERATING" /\ es_state' = "OPERATING"
       /\ es_prev.acc >= TargetAcceleration
       => es_prev'.acc \in TargetAcceleration .. es_prev.acc]_es_vars

\* Once the ramp has passed zero, the speed commanded never rises and never
\* turns negative, however late the timer fires.
SpeedFallsWhileBraking ==
  [][es_state = "OPERATING" /\ es_state' = "OPERATING"
       /\ es_prev.acc <= 0 /\ es_prev.speed >= 0
       => es_prev'.speed \in 0 .. es_prev.speed]_es_vars

\* An emergency stop that is not cancelled ends in a command to stand still
\* with the target deceleration, from every command it may have started from.
OperatingReachesStandstill ==
  <>[](es_state = "OPERATING")
    => <>[](es_out = [speed |-> 0, acc |-> TargetAcceleration])
=============================================================================
