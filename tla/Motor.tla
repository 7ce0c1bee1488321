------------------------------- MODULE Motor -------------------------------
(***************************************************************************)
(* One motor as the controller sees it: struct Motor of                    *)
(* rust/motor_control/src/motor.rs and the methods that change it.  The    *)
(* module has no variables: each method is an operator from the motor's    *)
(* record before the call to its record after it.                          *)
(*                                                                         *)
(* Positions, velocities and torques are integers (only their order and    *)
(* their sign matter here).  An Instant is represented by the time elapsed *)
(* since it, in units of one arm control period, and saturates at AgeCap,  *)
(* just above the larger of the two timeouts it is compared with.  Left    *)
(* out: the gains kp and kd, the feedback fields that are only reported,   *)
(* fault_info (diagnostics), and consecutive_errors above ErrorLimit,      *)
(* where it is never compared again.                                       *)
(***************************************************************************)
EXTENDS Integers

CONSTANTS
    MinPosition, MaxPosition,   \* soft limits of a motor
    MaxVelocity, MaxTorque,     \* ratings of a motor
    ErrorLimit,                 \* consecutive bad frames that make a fault (10)
    CommandTimeout,             \* config.control.watchdog_timeout
    FeedbackTimeout             \* 2000 ms in check_safety

ASSUME MotorAssumption ==
    /\ MinPosition \in Int /\ MaxPosition \in Int
    /\ MaxVelocity \in Nat /\ MaxTorque \in Nat
    /\ ErrorLimit \in Nat \ {0}
    /\ CommandTimeout \in Nat /\ FeedbackTimeout \in Nat

MotorState == {"Idle", "Enabled", "Running", "Error", "Disabled"}

Active == {"Enabled", "Running"}

\* MotorMode of a feedback frame; the calibration mode is never commanded.
MotorMode == {"Reset", "Run"}

AgeCap == IF CommandTimeout > FeedbackTimeout THEN CommandTimeout + 1
                                              ELSE FeedbackTimeout + 1

MotorRecord ==
    [state  : MotorState,
     fbMode : MotorMode \cup {"none"},   \* mode of `feedback`, "none" for None
     fbPos  : Int,                       \* position of `feedback`
     errs   : 0..ErrorLimit,             \* consecutive_errors
     fbAge  : 0..AgeCap,                 \* last_feedback_time.elapsed()
     cmdAge : 0..AgeCap,                 \* last_command_time.elapsed()
     tpos   : Int,                       \* target_position
     tvel   : Int,                       \* target_velocity
     ttrq   : Int]                       \* target_torque

NewMotor ==
    [state |-> "Idle", fbMode |-> "none", fbPos |-> 0, errs |-> 0,
     fbAge |-> 0, cmdAge |-> 0, tpos |-> 0, tvel |-> 0, ttrq |-> 0]

Frame == [mode : MotorMode, pos : Int, err : BOOLEAN]

----------------------------------------------------------------------------
(* Time passes for the two Instants of a motor. *)

Later(age, d) == IF age + d > AgeCap THEN AgeCap ELSE age + d

Elapse(m, d) ==
    [m EXCEPT !.fbAge = Later(@, d), !.cmdAge = Later(@, d)]

----------------------------------------------------------------------------
(* Methods of Motor. *)

\* The motor left Run mode on its own while it was expected to be active.
ModeLost(m, f) ==
    m.fbMode = "Run" /\ f.mode = "Reset" /\ m.state \in Active

\* Mutant of ErrorsAfter: the threshold is missed and good frames do not reset.
ErrorsPileUp(m, f) == IF f.err THEN m.errs + 1 ELSE m.errs

ErrorsAfter(m, f) ==
    IF ~f.err THEN 0
    ELSE IF m.errs + 1 >= ErrorLimit THEN ErrorLimit ELSE m.errs + 1

\* Mutant of UpdateFeedback: a good frame in Run mode brings the motor back.
UpdateFeedbackHeals(m, f) ==
    [m EXCEPT !.state  = IF ModeLost(m, f) \/ ErrorsAfter(m, f) = ErrorLimit
                         THEN "Error"
                         ELSE IF @ = "Error" /\ f.mode = "Run" THEN "Enabled" ELSE @,
              !.errs   = ErrorsAfter(m, f),
              !.fbAge  = 0,
              !.fbMode = f.mode,
              !.fbPos  = f.pos]

UpdateFeedback(m, f) ==
    [m EXCEPT !.state  = IF ModeLost(m, f) \/ ErrorsAfter(m, f) = ErrorLimit
                         THEN "Error" ELSE @,
              !.errs   = ErrorsAfter(m, f),
              !.fbAge  = 0,
              !.fbMode = f.mode,
              !.fbPos  = f.pos]

WithinVelocity(v) == -MaxVelocity <= v /\ v <= MaxVelocity

WithinLimits(p) == MinPosition <= p /\ p <= MaxPosition

\* Mutant of ClampTorque: only positive torque is limited.
ClampHalf(t) == IF t > MaxTorque THEN MaxTorque ELSE t

ClampTorque(t) ==
    IF t > MaxTorque THEN MaxTorque ELSE IF t < -MaxTorque THEN -MaxTorque ELSE t

\* Mutant of Started: a command also starts a motor that was never enabled.
StartedAnyway(state) == IF state = "Error" THEN "Error" ELSE "Running"

Started(state) == IF state = "Enabled" THEN "Running" ELSE state

AcceptsPosition(p, v) == WithinLimits(p) /\ WithinVelocity(v)

SetPositionTarget(m, p, v, t) ==
    [m EXCEPT !.tpos = p, !.tvel = v, !.ttrq = ClampTorque(t),
              !.cmdAge = 0, !.state = Started(@)]

SetVelocityTarget(m, v) ==
    [m EXCEPT !.tvel = v, !.cmdAge = 0, !.state = Started(@)]

IsTimeout(m) == m.state = "Running" /\ m.cmdAge > CommandTimeout

\* Mutant of IsFeedbackTimeout: the heartbeat of an Enabled motor is ignored.
OnlyRunningTimesOut(m) ==
    m.state = "Running" /\ m.fbMode # "none" /\ m.fbAge > FeedbackTimeout

IsFeedbackTimeout(m) ==
    m.state \in Active /\ m.fbMode # "none" /\ m.fbAge > FeedbackTimeout

\* Mutant of EmergencyStop: the motors keep running at their target.
EmergencyStopTorqueOnly(m) ==
    [m EXCEPT !.tpos = IF m.fbMode = "none" THEN 0 ELSE m.fbPos, !.ttrq = 0]

\* The state becomes Enabled whatever it was before.
EmergencyStop(m) ==
    [m EXCEPT !.tpos = IF m.fbMode = "none" THEN 0 ELSE m.fbPos,
              !.tvel = 0, !.ttrq = 0, !.state = "Enabled"]

\* Mutant of HoldPosition: it snaps the target to the reported position.
HoldAtFeedback(m) ==
    [m EXCEPT !.tvel = 0, !.ttrq = 0, !.cmdAge = 0, !.tpos = m.fbPos]

\* Mutant of HoldPosition: the feedforward torque is kept.
HoldKeepsTorque(m) ==
    [m EXCEPT !.tvel = 0, !.cmdAge = 0]

HoldPosition(m) ==
    [m EXCEPT !.tvel = 0, !.ttrq = 0, !.cmdAge = 0]
=============================================================================
