--------------------------- MODULE ControlSystem ---------------------------
(***************************************************************************)
(* The motor controller process: struct ControlSystem and the main loop of *)
(* rust/motor_control/src/main.rs.  One thread runs tokio::select! over    *)
(* three timers, so a tick runs to its end before the next one starts; the *)
(* world around it (operators pushing commands, motors faulting, adapters  *)
(* failing) is interleaved with the phases of the arm tick, whose order    *)
(* is read_feedback, send_arm_commands, check_safety, recv_command.        *)
(*                                                                         *)
(* The control frames themselves are functions of the motors' state        *)
(* (ArmFrame, WheelFrame), so sending them changes no variable here; TX    *)
(* errors and the recovery ladder they drive are module CanRecovery.       *)
(***************************************************************************)
EXTENDS Motor, Sequences, FiniteSets

CONSTANTS
    Wheels,      \* base group: <<left wheel, right wheel>>, or shorter
    Joints,      \* arm group: <<swivel, gantry joints ...>>
    MotorId,     \* names clients use, those of absent motors included
    Bus, BusOf,  \* CAN buses, and the bus each motor is wired to
    Position,    \* positions a motor can report (bound)
    Command,     \* commands the clients send (bound)
    MaxInbox,    \* commands waiting on the PULL socket (bound)
    MaxBlock,    \* arm periods a blocking handler can last (bound)
    CanRestart   \* whether systemd restarts are explored

Wheel == {Wheels[i] : i \in DOMAIN Wheels}

Arm == {Joints[i] : i \in DOMAIN Joints}

Motors == Wheel \cup Arm

\* CommandMessage; "undecodable" is a payload that is not valid msgpack.
DriveCommand == [op : {"drive"}, linear : Int, angular : Int]
ArmCommand   == [op : {"arm_joints"}, pos : Seq(Int), vel : Seq(Int), trq : Seq(Int)]
CommandType ==
    DriveCommand \cup ArmCommand
    \cup [op : {"bundle"}, drive : SUBSET DriveCommand, arm : SUBSET ArmCommand]
    \cup [op : {"enable", "disable", "zero_position", "mech_zero",
                "clear_fault", "trigger_fault"}, ids : SUBSET MotorId]
    \cup [op : {"emergency_stop", "clear_emergency_stop", "undecodable"}]

ASSUME ControlAssumption ==
    /\ Wheels \in Seq(MotorId) /\ Joints \in Seq(MotorId)
    /\ Wheel \cap Arm = {}
    /\ BusOf \in [Motors -> Bus]
    /\ Position \subseteq Int /\ 0 \in Position
    /\ Command \subseteq CommandType
    /\ MaxInbox \in Nat /\ MaxBlock \in Nat /\ CanRestart \in BOOLEAN

VARIABLES
    motor,   \* Motor records of both groups
    eStop,   \* emergency_stop
    sockets, \* can_sockets: the buses with an open socket
    pc,      \* where the main loop is: between ticks, reading, receiving
    inbox,   \* commands waiting on the PULL socket
    hw       \* mode the motor hardware is in, "Off" when it never answers

vars == <<motor, eStop, sockets, pc, inbox, hw>>

HwMode == {"Reset", "Run", "Off"}

TypeOK ==
    /\ motor \in [Motors -> MotorRecord]
    /\ eStop \in BOOLEAN
    /\ sockets \subseteq Bus
    /\ pc \in {"select", "read", "recv"}
    /\ inbox \in Seq(Command)
    /\ hw \in [Motors -> HwMode]

Init ==
    /\ motor = [m \in Motors |-> NewMotor]
    /\ eStop = FALSE
    /\ sockets = Bus
    /\ pc = "select"
    /\ inbox = <<>>
    /\ hw \in [Motors -> HwMode]

----------------------------------------------------------------------------
(* The arm tick: read_feedback, send_arm_commands, check_safety, receive.   *)
(* One period passes between two arm ticks; the frames of a tick reach the  *)
(* motors before its safety check.                                          *)

BeginArmTick ==
    /\ pc = "select"
    /\ pc' = "read"
    /\ motor' = [m \in Motors |-> Elapse(motor[m], 1)]
    /\ UNCHANGED <<eStop, sockets, inbox, hw>>

\* A feedback frame carries the mode the hardware is in.
ReadFrame(m, p, err) ==
    /\ pc = "read"
    /\ BusOf[m] \in sockets
    /\ hw[m] # "Off"
    /\ motor' = [motor EXCEPT ![m] =
                   UpdateFeedback(@, [mode |-> hw[m], pos |-> p, err |-> err])]
    /\ UNCHANGED <<eStop, sockets, pc, inbox, hw>>

\* check_safety for one motor: the command timeout first, then the heartbeat.
Supervise(m) ==
    LET held == IF IsTimeout(m) THEN HoldPosition(m) ELSE m
    IN  IF IsFeedbackTimeout(held) THEN [held EXCEPT !.state = "Error"] ELSE held

\* read_feedback stops when every socket is drained, or at the first socket
\* error, which leaves the other buses unread; the tick goes on either way.
CheckSafety ==
    /\ pc = "read"
    /\ pc' = "recv"
    /\ motor' = [m \in Motors |-> Supervise(motor[m])]
    /\ UNCHANGED <<eStop, sockets, inbox, hw>>

\* At most one command per arm tick.
NothingToReceive ==
    /\ pc = "recv" /\ inbox = <<>>
    /\ pc' = "select"
    /\ UNCHANGED <<motor, eStop, sockets, inbox, hw>>

\* Mutants of PassesEStop: driving, or enabling, is let through.
PassesDrive(op) ==
    op \in {"clear_emergency_stop", "clear_fault", "trigger_fault", "drive"}
PassesEnable(op) ==
    op \in {"clear_emergency_stop", "clear_fault", "trigger_fault", "enable"}

PassesEStop(op) == op \in {"clear_emergency_stop", "clear_fault", "trigger_fault"}

\* Take the next command, of type op, off the inbox and let handle_command
\* past its emergency-stop gate.
Receive(op) ==
    /\ pc = "recv" /\ inbox # <<>>
    /\ Head(inbox).op = op
    /\ eStop => PassesEStop(op)
    /\ pc' = "select" /\ inbox' = Tail(inbox)

\* Undecodable payloads and, while stopped, all but three commands are dropped.
DropCommand ==
    /\ pc = "recv" /\ inbox # <<>>
    /\ Head(inbox).op = "undecodable" \/ (eStop /\ ~PassesEStop(Head(inbox).op))
    /\ pc' = "select" /\ inbox' = Tail(inbox)
    /\ UNCHANGED <<motor, eStop, sockets, hw>>

----------------------------------------------------------------------------
(* The control frames of send_arm_commands and send_base_commands: velocity *)
(* and torque they carry for a motor, 0 when no frame is sent.  An Enabled   *)
(* joint gets a zero-force frame, an Enabled wheel its velocity target.      *)

FrameVelocity(m) ==
    IF motor[m].state = "Running" \/ (m \in Wheel /\ motor[m].state = "Enabled")
    THEN motor[m].tvel ELSE 0

FrameTorque(m) ==
    IF m \in Arm /\ motor[m].state = "Running" THEN motor[m].ttrq ELSE 0

----------------------------------------------------------------------------
(* Motion commands.  ms is the state of the motors before, the result the   *)
(* state after.                                                             *)

LeftVelocity(c)  == (-c.linear) - (-c.angular)
RightVelocity(c) == (-c.linear) + (-c.angular)

LeftAccepted(c)  == Len(Wheels) >= 1 => WithinVelocity(LeftVelocity(c))
RightAccepted(c) == Len(Wheels) >= 2 => WithinVelocity(RightVelocity(c))

IsLeft(m)  == Len(Wheels) >= 1 /\ m = Wheels[1]
IsRight(m) == Len(Wheels) >= 2 /\ m = Wheels[2]

\* The left wheel first; a rejected velocity ends the command there.
Driven(ms, c) ==
    [m \in Motors |->
        IF IsLeft(m) /\ LeftAccepted(c) THEN SetVelocityTarget(ms[m], LeftVelocity(c))
        ELSE IF IsRight(m) /\ LeftAccepted(c) /\ RightAccepted(c)
             THEN SetVelocityTarget(ms[m], RightVelocity(c))
        ELSE ms[m]]

JointIndex(m) == CHOOSE i \in DOMAIN Joints : Joints[i] = m

\* The value a list gives joint m; a missing one defaults to 0.
Value(list, m) ==
    IF JointIndex(m) \in DOMAIN list THEN list[JointIndex(m)] ELSE 0

\* A command with too few positions is rejected.  A joint that rejects its
\* target keeps the old one, and its last_command_time is refreshed.
Posed(ms, c) ==
    [m \in Motors |->
        IF m \notin Arm \/ Len(c.pos) < Len(Joints) THEN ms[m]
        ELSE IF AcceptsPosition(Value(c.pos, m), Value(c.vel, m))
        THEN SetPositionTarget(ms[m], Value(c.pos, m), Value(c.vel, m), Value(c.trq, m))
        ELSE [ms[m] EXCEPT !.cmdAge = 0]]

HandleDrive ==
    /\ Receive("drive")
    /\ motor' = Driven(motor, Head(inbox))
    /\ UNCHANGED <<eStop, sockets, hw>>

HandleArmJoints ==
    /\ Receive("arm_joints")
    /\ motor' = Posed(motor, Head(inbox))
    /\ UNCHANGED <<eStop, sockets, hw>>

\* Drive first; if a wheel rejects it the arm part is not applied.
HandleBundle ==
    /\ Receive("bundle")
    /\ \/ /\ Head(inbox).drive = {} /\ Head(inbox).arm = {}
          /\ motor' = motor
       \/ /\ Head(inbox).drive = {}
          /\ \E a \in Head(inbox).arm : motor' = Posed(motor, a)
       \/ \E d \in Head(inbox).drive :
            /\ (LeftAccepted(d) /\ RightAccepted(d)) => Head(inbox).arm = {}
            /\ motor' = Driven(motor, d)
       \/ \E d \in Head(inbox).drive, a \in Head(inbox).arm :
            /\ LeftAccepted(d) /\ RightAccepted(d)
            /\ motor' = Posed(Driven(motor, d), a)
    /\ UNCHANGED <<eStop, sockets, hw>>

----------------------------------------------------------------------------
(* Enabling motors.  enable_motor blocks: it clears faults with a disable   *)
(* frame, sends enable frames and waits for Run mode, three times.  It ends *)
(* confirmed, unconfirmed (Error), or aborted with the motor's record as it *)
(* was: no socket, or a read error while it polls.                          *)

Known(ids) == ids \cap Motors

HasSocket(m) == BusOf[m] \in sockets

\* Mutant of Confirmed: the velocity target survives the power cycle.
ConfirmedKeepsVelocity(m, p) ==
    [m EXCEPT !.state = "Enabled", !.cmdAge = 0, !.fbAge = 0, !.errs = 0,
              !.tpos = p, !.fbMode = "Run", !.fbPos = p]

Confirmed(m, p) ==
    [m EXCEPT !.state = "Enabled", !.cmdAge = 0, !.fbAge = 0, !.errs = 0,
              !.tpos = p, !.tvel = 0, !.fbMode = "Run", !.fbPos = p]

Unconfirmed(m, p) ==
    [m EXCEPT !.state = "Error", !.cmdAge = 0, !.fbAge = 0, !.errs = 0,
              !.tpos = p, !.tvel = 0]

\* How the attempts of enable_motor on the motors of T can end.
EnableOutcomes(T) ==
    {o \in [up : SUBSET T, failed : SUBSET T, on : SUBSET T] :
        /\ o.up \cap o.failed = {} /\ o.up \subseteq o.on
        /\ \A m \in o.up \cup o.failed : HasSocket(m)
        /\ \A m \in o.on : HasSocket(m) /\ hw[m] # "Off"}

\* The motors after those attempts, which took d periods in all, since[m] of
\* them after motor m was done with.
AfterEnable(o, p, d, since) ==
    [m \in Motors |->
        IF m \in o.up THEN Elapse(Confirmed(motor[m], p[m]), since[m])
        ELSE IF m \in o.failed THEN Elapse(Unconfirmed(motor[m], p[m]), since[m])
        ELSE Elapse(motor[m], d)]

\* The hardware after them: a frame that gets lost leaves it in either mode.
HardwareAfterEnable(T, o) ==
    [m \in Motors |->
        IF m \notin T \/ ~HasSocket(m) \/ hw[m] = "Off" THEN hw[m]
        ELSE IF m \in o.on THEN "Run" ELSE "Reset"]

Refreshed(m) == IF m.state \in Active THEN [m EXCEPT !.fbAge = 0] ELSE m

\* Motors already active are skipped; at the end every active motor's feedback
\* timestamp is refreshed, which clear_fault does not do.
HandleEnable ==
    /\ Receive("enable")
    /\ LET T == {m \in Known(Head(inbox).ids) : motor[m].state \notin Active}
       IN  \E o \in EnableOutcomes(T), p \in [T -> Position], d \in 0..MaxBlock :
           \E since \in [T -> 0..d] :
             LET after == AfterEnable(o, p, d, since)
             IN  /\ motor' = [m \in Motors |-> Refreshed(after[m])]
                 /\ hw' = HardwareAfterEnable(T, o)
    /\ UNCHANGED <<eStop, sockets>>

HandleClearFault ==
    /\ Receive("clear_fault")
    /\ LET T == {m \in Known(Head(inbox).ids) : motor[m].state = "Error"}
       IN  \E o \in EnableOutcomes(T), p \in [T -> Position], d \in 0..MaxBlock :
           \E since \in [T -> 0..d] :
             /\ motor' = AfterEnable(o, p, d, since)
             /\ hw' = HardwareAfterEnable(T, o)
    /\ UNCHANGED <<eStop, sockets>>

----------------------------------------------------------------------------
(* The other commands. *)

\* The disable frame may be dropped (safe_write_frame reports success either
\* way); a motor whose bus has no socket keeps its state.
HandleDisable ==
    /\ Receive("disable")
    /\ LET T == {m \in Known(Head(inbox).ids) : HasSocket(m)}
       IN  \E delivered \in SUBSET {m \in T : hw[m] # "Off"} :
             /\ motor' = [m \in Motors |->
                            IF m \in T
                            THEN [motor[m] EXCEPT !.state = "Disabled", !.cmdAge = 0]
                            ELSE motor[m]]
             /\ hw' = [m \in Motors |-> IF m \in delivered THEN "Reset" ELSE hw[m]]
    /\ UNCHANGED <<eStop, sockets>>

\* Mutant of HandleEmergencyStop: the latch is forgotten.
HandleEmergencyStopUnlatched ==
    /\ Receive("emergency_stop")
    /\ motor' = [m \in Motors |-> EmergencyStop(motor[m])]
    /\ UNCHANGED <<eStop, sockets, hw>>

HandleEmergencyStop ==
    /\ Receive("emergency_stop")
    /\ eStop' = TRUE
    /\ motor' = [m \in Motors |-> EmergencyStop(motor[m])]
    /\ UNCHANGED <<sockets, hw>>

HandleClearEmergencyStop ==
    /\ Receive("clear_emergency_stop")
    /\ eStop' = FALSE
    /\ UNCHANGED <<motor, sockets, hw>>

\* Software zero: the target becomes the reported position.
ZeroTarget(m) ==
    [m EXCEPT !.tpos = IF m.fbMode = "none" THEN @ ELSE m.fbPos, !.tvel = 0]

HandleZeroPosition ==
    /\ Receive("zero_position")
    /\ motor' = [m \in Motors |->
                   IF m \in Head(inbox).ids THEN ZeroTarget(motor[m]) ELSE motor[m]]
    /\ UNCHANGED <<eStop, sockets, hw>>

MechZeroBlocked(ids) ==
    \E m \in ids : m \notin Motors \/ motor[m].state \notin {"Idle", "Disabled"}

\* Hardware zero, sent to the named motors that have a socket; no field of the
\* controller changes, and the handler sleeps between the frames it writes.
HandleMechZero ==
    /\ Receive("mech_zero")
    /\ \E d \in 0..MaxBlock :
         /\ MechZeroBlocked(Head(inbox).ids) => d = 0
         /\ motor' = [m \in Motors |-> Elapse(motor[m], d)]
    /\ UNCHANGED <<eStop, sockets, hw>>

HandleTriggerFault ==
    /\ Receive("trigger_fault")
    /\ motor' = [m \in Motors |->
                   IF m \in Head(inbox).ids THEN [motor[m] EXCEPT !.state = "Error"]
                   ELSE motor[m]]
    /\ UNCHANGED <<eStop, sockets, hw>>

HandleCommand ==
    \/ HandleDrive \/ HandleArmJoints \/ HandleBundle
    \/ HandleEnable \/ HandleDisable \/ HandleClearFault \/ HandleTriggerFault
    \/ HandleEmergencyStop \/ HandleClearEmergencyStop
    \/ HandleZeroPosition \/ HandleMechZero

----------------------------------------------------------------------------
(* recover_can_if_needed, at the end of a base tick.  Which bus is due, and *)
(* for which of the two remedies, is decided by the ladder of CanRecovery;  *)
(* here any bus may get either.  Both remedies sleep.                       *)

\* Close and reopen the socket of bus b; `opened` tells whether it reopened.
RecoverSocket(b, opened, d) ==
    /\ pc = "select"
    /\ sockets' = IF opened THEN sockets \cup {b} ELSE sockets \ {b}
    /\ motor' = [m \in Motors |-> Elapse(motor[m], d)]
    /\ UNCHANGED <<eStop, pc, inbox, hw>>

Unpowered(m) == [m EXCEPT !.state = "Disabled", !.fbMode = "none", !.fbPos = 0]

\* Take the link of bus b down and up; only a complete success disables the
\* motors of the bus and forgets their feedback.
RecoverLink(b, up, d) ==
    /\ pc = "select"
    /\ sockets' = IF up THEN sockets \cup {b} ELSE sockets \ {b}
    /\ motor' = [m \in Motors |->
                   LET later == Elapse(motor[m], d)
                   IN  IF up /\ BusOf[m] = b THEN Unpowered(later) ELSE later]
    /\ UNCHANGED <<eStop, pc, inbox, hw>>

\* The process exits and systemd starts it again: nothing is persisted, and
\* commands already delivered to the old process are gone.
Restart ==
    /\ CanRestart /\ pc = "select"
    /\ motor' = [m \in Motors |-> NewMotor]
    /\ eStop' = FALSE /\ sockets' = Bus
    /\ \E k \in 0..Len(inbox) : inbox' = SubSeq(inbox, k + 1, Len(inbox))
    /\ UNCHANGED <<pc, hw>>

----------------------------------------------------------------------------
(* The world: clients pushing commands, motors leaving Run mode (a fault, or *)
(* their own watchdog) or falling silent.                                    *)

Push(c) ==
    /\ Len(inbox) < MaxInbox
    /\ inbox' = Append(inbox, c)
    /\ UNCHANGED <<motor, eStop, sockets, pc, hw>>

HardwareStops(m, mode) ==
    /\ hw[m] # "Off" /\ mode # "Run" /\ mode # hw[m]
    /\ hw' = [hw EXCEPT ![m] = mode]
    /\ UNCHANGED <<motor, eStop, sockets, pc, inbox>>

Controller ==
    \/ BeginArmTick
    \/ \E m \in Motors, p \in Position, err \in BOOLEAN : ReadFrame(m, p, err)
    \/ CheckSafety \/ NothingToReceive \/ DropCommand \/ HandleCommand
    \/ \E b \in Bus, ok \in BOOLEAN, d \in 0..MaxBlock :
         RecoverSocket(b, ok, d) \/ RecoverLink(b, ok, d)
    \/ Restart

World ==
    \/ \E c \in Command : Push(c)
    \/ \E m \in Motors, mode \in HwMode : HardwareStops(m, mode)

Next == Controller \/ World

Spec == Init /\ [][Next]_vars

(* The main loop keeps ticking: the arm interval fires, the receive buffers  *)
(* run dry (frames arrive slower than they are read) and a phase always ends *)
Fairness ==
    /\ WF_vars(BeginArmTick)
    /\ WF_vars(CheckSafety)
    /\ WF_vars(NothingToReceive \/ DropCommand \/ HandleCommand)

FairSpec == Spec /\ Fairness
----------------------------------------------------------------------------
(* Safety. *)

\* While the emergency stop is latched no motor is Running and every control
\* frame asks for zero velocity and zero torque, whatever is received, read
\* or recovered meanwhile (the gate at the head of handle_command).
EStopHoldsStill ==
    eStop => \A m \in Motors : /\ motor[m].state # "Running"
                              /\ FrameVelocity(m) = 0 /\ FrameTorque(m) = 0

\* A motor that is enabled but was given no command since is told to stand
\* still.  send_base_commands transmits an Enabled wheel's velocity target as
\* it is, and drive commands change it while the wheel is off or faulted.
ArmedIsStill ==
    \A m \in Motors : motor[m].state = "Enabled" =>
        FrameVelocity(m) = 0 /\ FrameTorque(m) = 0

\* Targets never exceed the motor's ratings, on any path that sets them.
TargetsWithinRatings ==
    \A m \in Motors : /\ WithinVelocity(motor[m].tvel)
                     /\ -MaxTorque <= motor[m].ttrq /\ motor[m].ttrq <= MaxTorque

\* A motor starts Running only from Enabled, with the emergency stop released,
\* on a fresh target, and a joint only towards a position within its limits.
StartsOnlyOnAcceptedTarget ==
    [][\A m \in Motors :
         motor[m].state # "Running" /\ motor'[m].state = "Running" =>
           /\ motor[m].state = "Enabled" /\ ~eStop /\ motor'[m].cmdAge = 0
           /\ m \in Arm => WithinLimits(motor'[m].tpos)]_vars

\* The target of a joint that keeps Running moves only to a position within
\* its limits or, on a software zero, to the position the joint reported: the
\* watchdog, a reconnection or a rejected command never makes it lurch.
NoLurch ==
    [][\A m \in Arm :
         /\ motor[m].state = "Running" /\ motor'[m].state = "Running"
         /\ motor'[m].tpos # motor[m].tpos
         => \/ /\ pc = "recv" /\ inbox # <<>>
               /\ Head(inbox).op \in {"arm_joints", "bundle"}
               /\ WithinLimits(motor'[m].tpos)
            \/ /\ pc = "recv" /\ inbox # <<>>
               /\ Head(inbox).op = "zero_position"
               /\ motor'[m].tpos = motor[m].fbPos]_vars

\* A fault is sticky: good feedback, watchdogs and motion commands never clear
\* it, only a command about the motor's power, a link reset or a restart does.
FaultIsSticky ==
    [][\A m \in Motors : motor[m].state = "Error" /\ motor'[m].state # "Error" =>
         \/ /\ pc = "recv" /\ inbox # <<>>
            /\ Head(inbox).op \in {"enable", "clear_fault", "disable", "emergency_stop"}
         \/ pc = "select" /\ motor'[m].state \in {"Disabled", "Idle"}]_vars

\* What the controller implements: see module SafeMotion.
ModeOf(state) ==
    CASE state \in {"Idle", "Disabled"} -> "off"
      [] state = "Enabled" -> "armed"
      [] state = "Running" -> "moving"
      [] state = "Error"   -> "fault"

MotionMode == [m \in Motors |-> ModeOf(motor[m].state)]

Safe == INSTANCE SafeMotion WITH latched <- eStop, mode <- MotionMode

ImplementsSafeMotion == Safe!SafeSpec

\* "Set all motors on this bus to Disabled - user must re-enable" (recover_link):
\* a Disabled motor becomes active again only through an enable command.
OnlyEnableRevives ==
    [][\A m \in Motors :
         motor[m].state = "Disabled" /\ motor'[m].state \in Active => HandleEnable]_vars

\* "The handler refuses unless every named motor is currently disabled" (MechZero
\* in messages.rs): no zero frame is written for a motor that is in Run mode.
MechZeroOnlyWhenStopped ==
    [][HandleMechZero /\ ~MechZeroBlocked(Head(inbox).ids) =>
         \A m \in Head(inbox).ids : HasSocket(m) => hw[m] # "Run"]_vars

----------------------------------------------------------------------------
(* Liveness. *)

\* An emergency stop that reached the inbox takes effect, whatever is queued
\* before it: one command is taken per arm tick, in order.
EStopTakesEffect ==
    (\E i \in DOMAIN inbox : inbox[i].op = "emergency_stop") ~> eStop

\* When the operators fall silent for good the robot comes to rest: the
\* watchdog leaves no motor with a velocity or torque to follow.
SilenceBringsRest ==
    <>[](inbox = <<>>) =>
        <>[](\A m \in Motors : FrameVelocity(m) = 0 /\ FrameTorque(m) = 0)

\* A motor that fell silent for good is not left active: the heartbeat trips
\* (if it had answered once), unless commands keep refreshing its timestamp.
SilentMotorTrips ==
    <>[](inbox = <<>>) =>
        \A m \in Motors :
            [](hw[m] = "Off" => <>(motor[m].state \notin Active \/ motor[m].fbMode = "none"))
=============================================================================
