------------------------ MODULE ControlSystemProofs ------------------------
(***************************************************************************)
(* Theorems about ControlSystem, for any motors, buses, limits, timeouts   *)
(* and commands.                                                           *)
(***************************************************************************)
EXTENDS ControlSystem, MotorLemmas, SequenceTheorems

\* The inductive invariant: the state is typed, every motor is sound (so an
\* Enabled one has no velocity target, which the frames of a wheel need), and
\* none runs while the emergency stop is latched.
MotorsSound == \A m \in Motors : Sound(motor[m])

IInv ==
    /\ TypeOK
    /\ MotorsSound
    /\ eStop => \A m \in Motors : motor[m].state # "Running"

\* A motor starts as StartsOnlyOnAcceptedTarget says.
WellStarted(m) ==
    motor[m].state # "Running" /\ motor'[m].state = "Running" =>
        /\ motor[m].state = "Enabled" /\ ~eStop /\ motor'[m].cmdAge = 0
        /\ m \in Arm => WithinLimits(motor'[m].tpos)

StepSound == \A m \in Motors : Sound(motor'[m]) /\ WellStarted(m)

\* What a step may do to the states of the motors.
OnlyStarts ==
    \A m \in Motors : motor'[m].state # motor[m].state =>
        motor[m].state = "Enabled" /\ motor'[m].state = "Running"

OnlyPowersUp(From) ==
    \A m \in Motors : motor'[m].state # motor[m].state =>
        motor[m].state \in From /\ motor'[m].state \in {"Enabled", "Error"}

----------------------------------------------------------------------------
(* Commands. *)

\* A received command is a member of Command, so its type follows from its op.
LEMMA HeadTyped ==
    ASSUME TypeOK, inbox # <<>>
    PROVE  /\ Head(inbox) \in CommandType
           /\ Tail(inbox) \in Seq(Command)
  BY HeadTailProperties, ControlAssumption DEF TypeOK

\* Payload of the two motion commands and of a bundle.
LEMMA MotionTyped ==
    ASSUME NEW c \in CommandType
    PROVE  /\ c.op = "drive" => c \in DriveCommand
           /\ c.op = "arm_joints" => c \in ArmCommand
           /\ c.op = "bundle" => c.drive \subseteq DriveCommand /\ c.arm \subseteq ArmCommand
  BY DEF CommandType, DriveCommand, ArmCommand

\* A value a list gives a joint is an integer.
LEMMA ValueTyped ==
    ASSUME NEW list \in Seq(Int), NEW m
    PROVE  Value(list, m) \in Int
  BY DEF Value

\* Motors that a drive command moves are wheels.
LEMMA WheelsMove ==
    ASSUME NEW m, IsLeft(m) \/ IsRight(m)
    PROVE  m \in Wheel
  BY ControlAssumption DEF IsLeft, IsRight, Wheel

\* A drive command keeps the motors sound; one whose state changes is an
\* Enabled wheel that starts Running.
LEMMA DrivenSound ==
    ASSUME NEW ms, \A m \in Motors : Sound(ms[m]), NEW c \in DriveCommand,
           NEW m \in Motors
    PROVE  /\ Sound(Driven(ms, c)[m])
           /\ \/ Driven(ms, c)[m].state = ms[m].state
              \/ /\ ms[m].state = "Enabled" /\ m \in Wheel
                 /\ Driven(ms, c)[m].state = "Running"
                 /\ Driven(ms, c)[m].cmdAge = 0
<1>1. LeftVelocity(c) \in Int /\ RightVelocity(c) \in Int
  BY DEF DriveCommand, LeftVelocity, RightVelocity
<1>2. CASE IsLeft(m) /\ LeftAccepted(c)
  <2>1. Driven(ms, c)[m] = SetVelocityTarget(ms[m], LeftVelocity(c))
    BY <1>2 DEF Driven
  <2>2. WithinVelocity(LeftVelocity(c)) /\ m \in Wheel
    BY <1>2, WheelsMove DEF LeftAccepted, IsLeft
  <2>3. QED
    BY <1>1, <2>1, <2>2, SetVelocitySound DEF Started
<1>3. CASE ~(IsLeft(m) /\ LeftAccepted(c)) /\ IsRight(m) /\ LeftAccepted(c) /\ RightAccepted(c)
  <2>1. Driven(ms, c)[m] = SetVelocityTarget(ms[m], RightVelocity(c))
    BY <1>3 DEF Driven
  <2>2. WithinVelocity(RightVelocity(c)) /\ m \in Wheel
    BY <1>3, WheelsMove DEF RightAccepted, IsRight
  <2>3. QED
    BY <1>1, <2>1, <2>2, SetVelocitySound DEF Started
<1>4. CASE ~(IsLeft(m) /\ LeftAccepted(c)) /\ ~(IsRight(m) /\ LeftAccepted(c) /\ RightAccepted(c))
  BY <1>4 DEF Driven
<1>5. QED
  BY <1>2, <1>3, <1>4

\* An arm command keeps the motors sound; one whose state changes is an Enabled
\* joint that starts Running towards a position within its limits.
LEMMA PosedSound ==
    ASSUME NEW ms, \A m \in Motors : Sound(ms[m]), NEW c \in ArmCommand,
           NEW m \in Motors
    PROVE  /\ Sound(Posed(ms, c)[m])
           /\ \/ Posed(ms, c)[m].state = ms[m].state
              \/ /\ ms[m].state = "Enabled" /\ m \in Arm
                 /\ Posed(ms, c)[m].state = "Running"
                 /\ Posed(ms, c)[m].cmdAge = 0
                 /\ WithinLimits(Posed(ms, c)[m].tpos)
           /\ m \notin Arm => Posed(ms, c)[m] = ms[m]
<1> DEFINE p == Value(c.pos, m)
           v == Value(c.vel, m)
           t == Value(c.trq, m)
<1>1. p \in Int /\ v \in Int /\ t \in Int
  BY ValueTyped DEF ArmCommand
<1>2. CASE m \notin Arm \/ Len(c.pos) < Len(Joints)
  BY <1>2 DEF Posed
<1>3. CASE m \in Arm /\ ~(Len(c.pos) < Len(Joints)) /\ AcceptsPosition(p, v)
  <2>1. Posed(ms, c)[m] = SetPositionTarget(ms[m], p, v, t)
    BY <1>3 DEF Posed
  <2>2. WithinLimits(p)
    BY <1>3 DEF AcceptsPosition
  <2>3. QED
    BY <1>1, <1>3, <2>1, <2>2, SetPositionSound DEF Started
<1>4. CASE m \in Arm /\ ~(Len(c.pos) < Len(Joints)) /\ ~AcceptsPosition(p, v)
  <2>1. Posed(ms, c)[m] = [ms[m] EXCEPT !.cmdAge = 0]
    BY <1>4 DEF Posed
  <2>2. Sound(Posed(ms, c)[m]) /\ Posed(ms, c)[m].state = ms[m].state
    BY <2>1, ZeroInRange DEF Sound, MotorRecord, Rated
  <2>3. QED
    BY <1>4, <2>2
<1>5. QED
  BY <1>2, <1>3, <1>4

----------------------------------------------------------------------------
(* Enabling. *)

\* A motor that confirmed is sound, Enabled and has no velocity target.
LEMMA ConfirmedSound ==
    ASSUME NEW m, Sound(m), NEW p \in Int
    PROVE  Sound(Confirmed(m, p)) /\ Confirmed(m, p).state = "Enabled"
<1> DEFINE new == Confirmed(m, p)
<1>1. new \in MotorRecord
  BY ZeroInRange DEF Confirmed, Sound, MotorRecord, MotorState, MotorMode
<1>2. new.state = "Enabled" /\ new.tvel = 0 /\ new.ttrq = m.ttrq
  BY DEF Confirmed, Sound, MotorRecord
<1>3. QED
  BY <1>1, <1>2, MotorAssumption DEF Sound, Rated, WithinVelocity

\* One that did not is sound and in Error.
LEMMA UnconfirmedSound ==
    ASSUME NEW m, Sound(m), NEW p \in Int
    PROVE  Sound(Unconfirmed(m, p)) /\ Unconfirmed(m, p).state = "Error"
<1> DEFINE new == Unconfirmed(m, p)
<1>1. new \in MotorRecord
  BY ZeroInRange DEF Unconfirmed, Sound, MotorRecord, MotorState
<1>2. new.state = "Error" /\ new.tvel = 0 /\ new.ttrq = m.ttrq
  BY DEF Unconfirmed, Sound, MotorRecord
<1>3. QED
  BY <1>1, <1>2, MotorAssumption DEF Sound, Rated, WithinVelocity

\* enable_motor, confirmed or not, leaves the motors sound and starts none.
LEMMA AfterEnableSound ==
    ASSUME MotorsSound, NEW T \in SUBSET Motors, NEW o \in EnableOutcomes(T),
           NEW p \in [T -> Position], NEW d \in Nat, NEW since \in [T -> 0..d],
           NEW m \in Motors
    PROVE  LET after == AfterEnable(o, p, d, since)[m]
           IN  /\ Sound(after)
               /\ \/ after.state = motor[m].state
                  \/ m \in T /\ after.state \in {"Enabled", "Error"}
<1> DEFINE after == AfterEnable(o, p, d, since)[m]
<1>1. o.up \subseteq T /\ o.failed \subseteq T
  BY DEF EnableOutcomes
<1>2. Sound(motor[m])
  BY DEF MotorsSound
<1>3. ASSUME m \in T
      PROVE  p[m] \in Int /\ since[m] \in Nat
  <2>1. since[m] \in 0..d
    BY <1>3
  <2>2. p[m] \in Position
    BY <1>3
  <2>3. since[m] \in Nat
    BY <2>1
  <2>4. p[m] \in Int
    BY <2>2, ControlAssumption
  <2>5. QED
    BY <2>3, <2>4
<1>4. CASE m \in o.up
  <2>1. after = Elapse(Confirmed(motor[m], p[m]), since[m])
    BY <1>4 DEF AfterEnable
  <2>2. Sound(Confirmed(motor[m], p[m])) /\ Confirmed(motor[m], p[m]).state \in {"Enabled", "Error"}
    BY <1>1, <1>2, <1>3, <1>4, ConfirmedSound
  <2>3. QED
    BY <1>1, <1>3, <1>4, <2>1, <2>2, ElapseSound
<1>5. CASE m \notin o.up /\ m \in o.failed
  <2>1. after = Elapse(Unconfirmed(motor[m], p[m]), since[m])
    BY <1>5 DEF AfterEnable
  <2>2. Sound(Unconfirmed(motor[m], p[m])) /\ Unconfirmed(motor[m], p[m]).state \in {"Enabled", "Error"}
    BY <1>1, <1>2, <1>3, <1>5, UnconfirmedSound
  <2>3. QED
    BY <1>1, <1>3, <1>5, <2>1, <2>2, ElapseSound
<1>6. CASE m \notin o.up /\ m \notin o.failed
  BY <1>2, <1>6, ElapseSound DEF AfterEnable
<1>7. QED
  BY <1>4, <1>5, <1>6

\* Refreshing a feedback timestamp touches nothing else.
LEMMA RefreshedSound ==
    ASSUME NEW m, Sound(m)
    PROVE  Sound(Refreshed(m)) /\ Refreshed(m).state = m.state
  BY ZeroInRange DEF Refreshed, Sound, MotorRecord, Rated

\* The mode of the hardware after an attempt is one it can be in.
LEMMA HardwareTyped ==
    ASSUME TypeOK, NEW T, NEW o
    PROVE  HardwareAfterEnable(T, o) \in [Motors -> HwMode]
  BY DEF HardwareAfterEnable, TypeOK, HwMode

\* The software zero keeps a motor sound, in its state.
LEMMA ZeroTargetSound ==
    ASSUME NEW m, Sound(m)
    PROVE  Sound(ZeroTarget(m)) /\ ZeroTarget(m).state = m.state
<1> DEFINE new == ZeroTarget(m)
<1>1. new \in MotorRecord
  BY ZeroInRange DEF ZeroTarget, Sound, MotorRecord
<1>2. new.state = m.state /\ new.tvel = 0 /\ new.ttrq = m.ttrq
  BY DEF ZeroTarget, Sound, MotorRecord
<1>3. QED
  BY <1>1, <1>2, MotorAssumption DEF Sound, Rated, WithinVelocity

\* A motor whose bus was reset is sound and Disabled.
LEMMA UnpoweredSound ==
    ASSUME NEW m, Sound(m)
    PROVE  Sound(Unpowered(m)) /\ Unpowered(m).state = "Disabled"
<1> DEFINE new == Unpowered(m)
<1>1. new \in MotorRecord
  BY ZeroInRange DEF Unpowered, Sound, MotorRecord, MotorState
<1>2. new.state = "Disabled" /\ new.tvel = m.tvel /\ new.ttrq = m.ttrq
  BY DEF Unpowered, Sound, MotorRecord
<1>3. QED
  BY <1>1, <1>2 DEF Sound, Rated

----------------------------------------------------------------------------
(* Every step keeps the motors sound and starts one only as allowed. *)

\* A step that leaves the motors alone.
LEMMA SameMotors ==
    ASSUME MotorsSound, motor' = motor
    PROVE  StepSound
  BY DEF StepSound, MotorsSound, WellStarted

\* check_safety keeps a motor sound, in its state or in Error.
LEMMA SuperviseSound ==
    ASSUME NEW m, Sound(m)
    PROVE  Sound(Supervise(m)) /\ Supervise(m).state \in {m.state, "Error"}
<1> DEFINE held == IF IsTimeout(m) THEN HoldPosition(m) ELSE m
<1>1. Sound(held) /\ held.state = m.state
  BY HoldSound
<1>2. /\ Sound([held EXCEPT !.state = "Error"])
      /\ [held EXCEPT !.state = "Error"].state = "Error"
  BY <1>1 DEF Sound, MotorRecord, MotorState, Rated
<1>3. QED
  BY <1>1, <1>2 DEF Supervise

\* The phases of the arm tick.
LEMMA TickSound ==
    ASSUME IInv,
           \/ BeginArmTick \/ CheckSafety
           \/ \E m \in Motors, p \in Position, err \in BOOLEAN : ReadFrame(m, p, err)
    PROVE  StepSound
<1> USE DEF IInv, StepSound, MotorsSound, WellStarted
<1>1. CASE BeginArmTick
  BY <1>1, ElapseSound DEF BeginArmTick
<1>2. CASE CheckSafety
  BY <1>2, SuperviseSound DEF CheckSafety
<1>3. ASSUME NEW n \in Motors, NEW p \in Position, NEW err \in BOOLEAN, ReadFrame(n, p, err)
      PROVE  StepSound
  <2> DEFINE f == [mode |-> hw[n], pos |-> p, err |-> err]
  <2>1. f \in Frame
    BY <1>3, ControlAssumption DEF ReadFrame, TypeOK, HwMode, Frame, MotorMode
  <2>2. motor' = [motor EXCEPT ![n] = UpdateFeedback(motor[n], f)]
    BY <1>3 DEF ReadFrame
  <2>3. /\ Sound(UpdateFeedback(motor[n], f))
        /\ UpdateFeedback(motor[n], f).state \in {motor[n].state, "Error"}
    BY <2>1, UpdateFeedbackSound
  <2>4. QED
    BY <2>2, <2>3 DEF TypeOK
<1>4. QED
  BY <1>1, <1>2, <1>3

\* The motion commands, which the emergency stop does not let pass.
LEMMA MotionSound ==
    ASSUME IInv, HandleDrive \/ HandleArmJoints \/ HandleBundle
    PROVE  StepSound /\ OnlyStarts
<1>1. inbox # <<>> /\ ~eStop
  BY DEF HandleDrive, HandleArmJoints, HandleBundle, Receive, PassesEStop
<1>2. Head(inbox) \in CommandType
  BY <1>1, HeadTyped DEF IInv
<1>3. \A m \in Motors : Sound(motor[m])
  BY DEF IInv, MotorsSound
<1>4. \A m \in Motors : m \in Wheel => m \notin Arm
  BY ControlAssumption
<1>5. ASSUME NEW c \in DriveCommand, motor' = Driven(motor, c)
      PROVE  StepSound /\ OnlyStarts
  BY <1>1, <1>3, <1>4, <1>5, DrivenSound DEF StepSound, WellStarted, OnlyStarts
<1>6. ASSUME NEW a \in ArmCommand, motor' = Posed(motor, a)
      PROVE  StepSound /\ OnlyStarts
  BY <1>1, <1>3, <1>6, PosedSound DEF StepSound, WellStarted, OnlyStarts
<1>7. ASSUME NEW c \in DriveCommand, NEW a \in ArmCommand,
             motor' = Posed(Driven(motor, c), a)
      PROVE  StepSound /\ OnlyStarts
  <2> DEFINE ms == Driven(motor, c)
  <2>1. \A m \in Motors : Sound(ms[m])
    BY <1>3, DrivenSound
  <2>2. ASSUME NEW m \in Motors
        PROVE  /\ Sound(motor'[m]) /\ WellStarted(m)
               /\ \/ motor'[m].state = motor[m].state
                  \/ motor[m].state = "Enabled" /\ motor'[m].state = "Running"
    <3>1. Sound(motor'[m])
      BY <1>7, <2>1, PosedSound
    <3>2. CASE m \in Arm
      <4>1. ms[m].state = motor[m].state
        BY <1>3, <1>4, <3>2, DrivenSound
      <4>2. QED
        BY <1>1, <1>7, <2>1, <3>1, <4>1, PosedSound DEF WellStarted
    <3>3. CASE m \notin Arm
      <4>1. motor'[m] = ms[m]
        BY <1>7, <2>1, <3>3, PosedSound
      <4>2. QED
        BY <1>1, <1>3, <3>1, <3>3, <4>1, DrivenSound DEF WellStarted
    <3>4. QED
      BY <3>2, <3>3
  <2>3. QED
    BY <2>2 DEF StepSound, OnlyStarts
<1>8. CASE HandleDrive
  <2>1. Head(inbox) \in DriveCommand
    BY <1>2, <1>8, MotionTyped DEF HandleDrive, Receive
  <2>2. QED
    BY <1>5, <1>8, <2>1 DEF HandleDrive
<1>9. CASE HandleArmJoints
  <2>1. Head(inbox) \in ArmCommand
    BY <1>2, <1>9, MotionTyped DEF HandleArmJoints, Receive
  <2>2. QED
    BY <1>6, <1>9, <2>1 DEF HandleArmJoints
<1>10. CASE HandleBundle
  <2>1. Head(inbox).drive \subseteq DriveCommand /\ Head(inbox).arm \subseteq ArmCommand
    BY <1>2, <1>10, MotionTyped DEF HandleBundle, Receive
  <2>2. CASE motor' = motor
    BY <2>2, SameMotors DEF IInv, OnlyStarts
  <2>3. QED
    BY <1>5, <1>6, <1>7, <1>10, <2>1, <2>2 DEF HandleBundle
<1>11. QED
  BY <1>8, <1>9, <1>10

\* enable powers up motors that are not active, and starts none.
LEMMA EnableSound ==
    ASSUME IInv, HandleEnable
    PROVE  StepSound /\ OnlyPowersUp({"Idle", "Disabled", "Error"})
<1> DEFINE T == {m \in Known(Head(inbox).ids) : motor[m].state \notin Active}
<1>1. T \in SUBSET Motors /\ \A k \in 0..MaxBlock : k \in Nat
  BY ControlAssumption DEF Known
<1>2. PICK o \in EnableOutcomes(T), p \in [T -> Position], d \in 0..MaxBlock :
        \E since \in [T -> 0..d] :
          motor' = [m \in Motors |-> Refreshed(AfterEnable(o, p, d, since)[m])]
  BY DEF HandleEnable
<1>3. PICK since \in [T -> 0..d] :
        motor' = [m \in Motors |-> Refreshed(AfterEnable(o, p, d, since)[m])]
  BY <1>2
<1>4. ASSUME NEW m \in Motors
      PROVE  /\ Sound(motor'[m])
             /\ \/ motor'[m].state = motor[m].state
                \/ m \in T /\ motor'[m].state \in {"Enabled", "Error"}
  <2> HIDE DEF T
  <2>1. /\ Sound(AfterEnable(o, p, d, since)[m])
        /\ \/ AfterEnable(o, p, d, since)[m].state = motor[m].state
           \/ m \in T /\ AfterEnable(o, p, d, since)[m].state \in {"Enabled", "Error"}
    BY <1>1, AfterEnableSound DEF IInv
  <2>2. QED
    BY <1>3, <2>1, RefreshedSound
<1>5. QED
  BY <1>4 DEF StepSound, WellStarted, OnlyPowersUp, IInv, MotorsSound, Sound,
              MotorRecord, MotorState, Active

\* clear_fault powers up motors in Error only.
LEMMA ClearFaultSound ==
    ASSUME IInv, HandleClearFault
    PROVE  StepSound /\ OnlyPowersUp({"Error"})
<1> DEFINE T == {m \in Known(Head(inbox).ids) : motor[m].state = "Error"}
<1>1. T \in SUBSET Motors /\ \A k \in 0..MaxBlock : k \in Nat
  BY ControlAssumption DEF Known
<1>2. PICK o \in EnableOutcomes(T), p \in [T -> Position], d \in 0..MaxBlock :
        \E since \in [T -> 0..d] :
          motor' = AfterEnable(o, p, d, since)
  BY DEF HandleClearFault
<1>3. PICK since \in [T -> 0..d] :
        motor' = AfterEnable(o, p, d, since)
  BY <1>2
<1>4. ASSUME NEW m \in Motors
      PROVE  /\ Sound(motor'[m])
             /\ \/ motor'[m].state = motor[m].state
                \/ m \in T /\ motor'[m].state \in {"Enabled", "Error"}
  <2> HIDE DEF T
  <2>1. /\ Sound(AfterEnable(o, p, d, since)[m])
        /\ \/ AfterEnable(o, p, d, since)[m].state = motor[m].state
           \/ m \in T /\ AfterEnable(o, p, d, since)[m].state \in {"Enabled", "Error"}
    BY <1>1, AfterEnableSound DEF IInv
  <2>2. QED
    BY <1>3, <2>1
<1>5. QED
  BY <1>4 DEF StepSound, WellStarted, OnlyPowersUp, IInv, MotorsSound, Sound,
              MotorRecord, MotorState, Active

\* The other commands start no motor either.
LEMMA OtherCommandsSound ==
    ASSUME IInv,
           \/ HandleDisable \/ HandleTriggerFault \/ HandleEmergencyStop
           \/ HandleClearEmergencyStop \/ HandleZeroPosition \/ HandleMechZero
    PROVE  StepSound
<1> USE DEF IInv, MotorsSound, StepSound, WellStarted
<1>1. CASE HandleDisable
  <2>1. ASSUME NEW m \in Motors
        PROVE  motor'[m] \in {motor[m],
                              [motor[m] EXCEPT !.state = "Disabled", !.cmdAge = 0]}
    BY <1>1 DEF HandleDisable
  <2>2. ASSUME NEW m \in Motors
        PROVE  /\ Sound([motor[m] EXCEPT !.state = "Disabled", !.cmdAge = 0])
               /\ [motor[m] EXCEPT !.state = "Disabled", !.cmdAge = 0].state = "Disabled"
    BY ZeroInRange DEF Sound, MotorRecord, MotorState, Rated
  <2>3. QED
    BY <2>1, <2>2
<1>2. CASE HandleTriggerFault
  <2>1. ASSUME NEW m \in Motors
        PROVE  motor'[m] \in {motor[m], [motor[m] EXCEPT !.state = "Error"]}
    BY <1>2 DEF HandleTriggerFault
  <2>2. ASSUME NEW m \in Motors
        PROVE  /\ Sound([motor[m] EXCEPT !.state = "Error"])
               /\ [motor[m] EXCEPT !.state = "Error"].state = "Error"
    BY DEF Sound, MotorRecord, MotorState, Rated
  <2>3. QED
    BY <2>1, <2>2
<1>3. CASE HandleEmergencyStop
  BY <1>3, EmergencyStopSound DEF HandleEmergencyStop
<1>4. CASE HandleClearEmergencyStop
  BY <1>4 DEF HandleClearEmergencyStop
<1>5. CASE HandleZeroPosition
  <2>1. ASSUME NEW m \in Motors
        PROVE  motor'[m] \in {motor[m], ZeroTarget(motor[m])}
    BY <1>5 DEF HandleZeroPosition
  <2>2. QED
    BY <2>1, ZeroTargetSound
<1>6. CASE HandleMechZero
  <2>1. PICK d \in 0..MaxBlock : motor' = [m \in Motors |-> Elapse(motor[m], d)]
    BY <1>6 DEF HandleMechZero
  <2>2. d \in Nat
    BY ControlAssumption
  <2>3. QED
    BY <2>1, <2>2, ElapseSound
<1>7. QED
  BY <1>1, <1>2, <1>3, <1>4, <1>5, <1>6

\* Recovery and restarts start no motor.
LEMMA RecoverySound ==
    ASSUME IInv,
           \/ Restart
           \/ \E b \in Bus, ok \in BOOLEAN, d \in 0..MaxBlock :
                RecoverSocket(b, ok, d) \/ RecoverLink(b, ok, d)
    PROVE  StepSound
<1> USE DEF IInv, MotorsSound, StepSound, WellStarted
<1>1. CASE Restart
  BY <1>1, NewSound DEF Restart
<1>2. ASSUME NEW b \in Bus, NEW ok \in BOOLEAN, NEW d \in 0..MaxBlock,
             RecoverSocket(b, ok, d)
      PROVE  StepSound
  <2>1. d \in Nat
    BY ControlAssumption
  <2>2. QED
    BY <1>2, <2>1, ElapseSound DEF RecoverSocket
<1>3. ASSUME NEW b \in Bus, NEW ok \in BOOLEAN, NEW d \in 0..MaxBlock,
             RecoverLink(b, ok, d)
      PROVE  StepSound
  <2>1. d \in Nat
    BY ControlAssumption
  <2>2. ASSUME NEW m \in Motors
        PROVE  motor'[m] \in {Elapse(motor[m], d), Unpowered(Elapse(motor[m], d))}
    BY <1>3 DEF RecoverLink
  <2>3. QED
    BY <2>1, <2>2, ElapseSound, UnpoweredSound
<1>4. QED
  BY <1>1, <1>2, <1>3

\* Every step.
LEMMA NextSound ==
    ASSUME IInv, [Next]_vars
    PROVE  StepSound
<1> USE DEF IInv
<1>1. CASE NothingToReceive \/ DropCommand \/ World \/ UNCHANGED vars
  BY <1>1, SameMotors DEF NothingToReceive, DropCommand, World, Push, HardwareStops, vars
<1>2. QED
  BY <1>1, TickSound, MotionSound, EnableSound, ClearFaultSound, OtherCommandsSound, RecoverySound
  DEF Next, Controller, HandleCommand

----------------------------------------------------------------------------
(* The rest of the state. *)

\* Commands leave the inbox at its head and enter it at its tail.
LEMMA InboxTyped ==
    ASSUME IInv, [Next]_vars
    PROVE  inbox' \in Seq(Command)
<1>1. inbox \in Seq(Command)
  BY DEF IInv, TypeOK
<1>2. CASE inbox' = inbox
  BY <1>1, <1>2
<1>3. CASE inbox # <<>> /\ inbox' = Tail(inbox)
  BY <1>1, <1>3, HeadTailProperties
<1>4. CASE \E c \in Command : Push(c)
  BY <1>1, <1>4, AppendProperties DEF Push
<1>5. CASE Restart
  <2>1. PICK k \in 0..Len(inbox) : inbox' = SubSeq(inbox, k + 1, Len(inbox))
    BY <1>5 DEF Restart
  <2>2. Len(inbox) \in Nat /\ (\A i \in 1..Len(inbox) : inbox[i] \in Command)
    BY <1>1, LenProperties, ElementOfSeq
  <2>3. QED
    BY <1>1, <2>1, <2>2, SubSeqProperties
<1>6. \/ inbox' = inbox
      \/ inbox # <<>> /\ inbox' = Tail(inbox)
      \/ \E c \in Command : Push(c)
      \/ Restart
  BY DEF Next, Controller, World, HandleCommand, vars, BeginArmTick, ReadFrame, CheckSafety,
         NothingToReceive, DropCommand, Receive, HandleDrive, HandleArmJoints, HandleBundle,
         HandleEnable, HandleDisable, HandleClearFault, HandleTriggerFault,
         HandleEmergencyStop, HandleClearEmergencyStop, HandleZeroPosition, HandleMechZero,
         RecoverSocket, RecoverLink, HardwareStops
<1>7. QED
  BY <1>2, <1>3, <1>4, <1>5, <1>6

\* Sockets belong to buses, and the hardware is in one of its modes.
LEMMA WorldTyped ==
    ASSUME IInv, [Next]_vars
    PROVE  /\ sockets' \subseteq Bus /\ hw' \in [Motors -> HwMode]
           /\ pc' \in {"select", "read", "recv"} /\ eStop' \in BOOLEAN
<1>1. /\ sockets \subseteq Bus /\ hw \in [Motors -> HwMode]
      /\ pc \in {"select", "read", "recv"} /\ eStop \in BOOLEAN
  BY DEF IInv, TypeOK
<1>2. CASE HandleEnable \/ HandleClearFault
  <2>1. \E T, o : hw' = HardwareAfterEnable(T, o)
    BY <1>2 DEF HandleEnable, HandleClearFault
  <2>2. hw' \in [Motors -> HwMode]
    BY <2>1, HardwareTyped DEF IInv
  <2>3. QED
    BY <1>1, <1>2, <2>2 DEF HandleEnable, HandleClearFault, Receive
<1>3. CASE HandleDisable
  BY <1>1, <1>3 DEF HandleDisable, Receive, HwMode
<1>4. CASE \E m \in Motors, mode \in HwMode : HardwareStops(m, mode)
  BY <1>1, <1>4 DEF HardwareStops
<1>5. CASE \E b \in Bus, ok \in BOOLEAN, d \in 0..MaxBlock :
              RecoverSocket(b, ok, d) \/ RecoverLink(b, ok, d)
  BY <1>1, <1>5 DEF RecoverSocket, RecoverLink
<1>6. CASE \/ HandleDrive \/ HandleArmJoints \/ HandleBundle \/ HandleTriggerFault
           \/ HandleEmergencyStop \/ HandleClearEmergencyStop
           \/ HandleZeroPosition \/ HandleMechZero
  BY <1>1, <1>6
  DEF Receive, HandleDrive, HandleArmJoints, HandleBundle, HandleTriggerFault,
      HandleEmergencyStop, HandleClearEmergencyStop, HandleZeroPosition, HandleMechZero
<1>7. CASE \/ BeginArmTick \/ CheckSafety \/ NothingToReceive \/ DropCommand \/ Restart
           \/ \E m \in Motors, p \in Position, err \in BOOLEAN : ReadFrame(m, p, err)
           \/ \E c \in Command : Push(c)
           \/ UNCHANGED vars
  BY <1>1, <1>7
  DEF BeginArmTick, CheckSafety, NothingToReceive, DropCommand, Restart, ReadFrame, Push, vars
<1>8. QED
  BY <1>2, <1>3, <1>4, <1>5, <1>6, <1>7 DEF Next, Controller, World, HandleCommand

\* The motors stay a function on the same set.
LEMMA MotorDomain ==
    ASSUME IInv, [Next]_vars
    PROVE  motor' = [m \in Motors |-> motor'[m]]
<1>1. motor = [m \in Motors |-> motor[m]]
  BY DEF IInv, TypeOK
<1>2. CASE motor' = motor
  BY <1>1, <1>2
<1>3. CASE \E m \in Motors, p \in Position, err \in BOOLEAN : ReadFrame(m, p, err)
  BY <1>1, <1>3 DEF ReadFrame
<1>4. CASE HandleDrive \/ HandleArmJoints \/ HandleBundle
  BY <1>1, <1>4 DEF HandleDrive, HandleArmJoints, HandleBundle, Driven, Posed
<1>5. CASE HandleEnable
  BY <1>5 DEF HandleEnable
<1>6. CASE HandleClearFault
  BY <1>6 DEF HandleClearFault, AfterEnable
<1>7. CASE HandleDisable \/ HandleTriggerFault \/ HandleZeroPosition
  BY <1>7 DEF HandleDisable, HandleTriggerFault, HandleZeroPosition
<1>8. CASE HandleEmergencyStop \/ HandleMechZero
  BY <1>8 DEF HandleEmergencyStop, HandleMechZero
<1>9. CASE BeginArmTick \/ CheckSafety \/ Restart
  BY <1>9 DEF BeginArmTick, CheckSafety, Restart
<1>10. CASE \E b \in Bus, ok \in BOOLEAN, d \in 0..MaxBlock :
               RecoverSocket(b, ok, d) \/ RecoverLink(b, ok, d)
  BY <1>10 DEF RecoverSocket, RecoverLink
<1>11. CASE NothingToReceive \/ DropCommand \/ HandleClearEmergencyStop \/ World
  BY <1>2, <1>11
  DEF NothingToReceive, DropCommand, HandleClearEmergencyStop, World, Push, HardwareStops
<1>12. QED
  BY <1>2, <1>3, <1>4, <1>5, <1>6, <1>7, <1>8, <1>9, <1>10, <1>11
  DEF Next, Controller, HandleCommand, vars

\* The emergency stop is engaged only together with every motor's Enabled state.
LEMMA LatchStep ==
    ASSUME IInv, [Next]_vars
    PROVE  eStop' => eStop \/ \A m \in Motors : motor'[m].state = "Enabled"
<1>1. CASE HandleEmergencyStop
  BY <1>1, EmergencyStopSound DEF IInv, MotorsSound, HandleEmergencyStop
<1>2. CASE ~HandleEmergencyStop
  BY <1>2
  DEF Next, Controller, World, HandleCommand, vars, BeginArmTick, ReadFrame, CheckSafety,
      NothingToReceive, DropCommand, HandleDrive, HandleArmJoints, HandleBundle,
      HandleEnable, HandleDisable, HandleClearFault, HandleTriggerFault,
      HandleClearEmergencyStop, HandleZeroPosition, HandleMechZero,
      RecoverSocket, RecoverLink, Restart, Push, HardwareStops
<1>3. QED
  BY <1>1, <1>2

----------------------------------------------------------------------------
(* The invariant, and the theorems. *)

\* The invariant holds initially.
LEMMA InitIInv == Init => IInv
<1> SUFFICES ASSUME Init PROVE IInv
  OBVIOUS
<1>1. \A m \in Motors : motor[m] = NewMotor
  BY DEF Init
<1>2. MotorsSound
  BY <1>1, NewSound DEF MotorsSound
<1>3. motor \in [Motors -> MotorRecord]
  BY NewSound DEF Init, Sound
<1>4. inbox \in Seq(Command)
  BY EmptySeq DEF Init
<1>5. QED
  BY <1>2, <1>3, <1>4 DEF Init, IInv, TypeOK

\* Every step preserves it.
LEMMA NextIInv == IInv /\ [Next]_vars => IInv'
<1> SUFFICES ASSUME IInv, [Next]_vars PROVE IInv'
  OBVIOUS
<1>1. StepSound
  BY NextSound
<1>2. MotorsSound'
  BY <1>1 DEF StepSound, MotorsSound
<1>3. (motor \in [Motors -> MotorRecord])'
  BY <1>1, MotorDomain DEF StepSound, Sound
<1>4. TypeOK'
  BY <1>3, InboxTyped, WorldTyped DEF TypeOK
<1>5. (eStop => \A m \in Motors : motor[m].state # "Running")'
  BY <1>1, LatchStep DEF IInv, StepSound, WellStarted
<1>6. QED
  BY <1>2, <1>4, <1>5 DEF IInv

\* IInv is an invariant of the controller.
THEOREM Invariance == Spec => []IInv
<1>1. QED
  BY InitIInv, NextIInv, PTL DEF Spec

\* The state always has its type.
THEOREM TypeCorrect == Spec => []TypeOK
<1>1. IInv => TypeOK
  BY DEF IInv
<1>2. QED
  BY <1>1, Invariance, PTL

\* While the emergency stop is latched no motor runs, and every control frame
\* asks for zero velocity and zero torque.
THEOREM EStopSafe == Spec => []EStopHoldsStill
<1>1. IInv => EStopHoldsStill
  <2> SUFFICES ASSUME IInv, eStop, NEW m \in Motors
               PROVE  /\ motor[m].state # "Running"
                      /\ FrameVelocity(m) = 0 /\ FrameTorque(m) = 0
    BY DEF EStopHoldsStill
  <2>1. motor[m].state # "Running" /\ Sound(motor[m])
    BY DEF IInv, MotorsSound
  <2>2. QED
    BY <2>1 DEF FrameVelocity, FrameTorque, Sound
<1>2. QED
  BY <1>1, Invariance, PTL

\* A motor that is enabled and waits for a command is told to stand still.
THEOREM ArmedSafe == Spec => []ArmedIsStill
<1>1. IInv => ArmedIsStill
  BY DEF IInv, MotorsSound, Sound, ArmedIsStill, FrameVelocity, FrameTorque
<1>2. QED
  BY <1>1, Invariance, PTL

\* No target ever exceeds a motor's ratings.
THEOREM RatingsRespected == Spec => []TargetsWithinRatings
<1>1. IInv => TargetsWithinRatings
  BY DEF IInv, MotorsSound, Sound, Rated, TargetsWithinRatings
<1>2. QED
  BY <1>1, Invariance, PTL

\* A motor starts only from Enabled, with the stop released, on a fresh and
\* accepted target.
THEOREM StartsSafely == Spec => StartsOnlyOnAcceptedTarget
<1>1. IInv /\ [Next]_vars =>
        [\A m \in Motors :
           motor[m].state # "Running" /\ motor'[m].state = "Running" =>
             /\ motor[m].state = "Enabled" /\ ~eStop /\ motor'[m].cmdAge = 0
             /\ m \in Arm => WithinLimits(motor'[m].tpos)]_vars
  BY NextSound DEF StepSound, WellStarted
<1>2. QED
  BY <1>1, Invariance, PTL DEF Spec, StartsOnlyOnAcceptedTarget

----------------------------------------------------------------------------
(* A fault is sticky. *)

\* The step handles a command of one of the given types.
Handles(ops) == pc = "recv" /\ inbox # <<>> /\ Head(inbox).op \in ops

\* A motor leaves Error as FaultIsSticky says.
Sticks(m) ==
    motor[m].state = "Error" /\ motor'[m].state # "Error" =>
        \/ Handles({"enable", "clear_fault", "disable", "emergency_stop"})
        \/ pc = "select" /\ motor'[m].state \in {"Disabled", "Idle"}

\* The tick, the motion commands, zeroing and fault injection clear no fault.
LEMMA NothingElseClears ==
    ASSUME IInv, NEW m \in Motors,
           \/ BeginArmTick \/ CheckSafety
           \/ \E n \in Motors, p \in Position, err \in BOOLEAN : ReadFrame(n, p, err)
           \/ HandleDrive \/ HandleArmJoints \/ HandleBundle
           \/ HandleTriggerFault \/ HandleZeroPosition \/ HandleMechZero
    PROVE  motor[m].state = "Error" => motor'[m].state = "Error"
<1>1. Sound(motor[m]) /\ motor[m] \in MotorRecord
  BY DEF IInv, MotorsSound, Sound
<1>2. CASE BeginArmTick
  BY <1>1, <1>2, ElapseSound DEF BeginArmTick
<1>3. CASE CheckSafety
  BY <1>1, <1>3, SuperviseSound DEF CheckSafety
<1>4. ASSUME NEW n \in Motors, NEW p \in Position, NEW err \in BOOLEAN, ReadFrame(n, p, err)
      PROVE  motor[m].state = "Error" => motor'[m].state = "Error"
  <2> DEFINE f == [mode |-> hw[n], pos |-> p, err |-> err]
  <2>1. f \in Frame
    BY <1>4, ControlAssumption DEF IInv, ReadFrame, TypeOK, HwMode, Frame, MotorMode
  <2>2. motor'[m] \in {motor[m], UpdateFeedback(motor[m], f)}
    BY <1>4 DEF ReadFrame, IInv, TypeOK
  <2>3. UpdateFeedback(motor[m], f).state \in {motor[m].state, "Error"}
    BY <1>1, <2>1, UpdateFeedbackSound
  <2>4. QED
    BY <2>2, <2>3
<1>5. CASE HandleDrive \/ HandleArmJoints \/ HandleBundle
  BY <1>5, MotionSound DEF OnlyStarts
<1>6. CASE HandleTriggerFault
  BY <1>1, <1>6 DEF HandleTriggerFault, MotorRecord
<1>7. CASE HandleZeroPosition
  BY <1>1, <1>7, ZeroTargetSound DEF HandleZeroPosition
<1>8. CASE HandleMechZero
  <2>1. PICK d \in 0..MaxBlock : motor' = [n \in Motors |-> Elapse(motor[n], d)]
    BY <1>8 DEF HandleMechZero
  <2>2. d \in Nat
    BY ControlAssumption
  <2>3. QED
    BY <1>1, <2>1, <2>2, ElapseSound
<1>9. QED
  BY <1>2, <1>3, <1>4, <1>5, <1>6, <1>7, <1>8

\* A recovery or a restart clears one only by powering the motor off.
LEMMA RecoveryPowersOff ==
    ASSUME IInv, NEW m \in Motors,
           \/ Restart
           \/ \E b \in Bus, ok \in BOOLEAN, d \in 0..MaxBlock :
                RecoverSocket(b, ok, d) \/ RecoverLink(b, ok, d)
    PROVE  Sticks(m)
<1>1. Sound(motor[m])
  BY DEF IInv, MotorsSound
<1>2. CASE Restart
  BY <1>2, NewSound DEF Restart, Sticks
<1>3. ASSUME NEW b \in Bus, NEW ok \in BOOLEAN, NEW d \in 0..MaxBlock,
             RecoverSocket(b, ok, d) \/ RecoverLink(b, ok, d)
      PROVE  Sticks(m)
  <2>1. d \in Nat
    BY ControlAssumption
  <2>2. pc = "select" /\ motor'[m] \in {Elapse(motor[m], d), Unpowered(Elapse(motor[m], d))}
    BY <1>3 DEF RecoverSocket, RecoverLink
  <2>3. Sound(Elapse(motor[m], d)) /\ Elapse(motor[m], d).state = motor[m].state
    BY <1>1, <2>1, ElapseSound
  <2>4. Unpowered(Elapse(motor[m], d)).state = "Disabled"
    BY <2>3, UnpoweredSound
  <2>5. QED
    BY <2>2, <2>3, <2>4 DEF Sticks
<1>4. QED
  BY <1>2, <1>3

\* Every step.
LEMMA StickyStep ==
    ASSUME IInv, [Next]_vars, NEW m \in Motors
    PROVE  Sticks(m)
<1>1. CASE \/ BeginArmTick \/ CheckSafety
           \/ \E n \in Motors, p \in Position, err \in BOOLEAN : ReadFrame(n, p, err)
           \/ HandleDrive \/ HandleArmJoints \/ HandleBundle
           \/ HandleTriggerFault \/ HandleZeroPosition \/ HandleMechZero
  BY <1>1, NothingElseClears DEF Sticks
<1>2. CASE HandleEnable \/ HandleClearFault \/ HandleDisable \/ HandleEmergencyStop
  BY <1>2
  DEF Sticks, Handles, Receive, HandleEnable, HandleClearFault, HandleDisable,
      HandleEmergencyStop
<1>3. CASE \/ Restart
           \/ \E b \in Bus, ok \in BOOLEAN, d \in 0..MaxBlock :
                RecoverSocket(b, ok, d) \/ RecoverLink(b, ok, d)
  BY <1>3, RecoveryPowersOff
<1>4. CASE NothingToReceive \/ DropCommand \/ HandleClearEmergencyStop \/ World \/ UNCHANGED vars
  BY <1>4
  DEF Sticks, NothingToReceive, DropCommand, HandleClearEmergencyStop, World, Push,
      HardwareStops, vars
<1>5. QED
  BY <1>1, <1>2, <1>3, <1>4 DEF Next, Controller, HandleCommand

----------------------------------------------------------------------------
(* A running joint never lurches. *)

\* A joint that keeps Running moves its target as NoLurch says.
Steady(m) ==
    /\ motor[m].state = "Running" /\ motor'[m].state = "Running"
    /\ motor'[m].tpos # motor[m].tpos
    => \/ Handles({"arm_joints", "bundle"}) /\ WithinLimits(motor'[m].tpos)
       \/ Handles({"zero_position"}) /\ motor'[m].tpos = motor[m].fbPos

\* Neither time, feedback, the watchdogs nor a refresh moves a target position.
LEMMA TargetKept ==
    ASSUME NEW m, Sound(m), NEW d \in Nat, NEW f \in Frame
    PROVE  /\ Elapse(m, d).tpos = m.tpos
           /\ UpdateFeedback(m, f).tpos = m.tpos
           /\ Supervise(m).tpos = m.tpos
           /\ Refreshed(m).tpos = m.tpos
           /\ Unpowered(m).tpos = m.tpos
<1>1. m \in MotorRecord
  BY DEF Sound
<1>2. Elapse(m, d).tpos = m.tpos /\ UpdateFeedback(m, f).tpos = m.tpos
  BY <1>1 DEF Elapse, UpdateFeedback, MotorRecord
<1>3. Refreshed(m).tpos = m.tpos /\ Unpowered(m).tpos = m.tpos
  BY <1>1 DEF Refreshed, Unpowered, MotorRecord
<1>4. Supervise(m).tpos = m.tpos
  <2> DEFINE held == IF IsTimeout(m) THEN HoldPosition(m) ELSE m
  <2>1. held \in MotorRecord /\ held.tpos = m.tpos
    BY <1>1, HoldSound DEF Sound
  <2>2. [held EXCEPT !.state = "Error"].tpos = m.tpos
    BY <2>1 DEF MotorRecord
  <2>3. QED
    BY <2>1, <2>2 DEF Supervise
<1>5. QED
  BY <1>2, <1>3, <1>4

\* The same of time alone, for every motor.
LEMMA ElapseKeeps ==
    ASSUME IInv, NEW d \in Nat, NEW m \in Motors
    PROVE  Elapse(motor[m], d).tpos = motor[m].tpos
<1>1. [mode |-> "Run", pos |-> 0, err |-> FALSE] \in Frame
  BY DEF Frame, MotorMode
<1>2. QED
  BY <1>1, TargetKept DEF IInv, MotorsSound

\* A drive command leaves the joints alone.
LEMMA DrivenKeepsJoints ==
    ASSUME NEW ms, NEW c, NEW m \in Arm
    PROVE  Driven(ms, c)[m] = ms[m]
<1>1. m \in Motors /\ ~IsLeft(m) /\ ~IsRight(m)
  BY WheelsMove, ControlAssumption DEF Motors
<1>2. QED
  BY <1>1 DEF Driven

\* An arm command moves a joint's target to a position within limits or not
\* at all, in one message or bundled after a drive command.
LEMMA PosedWithinLimits ==
    ASSUME NEW ms, \A m \in Motors : Sound(ms[m]), NEW c \in ArmCommand,
           NEW m \in Motors
    PROVE  \/ Posed(ms, c)[m].tpos = ms[m].tpos
           \/ WithinLimits(Posed(ms, c)[m].tpos)
<1> DEFINE p == Value(c.pos, m)
           v == Value(c.vel, m)
           t == Value(c.trq, m)
<1>1. p \in Int /\ v \in Int /\ t \in Int
  BY ValueTyped DEF ArmCommand
<1>2. CASE m \notin Arm \/ Len(c.pos) < Len(Joints)
  BY <1>2 DEF Posed
<1>3. CASE m \in Arm /\ ~(Len(c.pos) < Len(Joints)) /\ AcceptsPosition(p, v)
  <2>1. Posed(ms, c)[m] = SetPositionTarget(ms[m], p, v, t)
    BY <1>3 DEF Posed
  <2>2. Posed(ms, c)[m].tpos = p
    BY <1>1, <1>3, <2>1, SetPositionSound
  <2>3. QED
    BY <1>3, <2>2 DEF AcceptsPosition
<1>4. CASE m \in Arm /\ ~(Len(c.pos) < Len(Joints)) /\ ~AcceptsPosition(p, v)
  <2>1. Posed(ms, c)[m] = [ms[m] EXCEPT !.cmdAge = 0] /\ ms[m] \in MotorRecord
    BY <1>4 DEF Posed, Sound
  <2>2. QED
    BY <2>1 DEF MotorRecord
<1>5. QED
  BY <1>2, <1>3, <1>4

\* The motion commands.
LEMMA MotionSteady ==
    ASSUME IInv, HandleDrive \/ HandleArmJoints \/ HandleBundle, NEW m \in Arm
    PROVE  Steady(m)
<1>1. /\ m \in Motors
      /\ inbox # <<>> /\ Head(inbox) \in CommandType
      /\ \A n \in Motors : Sound(motor[n])
  BY HeadTyped
  DEF HandleDrive, HandleArmJoints, HandleBundle, Receive, IInv, MotorsSound, Motors
<1>2. ASSUME NEW c \in DriveCommand
      PROVE  \A n \in Motors : Sound(Driven(motor, c)[n])
  BY <1>1, <1>2, DrivenSound
<1>3. ASSUME NEW a \in ArmCommand, Handles({"arm_joints", "bundle"}),
             \/ motor' = Posed(motor, a)
             \/ \E c \in DriveCommand : motor' = Posed(Driven(motor, c), a)
      PROVE  Steady(m)
  BY <1>1, <1>2, <1>3, DrivenKeepsJoints, PosedWithinLimits DEF Steady
<1>4. ASSUME \E c : motor' = Driven(motor, c)
      PROVE  Steady(m)
  BY <1>4, DrivenKeepsJoints DEF Steady
<1>5. CASE HandleDrive
  BY <1>4, <1>5 DEF HandleDrive
<1>6. CASE HandleArmJoints
  <2>1. Head(inbox) \in ArmCommand
    BY <1>1, <1>6, MotionTyped DEF HandleArmJoints, Receive
  <2>2. QED
    BY <1>3, <1>6, <2>1 DEF HandleArmJoints, Receive, Handles
<1>7. CASE HandleBundle
  <2>1. Head(inbox).drive \subseteq DriveCommand /\ Head(inbox).arm \subseteq ArmCommand
    BY <1>1, <1>7, MotionTyped DEF HandleBundle, Receive
  <2>2. Handles({"arm_joints", "bundle"})
    BY <1>7 DEF HandleBundle, Receive, Handles
  <2>3. CASE motor' = motor
    BY <2>3 DEF Steady
  <2>4. QED
    BY <1>3, <1>4, <1>7, <2>1, <2>2, <2>3 DEF HandleBundle
<1>8. QED
  BY <1>5, <1>6, <1>7

\* Powering up moves the target only of motors that were not running.
LEMMA PowerSteady ==
    ASSUME IInv, HandleEnable \/ HandleClearFault, NEW m \in Motors
    PROVE  Steady(m)
<1> SUFFICES ASSUME motor[m].state = "Running"
             PROVE  motor'[m].tpos = motor[m].tpos
  BY DEF Steady
<1>1. Sound(motor[m]) /\ \A k \in 0..MaxBlock : k \in Nat
  BY ControlAssumption DEF IInv, MotorsSound
<1>2. ASSUME NEW T, m \notin T, NEW o \in EnableOutcomes(T), NEW p, NEW d \in 0..MaxBlock,
             NEW since
      PROVE  AfterEnable(o, p, d, since)[m] = Elapse(motor[m], d)
  BY <1>2 DEF EnableOutcomes, AfterEnable
<1>3. CASE HandleClearFault
  <2> DEFINE T == {n \in Known(Head(inbox).ids) : motor[n].state = "Error"}
  <2>1. PICK o \in EnableOutcomes(T), p \in [T -> Position], d \in 0..MaxBlock :
          \E since \in [T -> 0..d] : motor' = AfterEnable(o, p, d, since)
    BY <1>3 DEF HandleClearFault
  <2>2. m \notin T
    OBVIOUS
  <2>3. motor'[m] = Elapse(motor[m], d)
    <3> HIDE DEF T
    <3>1. QED
      BY <1>2, <2>1, <2>2
  <2>4. QED
    BY <1>1, <2>3, ElapseKeeps
<1>4. CASE HandleEnable
  <2> DEFINE T == {n \in Known(Head(inbox).ids) : motor[n].state \notin Active}
  <2>1. PICK o \in EnableOutcomes(T), p \in [T -> Position], d \in 0..MaxBlock :
          \E since \in [T -> 0..d] :
            motor' = [n \in Motors |-> Refreshed(AfterEnable(o, p, d, since)[n])]
    BY <1>4 DEF HandleEnable
  <2>2. m \notin T
    BY DEF Active
  <2>3. motor'[m] = Refreshed(Elapse(motor[m], d))
    <3> HIDE DEF T
    <3>1. QED
      BY <1>2, <2>1, <2>2
  <2>4. Sound(Elapse(motor[m], d))
    BY <1>1, ElapseSound
  <2>5. Refreshed(Elapse(motor[m], d)).tpos = Elapse(motor[m], d).tpos
    BY <2>4 DEF Refreshed, Sound, MotorRecord
  <2>6. QED
    BY <1>1, <2>3, <2>5, ElapseKeeps
<1>5. QED
  BY <1>3, <1>4

\* The phases of the tick, the recoveries and the restart.
LEMMA TickSteady ==
    ASSUME IInv, NEW m \in Motors,
           \/ BeginArmTick \/ CheckSafety \/ Restart
           \/ \E n \in Motors, p \in Position, err \in BOOLEAN : ReadFrame(n, p, err)
           \/ \E b \in Bus, ok \in BOOLEAN, d \in 0..MaxBlock :
                RecoverSocket(b, ok, d) \/ RecoverLink(b, ok, d)
    PROVE  Steady(m)
<1>1. Sound(motor[m]) /\ \A k \in 0..MaxBlock : k \in Nat
  BY ControlAssumption DEF IInv, MotorsSound
<1>2. [mode |-> "Run", pos |-> 0, err |-> FALSE] \in Frame
  BY DEF Frame, MotorMode
<1>3. CASE BeginArmTick
  BY <1>3, ElapseKeeps DEF BeginArmTick, Steady
<1>4. CASE CheckSafety
  BY <1>1, <1>2, <1>4, TargetKept DEF CheckSafety, Steady
<1>5. CASE Restart
  BY <1>5, NewSound DEF Restart, Steady
<1>6. ASSUME NEW n \in Motors, NEW p \in Position, NEW err \in BOOLEAN, ReadFrame(n, p, err)
      PROVE  Steady(m)
  <2> DEFINE f == [mode |-> hw[n], pos |-> p, err |-> err]
  <2>1. f \in Frame
    BY <1>6, ControlAssumption DEF IInv, ReadFrame, TypeOK, HwMode, Frame, MotorMode
  <2>2. motor'[m] \in {motor[m], UpdateFeedback(motor[m], f)}
    BY <1>6 DEF ReadFrame, IInv, TypeOK
  <2>3. UpdateFeedback(motor[m], f).tpos = motor[m].tpos
    BY <1>1, <2>1, TargetKept
  <2>4. QED
    BY <2>2, <2>3 DEF Steady
<1>7. ASSUME NEW b \in Bus, NEW ok \in BOOLEAN, NEW d \in 0..MaxBlock,
             RecoverSocket(b, ok, d) \/ RecoverLink(b, ok, d)
      PROVE  Steady(m)
  <2>1. motor'[m] \in {Elapse(motor[m], d), Unpowered(Elapse(motor[m], d))}
    BY <1>7 DEF RecoverSocket, RecoverLink
  <2>2. Sound(Elapse(motor[m], d)) /\ Elapse(motor[m], d).tpos = motor[m].tpos
    BY <1>1, ElapseSound, ElapseKeeps
  <2>3. Unpowered(Elapse(motor[m], d)).tpos = motor[m].tpos
    BY <1>2, <2>2, TargetKept
  <2>4. QED
    BY <2>1, <2>2, <2>3 DEF Steady
<1>8. QED
  BY <1>3, <1>4, <1>5, <1>6, <1>7

\* The commands that stop, disable, fault or zero a motor.
LEMMA OtherCommandsSteady ==
    ASSUME IInv, NEW m \in Motors,
           \/ HandleDisable \/ HandleTriggerFault \/ HandleEmergencyStop
           \/ HandleClearEmergencyStop \/ HandleZeroPosition \/ HandleMechZero
    PROVE  Steady(m)
<1>1. Sound(motor[m]) /\ motor[m] \in MotorRecord
  BY DEF IInv, MotorsSound, Sound
<1>2. CASE HandleDisable \/ HandleTriggerFault
  <2>1. CASE HandleDisable
    <3>1. motor'[m] \in {motor[m], [motor[m] EXCEPT !.state = "Disabled", !.cmdAge = 0]}
      BY <2>1, Zenon DEF HandleDisable
    <3>2. motor'[m].tpos = motor[m].tpos
      BY <1>1, <3>1 DEF MotorRecord
    <3>3. QED BY <3>2 DEF Steady
  <2>2. CASE HandleTriggerFault
    <3>1. motor'[m] \in {motor[m], [motor[m] EXCEPT !.state = "Error"]}
      BY <2>2, Zenon DEF HandleTriggerFault
    <3>2. motor'[m].tpos = motor[m].tpos
      BY <1>1, <3>1 DEF MotorRecord
    <3>3. QED BY <3>2 DEF Steady
  <2>3. QED BY <1>2, <2>1, <2>2
<1>3. CASE HandleEmergencyStop
  BY <1>1, <1>3, EmergencyStopSound DEF HandleEmergencyStop, Steady
<1>4. CASE HandleClearEmergencyStop
  BY <1>4 DEF HandleClearEmergencyStop, Steady
<1>5. CASE HandleZeroPosition
  <2>1. motor'[m] \in {motor[m], ZeroTarget(motor[m])} /\ Handles({"zero_position"})
    BY <1>5 DEF HandleZeroPosition, Receive, Handles
  <2>2. ZeroTarget(motor[m]).tpos \in {motor[m].tpos, motor[m].fbPos}
    BY <1>1 DEF ZeroTarget, MotorRecord
  <2>3. QED
    BY <2>1, <2>2 DEF Steady
<1>6. CASE HandleMechZero
  <2>1. PICK d \in 0..MaxBlock : motor' = [n \in Motors |-> Elapse(motor[n], d)]
    BY <1>6 DEF HandleMechZero
  <2>2. d \in Nat
    BY ControlAssumption
  <2>3. QED
    BY <2>1, <2>2, ElapseKeeps DEF Steady
<1>7. QED
  BY <1>2, <1>3, <1>4, <1>5, <1>6

\* Every step.
LEMMA SteadyStep ==
    ASSUME IInv, [Next]_vars, NEW m \in Arm
    PROVE  Steady(m)
<1>1. m \in Motors
  BY DEF Motors
<1>2. CASE NothingToReceive \/ DropCommand \/ World \/ UNCHANGED vars
  BY <1>2 DEF Steady, NothingToReceive, DropCommand, World, Push, HardwareStops, vars
<1>3. QED
  BY <1>1, <1>2, MotionSteady, PowerSteady, TickSteady, OtherCommandsSteady
  DEF Next, Controller, HandleCommand

----------------------------------------------------------------------------
\* Feedback, watchdogs and motion commands never clear a fault: a motor leaves
\* Error by a command about its power, a link reset or a restart.
THEOREM FaultsStick == Spec => FaultIsSticky
<1>1. IInv /\ [Next]_vars =>
        [\A m \in Motors : motor[m].state = "Error" /\ motor'[m].state # "Error" =>
           \/ /\ pc = "recv" /\ inbox # <<>>
              /\ Head(inbox).op \in {"enable", "clear_fault", "disable", "emergency_stop"}
           \/ pc = "select" /\ motor'[m].state \in {"Disabled", "Idle"}]_vars
  BY StickyStep DEF Sticks, Handles
<1>2. QED
  BY <1>1, Invariance, PTL DEF Spec, FaultIsSticky

\* The target of a joint that keeps Running moves only to a position within
\* its limits or, on a software zero, to the position the joint reported.
THEOREM TargetsNeverLurch == Spec => NoLurch
<1>1. IInv /\ [Next]_vars =>
        [\A m \in Arm :
           /\ motor[m].state = "Running" /\ motor'[m].state = "Running"
           /\ motor'[m].tpos # motor[m].tpos
           => \/ /\ pc = "recv" /\ inbox # <<>>
                 /\ Head(inbox).op \in {"arm_joints", "bundle"}
                 /\ WithinLimits(motor'[m].tpos)
              \/ /\ pc = "recv" /\ inbox # <<>>
                 /\ Head(inbox).op = "zero_position"
                 /\ motor'[m].tpos = motor[m].fbPos]_vars
  BY SteadyStep DEF Steady, Handles
<1>2. QED
  BY <1>1, Invariance, PTL DEF Spec, NoLurch
=============================================================================
