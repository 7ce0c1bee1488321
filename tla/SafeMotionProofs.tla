-------------------------- MODULE SafeMotionProofs --------------------------
(***************************************************************************)
(* ControlSystem implements SafeMotion, for any motors, buses, limits,     *)
(* timeouts and commands: every step of the controller maps to a step of   *)
(* the abstract specification or to a stutter.                             *)
(***************************************************************************)
EXTENDS ControlSystemProofs

\* Motors whose state a step changes.
Changed == {m \in Motors : motor'[m].state # motor[m].state}

OnlyBecomes(To) == \A m \in Changed : motor'[m].state = To

\* The mapping of a typed motor is an abstract mode.
LEMMA ModeTyped ==
    ASSUME NEW state \in MotorState
    PROVE  ModeOf(state) \in Safe!Mode
  BY DEF ModeOf, MotorState, Safe!Mode

\* The motors of Changed, and no others, get another abstract mode.
LEMMA ChangedBecome ==
    ASSUME StepSound, NEW S \in SUBSET Motors, Changed \subseteq S,
           NEW To, \A m \in S : ModeOf(motor'[m].state) \in To
    PROVE  Safe!Becomes(S, To)
<1>1. \A m \in Motors : ModeOf(motor'[m].state) \in Safe!Mode
  BY ModeTyped DEF StepSound, Sound, MotorRecord
<1>2. /\ MotionMode' = [m \in Motors |-> ModeOf(motor'[m].state)]
      /\ MotionMode = [m \in Motors |-> ModeOf(motor[m].state)]
  BY DEF MotionMode
<1>3. \A m \in Motors : m \notin S => motor'[m].state = motor[m].state
  BY DEF Changed
<1>4. \A m \in Motors : m \notin S => MotionMode'[m] = MotionMode[m]
  BY <1>2, <1>3
<1>5. QED
  BY <1>1, <1>2, <1>4 DEF Safe!Becomes

\* A step that changes no motor's state changes no mode.
LEMMA NoneChanges ==
    ASSUME \A m \in Motors : motor'[m].state = motor[m].state
    PROVE  MotionMode' = MotionMode
  BY DEF MotionMode

----------------------------------------------------------------------------
(* One lemma for each kind of step. *)

\* Feedback and the watchdogs can only trip motors.
LEMMA TickTrips ==
    ASSUME IInv,
           \/ BeginArmTick \/ CheckSafety \/ HandleTriggerFault
           \/ \E m \in Motors, p \in Position, err \in BOOLEAN : ReadFrame(m, p, err)
    PROVE  Safe!Trip
<1>1. StepSound
  BY TickSound, OtherCommandsSound
<1>2. \A m \in Motors : Sound(motor[m])
  BY DEF IInv, MotorsSound
<1>3. OnlyBecomes("Error") /\ eStop' = eStop
  <2>1. CASE BeginArmTick
    BY <1>2, <2>1, ElapseSound DEF BeginArmTick, OnlyBecomes, Changed
  <2>2. CASE CheckSafety
    BY <1>2, <2>2, SuperviseSound DEF CheckSafety, OnlyBecomes, Changed
  <2>3. CASE HandleTriggerFault
    <3>1. \A m \in Motors : motor'[m] \in {motor[m], [motor[m] EXCEPT !.state = "Error"]}
      BY <2>3 DEF HandleTriggerFault
    <3>2. QED
      BY <1>2, <2>3, <3>1 DEF HandleTriggerFault, OnlyBecomes, Changed, Sound, MotorRecord
  <2>4. ASSUME NEW n \in Motors, NEW p \in Position, NEW err \in BOOLEAN, ReadFrame(n, p, err)
        PROVE  OnlyBecomes("Error") /\ eStop' = eStop
    <3> DEFINE f == [mode |-> hw[n], pos |-> p, err |-> err]
    <3>1. f \in Frame
      BY <2>4, ControlAssumption DEF ReadFrame, IInv, TypeOK, HwMode, Frame, MotorMode
    <3>2. motor' = [motor EXCEPT ![n] = UpdateFeedback(motor[n], f)] /\ eStop' = eStop
      BY <2>4 DEF ReadFrame
    <3>3. UpdateFeedback(motor[n], f).state \in {motor[n].state, "Error"}
      BY <1>2, <3>1, UpdateFeedbackSound
    <3> HIDE DEF f
    <3>4. QED
      BY <3>2, <3>3 DEF IInv, TypeOK, OnlyBecomes, Changed
  <2>5. QED
    BY <2>1, <2>2, <2>3, <2>4
<1>4. Changed \in SUBSET Motors /\ \A m \in Changed : ModeOf(motor'[m].state) \in {"fault"}
  BY <1>3 DEF OnlyBecomes, ModeOf, Changed
<1>5. Safe!Becomes(Changed, {"fault"})
  BY <1>1, <1>4, ChangedBecome
<1>6. QED
  BY <1>3, <1>4, <1>5 DEF Safe!Trip

\* The motion commands move armed motors, with the stop released.
LEMMA MotionMoves ==
    ASSUME IInv, HandleDrive \/ HandleArmJoints \/ HandleBundle
    PROVE  Safe!Move
<1>1. StepSound /\ OnlyStarts
  BY MotionSound
<1>2. ~eStop /\ eStop' = eStop
  BY DEF HandleDrive, HandleArmJoints, HandleBundle, Receive, PassesEStop
<1>3. Changed \in SUBSET Motors /\ \A m \in Changed : ModeOf(motor'[m].state) \in {"moving"}
  BY <1>1 DEF OnlyStarts, ModeOf, Changed
<1>4. \A m \in Changed : MotionMode[m] = "armed"
  BY <1>1 DEF OnlyStarts, MotionMode, ModeOf, Changed
<1>5. Safe!Becomes(Changed, {"moving"})
  BY <1>1, <1>3, ChangedBecome
<1>6. QED
  BY <1>2, <1>3, <1>4, <1>5 DEF Safe!Move

\* enable and clear_fault arm motors; with the stop latched only clear_fault
\* passes, and it arms faulted motors only.
LEMMA PowerArms ==
    ASSUME IInv, HandleEnable \/ HandleClearFault
    PROVE  Safe!Arm
<1>1. StepSound /\ OnlyPowersUp({"Idle", "Disabled", "Error"})
  BY EnableSound, ClearFaultSound DEF OnlyPowersUp
<1>2. eStop' = eStop /\ (eStop => OnlyPowersUp({"Error"}))
  BY ClearFaultSound DEF HandleEnable, HandleClearFault, Receive, PassesEStop
<1>3. Changed \in SUBSET Motors
      /\ \A m \in Changed : ModeOf(motor'[m].state) \in {"armed", "fault"}
  BY <1>1 DEF OnlyPowersUp, ModeOf, Changed
<1>4. \A m \in Changed : MotionMode[m] = "fault" \/ (MotionMode[m] = "off" /\ ~eStop)
  BY <1>1, <1>2 DEF OnlyPowersUp, MotionMode, ModeOf, Changed
<1>5. Safe!Becomes(Changed, {"armed", "fault"})
  BY <1>1, <1>3, ChangedBecome
<1>6. QED
  BY <1>2, <1>3, <1>4, <1>5 DEF Safe!Arm

\* disable and a link reset power motors down; a socket reopened, or a link
\* that stayed down, changes no state.
LEMMA PowersDown ==
    ASSUME IInv,
           \/ HandleDisable
           \/ \E b \in Bus, ok \in BOOLEAN, d \in 0..MaxBlock :
                RecoverSocket(b, ok, d) \/ RecoverLink(b, ok, d)
    PROVE  Safe!PowerDown
<1>1. StepSound
  BY OtherCommandsSound, RecoverySound
<1>2. \A m \in Motors : Sound(motor[m])
  BY DEF IInv, MotorsSound
<1>3. \A d \in 0..MaxBlock : d \in Nat
  BY ControlAssumption
<1>4. OnlyBecomes("Disabled") /\ eStop' = eStop
  <2>1. CASE HandleDisable
    <3>1. \A m \in Motors :
            motor'[m] \in {motor[m], [motor[m] EXCEPT !.state = "Disabled", !.cmdAge = 0]}
      BY <2>1 DEF HandleDisable
    <3>2. ASSUME NEW m \in Changed
          PROVE  motor'[m].state = "Disabled"
      <4>1. motor[m] \in MotorRecord
        BY <1>2 DEF Sound, Changed
      <4>2. motor'[m] = [motor[m] EXCEPT !.state = "Disabled", !.cmdAge = 0]
        BY <3>1 DEF Changed
      <4>3. QED
        BY <4>1, <4>2 DEF MotorRecord
    <3>3. eStop' = eStop
      BY <2>1 DEF HandleDisable
    <3>4. QED
      BY <3>2, <3>3 DEF OnlyBecomes
  <2>2. ASSUME NEW b \in Bus, NEW ok \in BOOLEAN, NEW d \in 0..MaxBlock,
               RecoverSocket(b, ok, d)
        PROVE  OnlyBecomes("Disabled") /\ eStop' = eStop
    BY <1>2, <1>3, <2>2, ElapseSound DEF RecoverSocket, OnlyBecomes, Changed
  <2>3. ASSUME NEW b \in Bus, NEW ok \in BOOLEAN, NEW d \in 0..MaxBlock,
               RecoverLink(b, ok, d)
        PROVE  OnlyBecomes("Disabled") /\ eStop' = eStop
    <3>1. \A m \in Motors :
            motor'[m] \in {Elapse(motor[m], d), Unpowered(Elapse(motor[m], d))}
      BY <2>3 DEF RecoverLink
    <3>2. \A m \in Motors : /\ Elapse(motor[m], d).state = motor[m].state
                            /\ Unpowered(Elapse(motor[m], d)).state = "Disabled"
      BY <1>2, <1>3, ElapseSound, UnpoweredSound
    <3>3. QED
      BY <2>3, <3>1, <3>2 DEF RecoverLink, OnlyBecomes, Changed
  <2>4. QED
    BY <2>1, <2>2, <2>3
<1>5. Changed \in SUBSET Motors /\ \A m \in Changed : ModeOf(motor'[m].state) \in {"off"}
  BY <1>4 DEF OnlyBecomes, ModeOf, Changed
<1>6. Safe!Becomes(Changed, {"off"})
  BY <1>1, <1>5, ChangedBecome
<1>7. QED
  BY <1>4, <1>5, <1>6 DEF Safe!PowerDown

\* The emergency stop engages the latch and leaves every motor armed.
LEMMA EmergencyStops ==
    ASSUME IInv, HandleEmergencyStop
    PROVE  Safe!Stop
<1>1. StepSound
  BY OtherCommandsSound
<1>2. ~eStop /\ eStop' = TRUE
  BY DEF HandleEmergencyStop, Receive, PassesEStop
<1>3. \A m \in Motors : motor'[m].state = "Enabled"
  BY EmergencyStopSound DEF IInv, MotorsSound, HandleEmergencyStop
<1>4. \A m \in Motors : ModeOf(motor'[m].state) \in {"off", "armed", "fault"}
  BY <1>3 DEF ModeOf
<1>5. Safe!Becomes(Motors, {"off", "armed", "fault"})
  BY <1>1, <1>4, ChangedBecome DEF Changed
<1>6. QED
  BY <1>2, <1>5 DEF Safe!Stop

\* A restart forgets the latch and finds every motor off.
LEMMA RestartReboots ==
    ASSUME IInv, Restart
    PROVE  Safe!Reboot
<1>1. StepSound
  BY RecoverySound
<1>2. \A m \in Motors : motor'[m].state = "Idle"
  BY DEF Restart, NewMotor
<1>3. \A m \in Motors : ModeOf(motor'[m].state) \in {"off"}
  BY <1>2 DEF ModeOf
<1>4. Safe!Becomes(Motors, {"off"})
  BY <1>1, <1>3, ChangedBecome DEF Changed
<1>5. QED
  BY <1>4 DEF Restart, Safe!Reboot

\* The remaining steps change no mode; one of them may release the latch.
LEMMA OthersStutter ==
    ASSUME IInv,
           \/ NothingToReceive \/ DropCommand \/ HandleClearEmergencyStop
           \/ HandleZeroPosition \/ HandleMechZero \/ World \/ UNCHANGED vars
    PROVE  Safe!Release \/ UNCHANGED <<eStop, MotionMode>>
<1>1. \A m \in Motors : Sound(motor[m])
  BY DEF IInv, MotorsSound
<1>2. CASE HandleZeroPosition
  <2>1. \A m \in Motors : motor'[m] \in {motor[m], ZeroTarget(motor[m])}
    BY <1>2 DEF HandleZeroPosition
  <2>2. QED
    BY <1>1, <1>2, <2>1, ZeroTargetSound, NoneChanges DEF HandleZeroPosition
<1>3. CASE HandleMechZero
  <2>1. PICK d \in 0..MaxBlock : motor' = [m \in Motors |-> Elapse(motor[m], d)]
    BY <1>3 DEF HandleMechZero
  <2>2. d \in Nat
    BY ControlAssumption
  <2>3. QED
    BY <1>1, <1>3, <2>1, <2>2, ElapseSound, NoneChanges DEF HandleMechZero
<1>4. CASE HandleClearEmergencyStop
  BY <1>4, NoneChanges DEF HandleClearEmergencyStop, Safe!Release
<1>5. CASE NothingToReceive \/ DropCommand \/ World \/ UNCHANGED vars
  BY <1>5, NoneChanges DEF NothingToReceive, DropCommand, World, Push, HardwareStops, vars
<1>6. QED
  BY <1>2, <1>3, <1>4, <1>5

----------------------------------------------------------------------------
\* Every step of the controller is a step, or a stutter, of SafeMotion.
LEMMA StepImplements ==
    IInv /\ [Next]_vars => [Safe!SafeNext]_(Safe!abstractVars)
  BY TickTrips, MotionMoves, PowerArms, PowersDown, EmergencyStops, RestartReboots,
     OthersStutter
  DEF Next, Controller, HandleCommand, Safe!SafeNext, Safe!abstractVars

\* The controller keeps the promises of SafeMotion.
THEOREM SafeMotionImplemented == Spec => ImplementsSafeMotion
<1>1. Init => Safe!SafeInit
  BY DEF Init, NewMotor, MotionMode, ModeOf, Safe!SafeInit
<1>2. QED
  BY <1>1, StepImplements, Invariance, PTL DEF Spec, ImplementsSafeMotion, Safe!SafeSpec
=============================================================================
