---------------------------- MODULE MotorLemmas ----------------------------
(***************************************************************************)
(* What each method of Motor preserves, for every value of the constants.  *)
(* A record is Sound when it is well typed, its targets are within the     *)
(* motor's ratings, and an Enabled motor has no velocity target.  The      *)
(* proofs about ControlSystem cite these lemmas and never open a method.   *)
(***************************************************************************)
EXTENDS Motor, TLAPS

Rated(m) ==
    /\ WithinVelocity(m.tvel)
    /\ -MaxTorque <= m.ttrq /\ m.ttrq <= MaxTorque

Sound(m) ==
    /\ m \in MotorRecord
    /\ Rated(m)
    /\ m.state = "Enabled" => m.tvel = 0

\* Elapsed times stay within their saturation bound.
LEMMA LaterType ==
    ASSUME NEW age \in 0..AgeCap, NEW d \in Nat
    PROVE  Later(age, d) \in 0..AgeCap
  BY MotorAssumption DEF Later, AgeCap

\* Zero is an elapsed time and an error count.
LEMMA ZeroInRange == 0 \in 0..AgeCap /\ 0 \in 0..ErrorLimit /\ 0 \in Int
  BY MotorAssumption DEF AgeCap

\* Motor::new is sound and does not run.
LEMMA NewSound == Sound(NewMotor) /\ NewMotor.state = "Idle"
<1>1. NewMotor \in MotorRecord
  BY ZeroInRange DEF NewMotor, MotorRecord, MotorState
<1>2. Rated(NewMotor) /\ NewMotor.state = "Idle"
  BY MotorAssumption DEF NewMotor, Rated, WithinVelocity
<1>3. QED
  BY <1>1, <1>2 DEF Sound

\* The passage of time changes neither the state nor the targets.
LEMMA ElapseSound ==
    ASSUME NEW m, Sound(m), NEW d \in Nat
    PROVE  Sound(Elapse(m, d)) /\ Elapse(m, d).state = m.state
<1>1. Later(m.fbAge, d) \in 0..AgeCap /\ Later(m.cmdAge, d) \in 0..AgeCap
  BY LaterType DEF Sound, MotorRecord
<1>2. Elapse(m, d) \in MotorRecord
  BY <1>1 DEF Sound, MotorRecord, Elapse
<1>3. /\ Elapse(m, d).state = m.state
      /\ Elapse(m, d).tvel = m.tvel /\ Elapse(m, d).ttrq = m.ttrq
  BY DEF Sound, MotorRecord, Elapse
<1>4. QED
  BY <1>2, <1>3 DEF Sound, Rated

\* update_feedback keeps the targets and starts no motor.
LEMMA UpdateFeedbackSound ==
    ASSUME NEW m, Sound(m), NEW f \in Frame
    PROVE  /\ Sound(UpdateFeedback(m, f))
           /\ UpdateFeedback(m, f).state \in {m.state, "Error"}
<1>1. ErrorsAfter(m, f) \in 0..ErrorLimit
  BY MotorAssumption DEF ErrorsAfter, Sound, MotorRecord, Frame
<1>2. UpdateFeedback(m, f) \in MotorRecord
  BY <1>1, ZeroInRange
  DEF UpdateFeedback, Sound, MotorRecord, MotorState, Frame, MotorMode
<1>3. /\ UpdateFeedback(m, f).state \in {m.state, "Error"}
      /\ UpdateFeedback(m, f).tvel = m.tvel /\ UpdateFeedback(m, f).ttrq = m.ttrq
  BY DEF UpdateFeedback, Sound, MotorRecord
<1>4. QED
  BY <1>2, <1>3 DEF Sound, Rated

\* A clamped torque is within the rating.
LEMMA ClampBounds ==
    ASSUME NEW t \in Int
    PROVE  /\ ClampTorque(t) \in Int
           /\ -MaxTorque <= ClampTorque(t) /\ ClampTorque(t) <= MaxTorque
  BY MotorAssumption DEF ClampTorque

\* An accepted position target leaves the motor sound and not Enabled: it was
\* Enabled and starts, or it keeps its state.
LEMMA SetPositionSound ==
    ASSUME NEW m, Sound(m), NEW p \in Int, NEW v \in Int, NEW t \in Int,
           AcceptsPosition(p, v)
    PROVE  /\ Sound(SetPositionTarget(m, p, v, t))
           /\ SetPositionTarget(m, p, v, t).state = Started(m.state)
           /\ SetPositionTarget(m, p, v, t).tpos = p
           /\ SetPositionTarget(m, p, v, t).cmdAge = 0
<1> DEFINE new == SetPositionTarget(m, p, v, t)
<1>1. Started(m.state) \in MotorState /\ Started(m.state) # "Enabled"
  BY DEF Started, Sound, MotorRecord, MotorState
<1>2. new \in MotorRecord
  BY <1>1, ClampBounds, ZeroInRange DEF SetPositionTarget, Sound, MotorRecord
<1>3. /\ new.state = Started(m.state) /\ new.tvel = v /\ new.ttrq = ClampTorque(t)
      /\ new.tpos = p /\ new.cmdAge = 0
  BY DEF SetPositionTarget, Sound, MotorRecord
<1>4. Rated(new)
  BY <1>3, ClampBounds DEF Rated, AcceptsPosition
<1>5. QED
  BY <1>1, <1>2, <1>3, <1>4 DEF Sound

\* The same for an accepted velocity target.
LEMMA SetVelocitySound ==
    ASSUME NEW m, Sound(m), NEW v \in Int, WithinVelocity(v)
    PROVE  /\ Sound(SetVelocityTarget(m, v))
           /\ SetVelocityTarget(m, v).state = Started(m.state)
           /\ SetVelocityTarget(m, v).tpos = m.tpos
           /\ SetVelocityTarget(m, v).cmdAge = 0
<1> DEFINE new == SetVelocityTarget(m, v)
<1>1. Started(m.state) \in MotorState /\ Started(m.state) # "Enabled"
  BY DEF Started, Sound, MotorRecord, MotorState
<1>2. new \in MotorRecord
  BY <1>1, ZeroInRange DEF SetVelocityTarget, Sound, MotorRecord
<1>3. /\ new.state = Started(m.state) /\ new.tvel = v /\ new.ttrq = m.ttrq
      /\ new.tpos = m.tpos /\ new.cmdAge = 0
  BY DEF SetVelocityTarget, Sound, MotorRecord
<1>4. Rated(new)
  BY <1>3 DEF Rated, Sound
<1>5. QED
  BY <1>1, <1>2, <1>3, <1>4 DEF Sound

\* emergency_stop: sound, Enabled whatever the state was.
LEMMA EmergencyStopSound ==
    ASSUME NEW m, Sound(m)
    PROVE  Sound(EmergencyStop(m)) /\ EmergencyStop(m).state = "Enabled"
<1> DEFINE new == EmergencyStop(m)
<1>1. new \in MotorRecord
  BY ZeroInRange DEF EmergencyStop, Sound, MotorRecord, MotorState
<1>2. new.state = "Enabled" /\ new.tvel = 0 /\ new.ttrq = 0
  BY DEF EmergencyStop, Sound, MotorRecord
<1>3. QED
  BY <1>1, <1>2, MotorAssumption DEF Sound, Rated, WithinVelocity

\* hold_position keeps the state and the target position.
LEMMA HoldSound ==
    ASSUME NEW m, Sound(m)
    PROVE  /\ Sound(HoldPosition(m)) /\ HoldPosition(m).state = m.state
           /\ HoldPosition(m).tpos = m.tpos
<1> DEFINE new == HoldPosition(m)
<1>1. new \in MotorRecord
  BY ZeroInRange DEF HoldPosition, Sound, MotorRecord
<1>2. new.state = m.state /\ new.tpos = m.tpos /\ new.tvel = 0 /\ new.ttrq = 0
  BY DEF HoldPosition, Sound, MotorRecord
<1>3. QED
  BY <1>1, <1>2, MotorAssumption DEF Sound, Rated, WithinVelocity
=============================================================================
