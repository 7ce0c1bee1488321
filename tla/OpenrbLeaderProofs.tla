------------------------- MODULE OpenrbLeaderProofs -------------------------
(***************************************************************************)
(* Theorems about OpenrbLeader, for any number of servos, any currents a    *)
(* host may send, any watchdog ages and any number of faults.               *)
(***************************************************************************)
EXTENDS OpenrbLeader, TLAPS

\* A servo without supply is limp; setup() starts with no slot active.
Powered == \A i \in Slots : torque[i] => there[i]
BootInactive == Booting => active = [i \in Slots |-> FALSE]

\* What the packets already acknowledged guarantee at each place.
Progress ==
    /\ pc = "ffTorqueOn" => goal[slot] = 0
    /\ pc = "ffGoal" => active[slot]
    /\ pc \in {"ff", "ffOff", "ffPing", "ffTorqueOff", "ffMode", "ffGentle", "ffTorqueOn", "ffGoal"}
         => frame # None
    /\ pc \in {"ffPing", "ffTorqueOff", "ffMode", "ffGentle", "ffTorqueOn", "ffGoal"}
         => frame[slot] # Release
    /\ pc \in {"centerProfile", "centerTorqueOn"} => mode[slot] = "position"

\* Accountable, made inductive: the servos setup() has been through are limp,
\* and a servo about to lose its slot pushes only if a packet was lost on it.
Tracked ==
    lost <= 1 /\ ~bootLost =>
        /\ Booting => \A i \in Slots : i < slot => ~torque[i]
        /\ ~Booting => \A i \in Slots : Pushes(i) => active[i]
        /\ pc \in {"ffOff", "disableAllOff"} /\ Pushes(slot) => lost = 1

IInv == TypeOK /\ Powered /\ BootInactive /\ Progress /\ Tracked

\* What the constants give.
LEMMA Facts ==
    /\ NumServos \in Nat /\ NumServos >= 1 /\ MaxCurrent \in Nat
    /\ ZeroAge \in Nat /\ DisableAge \in Nat /\ ZeroAge < DisableAge
    /\ MaxLost \in Nat /\ MaxResets \in Nat /\ MaxUnplugs \in Nat
    /\ 1 \in Slots /\ Slots \subseteq Nat
    /\ 0 \in WithinCap /\ MaxCurrent \in WithinCap
BY LeaderAssumption DEF Slots, WithinCap

\* A frame asks each slot for a current or for its release.
LEMMA FrameFacts ==
    /\ None \notin Frames
    /\ \A f \in Frames, i \in Slots : f[i] # Release => f[i] \in Int
<1>1. None \notin Frames
  BY LeaderAssumption DEF Frames, Slots
<1>2. ASSUME NEW f \in Frames, NEW i \in Slots, f[i] # Release PROVE f[i] \in Int
  <2>1. f[i] \in Currents \union {Release}
    BY DEF Frames
  <2>2. QED
    BY <1>2, <2>1, LeaderAssumption
<1>3. QED
  BY <1>1, <1>2

\* The clamp keeps every current within the cap.
LEMMA ClampBounds ==
    ASSUME NEW c \in Int
    PROVE  Clamp(c) \in WithinCap
BY Facts DEF Clamp, WithinCap

\* What a packet may do to the counters of faults.
Fault == \/ UNCHANGED <<lost, bootLost>>
         \/ lost' = lost + 1 /\ lost < MaxLost /\ bootLost' = (bootLost \/ Booting)

\* Why a packet is not acknowledged.
Unheard(i) == \/ ~there[i]
              \/ lost' = lost + 1 /\ bootLost' = (bootLost \/ Booting)

\* torqueOff() leaves the servo limp, unless a packet was lost.
LEMMA TorqueOffSent ==
    ASSUME NEW i \in Slots, Powered, TypeOK, TorqueOff(i)
    PROVE  /\ UNCHANGED <<there, mode, goal>> /\ Fault
           /\ torque' \in [Slots -> BOOLEAN]
           /\ \A j \in Slots : torque'[j] => torque[j]
           /\ ~torque'[i] \/ (lost' = lost + 1 /\ bootLost' = (bootLost \/ Booting))
<1>1. PICK acked \in BOOLEAN : Deliver(i, TRUE, SetTorque(i, FALSE), acked)
  BY DEF TorqueOff
<1>2. /\ UNCHANGED <<there, mode, goal>> /\ Fault
      /\ torque' = torque \/ torque' = [torque EXCEPT ![i] = FALSE]
  BY <1>1 DEF Deliver, SetTorque, Fault, servos, Booting
<1>3. \/ ~there[i]
      \/ torque' = [torque EXCEPT ![i] = FALSE]
      \/ lost' = lost + 1 /\ bootLost' = (bootLost \/ Booting)
  BY <1>1 DEF Deliver, SetTorque, servos, Booting
<1>4. QED
  BY <1>2, <1>3 DEF Powered, TypeOK

\* torqueOn() energises only the servo it addresses, if that is plugged in.
LEMMA TorqueOnSent ==
    ASSUME NEW i \in Slots, NEW acked \in BOOLEAN, TypeOK, TorqueOn(i, acked)
    PROVE  /\ UNCHANGED <<there, mode, goal>> /\ Fault
           /\ torque' \in [Slots -> BOOLEAN]
           /\ \A j \in Slots : torque'[j] /\ ~torque[j] => j = i /\ there[i]
           /\ acked => torque'[i]
<1>1. /\ UNCHANGED <<there, mode, goal>> /\ Fault
      /\ torque' = torque \/ (there[i] /\ torque' = [torque EXCEPT ![i] = TRUE])
      /\ acked => torque' = [torque EXCEPT ![i] = TRUE]
  BY DEF TorqueOn, Deliver, SetTorque, Fault, servos, Booting
<1>2. QED
  BY <1>1 DEF TypeOK

\* A goal current write, likewise.
LEMMA GoalWritten ==
    ASSUME NEW i \in Slots, NEW c, NEW acked \in BOOLEAN, WriteGoal(i, c, acked)
    PROVE  /\ UNCHANGED <<there, torque, mode>> /\ Fault
           /\ goal' = [goal EXCEPT ![i] = c] \/ goal' = goal
           /\ acked => goal' = [goal EXCEPT ![i] = c] /\ UNCHANGED <<lost, bootLost>>
           /\ ~acked => Unheard(i)
BY DEF WriteGoal, Deliver, SetGoal, Fault, Unheard, servos, Booting

\* A mode write, which only a limp servo takes.
LEMMA ModeWritten ==
    ASSUME NEW i \in Slots, NEW m, NEW acked \in BOOLEAN, WriteMode(i, m, acked)
    PROVE  /\ UNCHANGED <<there, torque>> /\ Fault
           /\ \/ mode' = mode /\ goal' = goal
              \/ /\ ~torque[i] /\ mode' = [mode EXCEPT ![i] = m]
                 /\ \E c \in {0, MaxCurrent} : goal' = [goal EXCEPT ![i] = c]
           /\ acked => mode' = [mode EXCEPT ![i] = m] /\ ~torque[i]
BY DEF WriteMode, Deliver, SetMode, Fault, Unheard, servos, Booting

\* A packet that writes nothing modelled.
LEMMA Pinged ==
    ASSUME NEW i \in Slots, NEW acked \in BOOLEAN, Ping(i, acked)
    PROVE  /\ UNCHANGED servos /\ Fault
           /\ acked => there[i] /\ UNCHANGED <<lost, bootLost>>
           /\ ~acked => Unheard(i)
BY DEF Ping, Deliver, Fault, Unheard, servos, Booting

\* The inductive invariant holds when the board is powered.
LEMMA InitOK == Init => IInv
<1> SUFFICES ASSUME Init PROVE IInv
  OBVIOUS
<1>1. goal \in [Slots -> WithinCap]
  BY Facts DEF Init
<1>2. TypeOK
  <2>1. active \in [Slots -> BOOLEAN] /\ slot \in Slots /\ age \in 0..DisableAge
    BY Facts DEF Init
  <2>2. lost \in 0..MaxLost /\ resets \in 0..MaxResets /\ unplugs \in 0..MaxUnplugs
    BY Facts DEF Init
  <2>3. QED
    BY <1>1, <2>1, <2>2 DEF Init, TypeOK, PCs
<1>3. Powered /\ BootInactive /\ Progress
  BY DEF Init, Powered, BootInactive, Progress
<1>4. Tracked
  BY DEF Init, Tracked, Booting, Slots
<1>5. QED
  BY <1>2, <1>3, <1>4 DEF IInv
\* BootPing keeps the inductive invariant.
LEMMA BootPingOK == ASSUME IInv, BootPing, UNCHANGED <<host, resets, unplugs>> PROVE IInv'
<1> USE DEF IInv, BootPing, NextSlot, Goto, ff, servos, Fault, Unheard, Slots
<1>0. Fault
  BY Pinged DEF TypeOK, Fault, NoPacket
<1>1. TypeOK'
  <2>1. /\ there' \in [Slots -> BOOLEAN] /\ torque' \in [Slots -> BOOLEAN]
        /\ mode' \in [Slots -> {"current", "position"}] /\ goal' \in [Slots -> WithinCap]
    BY Facts, Pinged DEF TypeOK
  <2>2. /\ active' \in [Slots -> BOOLEAN] /\ age' \in 0..DisableAge
        /\ pc' \in PCs /\ slot' \in Slots /\ frame' \in Frames \union {None}
    BY Facts, SMTT(60) DEF TypeOK, PCs
  <2>3. lost' \in 0..MaxLost
    BY <1>0, Facts, SMTT(60) DEF TypeOK, Fault, NoPacket
  <2>4. zeroed' \in BOOLEAN /\ disabled' \in BOOLEAN /\ bootLost' \in BOOLEAN
    BY <1>0, Zenon DEF TypeOK, Booting, Fault, NoPacket
  <2>5. QED
    BY <2>1, <2>2, <2>3, <2>4 DEF TypeOK
<1>2. Powered'
  BY Facts, Pinged, SMTT(60) DEF TypeOK, Powered
<1>3. BootInactive'
  BY Facts, Pinged, SMTT(60) DEF TypeOK, BootInactive, Booting
<1>4. Progress'
  BY Facts, Pinged, SMTT(60) DEF TypeOK, Progress, Powered
<1>5. Tracked'
  BY Facts, Pinged, SMTT(60) DEF TypeOK, Tracked, Powered, BootInactive, Booting, Pushes, Progress
<1>6. QED
  BY <1>1, <1>2, <1>3, <1>4, <1>5 DEF IInv

\* BootOff keeps the inductive invariant.
LEMMA BootOffOK == ASSUME IInv, BootOff, UNCHANGED <<host, resets, unplugs>> PROVE IInv'
<1> USE DEF IInv, BootOff, NextSlot, Goto, ff, servos, Fault, Unheard, Slots
<1>0. Fault
  BY TorqueOffSent DEF TypeOK, Fault, NoPacket
<1>1. TypeOK'
  <2>1. /\ there' \in [Slots -> BOOLEAN] /\ torque' \in [Slots -> BOOLEAN]
        /\ mode' \in [Slots -> {"current", "position"}] /\ goal' \in [Slots -> WithinCap]
    BY Facts, TorqueOffSent, SMTT(60) DEF TypeOK
  <2>2. /\ active' \in [Slots -> BOOLEAN] /\ age' \in 0..DisableAge
        /\ pc' \in PCs /\ slot' \in Slots /\ frame' \in Frames \union {None}
    BY Facts, SMTT(60) DEF TypeOK, PCs
  <2>3. lost' \in 0..MaxLost
    BY <1>0, Facts, SMTT(60) DEF TypeOK, Fault, NoPacket
  <2>4. zeroed' \in BOOLEAN /\ disabled' \in BOOLEAN /\ bootLost' \in BOOLEAN
    BY <1>0, Zenon DEF TypeOK, Booting, Fault, NoPacket
  <2>5. QED
    BY <2>1, <2>2, <2>3, <2>4 DEF TypeOK
<1>2. Powered'
  BY Facts, TorqueOffSent, SMTT(60) DEF TypeOK, Powered
<1>3. BootInactive'
  BY Facts, TorqueOffSent, SMTT(60) DEF TypeOK, BootInactive, Booting
<1>4. Progress'
  BY Facts, TorqueOffSent, SMTT(60) DEF TypeOK, Progress, Powered
<1>5. Tracked'
  <2> SUFFICES ASSUME (lost <= 1 /\ ~bootLost)' PROVE
        /\ Booting' => \A i \in Slots : i < slot' => ~torque'[i]
        /\ ~Booting' => \A i \in Slots : Pushes(i)' => active'[i]
        /\ ~(pc \in {"ffOff", "disableAllOff"})'
    BY DEF Tracked
  <2>1. lost <= 1 /\ ~bootLost
    BY <1>0 DEF TypeOK
  <2>2. ~torque'[slot] /\ \A i \in Slots : torque'[i] => torque[i]
    BY TorqueOffSent DEF TypeOK, Booting
  <2>3. \A i \in Slots : i <= slot => ~torque'[i]
    BY <2>1, <2>2, SMTT(60) DEF Tracked, Booting, TypeOK
  <2>4. \/ slot' = slot + 1 /\ pc' = "boot"
        \/ slot = NumServos /\ pc' = "loop"
    BY Facts, SMTT(60) DEF TypeOK
  <2>5. QED
    BY <2>3, <2>4, Facts, SMTT(60) DEF Booting, Pushes, TypeOK
<1>6. QED
  BY <1>1, <1>2, <1>3, <1>4, <1>5 DEF IInv

\* Watchdog keeps the inductive invariant.
LEMMA WatchdogOK == ASSUME IInv, Watchdog, UNCHANGED <<host, resets, unplugs>> PROVE IInv'
<1> USE DEF IInv, Watchdog, Goto, NoPacket, ff, servos, Fault, Unheard, Slots
<1>1. TypeOK'
  <2>1. /\ there' \in [Slots -> BOOLEAN] /\ torque' \in [Slots -> BOOLEAN]
        /\ mode' \in [Slots -> {"current", "position"}] /\ goal' \in [Slots -> WithinCap]
    BY DEF TypeOK
  <2>2. /\ active' \in [Slots -> BOOLEAN] /\ age' \in 0..DisableAge
        /\ pc' \in PCs /\ slot' \in Slots /\ frame' \in Frames \union {None}
    BY Facts, SMTT(60) DEF TypeOK, PCs
  <2>3. lost' \in 0..MaxLost
    BY Facts, SMTT(60) DEF TypeOK, Fault, NoPacket
  <2>4. zeroed' \in BOOLEAN /\ disabled' \in BOOLEAN /\ bootLost' \in BOOLEAN
    BY Zenon DEF TypeOK, Booting, Fault, NoPacket
  <2>5. QED
    BY <2>1, <2>2, <2>3, <2>4 DEF TypeOK
<1>2. Powered'
  BY Facts, SMTT(60) DEF TypeOK, Powered
<1>3. BootInactive'
  BY Facts, SMTT(60) DEF TypeOK, BootInactive, Booting
<1>4. Progress'
  BY Facts, SMTT(60) DEF TypeOK, Progress, Powered
<1>5. Tracked'
  BY Facts, SMTT(60) DEF TypeOK, Tracked, Powered, BootInactive, Booting, Pushes, Progress
<1>6. QED
  BY <1>1, <1>2, <1>3, <1>4, <1>5 DEF IInv

\* WatchdogZero keeps the inductive invariant.
LEMMA WatchdogZeroOK == ASSUME IInv, WatchdogZero, UNCHANGED <<host, resets, unplugs>> PROVE IInv'
<1> USE DEF IInv, WatchdogZero, NextSlot, Goto, NoPacket, ff, servos, Fault, Unheard, Slots
<1>0. Fault
  BY GoalWritten DEF TypeOK, Fault, NoPacket
<1>1. TypeOK'
  <2>1. /\ there' \in [Slots -> BOOLEAN] /\ torque' \in [Slots -> BOOLEAN]
        /\ mode' \in [Slots -> {"current", "position"}] /\ goal' \in [Slots -> WithinCap]
    BY Facts, GoalWritten, SMTT(60) DEF TypeOK
  <2>2. /\ active' \in [Slots -> BOOLEAN] /\ age' \in 0..DisableAge
        /\ pc' \in PCs /\ slot' \in Slots /\ frame' \in Frames \union {None}
    BY Facts, SMTT(60) DEF TypeOK, PCs
  <2>3. lost' \in 0..MaxLost
    BY <1>0, Facts, SMTT(60) DEF TypeOK, Fault, NoPacket
  <2>4. zeroed' \in BOOLEAN /\ disabled' \in BOOLEAN /\ bootLost' \in BOOLEAN
    BY <1>0, Zenon DEF TypeOK, Booting, Fault, NoPacket
  <2>5. QED
    BY <2>1, <2>2, <2>3, <2>4 DEF TypeOK
<1>2. Powered'
  BY Facts, GoalWritten, SMTT(60) DEF TypeOK, Powered
<1>3. BootInactive'
  BY Facts, GoalWritten, SMTT(60) DEF TypeOK, BootInactive, Booting
<1>4. Progress'
  BY Facts, GoalWritten, SMTT(60) DEF TypeOK, Progress, Powered
<1>5. Tracked'
  BY Facts, GoalWritten, SMTT(60) DEF TypeOK, Tracked, Powered, BootInactive, Booting, Pushes, Progress
<1>6. QED
  BY <1>1, <1>2, <1>3, <1>4, <1>5 DEF IInv

\* DisableAll keeps the inductive invariant.
LEMMA DisableAllOK == ASSUME IInv, DisableAll, UNCHANGED <<host, resets, unplugs>> PROVE IInv'
<1> USE DEF IInv, DisableAll, DisableGoal, NextSlot, AllDisabled, Goto, NoPacket, ff, servos, Fault, Unheard, Slots
<1>0. Fault
  BY GoalWritten DEF TypeOK, Fault, NoPacket
<1>1. TypeOK'
  <2>1. /\ there' \in [Slots -> BOOLEAN] /\ torque' \in [Slots -> BOOLEAN]
        /\ mode' \in [Slots -> {"current", "position"}] /\ goal' \in [Slots -> WithinCap]
    BY Facts, GoalWritten, SMTT(60) DEF TypeOK
  <2>2. /\ active' \in [Slots -> BOOLEAN] /\ age' \in 0..DisableAge
        /\ pc' \in PCs /\ slot' \in Slots /\ frame' \in Frames \union {None}
    BY Facts, SMTT(60) DEF TypeOK, PCs
  <2>3. lost' \in 0..MaxLost
    BY <1>0, Facts, SMTT(60) DEF TypeOK, Fault, NoPacket
  <2>4. zeroed' \in BOOLEAN /\ disabled' \in BOOLEAN /\ bootLost' \in BOOLEAN
    BY <1>0, Zenon DEF TypeOK, Booting, Fault, NoPacket
  <2>5. QED
    BY <2>1, <2>2, <2>3, <2>4 DEF TypeOK
<1>2. Powered'
  BY Facts, GoalWritten, SMTT(60) DEF TypeOK, Powered
<1>3. BootInactive'
  BY Facts, GoalWritten, SMTT(60) DEF TypeOK, BootInactive, Booting
<1>4. Progress'
  BY Facts, GoalWritten, SMTT(60) DEF TypeOK, Progress, Powered
<1>5. Tracked'
  BY Facts, GoalWritten, SMTT(60) DEF TypeOK, Tracked, Powered, BootInactive, Booting, Pushes, Progress
<1>6. QED
  BY <1>1, <1>2, <1>3, <1>4, <1>5 DEF IInv

\* DisableAllOff keeps the inductive invariant.
LEMMA DisableAllOffOK == ASSUME IInv, DisableAllOff, UNCHANGED <<host, resets, unplugs>> PROVE IInv'
<1> USE DEF IInv, DisableAllOff, DisableTorque, AllDisabled, Goto, ff, servos, Fault, Unheard, Slots
<1>0. Fault
  BY TorqueOffSent DEF TypeOK, Fault, NoPacket
<1>1. TypeOK'
  <2>1. /\ there' \in [Slots -> BOOLEAN] /\ torque' \in [Slots -> BOOLEAN]
        /\ mode' \in [Slots -> {"current", "position"}] /\ goal' \in [Slots -> WithinCap]
    BY Facts, TorqueOffSent, SMTT(60) DEF TypeOK
  <2>2. /\ active' \in [Slots -> BOOLEAN] /\ age' \in 0..DisableAge
        /\ pc' \in PCs /\ slot' \in Slots /\ frame' \in Frames \union {None}
    BY Facts, SMTT(60) DEF TypeOK, PCs
  <2>3. lost' \in 0..MaxLost
    BY <1>0, Facts, SMTT(60) DEF TypeOK, Fault, NoPacket
  <2>4. zeroed' \in BOOLEAN /\ disabled' \in BOOLEAN /\ bootLost' \in BOOLEAN
    BY <1>0, Zenon DEF TypeOK, Booting, Fault, NoPacket
  <2>5. QED
    BY <2>1, <2>2, <2>3, <2>4 DEF TypeOK
<1>2. Powered'
  BY Facts, TorqueOffSent, SMTT(60) DEF TypeOK, Powered
<1>3. BootInactive'
  BY Facts, TorqueOffSent, SMTT(60) DEF TypeOK, BootInactive, Booting
<1>4. Progress'
  BY Facts, TorqueOffSent, SMTT(60) DEF TypeOK, Progress, Powered
<1>5. Tracked'
  BY Facts, TorqueOffSent, SMTT(60) DEF TypeOK, Tracked, Powered, BootInactive, Booting, Pushes, Progress
<1>6. QED
  BY <1>1, <1>2, <1>3, <1>4, <1>5 DEF IInv

\* Idle keeps the inductive invariant.
LEMMA IdleOK == ASSUME IInv, Idle, UNCHANGED <<host, resets, unplugs>> PROVE IInv'
<1> USE DEF IInv, Idle, Goto, NoPacket, ff, servos, Fault, Unheard, Slots
<1>1. TypeOK'
  <2>1. /\ there' \in [Slots -> BOOLEAN] /\ torque' \in [Slots -> BOOLEAN]
        /\ mode' \in [Slots -> {"current", "position"}] /\ goal' \in [Slots -> WithinCap]
    BY DEF TypeOK
  <2>2. /\ active' \in [Slots -> BOOLEAN] /\ age' \in 0..DisableAge
        /\ pc' \in PCs /\ slot' \in Slots /\ frame' \in Frames \union {None}
    BY Facts, SMTT(60) DEF TypeOK, PCs
  <2>3. lost' \in 0..MaxLost
    BY Facts, SMTT(60) DEF TypeOK, Fault, NoPacket
  <2>4. zeroed' \in BOOLEAN /\ disabled' \in BOOLEAN /\ bootLost' \in BOOLEAN
    BY Zenon DEF TypeOK, Booting, Fault, NoPacket
  <2>5. QED
    BY <2>1, <2>2, <2>3, <2>4 DEF TypeOK
<1>2. Powered'
  BY Facts, SMTT(60) DEF TypeOK, Powered
<1>3. BootInactive'
  BY Facts, SMTT(60) DEF TypeOK, BootInactive, Booting
<1>4. Progress'
  BY Facts, SMTT(60) DEF TypeOK, Progress, Powered
<1>5. Tracked'
  BY Facts, SMTT(60) DEF TypeOK, Tracked, Powered, BootInactive, Booting, Pushes, Progress
<1>6. QED
  BY <1>1, <1>2, <1>3, <1>4, <1>5 DEF IInv

\* FfSlot keeps the inductive invariant.
LEMMA FfSlotOK == ASSUME IInv, FfSlot, UNCHANGED <<host, resets, unplugs>> PROVE IInv'
<1> USE DEF IInv, FfSlot, DisableGoal, NextInFrame, FrameApplied, FrameDone, Goto, NoPacket, ff, servos, Fault, Unheard, Slots
<1>0. Fault
  BY GoalWritten DEF TypeOK, Fault, NoPacket
<1>1. TypeOK'
  <2>1. /\ there' \in [Slots -> BOOLEAN] /\ torque' \in [Slots -> BOOLEAN]
        /\ mode' \in [Slots -> {"current", "position"}] /\ goal' \in [Slots -> WithinCap]
    BY Facts, GoalWritten, SMTT(60) DEF TypeOK
  <2>2. /\ active' \in [Slots -> BOOLEAN] /\ age' \in 0..DisableAge
        /\ pc' \in PCs /\ slot' \in Slots /\ frame' \in Frames \union {None}
    BY Facts, SMTT(60) DEF TypeOK, PCs
  <2>3. lost' \in 0..MaxLost
    BY <1>0, Facts, SMTT(60) DEF TypeOK, Fault, NoPacket
  <2>4. zeroed' \in BOOLEAN /\ disabled' \in BOOLEAN /\ bootLost' \in BOOLEAN
    BY <1>0, Zenon DEF TypeOK, Booting, Fault, NoPacket
  <2>5. QED
    BY <2>1, <2>2, <2>3, <2>4 DEF TypeOK
<1>2. Powered'
  BY Facts, GoalWritten, SMTT(60) DEF TypeOK, Powered
<1>3. BootInactive'
  BY Facts, GoalWritten, SMTT(60) DEF TypeOK, BootInactive, Booting
<1>4. Progress'
  BY Facts, GoalWritten, SMTT(60) DEF TypeOK, Progress, Powered
<1>5. Tracked'
  BY Facts, GoalWritten, SMTT(60) DEF TypeOK, Tracked, Powered, BootInactive, Booting, Pushes, Progress
<1>6. QED
  BY <1>1, <1>2, <1>3, <1>4, <1>5 DEF IInv

\* FfOff keeps the inductive invariant.
LEMMA FfOffOK == ASSUME IInv, FfOff, UNCHANGED <<host, resets, unplugs>> PROVE IInv'
<1> USE DEF IInv, FfOff, DisableTorque, NextInFrame, FrameApplied, FrameDone, Goto, ff, servos, Fault, Unheard, Slots
<1>0. Fault
  BY TorqueOffSent DEF TypeOK, Fault, NoPacket
<1>1. TypeOK'
  <2>1. /\ there' \in [Slots -> BOOLEAN] /\ torque' \in [Slots -> BOOLEAN]
        /\ mode' \in [Slots -> {"current", "position"}] /\ goal' \in [Slots -> WithinCap]
    BY Facts, TorqueOffSent, SMTT(60) DEF TypeOK
  <2>2. /\ active' \in [Slots -> BOOLEAN] /\ age' \in 0..DisableAge
        /\ pc' \in PCs /\ slot' \in Slots /\ frame' \in Frames \union {None}
    BY Facts, SMTT(60) DEF TypeOK, PCs
  <2>3. lost' \in 0..MaxLost
    BY <1>0, Facts, SMTT(60) DEF TypeOK, Fault, NoPacket
  <2>4. zeroed' \in BOOLEAN /\ disabled' \in BOOLEAN /\ bootLost' \in BOOLEAN
    BY <1>0, Zenon DEF TypeOK, Booting, Fault, NoPacket
  <2>5. QED
    BY <2>1, <2>2, <2>3, <2>4 DEF TypeOK
<1>2. Powered'
  BY Facts, TorqueOffSent, SMTT(60) DEF TypeOK, Powered
<1>3. BootInactive'
  BY Facts, TorqueOffSent, SMTT(60) DEF TypeOK, BootInactive, Booting
<1>4. Progress'
  BY Facts, TorqueOffSent, SMTT(60) DEF TypeOK, Progress, Powered
<1>5. Tracked'
  BY Facts, TorqueOffSent, SMTT(60) DEF TypeOK, Tracked, Powered, BootInactive, Booting, Pushes, Progress
<1>6. QED
  BY <1>1, <1>2, <1>3, <1>4, <1>5 DEF IInv

\* FfPing keeps the inductive invariant.
LEMMA FfPingOK == ASSUME IInv, FfPing, UNCHANGED <<host, resets, unplugs>> PROVE IInv'
<1> USE DEF IInv, FfPing, FfStep, NextInFrame, FrameApplied, FrameDone, Goto, ff, servos, Fault, Unheard, Slots
<1>0. Fault
  BY Pinged DEF TypeOK, Fault, NoPacket
<1>1. TypeOK'
  <2>1. /\ there' \in [Slots -> BOOLEAN] /\ torque' \in [Slots -> BOOLEAN]
        /\ mode' \in [Slots -> {"current", "position"}] /\ goal' \in [Slots -> WithinCap]
    BY Facts, Pinged DEF TypeOK
  <2>2. /\ active' \in [Slots -> BOOLEAN] /\ age' \in 0..DisableAge
        /\ pc' \in PCs /\ slot' \in Slots /\ frame' \in Frames \union {None}
    BY Facts, SMTT(60) DEF TypeOK, PCs
  <2>3. lost' \in 0..MaxLost
    BY <1>0, Facts, SMTT(60) DEF TypeOK, Fault, NoPacket
  <2>4. zeroed' \in BOOLEAN /\ disabled' \in BOOLEAN /\ bootLost' \in BOOLEAN
    BY <1>0, Zenon DEF TypeOK, Booting, Fault, NoPacket
  <2>5. QED
    BY <2>1, <2>2, <2>3, <2>4 DEF TypeOK
<1>2. Powered'
  BY Facts, Pinged, SMTT(60) DEF TypeOK, Powered
<1>3. BootInactive'
  BY Facts, Pinged, SMTT(60) DEF TypeOK, BootInactive, Booting
<1>4. Progress'
  BY Facts, Pinged, SMTT(60) DEF TypeOK, Progress, Powered
<1>5. Tracked'
  BY Facts, Pinged, SMTT(60) DEF TypeOK, Tracked, Powered, BootInactive, Booting, Pushes, Progress
<1>6. QED
  BY <1>1, <1>2, <1>3, <1>4, <1>5 DEF IInv

\* FfTorqueOff keeps the inductive invariant.
LEMMA FfTorqueOffOK == ASSUME IInv, FfTorqueOff, UNCHANGED <<host, resets, unplugs>> PROVE IInv'
<1> USE DEF IInv, FfTorqueOff, FfStep, Goto, ff, servos, Fault, Unheard, Slots
<1>0. Fault
  BY TorqueOffSent DEF TypeOK, Fault, NoPacket
<1>1. TypeOK'
  <2>1. /\ there' \in [Slots -> BOOLEAN] /\ torque' \in [Slots -> BOOLEAN]
        /\ mode' \in [Slots -> {"current", "position"}] /\ goal' \in [Slots -> WithinCap]
    BY Facts, TorqueOffSent, SMTT(60) DEF TypeOK
  <2>2. /\ active' \in [Slots -> BOOLEAN] /\ age' \in 0..DisableAge
        /\ pc' \in PCs /\ slot' \in Slots /\ frame' \in Frames \union {None}
    BY Facts, SMTT(60) DEF TypeOK, PCs
  <2>3. lost' \in 0..MaxLost
    BY <1>0, Facts, SMTT(60) DEF TypeOK, Fault, NoPacket
  <2>4. zeroed' \in BOOLEAN /\ disabled' \in BOOLEAN /\ bootLost' \in BOOLEAN
    BY <1>0, Zenon DEF TypeOK, Booting, Fault, NoPacket
  <2>5. QED
    BY <2>1, <2>2, <2>3, <2>4 DEF TypeOK
<1>2. Powered'
  BY Facts, TorqueOffSent, SMTT(60) DEF TypeOK, Powered
<1>3. BootInactive'
  BY Facts, TorqueOffSent, SMTT(60) DEF TypeOK, BootInactive, Booting
<1>4. Progress'
  BY Facts, TorqueOffSent, SMTT(60) DEF TypeOK, Progress, Powered
<1>5. Tracked'
  BY Facts, TorqueOffSent, SMTT(60) DEF TypeOK, Tracked, Powered, BootInactive, Booting, Pushes, Progress
<1>6. QED
  BY <1>1, <1>2, <1>3, <1>4, <1>5 DEF IInv

\* FfMode keeps the inductive invariant.
LEMMA FfModeOK == ASSUME IInv, FfMode, UNCHANGED <<host, resets, unplugs>> PROVE IInv'
<1> USE DEF IInv, FfMode, FfStep, NextInFrame, FrameApplied, FrameDone, Goto, ff, servos, Fault, Unheard, Slots
<1>0. Fault
  BY ModeWritten DEF TypeOK, Fault, NoPacket
<1>1. TypeOK'
  <2>1. /\ there' \in [Slots -> BOOLEAN] /\ torque' \in [Slots -> BOOLEAN]
        /\ mode' \in [Slots -> {"current", "position"}] /\ goal' \in [Slots -> WithinCap]
    BY Facts, ModeWritten, SMTT(60) DEF TypeOK
  <2>2. /\ active' \in [Slots -> BOOLEAN] /\ age' \in 0..DisableAge
        /\ pc' \in PCs /\ slot' \in Slots /\ frame' \in Frames \union {None}
    BY Facts, SMTT(60) DEF TypeOK, PCs
  <2>3. lost' \in 0..MaxLost
    BY <1>0, Facts, SMTT(60) DEF TypeOK, Fault, NoPacket
  <2>4. zeroed' \in BOOLEAN /\ disabled' \in BOOLEAN /\ bootLost' \in BOOLEAN
    BY <1>0, Zenon DEF TypeOK, Booting, Fault, NoPacket
  <2>5. QED
    BY <2>1, <2>2, <2>3, <2>4 DEF TypeOK
<1>2. Powered'
  BY Facts, ModeWritten, SMTT(60) DEF TypeOK, Powered
<1>3. BootInactive'
  BY Facts, ModeWritten, SMTT(60) DEF TypeOK, BootInactive, Booting
<1>4. Progress'
  BY Facts, ModeWritten, SMTT(60) DEF TypeOK, Progress, Powered
<1>5. Tracked'
  BY Facts, ModeWritten, SMTT(60) DEF TypeOK, Tracked, Powered, BootInactive, Booting, Pushes, Progress
<1>6. QED
  BY <1>1, <1>2, <1>3, <1>4, <1>5 DEF IInv

\* FfGentle keeps the inductive invariant.
LEMMA FfGentleOK == ASSUME IInv, FfGentle, UNCHANGED <<host, resets, unplugs>> PROVE IInv'
<1> USE DEF IInv, FfGentle, FfStep, NextInFrame, FrameApplied, FrameDone, Goto, ff, servos, Fault, Unheard, Slots
<1>0. Fault
  BY GoalWritten DEF TypeOK, Fault, NoPacket
<1>1. TypeOK'
  <2>1. /\ there' \in [Slots -> BOOLEAN] /\ torque' \in [Slots -> BOOLEAN]
        /\ mode' \in [Slots -> {"current", "position"}] /\ goal' \in [Slots -> WithinCap]
    BY Facts, GoalWritten, SMTT(60) DEF TypeOK
  <2>2. /\ active' \in [Slots -> BOOLEAN] /\ age' \in 0..DisableAge
        /\ pc' \in PCs /\ slot' \in Slots /\ frame' \in Frames \union {None}
    BY Facts, SMTT(60) DEF TypeOK, PCs
  <2>3. lost' \in 0..MaxLost
    BY <1>0, Facts, SMTT(60) DEF TypeOK, Fault, NoPacket
  <2>4. zeroed' \in BOOLEAN /\ disabled' \in BOOLEAN /\ bootLost' \in BOOLEAN
    BY <1>0, Zenon DEF TypeOK, Booting, Fault, NoPacket
  <2>5. QED
    BY <2>1, <2>2, <2>3, <2>4 DEF TypeOK
<1>2. Powered'
  BY Facts, GoalWritten, SMTT(60) DEF TypeOK, Powered
<1>3. BootInactive'
  BY Facts, GoalWritten, SMTT(60) DEF TypeOK, BootInactive, Booting
<1>4. Progress'
  BY Facts, GoalWritten, SMTT(60) DEF TypeOK, Progress, Powered
<1>5. Tracked'
  BY Facts, GoalWritten, SMTT(60) DEF TypeOK, Tracked, Powered, BootInactive, Booting, Pushes, Progress
<1>6. QED
  BY <1>1, <1>2, <1>3, <1>4, <1>5 DEF IInv

\* FfTorqueOn keeps the inductive invariant.
LEMMA FfTorqueOnOK == ASSUME IInv, FfTorqueOn, UNCHANGED <<host, resets, unplugs>> PROVE IInv'
<1> USE DEF IInv, FfTorqueOn, NextInFrame, FrameApplied, FrameDone, Goto, ff, servos, Fault, Unheard, Slots
<1>0. Fault
  BY TorqueOnSent DEF TypeOK, Fault, NoPacket
<1>1. TypeOK'
  <2>1. /\ there' \in [Slots -> BOOLEAN] /\ torque' \in [Slots -> BOOLEAN]
        /\ mode' \in [Slots -> {"current", "position"}] /\ goal' \in [Slots -> WithinCap]
    BY TorqueOnSent DEF TypeOK
  <2>2. /\ active' \in [Slots -> BOOLEAN] /\ age' \in 0..DisableAge
        /\ pc' \in PCs /\ slot' \in Slots /\ frame' \in Frames \union {None}
    BY Facts, SMTT(60) DEF TypeOK, PCs
  <2>3. lost' \in 0..MaxLost
    BY <1>0, Facts, SMTT(60) DEF TypeOK, Fault, NoPacket
  <2>4. zeroed' \in BOOLEAN /\ disabled' \in BOOLEAN /\ bootLost' \in BOOLEAN
    BY <1>0, Zenon DEF TypeOK, Booting, Fault, NoPacket
  <2>5. QED
    BY <2>1, <2>2, <2>3, <2>4 DEF TypeOK
<1>2. Powered'
  BY Facts, TorqueOnSent, SMTT(60) DEF TypeOK, Powered
<1>3. BootInactive'
  BY Facts, TorqueOnSent, SMTT(60) DEF TypeOK, BootInactive, Booting
<1>4. Progress'
  BY Facts, TorqueOnSent, SMTT(60) DEF TypeOK, Progress, Powered
<1>5. Tracked'
  BY Facts, TorqueOnSent, SMTT(60) DEF TypeOK, Tracked, Powered, BootInactive, Booting, Pushes, Progress
<1>6. QED
  BY <1>1, <1>2, <1>3, <1>4, <1>5 DEF IInv

\* FfGoal keeps the inductive invariant.
LEMMA FfGoalOK == ASSUME IInv, FfGoal, UNCHANGED <<host, resets, unplugs>> PROVE IInv'
<1> USE DEF IInv, FfGoal, NextInFrame, FrameApplied, FrameDone, Goto, ff, servos, Fault, Unheard, Slots
<1>0. Fault
  BY GoalWritten DEF TypeOK, Fault, NoPacket
<1>1. TypeOK'
  <2>1. /\ there' \in [Slots -> BOOLEAN] /\ torque' \in [Slots -> BOOLEAN]
        /\ mode' \in [Slots -> {"current", "position"}] /\ goal' \in [Slots -> WithinCap]
    BY Facts, GoalWritten, FrameFacts, ClampBounds, SMTT(60) DEF TypeOK, Progress
  <2>2. /\ active' \in [Slots -> BOOLEAN] /\ age' \in 0..DisableAge
        /\ pc' \in PCs /\ slot' \in Slots /\ frame' \in Frames \union {None}
    BY Facts, SMTT(60) DEF TypeOK, PCs
  <2>3. lost' \in 0..MaxLost
    BY <1>0, Facts, SMTT(60) DEF TypeOK, Fault, NoPacket
  <2>4. zeroed' \in BOOLEAN /\ disabled' \in BOOLEAN /\ bootLost' \in BOOLEAN
    BY <1>0, Zenon DEF TypeOK, Booting, Fault, NoPacket
  <2>5. QED
    BY <2>1, <2>2, <2>3, <2>4 DEF TypeOK
<1>2. Powered'
  BY Facts, GoalWritten, SMTT(60) DEF TypeOK, Powered
<1>3. BootInactive'
  BY Facts, GoalWritten, SMTT(60) DEF TypeOK, BootInactive, Booting
<1>4. Progress'
  BY Facts, GoalWritten, SMTT(60) DEF TypeOK, Progress, Powered
<1>5. Tracked'
  BY Facts, GoalWritten, SMTT(60) DEF TypeOK, Tracked, Powered, BootInactive, Booting, Pushes, Progress
<1>6. QED
  BY <1>1, <1>2, <1>3, <1>4, <1>5 DEF IInv

\* CenterPing keeps the inductive invariant.
LEMMA CenterPingOK == ASSUME IInv, CenterPing, UNCHANGED <<host, resets, unplugs>> PROVE IInv'
<1> USE DEF IInv, CenterPing, CenterStep, Goto, ff, servos, Fault, Unheard, Slots
<1>0. Fault
  BY Pinged DEF TypeOK, Fault, NoPacket
<1>1. TypeOK'
  <2>1. /\ there' \in [Slots -> BOOLEAN] /\ torque' \in [Slots -> BOOLEAN]
        /\ mode' \in [Slots -> {"current", "position"}] /\ goal' \in [Slots -> WithinCap]
    BY Facts, Pinged DEF TypeOK
  <2>2. /\ active' \in [Slots -> BOOLEAN] /\ age' \in 0..DisableAge
        /\ pc' \in PCs /\ slot' \in Slots /\ frame' \in Frames \union {None}
    BY Facts, SMTT(60) DEF TypeOK, PCs
  <2>3. lost' \in 0..MaxLost
    BY <1>0, Facts, SMTT(60) DEF TypeOK, Fault, NoPacket
  <2>4. zeroed' \in BOOLEAN /\ disabled' \in BOOLEAN /\ bootLost' \in BOOLEAN
    BY <1>0, Zenon DEF TypeOK, Booting, Fault, NoPacket
  <2>5. QED
    BY <2>1, <2>2, <2>3, <2>4 DEF TypeOK
<1>2. Powered'
  BY Facts, Pinged, SMTT(60) DEF TypeOK, Powered
<1>3. BootInactive'
  BY Facts, Pinged, SMTT(60) DEF TypeOK, BootInactive, Booting
<1>4. Progress'
  BY Facts, Pinged, SMTT(60) DEF TypeOK, Progress, Powered
<1>5. Tracked'
  BY Facts, Pinged, SMTT(60) DEF TypeOK, Tracked, Powered, BootInactive, Booting, Pushes, Progress
<1>6. QED
  BY <1>1, <1>2, <1>3, <1>4, <1>5 DEF IInv

\* CenterTorqueOff keeps the inductive invariant.
LEMMA CenterTorqueOffOK == ASSUME IInv, CenterTorqueOff, UNCHANGED <<host, resets, unplugs>> PROVE IInv'
<1> USE DEF IInv, CenterTorqueOff, CenterStep, Goto, ff, servos, Fault, Unheard, Slots
<1>0. Fault
  BY TorqueOffSent DEF TypeOK, Fault, NoPacket
<1>1. TypeOK'
  <2>1. /\ there' \in [Slots -> BOOLEAN] /\ torque' \in [Slots -> BOOLEAN]
        /\ mode' \in [Slots -> {"current", "position"}] /\ goal' \in [Slots -> WithinCap]
    BY Facts, TorqueOffSent, SMTT(60) DEF TypeOK
  <2>2. /\ active' \in [Slots -> BOOLEAN] /\ age' \in 0..DisableAge
        /\ pc' \in PCs /\ slot' \in Slots /\ frame' \in Frames \union {None}
    BY Facts, SMTT(60) DEF TypeOK, PCs
  <2>3. lost' \in 0..MaxLost
    BY <1>0, Facts, SMTT(60) DEF TypeOK, Fault, NoPacket
  <2>4. zeroed' \in BOOLEAN /\ disabled' \in BOOLEAN /\ bootLost' \in BOOLEAN
    BY <1>0, Zenon DEF TypeOK, Booting, Fault, NoPacket
  <2>5. QED
    BY <2>1, <2>2, <2>3, <2>4 DEF TypeOK
<1>2. Powered'
  BY Facts, TorqueOffSent, SMTT(60) DEF TypeOK, Powered
<1>3. BootInactive'
  BY Facts, TorqueOffSent, SMTT(60) DEF TypeOK, BootInactive, Booting
<1>4. Progress'
  BY Facts, TorqueOffSent, SMTT(60) DEF TypeOK, Progress, Powered
<1>5. Tracked'
  BY Facts, TorqueOffSent, SMTT(60) DEF TypeOK, Tracked, Powered, BootInactive, Booting, Pushes, Progress
<1>6. QED
  BY <1>1, <1>2, <1>3, <1>4, <1>5 DEF IInv

\* CenterMode keeps the inductive invariant.
LEMMA CenterModeOK == ASSUME IInv, CenterMode, UNCHANGED <<host, resets, unplugs>> PROVE IInv'
<1> USE DEF IInv, CenterMode, CenterStep, Goto, ff, servos, Fault, Unheard, Slots
<1>0. Fault
  BY ModeWritten DEF TypeOK, Fault, NoPacket
<1>1. TypeOK'
  <2>1. /\ there' \in [Slots -> BOOLEAN] /\ torque' \in [Slots -> BOOLEAN]
        /\ mode' \in [Slots -> {"current", "position"}] /\ goal' \in [Slots -> WithinCap]
    BY Facts, ModeWritten, SMTT(60) DEF TypeOK
  <2>2. /\ active' \in [Slots -> BOOLEAN] /\ age' \in 0..DisableAge
        /\ pc' \in PCs /\ slot' \in Slots /\ frame' \in Frames \union {None}
    BY Facts, SMTT(60) DEF TypeOK, PCs
  <2>3. lost' \in 0..MaxLost
    BY <1>0, Facts, SMTT(60) DEF TypeOK, Fault, NoPacket
  <2>4. zeroed' \in BOOLEAN /\ disabled' \in BOOLEAN /\ bootLost' \in BOOLEAN
    BY <1>0, Zenon DEF TypeOK, Booting, Fault, NoPacket
  <2>5. QED
    BY <2>1, <2>2, <2>3, <2>4 DEF TypeOK
<1>2. Powered'
  BY Facts, ModeWritten, SMTT(60) DEF TypeOK, Powered
<1>3. BootInactive'
  BY Facts, ModeWritten, SMTT(60) DEF TypeOK, BootInactive, Booting
<1>4. Progress'
  BY Facts, ModeWritten, SMTT(60) DEF TypeOK, Progress, Powered
<1>5. Tracked'
  BY Facts, ModeWritten, SMTT(60) DEF TypeOK, Tracked, Powered, BootInactive, Booting, Pushes, Progress
<1>6. QED
  BY <1>1, <1>2, <1>3, <1>4, <1>5 DEF IInv

\* CenterProfile keeps the inductive invariant.
LEMMA CenterProfileOK == ASSUME IInv, CenterProfile, UNCHANGED <<host, resets, unplugs>> PROVE IInv'
<1> USE DEF IInv, CenterProfile, CenterStep, Goto, ff, servos, Fault, Unheard, Slots
<1>0. Fault
  BY Pinged DEF TypeOK, Fault, NoPacket
<1>1. TypeOK'
  <2>1. /\ there' \in [Slots -> BOOLEAN] /\ torque' \in [Slots -> BOOLEAN]
        /\ mode' \in [Slots -> {"current", "position"}] /\ goal' \in [Slots -> WithinCap]
    BY Facts, Pinged DEF TypeOK
  <2>2. /\ active' \in [Slots -> BOOLEAN] /\ age' \in 0..DisableAge
        /\ pc' \in PCs /\ slot' \in Slots /\ frame' \in Frames \union {None}
    BY Facts, SMTT(60) DEF TypeOK, PCs
  <2>3. lost' \in 0..MaxLost
    BY <1>0, Facts, SMTT(60) DEF TypeOK, Fault, NoPacket
  <2>4. zeroed' \in BOOLEAN /\ disabled' \in BOOLEAN /\ bootLost' \in BOOLEAN
    BY <1>0, Zenon DEF TypeOK, Booting, Fault, NoPacket
  <2>5. QED
    BY <2>1, <2>2, <2>3, <2>4 DEF TypeOK
<1>2. Powered'
  BY Facts, Pinged, SMTT(60) DEF TypeOK, Powered
<1>3. BootInactive'
  BY Facts, Pinged, SMTT(60) DEF TypeOK, BootInactive, Booting
<1>4. Progress'
  BY Facts, Pinged, SMTT(60) DEF TypeOK, Progress, Powered
<1>5. Tracked'
  BY Facts, Pinged, SMTT(60) DEF TypeOK, Tracked, Powered, BootInactive, Booting, Pushes, Progress
<1>6. QED
  BY <1>1, <1>2, <1>3, <1>4, <1>5 DEF IInv

\* CenterTorqueOn keeps the inductive invariant.
LEMMA CenterTorqueOnOK == ASSUME IInv, CenterTorqueOn, UNCHANGED <<host, resets, unplugs>> PROVE IInv'
<1> USE DEF IInv, CenterTorqueOn, CenterStep, Goto, ff, servos, Fault, Unheard, Slots
<1>0. Fault
  BY TorqueOnSent DEF TypeOK, Fault, NoPacket
<1>1. TypeOK'
  <2>1. /\ there' \in [Slots -> BOOLEAN] /\ torque' \in [Slots -> BOOLEAN]
        /\ mode' \in [Slots -> {"current", "position"}] /\ goal' \in [Slots -> WithinCap]
    BY Facts, TorqueOnSent, SMTT(60) DEF TypeOK
  <2>2. /\ active' \in [Slots -> BOOLEAN] /\ age' \in 0..DisableAge
        /\ pc' \in PCs /\ slot' \in Slots /\ frame' \in Frames \union {None}
    BY Facts, SMTT(60) DEF TypeOK, PCs
  <2>3. lost' \in 0..MaxLost
    BY <1>0, Facts, SMTT(60) DEF TypeOK, Fault, NoPacket
  <2>4. zeroed' \in BOOLEAN /\ disabled' \in BOOLEAN /\ bootLost' \in BOOLEAN
    BY <1>0, Zenon DEF TypeOK, Booting, Fault, NoPacket
  <2>5. QED
    BY <2>1, <2>2, <2>3, <2>4 DEF TypeOK
<1>2. Powered'
  BY Facts, TorqueOnSent, SMTT(60) DEF TypeOK, Powered
<1>3. BootInactive'
  BY Facts, TorqueOnSent, SMTT(60) DEF TypeOK, BootInactive, Booting
<1>4. Progress'
  BY Facts, TorqueOnSent, SMTT(60) DEF TypeOK, Progress, Powered
<1>5. Tracked'
  BY Facts, TorqueOnSent, SMTT(60) DEF TypeOK, Tracked, Powered, BootInactive, Booting, Pushes, Progress
<1>6. QED
  BY <1>1, <1>2, <1>3, <1>4, <1>5 DEF IInv

\* CenterGoal keeps the inductive invariant.
LEMMA CenterGoalOK == ASSUME IInv, CenterGoal, UNCHANGED <<host, resets, unplugs>> PROVE IInv'
<1> USE DEF IInv, CenterGoal, CenterStep, Goto, ff, servos, Fault, Unheard, Slots
<1>0. Fault
  BY Pinged DEF TypeOK, Fault, NoPacket
<1>1. TypeOK'
  <2>1. /\ there' \in [Slots -> BOOLEAN] /\ torque' \in [Slots -> BOOLEAN]
        /\ mode' \in [Slots -> {"current", "position"}] /\ goal' \in [Slots -> WithinCap]
    BY Facts, Pinged DEF TypeOK
  <2>2. /\ active' \in [Slots -> BOOLEAN] /\ age' \in 0..DisableAge
        /\ pc' \in PCs /\ slot' \in Slots /\ frame' \in Frames \union {None}
    BY Facts, SMTT(60) DEF TypeOK, PCs
  <2>3. lost' \in 0..MaxLost
    BY <1>0, Facts, SMTT(60) DEF TypeOK, Fault, NoPacket
  <2>4. zeroed' \in BOOLEAN /\ disabled' \in BOOLEAN /\ bootLost' \in BOOLEAN
    BY <1>0, Zenon DEF TypeOK, Booting, Fault, NoPacket
  <2>5. QED
    BY <2>1, <2>2, <2>3, <2>4 DEF TypeOK
<1>2. Powered'
  BY Facts, Pinged, SMTT(60) DEF TypeOK, Powered
<1>3. BootInactive'
  BY Facts, Pinged, SMTT(60) DEF TypeOK, BootInactive, Booting
<1>4. Progress'
  BY Facts, Pinged, SMTT(60) DEF TypeOK, Progress, Powered
<1>5. Tracked'
  BY Facts, Pinged, SMTT(60) DEF TypeOK, Tracked, Powered, BootInactive, Booting, Pushes, Progress
<1>6. QED
  BY <1>1, <1>2, <1>3, <1>4, <1>5 DEF IInv

\* CenterRelease keeps the inductive invariant.
LEMMA CenterReleaseOK == ASSUME IInv, CenterRelease, UNCHANGED <<host, resets, unplugs>> PROVE IInv'
<1> USE DEF IInv, CenterRelease, Goto, ff, servos, Fault, Unheard, Slots
<1>0. Fault
  BY TorqueOffSent DEF TypeOK, Fault, NoPacket
<1>1. TypeOK'
  <2>1. /\ there' \in [Slots -> BOOLEAN] /\ torque' \in [Slots -> BOOLEAN]
        /\ mode' \in [Slots -> {"current", "position"}] /\ goal' \in [Slots -> WithinCap]
    BY Facts, TorqueOffSent, SMTT(60) DEF TypeOK
  <2>2. /\ active' \in [Slots -> BOOLEAN] /\ age' \in 0..DisableAge
        /\ pc' \in PCs /\ slot' \in Slots /\ frame' \in Frames \union {None}
    BY Facts, SMTT(60) DEF TypeOK, PCs
  <2>3. lost' \in 0..MaxLost
    BY <1>0, Facts, SMTT(60) DEF TypeOK, Fault, NoPacket
  <2>4. zeroed' \in BOOLEAN /\ disabled' \in BOOLEAN /\ bootLost' \in BOOLEAN
    BY <1>0, Zenon DEF TypeOK, Booting, Fault, NoPacket
  <2>5. QED
    BY <2>1, <2>2, <2>3, <2>4 DEF TypeOK
<1>2. Powered'
  BY Facts, TorqueOffSent, SMTT(60) DEF TypeOK, Powered
<1>3. BootInactive'
  BY Facts, TorqueOffSent, SMTT(60) DEF TypeOK, BootInactive, Booting
<1>4. Progress'
  BY Facts, TorqueOffSent, SMTT(60) DEF TypeOK, Progress, Powered
<1>5. Tracked'
  BY Facts, TorqueOffSent, SMTT(60) DEF TypeOK, Tracked, Powered, BootInactive, Booting, Pushes, Progress
<1>6. QED
  BY <1>1, <1>2, <1>3, <1>4, <1>5 DEF IInv

\* A frame or a CENTER is read between handlers, so every slot that pushes is active.
LEMMA ReadOK ==
    ASSUME IInv, Commands, UNCHANGED <<host, resets, unplugs>>
    PROVE  IInv'
<1> USE DEF IInv, ff, servos, NoPacket, TypeOK, PCs
<1>1. ASSUME NEW f \in Frames, ReadFrame(f) PROVE IInv'
  <2>1. TypeOK'
    BY <1>1, Facts DEF ReadFrame
  <2>2. Powered' /\ BootInactive' /\ Progress' /\ Tracked'
    BY <1>1, Facts, FrameFacts DEF ReadFrame, Powered, BootInactive, Progress, Tracked, Booting, Pushes
  <2>3. QED
    BY <2>1, <2>2
<1>2. ASSUME NEW i \in Slots, ReadCenter(i) PROVE IInv'
  <2>1. TypeOK'
    BY <1>2 DEF ReadCenter, Goto
  <2>2. Powered' /\ BootInactive' /\ Progress' /\ Tracked'
    BY <1>2 DEF ReadCenter, Goto, Powered, BootInactive, Progress, Tracked, Booting, Pushes
  <2>3. QED
    BY <2>1, <2>2
<1>3. QED
  BY <1>1, <1>2 DEF Commands

\* Time, the host, a reset and the cables keep the invariant.
LEMMA WorldOK == ASSUME IInv, Tick \/ HostStops \/ Reset \/ World PROVE IInv'
<1> USE DEF IInv, ff, servos, where, faults
<1>1. CASE Tick
  <2>1. TypeOK'
    BY <1>1, Facts DEF Tick, TypeOK
  <2>2. QED
    BY <1>1, <2>1 DEF Tick, Powered, BootInactive, Progress, Tracked, Booting, Pushes
<1>2. CASE HostStops
  <2>1. TypeOK'
    BY <1>2 DEF HostStops, TypeOK
  <2>2. QED
    BY <1>2, <2>1 DEF HostStops, Powered, BootInactive, Progress, Tracked, Booting, Pushes
<1>3. CASE Reset
  <2>1. TypeOK'
    <3>1. host' \in BOOLEAN /\ bootLost' \in BOOLEAN /\ zeroed' \in BOOLEAN /\ disabled' \in BOOLEAN
      BY <1>3, Zenon DEF Reset, TypeOK
    <3>2. resets' \in 0..MaxResets /\ age' \in 0..DisableAge /\ slot' \in Slots
      BY <1>3, Facts DEF Reset, TypeOK
    <3>3. QED
      BY <1>3, <3>1, <3>2 DEF Reset, TypeOK, PCs
  <2>2. Powered' /\ BootInactive' /\ Progress'
    BY <1>3 DEF Reset, Powered, BootInactive, Progress
  <2>3. Tracked'
    BY <1>3, SMTT(60) DEF Reset, Tracked, Booting, Slots
  <2>4. QED
    BY <2>1, <2>2, <2>3
<1>4. ASSUME NEW i \in Slots, Unplug(i) PROVE IInv'
  <2>1. TypeOK'
    BY <1>4, Facts DEF Unplug, TypeOK
  <2>2. Powered' /\ BootInactive' /\ Progress'
    BY <1>4 DEF Unplug, TypeOK, Powered, BootInactive, Progress, Booting
  <2>3. Tracked'
    BY <1>4 DEF Unplug, TypeOK, Tracked, Booting, Pushes
  <2>4. QED
    BY <2>1, <2>2, <2>3
<1>5. ASSUME NEW i \in Slots, Plug(i) PROVE IInv'
  <2>1. TypeOK'
    BY <1>5 DEF Plug, TypeOK
  <2>2. Powered' /\ BootInactive' /\ Progress' /\ Tracked'
    BY <1>5 DEF Plug, TypeOK, Powered, BootInactive, Progress, Tracked, Booting, Pushes
  <2>3. QED
    BY <2>1, <2>2
<1>6. QED
  BY <1>1, <1>2, <1>3, <1>4, <1>5 DEF World

\* Every step keeps the invariant.
LEMMA StepOK == IInv /\ [Next]_vars => IInv'
<1> SUFFICES ASSUME IInv, [Next]_vars PROVE IInv'
  OBVIOUS
<1>1. CASE Board /\ UNCHANGED <<host, resets, unplugs>>
  BY <1>1, BootPingOK, BootOffOK, WatchdogOK, WatchdogZeroOK, DisableAllOK, DisableAllOffOK,
     FfSlotOK, FfOffOK, FfPingOK, FfTorqueOffOK, FfModeOK, FfGentleOK, FfTorqueOnOK, FfGoalOK,
     CenterPingOK, CenterTorqueOffOK, CenterModeOK, CenterProfileOK, CenterTorqueOnOK,
     CenterGoalOK, CenterReleaseOK, IdleOK, Zenon DEF Board, ReadOther
<1>2. CASE Commands /\ UNCHANGED <<host, resets, unplugs>>
  BY <1>2, ReadOK
<1>3. CASE Tick \/ HostStops \/ Reset \/ World
  BY <1>3, WorldOK
<1>4. CASE UNCHANGED vars
  BY <1>4 DEF vars, servos, ff, where, faults, IInv, TypeOK, Powered, BootInactive,
              Progress, Tracked, Booting, Pushes
<1>5. QED
  BY <1>1, <1>2, <1>3, <1>4 DEF Next

\* The inductive invariant holds in every state.
THEOREM Invariant == Spec => []IInv
<1>1. QED
  BY InitOK, StepOK, PTL DEF Spec

\* The state is well typed; in particular no servo is ever asked for more than
\* MAX_FF_CURRENT_MA, whatever the host sends (the clamp of handle_ff_current).
THEOREM LeaderTyped == Spec => []TypeOK
<1>1. IInv => TypeOK
  BY DEF IInv
<1>2. QED
  BY <1>1, Invariant, PTL

\* A servo that pushes is one the watchdog knows of, for any number of servos
\* and any order of commands, unplugs, resets and a lost packet.
THEOREM PushesAreTracked == Spec => []Accountable
<1>1. IInv => Accountable
  BY DEF IInv, Tracked, Accountable
<1>2. QED
  BY <1>1, Invariant, PTL

\* No servo starts to push.
Quiet == \A i \in Slots : Pushes(i)' => Pushes(i)

\* A packet that switches torque off, asks, or zeroes a goal starts no push.
LEMMA QuietPacket ==
    ASSUME IInv, NEW i \in Slots, NEW acked \in BOOLEAN,
           TorqueOff(i) \/ Ping(i, acked) \/ NoPacket \/ WriteGoal(i, 0, acked)
    PROVE  Quiet
<1>1. CASE TorqueOff(i)
  BY <1>1, TorqueOffSent DEF IInv, Quiet, Pushes
<1>2. CASE Ping(i, acked) \/ NoPacket
  BY <1>2, Pinged DEF NoPacket, servos, Quiet, Pushes
<1>3. CASE WriteGoal(i, 0, acked)
  BY <1>3, GoalWritten DEF IInv, TypeOK, Quiet, Pushes
<1>4. QED
  BY <1>1, <1>2, <1>3

\* A mode is only written to a limp servo.
LEMMA QuietMode ==
    ASSUME IInv, NEW i \in Slots, NEW m, NEW acked \in BOOLEAN, WriteMode(i, m, acked)
    PROVE  Quiet
BY ModeWritten DEF IInv, TypeOK, Quiet, Pushes

\* Of the board's steps only the goal write of a frame starts a push.
LEMMA QuietBoard ==
    ASSUME IInv, Board, ~FfGoal
    PROVE  Quiet
<1>1. slot \in Slots
  BY DEF IInv, TypeOK
<1>2. CASE FfTorqueOn
  BY <1>1, <1>2, TorqueOnSent DEF FfTorqueOn, IInv, TypeOK, Progress, Quiet, Pushes
<1>3. CASE CenterTorqueOn
  BY <1>1, <1>3, TorqueOnSent DEF CenterTorqueOn, CenterStep, IInv, TypeOK, Progress, Quiet, Pushes
<1>4. CASE FfMode \/ CenterMode
  BY <1>1, <1>4, QuietMode DEF FfMode, CenterMode
<1>5. CASE BootOff \/ DisableAllOff \/ FfOff \/ FfTorqueOff \/ CenterTorqueOff \/ CenterRelease
  BY <1>1, <1>5, QuietPacket DEF BootOff, DisableAllOff, FfOff, DisableTorque, FfTorqueOff,
                               CenterTorqueOff, CenterRelease
<1>6. CASE BootPing \/ FfPing \/ CenterPing \/ CenterProfile \/ CenterGoal
  BY <1>1, <1>6, QuietPacket DEF BootPing, FfPing, CenterPing, CenterProfile, CenterGoal
<1>7. CASE WatchdogZero \/ DisableAll \/ FfSlot \/ FfGentle
  BY <1>1, <1>7, QuietPacket DEF WatchdogZero, DisableAll, DisableGoal, FfSlot, FfGentle
<1>8. CASE Watchdog \/ Idle \/ ReadOther
  BY <1>1, <1>8, QuietPacket DEF Watchdog, Idle, ReadOther
<1>9. QED
  BY <1>2, <1>3, <1>4, <1>5, <1>6, <1>7, <1>8, Zenon DEF Board

\* A step that starts a push writes the clamped current of the frame.
LEMMA SoftStep ==
    ASSUME IInv, [Next]_vars
    PROVE  \A i \in Slots : Pushes(i)' /\ ~Pushes(i) =>
             /\ torque[i] /\ active[i]
             /\ frame # None /\ frame[i] # Release /\ goal'[i] = Clamp(frame[i])
<1>1. CASE FfGoal
  <2>1. slot \in Slots /\ active[slot] /\ frame # None /\ frame[slot] # Release
    BY <1>1 DEF FfGoal, IInv, TypeOK, Progress
  <2>2. PICK acked \in BOOLEAN : WriteGoal(slot, Clamp(frame[slot]), acked)
    BY <1>1 DEF FfGoal
  <2>3. /\ UNCHANGED <<there, torque, mode>>
        /\ goal' = [goal EXCEPT ![slot] = Clamp(frame[slot])] \/ goal' = goal
    BY <2>1, <2>2, GoalWritten
  <2>4. QED
    BY <2>1, <2>3, SMTT(60) DEF Pushes, IInv, TypeOK
<1>2. CASE Board /\ ~FfGoal
  BY <1>2, QuietBoard DEF Quiet
<1>3. CASE Commands
  BY <1>3 DEF Commands, ReadFrame, ReadCenter, NoPacket, servos, Pushes
<1>4. CASE Tick \/ HostStops \/ Reset
  BY <1>4 DEF Tick, HostStops, Reset, servos, Pushes
<1>5. CASE World
  BY <1>5 DEF World, Unplug, Plug, IInv, TypeOK, Pushes
<1>6. CASE UNCHANGED vars
  BY <1>6 DEF vars, servos, Pushes
<1>7. QED
  BY <1>1, <1>2, <1>3, <1>4, <1>5, <1>6 DEF Next

\* A servo starts to push only with the clamped current the frame being applied
\* asks of it, and never by being energised under an old goal current.
THEOREM PushesOnlyWhenAsked == Spec => SoftStart
<1>1. IInv /\ [Next]_vars =>
        [\A i \in Slots : Pushes(i)' /\ ~Pushes(i) =>
           /\ torque[i] /\ active[i]
           /\ frame # None /\ frame[i] # Release /\ goal'[i] = Clamp(frame[i])]_vars
  BY SoftStep
<1>2. QED
  BY <1>1, Invariant, PTL DEF Spec, SoftStart

----------------------------------------------------------------------------
(* The watchdog and CENTER on a bus that loses nothing.                     *)

Framing == pc \in {"ff", "ffOff", "ffPing", "ffTorqueOff", "ffMode", "ffGentle", "ffTorqueOn", "ffGoal"}

\* ff_disabled means that no slot is active, except while a frame is applied,
\* and the watchdog comes before the read of the next command.
Staged ==
    /\ disabled /\ ~Framing => \A i \in Slots : ~active[i]
    /\ pc \in {"disableAll", "disableAllOff"} => \A i \in Slots : i < slot => ~active[i]
    /\ pc = "read" => age < ZeroAge \/ zeroed \/ disabled

\* As long as no packet is lost, an energised servo is an active one in current
\* mode, or the one CENTER is moving ...
Held ==
    ~Booting => \A i \in Slots : torque[i] =>
        \/ active[i] /\ mode[i] = "current"
        \/ pc \in {"centerGoal", "centerRelease"} /\ i = slot

\* ... a slot is enabled in current mode ...
Enabling == pc \in {"ffGentle", "ffTorqueOn"} => mode[slot] = "current"

\* ... and ff_zeroed means that none pushes.
Zeroing ==
    /\ zeroed /\ ~Framing /\ ~Booting => \A i \in Slots : ~Pushes(i)
    /\ pc = "zero" => \A i \in Slots : i < slot => ~Pushes(i)

Lossless == lost = 0 => ~bootLost /\ Held /\ Enabling /\ Zeroing

LEMMA StagedInit == Init => Staged
  BY DEF Init, Staged

\* The force feedback state goes through its stages whatever the bus does.
LEMMA StagedStep == IInv /\ Staged /\ [Next]_vars => Staged'
<1> SUFFICES ASSUME IInv, Staged, [Next]_vars PROVE Staged'
  OBVIOUS
<1>1. slot \in Slots /\ NumServos \in Nat /\ Slots = 1..NumServos /\ active \in [Slots -> BOOLEAN]
  BY Facts DEF IInv, TypeOK, Slots
<1>2. CASE BootPing \/ BootOff
  BY <1>2 DEF BootPing, BootOff, NextSlot, Goto, ff, Staged, Framing
<1>3. CASE Watchdog
  <2>1. age \in Nat /\ ZeroAge \in Nat /\ DisableAge \in Nat /\ ZeroAge < DisableAge
    BY Facts DEF IInv, TypeOK
  <2>2. UNCHANGED <<active, age, zeroed, disabled>> /\ slot' = 1 /\ pc \notin {"read"} /\ ~Framing
        /\ pc' = IF disabled THEN "read"
                 ELSE IF age >= DisableAge THEN "disableAll"
                 ELSE IF age >= ZeroAge /\ ~zeroed THEN "zero"
                 ELSE "read"
    BY <1>3 DEF Watchdog, Goto, ff, Framing
  <2>3. pc' = "read" => age' < ZeroAge \/ zeroed' \/ disabled'
    BY <2>1, <2>2
  <2>4. QED
    BY <1>1, <2>2, <2>3 DEF Staged, Framing
<1>4. CASE WatchdogZero
  BY <1>4 DEF WatchdogZero, NextSlot, Goto, ff, Staged, Framing
<1>5. CASE DisableAll
  BY <1>1, <1>5 DEF DisableAll, DisableGoal, NextSlot, AllDisabled, Goto, ff, Staged, Framing
<1>6. CASE DisableAllOff
  BY <1>1, <1>6 DEF DisableAllOff, DisableTorque, AllDisabled, Goto, ff, Staged, Framing
<1>7. CASE FfSlot \/ FfOff \/ FfPing \/ FfTorqueOff \/ FfMode \/ FfGentle \/ FfTorqueOn \/ FfGoal
  <2>1. Framing' \/ (pc' = "loop" /\ ~disabled')
    BY <1>7 DEF FfSlot, FfOff, FfPing, FfTorqueOff, FfMode, FfGentle, FfTorqueOn, FfGoal, FfStep,
                DisableGoal, NextInFrame, FrameApplied, FrameDone, Goto, Framing
  <2>2. QED
    BY <2>1 DEF Staged, Framing
<1>8. CASE CenterPing \/ CenterTorqueOff \/ CenterMode \/ CenterProfile \/ CenterTorqueOn \/ CenterGoal
           \/ CenterRelease
  BY <1>8 DEF CenterPing, CenterTorqueOff, CenterMode, CenterProfile, CenterTorqueOn, CenterGoal,
              CenterRelease, CenterStep, Goto, ff, Staged, Framing
<1>9. CASE Idle \/ ReadOther
  BY <1>9 DEF ReadOther, Idle, Goto, ff, Staged, Framing
<1>10. CASE Commands
  BY <1>10 DEF Commands, ReadFrame, ReadCenter, Goto, ff, Staged, Framing
<1>11. CASE Tick
  BY <1>11 DEF Tick, where, Staged, Framing
<1>12. CASE Reset
  BY <1>12 DEF Reset, Staged, Framing
<1>13. CASE HostStops \/ World \/ UNCHANGED vars
  BY <1>13 DEF HostStops, World, Unplug, Plug, vars, ff, where, Staged, Framing
<1>14. QED
  BY <1>2, <1>3, <1>4, <1>5, <1>6, <1>7, <1>8, <1>9, <1>10, <1>11, <1>12, <1>13, Zenon DEF Next, Board

\* A loss is never forgotten, and setup()'s is one.
LEMMA LossIsCounted ==
    ASSUME IInv, [Next]_vars, lost' = 0
    PROVE  lost = 0 /\ (bootLost' => bootLost)
<1>1. slot \in Slots /\ lost \in Nat
  BY DEF IInv, TypeOK
<1>2. Fault => lost = 0 /\ (bootLost' => bootLost)
  BY <1>1 DEF Fault
<1>3. CASE BootOff \/ DisableAllOff \/ FfOff \/ FfTorqueOff \/ CenterTorqueOff \/ CenterRelease
  BY <1>1, <1>2, <1>3, TorqueOffSent DEF BootOff, DisableAllOff, FfOff, DisableTorque, FfTorqueOff,
                                       CenterTorqueOff, CenterRelease, IInv
<1>4. CASE FfTorqueOn \/ CenterTorqueOn
  BY <1>1, <1>2, <1>4, TorqueOnSent DEF FfTorqueOn, CenterTorqueOn, IInv
<1>5. CASE FfMode \/ CenterMode
  BY <1>1, <1>2, <1>5, ModeWritten DEF FfMode, CenterMode
<1>6. CASE BootPing \/ FfPing \/ CenterPing \/ CenterProfile \/ CenterGoal
  BY <1>1, <1>2, <1>6, Pinged DEF BootPing, FfPing, CenterPing, CenterProfile, CenterGoal
<1>7. CASE WatchdogZero \/ DisableAll \/ FfSlot \/ FfGentle \/ FfGoal
  <2>1. UNCHANGED <<lost, bootLost>> \/ Fault
    BY <1>1, <1>7, GoalWritten DEF WatchdogZero, DisableAll, DisableGoal, FfSlot, FfGentle, FfGoal, NoPacket
  <2>2. QED
    BY <1>2, <2>1
<1>8. CASE Watchdog \/ Idle \/ ReadOther \/ Commands
  BY <1>8 DEF Watchdog, Idle, ReadOther, Commands, ReadFrame, ReadCenter, NoPacket
<1>9. CASE Tick \/ HostStops \/ Reset \/ World \/ UNCHANGED vars
  <2>1. CASE Tick \/ HostStops \/ UNCHANGED vars
    BY <2>1 DEF Tick, HostStops, faults, vars
  <2>2. CASE Reset
    BY <2>2 DEF Reset
  <2>3. CASE World
    BY <2>3 DEF World, Unplug, Plug, faults
  <2>4. QED
    BY <1>9, <2>1, <2>2, <2>3
<1>10. QED
  BY <1>3, <1>4, <1>5, <1>6, <1>7, <1>8, <1>9, Zenon DEF Next, Board

\* Without losses a packet does what the board believes it did.
LEMMA NothingLost ==
    ASSUME IInv, lost = 0, lost' = 0, NEW i \in Slots, NEW acked \in BOOLEAN
    PROVE  /\ TorqueOff(i) => ~torque'[i] /\ UNCHANGED <<mode, goal>> /\ \A j \in Slots : torque'[j] => torque[j]
           /\ TorqueOn(i, acked) => /\ UNCHANGED <<mode, goal>>
                                    /\ \A j \in Slots : torque'[j] => torque[j] \/ (j = i /\ acked)
                                    /\ ~acked => ~torque'[i]
           /\ WriteGoal(i, 0, acked) => UNCHANGED <<torque, mode>> /\ ~Pushes(i)'
           /\ Ping(i, acked) => UNCHANGED <<torque, mode, goal>>
<1>0. lost' # lost + 1
  OBVIOUS
<1>1. ASSUME TorqueOff(i)
      PROVE  ~torque'[i] /\ UNCHANGED <<mode, goal>> /\ \A j \in Slots : torque'[j] => torque[j]
  BY <1>0, <1>1, TorqueOffSent DEF IInv
<1>2. ASSUME TorqueOn(i, acked)
      PROVE  /\ UNCHANGED <<mode, goal>>
             /\ \A j \in Slots : torque'[j] => torque[j] \/ (j = i /\ acked)
             /\ ~acked => ~torque'[i]
  <2>1. /\ acked = (there[i] /\ TRUE)
        /\ IF acked THEN SetTorque(i, TRUE) ELSE UNCHANGED servos
    BY <1>0, <1>2 DEF TorqueOn, Deliver
  <2>2. CASE acked
    BY <2>1, <2>2 DEF SetTorque, IInv, TypeOK
  <2>3. CASE ~acked
    <3>1. ~there[i] /\ UNCHANGED servos
      BY <2>1, <2>3
    <3>2. QED
      BY <2>3, <3>1 DEF servos, IInv, Powered
  <2>4. QED
    BY <2>2, <2>3
<1>3. ASSUME WriteGoal(i, 0, acked) PROVE UNCHANGED <<torque, mode>> /\ ~Pushes(i)'
  <2>1. /\ UNCHANGED <<torque, mode>>
        /\ acked => goal' = [goal EXCEPT ![i] = 0]
        /\ ~acked => ~there[i]
    BY <1>3, GoalWritten DEF Unheard
  <2>2. QED
    BY <2>1 DEF Pushes, IInv, TypeOK, Powered
<1>4. ASSUME Ping(i, acked) PROVE UNCHANGED <<torque, mode, goal>>
  BY <1>4, Pinged DEF servos
<1>5. QED
  BY <1>1, <1>2, <1>3, <1>4

\* setup() leaves every servo limp.
LEMMA BootLimp ==
    ASSUME IInv, Lossless, lost = 0, lost' = 0, BootPing \/ BootOff, ~Booting'
    PROVE  \A i \in Slots : ~torque'[i]
<1>1. slot \in Slots /\ NumServos \in Nat /\ Slots = 1..NumServos
  BY Facts DEF IInv, TypeOK, Slots
<1>2. slot = NumServos /\ Booting
  BY <1>1 DEF BootPing, BootOff, NextSlot, Goto, Booting
<1>3. \A i \in Slots : i # slot => ~torque[i]
  BY <1>1, <1>2 DEF IInv, Tracked, Lossless
<1>4. CASE BootOff
  BY <1>1, <1>3, <1>4, NothingLost DEF BootOff
<1>5. CASE BootPing
  <2>1. PICK acked \in BOOLEAN : Ping(slot, acked) /\ (acked => pc' = "bootOff")
    BY <1>5 DEF BootPing, Goto
  <2>2. ~acked
    BY <2>1 DEF Booting
  <2>3. ~there[slot] /\ UNCHANGED servos
    BY <1>1, <2>1, <2>2, Pinged DEF Unheard
  <2>4. QED
    BY <1>1, <1>3, <2>3 DEF servos, IInv, Powered
<1>6. QED
  BY <1>4, <1>5

\* Where CENTER is about to release a servo, a step other than its own leaves
\* what is held as it was, or drops it.
LEMMA HeldStep ==
    ASSUME IInv, Lossless, lost = 0, lost' = 0, [Next]_vars
    PROVE  Held'
<1> SUFFICES ASSUME ~Booting', NEW i \in Slots, torque'[i]
             PROVE  \/ active'[i] /\ mode'[i] = "current"
                    \/ pc' \in {"centerGoal", "centerRelease"} /\ i = slot'
  BY DEF Held
<1>1. /\ slot \in Slots /\ torque \in [Slots -> BOOLEAN] /\ active \in [Slots -> BOOLEAN]
      /\ mode \in [Slots -> {"current", "position"}]
  BY DEF IInv, TypeOK
<1>2. ~Booting => \A j \in Slots : torque[j] =>
        \/ active[j] /\ mode[j] = "current"
        \/ pc \in {"centerGoal", "centerRelease"} /\ j = slot
  BY DEF Lossless, Held
<1>3. CASE BootPing \/ BootOff
  BY <1>3, BootLimp
<1>4. CASE Watchdog \/ Idle \/ ReadOther \/ Commands
  BY <1>2, <1>4 DEF Watchdog, Idle, ReadOther, Commands, ReadFrame, ReadCenter, Goto, NoPacket, ff, servos, Booting
<1>5. CASE WatchdogZero
  <2>1. UNCHANGED <<torque, mode, active>>
    BY <1>1, <1>5, GoalWritten DEF WatchdogZero, NextSlot, Goto, NoPacket, servos, ff
  <2>2. QED
    BY <1>2, <1>5, <2>1 DEF WatchdogZero, Booting
<1>6. CASE DisableAll
  <2>1. UNCHANGED <<torque, mode, active>>
    BY <1>1, <1>6, GoalWritten DEF DisableAll, DisableGoal, NextSlot, AllDisabled, Goto, NoPacket, servos, ff
  <2>2. QED
    BY <1>2, <1>6, <2>1 DEF DisableAll, Booting
<1>7. CASE DisableAllOff \/ FfOff
  <2>1. TorqueOff(slot) /\ active' = [active EXCEPT ![slot] = FALSE] /\ pc \in {"disableAllOff", "ffOff"}
    BY <1>7 DEF DisableAllOff, FfOff, DisableTorque
  <2>2. ~torque'[slot] /\ UNCHANGED mode /\ \A j \in Slots : torque'[j] => torque[j]
    BY <1>1, <2>1, NothingLost
  <2>3. QED
    BY <1>1, <1>2, <2>1, <2>2 DEF Booting
<1>8. CASE FfSlot \/ FfGentle \/ FfGoal
  <2>1. UNCHANGED <<torque, mode, active>>
    BY <1>1, <1>8, GoalWritten DEF FfSlot, FfGentle, FfGoal, FfStep, DisableGoal, Goto, NoPacket, servos, ff
  <2>2. QED
    BY <1>2, <1>8, <2>1 DEF FfSlot, FfGentle, FfGoal, FfStep, Booting
<1>9. CASE FfPing
  BY <1>1, <1>2, <1>9, NothingLost DEF FfPing, FfStep, Booting
<1>10. CASE FfTorqueOff
  BY <1>1, <1>2, <1>10, NothingLost DEF FfTorqueOff, FfStep, Booting
<1>11. CASE FfMode
  <2>1. PICK acked \in BOOLEAN : WriteMode(slot, "current", acked)
    BY <1>11 DEF FfMode
  <2>2. /\ UNCHANGED <<torque, active>>
        /\ mode' = mode \/ (~torque[slot] /\ mode' = [mode EXCEPT ![slot] = "current"])
    BY <1>1, <1>11, <2>1, ModeWritten DEF FfMode, FfStep
  <2>3. QED
    BY <1>1, <1>2, <1>11, <2>2 DEF FfMode, FfStep, Booting
<1>12. CASE FfTorqueOn
  <2>1. PICK acked \in BOOLEAN : TorqueOn(slot, acked) /\ active' = [active EXCEPT ![slot] = acked]
    BY <1>12 DEF FfTorqueOn
  <2>2. /\ UNCHANGED mode /\ (~acked => ~torque'[slot])
        /\ \A j \in Slots : torque'[j] => torque[j] \/ (j = slot /\ acked)
    BY <1>1, <2>1, NothingLost
  <2>3. mode[slot] = "current" /\ pc = "ffTorqueOn"
    BY <1>12 DEF FfTorqueOn, Lossless, Enabling
  <2>4. CASE i = slot
    BY <1>1, <2>1, <2>2, <2>3, <2>4
  <2>5. CASE i # slot
    BY <1>1, <1>2, <2>1, <2>2, <2>3, <2>5 DEF Booting
  <2>6. QED
    BY <2>4, <2>5
<1>13. CASE CenterPing \/ CenterProfile
  BY <1>1, <1>2, <1>13, NothingLost DEF CenterPing, CenterProfile, CenterStep, ff, Booting
<1>14. CASE CenterTorqueOff
  BY <1>1, <1>2, <1>14, NothingLost DEF CenterTorqueOff, CenterStep, ff, Booting
<1>15. CASE CenterMode
  <2>1. PICK acked \in BOOLEAN : WriteMode(slot, "position", acked)
    BY <1>15 DEF CenterMode
  <2>2. /\ UNCHANGED <<torque, active>>
        /\ mode' = mode \/ (~torque[slot] /\ mode' = [mode EXCEPT ![slot] = "position"])
    BY <1>1, <1>15, <2>1, ModeWritten DEF CenterMode, CenterStep, ff
  <2>3. QED
    BY <1>1, <1>2, <1>15, <2>2 DEF CenterMode, CenterStep, Booting
<1>16. CASE CenterTorqueOn
  <2>1. PICK acked \in BOOLEAN : CenterStep("centerTorqueOn", "centerGoal", acked) /\ TorqueOn(slot, acked)
    BY <1>16 DEF CenterTorqueOn
  <2>2. /\ UNCHANGED mode /\ (~acked => ~torque'[slot])
        /\ \A j \in Slots : torque'[j] => torque[j] \/ (j = slot /\ acked)
    BY <1>1, <2>1, NothingLost
  <2>3. pc = "centerTorqueOn" /\ UNCHANGED active /\ (acked => pc' = "centerGoal" /\ slot' = slot)
    BY <2>1 DEF CenterStep, Goto, ff
  <2>4. QED
    BY <1>2, <2>2, <2>3 DEF Booting
<1>17. CASE CenterGoal
  <2>1. UNCHANGED <<torque, mode, active>> /\ pc = "centerGoal" /\ pc' = "centerRelease" /\ slot' = slot
    BY <1>1, <1>17, NothingLost DEF CenterGoal, CenterStep, Goto, ff
  <2>2. QED
    BY <1>2, <2>1 DEF Booting
<1>18. CASE CenterRelease
  BY <1>1, <1>2, <1>18, NothingLost DEF CenterRelease, ff, Booting
<1>19. CASE Tick \/ HostStops \/ UNCHANGED vars
  BY <1>2, <1>19 DEF Tick, HostStops, vars, where, servos, ff, Booting
<1>20. CASE Reset
  BY <1>20 DEF Reset, Booting
<1>21. CASE World
  <2>1. UNCHANGED <<mode, active, pc, slot>> /\ \A j \in Slots : torque'[j] => torque[j]
    BY <1>1, <1>21 DEF World, Unplug, Plug, where, ff
  <2>2. QED
    BY <1>2, <2>1 DEF Booting
<1>22. QED
  BY <1>3, <1>4, <1>5, <1>6, <1>7, <1>8, <1>9, <1>10, <1>11, <1>12, <1>13, <1>14, <1>15, <1>16, <1>17,
     <1>18, <1>19, <1>20, <1>21, Zenon DEF Next, Board

\* The torque is written to a slot in current mode only.
LEMMA EnablingStep ==
    ASSUME IInv, Lossless, lost = 0, lost' = 0, [Next]_vars
    PROVE  Enabling'
<1> SUFFICES ASSUME pc' \in {"ffGentle", "ffTorqueOn"} PROVE mode'[slot'] = "current"
  BY DEF Enabling
<1>1. slot \in Slots /\ mode \in [Slots -> {"current", "position"}]
  BY DEF IInv, TypeOK
<1>2. CASE FfMode
  <2>1. PICK acked \in BOOLEAN : FfStep("ffMode", "ffGentle", acked) /\ WriteMode(slot, "current", acked)
    BY <1>2 DEF FfMode
  <2>2. acked /\ slot' = slot
    BY <2>1 DEF FfStep, NextInFrame, FrameApplied, FrameDone, Goto
  <2>3. QED
    <3>1. mode' = [mode EXCEPT ![slot] = "current"]
      BY <1>1, <2>1, <2>2, ModeWritten
    <3>2. QED
      BY <1>1, <2>2, <3>1
<1>3. CASE FfGentle
  <2>1. UNCHANGED mode /\ pc = "ffGentle"
    BY <1>1, <1>3, GoalWritten DEF FfGentle, FfStep
  <2>2. slot' = slot
    BY <1>3 DEF FfGentle, FfStep, NextInFrame, FrameApplied, FrameDone, Goto
  <2>3. QED
    BY <2>1, <2>2 DEF Lossless, Enabling
<1>4. CASE BootPing \/ BootOff \/ Watchdog \/ WatchdogZero \/ DisableAll \/ DisableAllOff \/ Idle \/ ReadOther
  BY <1>4 DEF BootPing, BootOff, Watchdog, WatchdogZero, DisableAll, DisableAllOff, DisableGoal, AllDisabled,
              NextSlot, Goto, Idle, ReadOther
<1>5. CASE FfSlot \/ FfOff \/ FfPing \/ FfTorqueOff \/ FfTorqueOn \/ FfGoal
  BY <1>5 DEF FfSlot, FfOff, FfPing, FfTorqueOff, FfTorqueOn, FfGoal, FfStep, DisableGoal, NextInFrame,
              FrameApplied, FrameDone, Goto
<1>6. CASE CenterPing \/ CenterTorqueOff \/ CenterMode \/ CenterProfile \/ CenterTorqueOn \/ CenterGoal
           \/ CenterRelease
  BY <1>6 DEF CenterPing, CenterTorqueOff, CenterMode, CenterProfile, CenterTorqueOn, CenterGoal,
              CenterRelease, CenterStep, Goto
<1>7. CASE Commands \/ Reset
  BY <1>7 DEF Commands, ReadFrame, ReadCenter, Goto, Reset
<1>8. CASE Tick \/ HostStops \/ World \/ UNCHANGED vars
  BY <1>8 DEF Tick, HostStops, World, Unplug, Plug, where, servos, vars, Lossless, Enabling
<1>9. QED
  BY <1>2, <1>3, <1>4, <1>5, <1>6, <1>7, <1>8, Zenon DEF Next, Board

\* The push of a servo ends when the watchdog's zero is acknowledged, and no
\* step but a frame's goal starts one.
LEMMA ZeroingStep ==
    ASSUME IInv, Lossless, lost = 0, lost' = 0, [Next]_vars
    PROVE  Zeroing'
<1>1. slot \in Slots /\ NumServos \in Nat /\ Slots = 1..NumServos
  BY Facts DEF IInv, TypeOK, Slots
<1>2. ~FfGoal => Quiet
  <2>1. CASE Board
    BY <2>1, QuietBoard
  <2>2. CASE Commands \/ Tick \/ HostStops \/ Reset \/ UNCHANGED vars
    BY <2>2 DEF Commands, ReadFrame, ReadCenter, NoPacket, Tick, HostStops, Reset, vars, servos, Quiet, Pushes
  <2>3. CASE World
    BY <2>3 DEF World, Unplug, Plug, IInv, TypeOK, Quiet, Pushes
  <2>4. QED
    BY <2>1, <2>2, <2>3 DEF Next
<1>3. CASE WatchdogZero
  <2>1. ASSUME NEW i \in Slots, i = slot PROVE ~Pushes(i)'
    <3>1. CASE active[i]
      <4>1. PICK acked \in BOOLEAN : WriteGoal(i, 0, acked)
        BY <1>3, <2>1, <3>1 DEF WatchdogZero
      <4>2. QED
        BY <4>1, NothingLost
    <3>2. CASE ~active[i]
      <4>1. ~torque[i]
        BY <1>1, <1>3, <2>1, <3>2 DEF WatchdogZero, Lossless, Held, Booting
      <4>2. QED
        BY <1>2, <1>3, <1>1, <4>1 DEF WatchdogZero, FfGoal, Quiet, Pushes
    <3>3. QED
      BY <3>1, <3>2
  <2>2. \A i \in Slots : i <= slot => ~Pushes(i)'
    <3>1. Quiet /\ \A i \in Slots : i < slot => ~Pushes(i)
      BY <1>2, <1>3 DEF WatchdogZero, Lossless, Zeroing, FfGoal
    <3>2. ASSUME NEW i \in Slots, i <= slot PROVE i = slot \/ i < slot
      BY <1>1, <3>2
    <3>3. QED
      BY <2>1, <3>1, <3>2 DEF Quiet
  <2>3. \/ slot < NumServos /\ pc' = "zero" /\ slot' = slot + 1 /\ zeroed' = zeroed
        \/ slot = NumServos /\ pc' = "read"
    BY <1>1, <1>3 DEF WatchdogZero, NextSlot, Goto, ff
  <2>4. CASE slot = NumServos /\ pc' = "read"
    BY <1>1, <2>2, <2>4 DEF Zeroing
  <2>5. CASE slot < NumServos /\ pc' = "zero" /\ slot' = slot + 1 /\ zeroed' = zeroed
    <3>1. \A i \in Slots : i < slot' => ~Pushes(i)'
      BY <1>1, <2>2, <2>5
    <3>2. zeroed => \A i \in Slots : ~Pushes(i)'
      BY <1>2, <1>3 DEF WatchdogZero, Lossless, Zeroing, Quiet, FfGoal, Framing, Booting
    <3>3. QED
      BY <2>5, <3>1, <3>2 DEF Zeroing
  <2>6. QED
    BY <2>3, <2>4, <2>5
<1>4. ASSUME ~FfGoal, pc' # "zero", zeroed' => zeroed /\ ~Framing /\ ~Booting
      PROVE  Zeroing'
  BY <1>2, <1>4 DEF Zeroing, Quiet, Lossless
<1>5. CASE BootPing \/ BootOff
  <2>1. pc' # "zero"
    BY <1>5 DEF BootPing, BootOff, NextSlot, Goto
  <2>2. QED
    BY <1>5, <2>1, BootLimp DEF Zeroing, Pushes
<1>6. CASE Watchdog
  <2>1. slot' = 1 /\ zeroed' = zeroed /\ pc = "loop"
    BY <1>6 DEF Watchdog, Goto, ff
  <2>2. \A i \in Slots : ~(i < slot')
    BY <1>1, <2>1
  <2>3. QED
    BY <1>2, <2>1, <2>2 DEF Zeroing, Quiet, Lossless, FfGoal, Framing, Booting
<1>7. CASE DisableAll \/ DisableAllOff \/ Idle \/ ReadOther
  BY <1>4, <1>7 DEF DisableAll, DisableAllOff, DisableGoal, AllDisabled, NextSlot, Goto, Idle, ReadOther,
                    ff, FfGoal, Framing, Booting
<1>8. CASE FfSlot \/ FfOff \/ FfPing \/ FfTorqueOff \/ FfMode \/ FfGentle \/ FfTorqueOn \/ FfGoal
  <2>1. pc' # "zero" /\ (Framing' \/ ~zeroed')
    BY <1>8 DEF FfSlot, FfOff, FfPing, FfTorqueOff, FfMode, FfGentle, FfTorqueOn, FfGoal, FfStep,
                DisableGoal, NextInFrame, FrameApplied, FrameDone, Goto, Framing
  <2>2. QED
    BY <2>1 DEF Zeroing
<1>9. CASE CenterPing \/ CenterTorqueOff \/ CenterMode \/ CenterProfile \/ CenterTorqueOn \/ CenterGoal
           \/ CenterRelease
  BY <1>4, <1>9 DEF CenterPing, CenterTorqueOff, CenterMode, CenterProfile, CenterTorqueOn, CenterGoal,
                    CenterRelease, CenterStep, Goto, ff, FfGoal, Framing, Booting
<1>10. CASE Commands
  BY <1>4, <1>10 DEF Commands, ReadFrame, ReadCenter, Goto, ff, FfGoal, Framing, Booting
<1>11. CASE Reset
  BY <1>11 DEF Reset, Zeroing
<1>12. CASE Tick \/ HostStops \/ World \/ UNCHANGED vars
  <2>1. UNCHANGED <<pc, slot, zeroed>>
    BY <1>12 DEF Tick, HostStops, World, Unplug, Plug, where, ff, vars
  <2>2. Quiet
    BY <1>12 DEF Tick, HostStops, World, Unplug, Plug, servos, vars, IInv, TypeOK, Quiet, Pushes
  <2>3. QED
    BY <2>1, <2>2 DEF Zeroing, Lossless, Quiet, Framing, Booting
<1>13. QED
  BY <1>3, <1>5, <1>6, <1>7, <1>8, <1>9, <1>10, <1>11, <1>12, Zenon DEF Next, Board

LEMMA LosslessStep == IInv /\ Lossless /\ [Next]_vars => Lossless'
  BY LossIsCounted, HeldStep, EnablingStep, ZeroingStep DEF Lossless

LEMMA LosslessInit == Init => Lossless
  BY DEF Init, Lossless, Held, Enabling, Zeroing, Booting

\* The stages and what they mean on a bus that loses nothing hold in every state.
THEOREM WatchdogInvariant == Spec => [](IInv /\ Staged /\ Lossless)
<1>1. IInv /\ Staged /\ Lossless /\ [Next]_vars => (IInv /\ Staged /\ Lossless)'
  BY StepOK, StagedStep, LosslessStep
<1>2. QED
  BY <1>1, InitOK, StagedInit, LosslessInit, PTL DEF Spec

\* The watchdog comes before the next command: with a stale host no servo
\* pushes, and after the second stage none is energised.
THEOREM StaleHostIsSafe == Spec => []StaleIsSafe
<1>1. IInv /\ Staged /\ Lossless => StaleIsSafe
  <2>1. SUFFICES ASSUME IInv, Staged, Lossless, pc = "read", lost = 0
                 PROVE  /\ age >= ZeroAge => \A i \in Slots : ~Pushes(i)
                        /\ disabled => \A i \in Slots : ~torque[i]
    BY DEF StaleIsSafe
  <2>2. ~Framing /\ ~Booting
    BY <2>1 DEF Framing, Booting
  <2>3. disabled => \A i \in Slots : ~torque[i]
    BY <2>1, <2>2 DEF Staged, Lossless, Held
  <2>4. zeroed => \A i \in Slots : ~Pushes(i)
    BY <2>1, <2>2 DEF Lossless, Zeroing
  <2>5. age >= ZeroAge => zeroed \/ disabled
    BY <2>1, Facts DEF Staged, IInv, TypeOK
  <2>6. QED
    BY <2>3, <2>4, <2>5 DEF Pushes
<1>2. QED
  BY <1>1, WatchdogInvariant, PTL

\* Whichever way a CENTER ends, the servo it moved is limp or in current mode.
THEOREM CenterAlwaysLetsGo == Spec => []CenterLetsGo
<1>1. Lossless => CenterLetsGo
  BY DEF Lossless, Held, Booting, CenterLetsGo
<1>2. QED
  BY <1>1, WatchdogInvariant, PTL
=============================================================================
