---------------------------- MODULE OpenrbLeader ----------------------------
(***************************************************************************)
(* The firmware of the leader arm (src/firmware/openrb_leader/src/main.cpp) *)
(* that lets the host push force feedback into the operator's hand, and     *)
(* the servos on its Dynamixel bus.  One thread runs loop(): the force      *)
(* feedback watchdog, then at most one command of the host.  Every bus      *)
(* transaction is a step, so that a lost packet, a lost reply, an unplugged *)
(* servo, a reset of the board or the passing of time may come between any  *)
(* two of them.  The setup commands SCAN and REID are in LeaderSetup.       *)
(***************************************************************************)
EXTENDS Integers

CONSTANTS NumServos,   \* DXL_NUM_SERVOS
          MaxCurrent,  \* MAX_FF_CURRENT_MA
          Currents,    \* the currents a host may ask for
          ZeroAge,     \* FF_WATCHDOG_ZERO_MS, in ticks
          DisableAge,  \* FF_WATCHDOG_DISABLE_MS, in ticks
          Release,     \* FF_DISABLE_SENTINEL
          None,        \* no frame is being applied
          MaxLost,     \* bound on packets and replies lost on the bus
          MaxResets,   \* bound on resets of the board
          MaxUnplugs   \* bound on cables pulled

ASSUME LeaderAssumption ==
    /\ NumServos \in Nat \ {0} /\ MaxCurrent \in Nat
    /\ Currents \subseteq Int /\ Release \notin Int /\ None \notin [1..NumServos -> Currents \union {Release}]
    /\ ZeroAge \in Nat \ {0} /\ DisableAge \in Nat /\ ZeroAge < DisableAge
    /\ {MaxLost, MaxResets, MaxUnplugs} \subseteq Nat

Slots == 1..NumServos
Frames == [Slots -> Currents \union {Release}]
WithinCap == -MaxCurrent..MaxCurrent

VARIABLES
    there, torque, mode, goal,      \* the servos: plugged in, TORQUE_ENABLE, OPERATING_MODE, GOAL_CURRENT
    active, age, zeroed, disabled,  \* ff_active, the age of ff_last_update_ms, ff_zeroed, ff_disabled
    pc, slot, frame,                \* where the board is, the loop's i (or CENTER's id), the frame it applies
    host,                           \* the host is talking, or bytes of it are still queued
    lost, bootLost, resets, unplugs \* faults so far; bootLost: one hit the last setup()

servos == <<there, torque, mode, goal>>
ff     == <<active, age, zeroed, disabled>>
where  == <<pc, slot, frame>>
faults == <<lost, bootLost, resets, unplugs>>
vars   == <<servos, ff, where, host, faults>>

----------------------------------------------------------------------------
(* The bus.  A packet reaches a plugged servo and is answered, or it or its *)
(* answer is lost; the library reports both losses alike.  A write of the   *)
(* operating mode is refused while torque is on, and leaves a goal current   *)
(* the firmware cannot count on.                                            *)

Deliver(i, taken, Write, acked) ==
    \/ /\ acked = (there[i] /\ taken)
       /\ IF acked THEN Write ELSE UNCHANGED servos
       /\ UNCHANGED <<lost, bootLost>>
    \/ /\ there[i] /\ lost < MaxLost
       /\ ~acked
       /\ lost' = lost + 1
       /\ bootLost' = (bootLost \/ pc \in {"boot", "bootOff"})
       /\ \/ UNCHANGED servos
          \/ taken /\ Write

NoPacket == UNCHANGED <<servos, lost, bootLost>>

SetTorque(i, on) == torque' = [torque EXCEPT ![i] = on] /\ UNCHANGED <<there, mode, goal>>
SetMode(i, m)    == /\ mode' = [mode EXCEPT ![i] = m]
                    /\ \E c \in {0, MaxCurrent} : goal' = [goal EXCEPT ![i] = c]
                    /\ UNCHANGED <<there, torque>>
SetGoal(i, c)    == goal'   = [goal   EXCEPT ![i] = c]  /\ UNCHANGED <<there, torque, mode>>

Ping(i, acked)            == Deliver(i, TRUE, UNCHANGED servos, acked)
TorqueOn(i, acked)        == Deliver(i, TRUE, SetTorque(i, TRUE), acked)
WriteMode(i, m, acked)    == Deliver(i, ~torque[i], SetMode(i, m), acked)
WriteGoal(i, c, acked)    == Deliver(i, TRUE, SetGoal(i, c), acked)

\* Where the result of torqueOff() is ignored.
TorqueOff(i) == \E acked \in BOOLEAN : Deliver(i, TRUE, SetTorque(i, FALSE), acked)

\* Mutant of Clamp: the host's value goes to the servo as it is.
MutantClamp(c) == c

Clamp(c) == IF c > MaxCurrent THEN MaxCurrent ELSE IF c < -MaxCurrent THEN -MaxCurrent ELSE c

----------------------------------------------------------------------------
Goto(where_, i) == pc' = where_ /\ slot' = i /\ UNCHANGED frame

\* The next round of a loop over the slots, or what follows the loop.
NextSlot(again, Done) ==
    IF slot < NumServos THEN Goto(again, slot + 1) /\ UNCHANGED ff ELSE Done

\* setup(): torque off on every servo that answers.
BootPing ==
    /\ pc = "boot"
    /\ \E acked \in BOOLEAN :
         /\ Ping(slot, acked)
         /\ IF acked THEN Goto("bootOff", slot) /\ UNCHANGED ff
                     ELSE NextSlot("boot", Goto("loop", 1) /\ UNCHANGED ff)

BootOff ==
    /\ pc = "bootOff"
    /\ TorqueOff(slot)
    /\ NextSlot("boot", Goto("loop", 1) /\ UNCHANGED ff)

\* Mutant of Watchdog: one pass over the servos is taken to be enough.
MutantWatchdog ==
    /\ pc = "loop"
    /\ Goto(IF disabled \/ zeroed THEN "read" ELSE IF age >= ZeroAge THEN "zero" ELSE "read", 1)
    /\ NoPacket /\ UNCHANGED ff

\* ff_watchdog_tick(), the first thing loop() does.
Watchdog ==
    /\ pc = "loop"
    /\ Goto(IF disabled THEN "read"
            ELSE IF age >= DisableAge THEN "disableAll"
            ELSE IF age >= ZeroAge /\ ~zeroed THEN "zero"
            ELSE "read", 1)
    /\ NoPacket /\ UNCHANGED ff

WatchdogZero ==
    /\ pc = "zero"
    /\ IF active[slot] THEN \E acked \in BOOLEAN : WriteGoal(slot, 0, acked)
                       ELSE NoPacket
    /\ NextSlot("zero", Goto("read", 1) /\ zeroed' = TRUE /\ UNCHANGED <<active, age, disabled>>)

\* Mutant of DisableGoal: only the torque is written.
MutantDisableGoal(to) == active[slot] /\ NoPacket /\ Goto(to, slot) /\ UNCHANGED ff

\* ff_disable_slot(i) is two packets: the goal current, then the torque.
\* It serves the watchdog (ff_disable_all) and a frame with the sentinel.
DisableGoal(to) ==
    /\ active[slot]
    /\ \E acked \in BOOLEAN : WriteGoal(slot, 0, acked)
    /\ Goto(to, slot) /\ UNCHANGED ff

DisableTorque == TorqueOff(slot) /\ active' = [active EXCEPT ![slot] = FALSE]

AllDisabled == Goto("read", 1) /\ disabled' = TRUE /\ zeroed' = FALSE /\ UNCHANGED age

DisableAll ==
    /\ pc = "disableAll"
    /\ \/ DisableGoal("disableAllOff")
       \/ /\ ~active[slot]
          /\ NextSlot("disableAll", AllDisabled /\ UNCHANGED active)
          /\ NoPacket

DisableAllOff ==
    /\ pc = "disableAllOff"
    /\ DisableTorque
    /\ IF slot < NumServos THEN Goto("disableAll", slot + 1) /\ UNCHANGED <<age, zeroed, disabled>>
                           ELSE AllDisabled


----------------------------------------------------------------------------
(* The command loop() reads, if any.                                        *)

Idle == pc = "read" /\ Goto("loop", 1) /\ NoPacket /\ UNCHANGED ff

\* IDENT, POLL and unknown bytes, and a force feedback frame that is short,
\* miscounted or fails its CRC: no servo is written and the watchdog is not fed.
ReadOther == host /\ Idle

ReadFrame(f) ==
    /\ pc = "read" /\ host
    /\ pc' = "ff" /\ slot' = 1 /\ frame' = f
    /\ NoPacket /\ UNCHANGED ff

ReadCenter(i) ==
    /\ pc = "read" /\ host
    /\ Goto("centerPing", i)
    /\ NoPacket /\ UNCHANGED ff

----------------------------------------------------------------------------
(* handle_ff_current(), one slot after the other.                           *)

FrameDone == pc' = "loop" /\ slot' = 1 /\ frame' = None

\* Mutant of FrameApplied: ff_zeroed is not cleared.
MutantFrameApplied == FrameDone /\ age' = 0 /\ disabled' = FALSE /\ UNCHANGED zeroed

FrameApplied ==
    FrameDone /\ age' = 0 /\ zeroed' = FALSE /\ disabled' = FALSE

NextInFrame ==
    IF slot < NumServos THEN Goto("ff", slot + 1) /\ UNCHANGED <<age, zeroed, disabled>>
                        ELSE FrameApplied

FfSlot ==
    /\ pc = "ff"
    /\ \/ frame[slot] = Release /\ DisableGoal("ffOff")
       \/ frame[slot] = Release /\ ~active[slot] /\ NextInFrame /\ NoPacket /\ UNCHANGED active
       \/ /\ frame[slot] # Release
          /\ Goto(IF active[slot] THEN "ffGoal" ELSE "ffPing", slot)
          /\ NoPacket /\ UNCHANGED ff

FfOff == pc = "ffOff" /\ DisableTorque /\ NextInFrame

\* ff_enable_slot(i): a step that is not acknowledged leaves the slot inactive.
FfStep(at, next, acked) ==
    /\ pc = at
    /\ UNCHANGED active
    /\ IF acked THEN Goto(next, slot) /\ UNCHANGED <<age, zeroed, disabled>> ELSE NextInFrame

\* Mutant of FfMode: the goal current is not zeroed before the torque is on.
MutantFfMode == \E acked \in BOOLEAN : FfStep("ffMode", "ffTorqueOn", acked) /\ WriteMode(slot, "current", acked)

FfPing      == \E acked \in BOOLEAN : FfStep("ffPing", "ffTorqueOff", acked) /\ Ping(slot, acked)
FfTorqueOff == FfStep("ffTorqueOff", "ffMode", TRUE) /\ TorqueOff(slot)
FfMode      == \E acked \in BOOLEAN : FfStep("ffMode", "ffGentle", acked) /\ WriteMode(slot, "current", acked)
FfGentle    == \E acked \in BOOLEAN : FfStep("ffGentle", "ffTorqueOn", acked) /\ WriteGoal(slot, 0, acked)

FfTorqueOn ==
    /\ pc = "ffTorqueOn"
    /\ \E acked \in BOOLEAN :
         /\ TorqueOn(slot, acked)
         /\ active' = [active EXCEPT ![slot] = acked]
         /\ IF acked THEN Goto("ffGoal", slot) /\ UNCHANGED <<age, zeroed, disabled>> ELSE NextInFrame

FfGoal ==
    /\ pc = "ffGoal"
    /\ \E acked \in BOOLEAN : WriteGoal(slot, Clamp(frame[slot]), acked)
    /\ NextInFrame /\ UNCHANGED active

----------------------------------------------------------------------------
(* handle_center(): it returns early, leaving the torque as it is, when a    *)
(* write before the goal position is not acknowledged.  It blocks for up to  *)
(* CENTER_TIMEOUT_MS between the goal position and the release.             *)

CenterStep(at, next, acked) ==
    /\ pc = at
    /\ Goto(IF acked THEN next ELSE "loop", IF acked THEN slot ELSE 1)
    /\ UNCHANGED ff

\* Mutant of CenterGoal: it returns without the release.
MutantCenterGoal ==
    \E acked \in BOOLEAN : CenterStep("centerGoal", "loop", acked) /\ Ping(slot, acked)

CenterPing      == \E acked \in BOOLEAN : CenterStep("centerPing", "centerTorqueOff", acked) /\ Ping(slot, acked)
CenterTorqueOff == CenterStep("centerTorqueOff", "centerMode", TRUE) /\ TorqueOff(slot)
CenterMode      == \E acked \in BOOLEAN : CenterStep("centerMode", "centerProfile", acked) /\ WriteMode(slot, "position", acked)
CenterProfile   == \E acked \in BOOLEAN : CenterStep("centerProfile", "centerTorqueOn", acked) /\ Ping(slot, acked)
CenterTorqueOn  == \E acked \in BOOLEAN : CenterStep("centerTorqueOn", "centerGoal", acked) /\ TorqueOn(slot, acked)
CenterGoal      == \E acked \in BOOLEAN : CenterStep("centerGoal", "centerRelease", TRUE) /\ Ping(slot, acked)
CenterRelease   == pc = "centerRelease" /\ TorqueOff(slot) /\ Goto("loop", 1) /\ UNCHANGED ff

----------------------------------------------------------------------------
(* The rest of the world.                                                   *)

\* Time passes while the board works, but not between the watchdog's look at
\* the clock and the read that follows it.  ff_disabled hides the age.
Tick ==
    /\ pc # "read" /\ ~disabled /\ age < DisableAge
    /\ age' = age + 1
    /\ UNCHANGED <<servos, active, zeroed, disabled, where, host, faults>>

HostStops ==
    /\ host /\ host' = FALSE
    /\ UNCHANGED <<servos, ff, where, faults>>

\* A brown-out, or a host that opens the port again.  The servos keep their
\* supply, and the state they were in.
Reset ==
    /\ resets < MaxResets
    /\ resets' = resets + 1
    /\ pc' = "boot" /\ slot' = 1 /\ frame' = None /\ bootLost' = FALSE
    /\ active' = [i \in Slots |-> FALSE] /\ age' = DisableAge /\ zeroed' = FALSE /\ disabled' = TRUE
    /\ host' \in {host, TRUE}
    /\ UNCHANGED <<servos, lost, unplugs>>

Unplug(i) ==
    /\ there[i] /\ unplugs < MaxUnplugs
    /\ unplugs' = unplugs + 1
    /\ there' = [there EXCEPT ![i] = FALSE]
    /\ torque' = [torque EXCEPT ![i] = FALSE]
    /\ goal' = [goal EXCEPT ![i] = 0]
    /\ UNCHANGED <<mode, ff, where, host, lost, bootLost, resets>>

\* A servo takes longer to come up than any handler that addresses it.
Plug(i) ==
    /\ pc = "loop" /\ ~there[i]
    /\ there' = [there EXCEPT ![i] = TRUE]
    /\ UNCHANGED <<torque, mode, goal, ff, where, host, faults>>

----------------------------------------------------------------------------
Board ==
    \/ BootPing \/ BootOff
    \/ Watchdog \/ WatchdogZero \/ DisableAll \/ DisableAllOff
    \/ FfSlot \/ FfOff \/ FfPing \/ FfTorqueOff \/ FfMode \/ FfGentle \/ FfTorqueOn \/ FfGoal
    \/ CenterPing \/ CenterTorqueOff \/ CenterMode \/ CenterProfile
    \/ CenterTorqueOn \/ CenterGoal \/ CenterRelease
    \/ Idle \/ ReadOther

Commands == (\E f \in Frames : ReadFrame(f)) \/ (\E i \in Slots : ReadCenter(i))

World == (\E i \in Slots : Unplug(i) \/ Plug(i))

Next ==
    \/ (Board \/ Commands) /\ UNCHANGED <<host, resets, unplugs>>
    \/ Tick \/ HostStops \/ Reset \/ World

Init ==
    /\ pc = "boot" /\ slot = 1 /\ frame = None /\ bootLost = FALSE
    /\ active = [i \in Slots |-> FALSE] /\ age = DisableAge /\ zeroed = FALSE /\ disabled = TRUE
    /\ there \in [Slots -> BOOLEAN] /\ mode \in [Slots -> {"current", "position"}]
    /\ torque \in [Slots -> BOOLEAN] /\ goal \in [Slots -> {0, MaxCurrent}]
    /\ \A i \in Slots : torque[i] => there[i]
    /\ host = TRUE
    /\ lost = 0 /\ resets = 0 /\ unplugs = 0

\* loop() never stops, and neither does millis(), however short its rounds are.
Spec == Init /\ [][Next]_vars /\ WF_vars(Board /\ UNCHANGED <<host, resets, unplugs>>) /\ SF_vars(Tick)

----------------------------------------------------------------------------
PCs == {"boot", "bootOff", "loop", "zero", "disableAll", "disableAllOff", "read",
        "ff", "ffOff", "ffPing", "ffTorqueOff", "ffMode", "ffGentle", "ffTorqueOn", "ffGoal",
        "centerPing", "centerTorqueOff", "centerMode", "centerProfile",
        "centerTorqueOn", "centerGoal", "centerRelease"}

\* Types.  That every goal current is within +-MAX_FF_CURRENT_MA is the
\* firmware's clamp: the host's frames are not bounded.
TypeOK ==
    /\ there \in [Slots -> BOOLEAN] /\ torque \in [Slots -> BOOLEAN]
    /\ mode \in [Slots -> {"current", "position"}]
    /\ goal \in [Slots -> WithinCap]
    /\ active \in [Slots -> BOOLEAN] /\ age \in 0..DisableAge
    /\ zeroed \in BOOLEAN /\ disabled \in BOOLEAN
    /\ pc \in PCs /\ slot \in Slots /\ frame \in Frames \union {None}
    /\ host \in BOOLEAN /\ bootLost \in BOOLEAN
    /\ lost \in 0..MaxLost /\ resets \in 0..MaxResets /\ unplugs \in 0..MaxUnplugs

\* The servo pushes the operator's hand.
Pushes(i) == torque[i] /\ mode[i] = "current" /\ goal[i] # 0

Booting == pc \in {"boot", "bootOff"}

\* Every servo that pushes is one ff_active names, so the watchdog and the
\* sentinel can reach it: no single packet lost, and no sequence of unplugs
\* and resets, makes the firmware forget a servo that is driven.  (setup()
\* asks each servo once: a loss there is the exception.)
Accountable == ~Booting /\ lost <= 1 /\ ~bootLost => \A i \in Slots : Pushes(i) => active[i]

\* When the board turns to the host's next command with a stale host, no servo
\* pushes, and after the second stage none is energised at all: however long a
\* CENTER or a frame kept the loop from its watchdog, the watchdog comes first.
StaleIsSafe ==
    pc = "read" /\ lost = 0 =>
        /\ age >= ZeroAge => \A i \in Slots : ~Pushes(i)
        /\ disabled => \A i \in Slots : ~torque[i]

\* A CENTER never leaves a servo holding a position, on any of its returns,
\* whatever was unplugged or replugged meanwhile, unless the bus lost a packet.
CenterLetsGo ==
    pc \in {"loop", "read"} /\ lost = 0 => \A i \in Slots : torque[i] => mode[i] = "current"

\* A servo starts to push only with the current the frame being applied asks
\* of it, clamped, and never by the torque being switched on under an old goal:
\* it is energised first and pushed after.
SoftStart ==
    [][\A i \in Slots : Pushes(i)' /\ ~Pushes(i) =>
          /\ torque[i] /\ active[i]
          /\ frame # None /\ frame[i] # Release /\ goal'[i] = Clamp(frame[i])]_vars

\* Fire and forget: a host that falls silent, in the middle of anything, leaves
\* no servo pushing, even if the bus loses a packet to the release itself.
SilentHostReleases ==
    <>[](~host /\ lost <= 1 /\ ~bootLost) => <>[](\A i \in Slots : ~Pushes(i))
============================================================================
