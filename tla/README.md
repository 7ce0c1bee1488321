# Specifications of aizee

aizee is a mobile manipulator: a wheeled base, an arm and a gripper driven by
Robstride motors over CAN, a Rust motor controller, ZMQ clients that command it
(teleoperation, a policy, a demonstration collector), a wireless emergency stop,
and sensors. This directory holds TLA+ specifications of the parts whose
correctness depends on order, time and failure, the TLC configurations that
check them on small instances, and proofs of the main safety results.

Paths below are relative to `src/`; "main.rs" is
`rust/motor_control/src/main.rs` and "motor.rs" its neighbour, "main.cpp" is
`firmware/openrb_leader/src/main.cpp`, and "collect_demo.py" is in
`python/scripts`. `PROJECT.json` maps each definition to the lines it stands for.

## 1. Inventory

| Component | State | Operations | What makes it correct | Modelled by |
|---|---|---|---|---|
| Motor state machine (motor.rs) | `state`, last feedback, error count, two timestamps, targets | feedback, position and velocity targets, emergency stop, hold, two timeouts | targets within ratings; starts only from Enabled; a fault stays | `Motor` |
| Motor controller (main.rs, comms messages and sockets) | motors of both groups, emergency-stop latch, open sockets, the main loop's phase | one handler per command type, the arm and base ticks, watchdogs, telemetry | a stop holds; an armed motor is still; silence brings rest; no lurch; a silent motor trips | `ControlSystem`, abstractly `SafeMotion` |
| CAN transmit errors and recovery (main.rs) | per-bus error count, level, attempts; shared cooldowns; VBUS cursor | counted writes, socket reopen, link reset, exit | every remedy is tried, in order, spaced; a stuck bus always ends in an exit | `CanRecovery`, abstractly `RecoveryLadder` |
| Wireless emergency stop (firmware/estop, bridge.py) | button, last message and flag shared by two threads, serial lines, last command, ZMQ queue | radio callback, print loop, reconnecting reader | the bridge ends up agreeing with the button; no phantom stop | `EstopRelay` |
| Robstride codec (robstride.rs) | none (pure) | frames from targets, feedback from frames | clamping before scaling, no wrap, round trips | no |
| Demonstration collector (collect_demo.py) | teleop state, phase of the live replay, the bundle shared with the command-sender thread, e-stop flag, PUSH socket; recording | keys, GUI commands, the motor section of a tick, sender thread, telemetry, quitting | a parked arm is left alone; approached before it is tracked; a shutdown ends; quitting disarms | `Collector` |
| Leader arm firmware (openrb_leader/src/main.cpp) | `ff_active`, `ff_last_update_ms`, two watchdog stages; the servos' torque, mode and goal current | FF, CENTER, watchdog, setup(); SCAN and REID | no servo that pushes is forgotten; silence ends every push; soft start | `OpenrbLeader`, `LeaderSetup` |
| Leader setup wizard (openrb_setup_arm.py, openrb_leader.py) | current joint, skipped joints; the servos' ids and bauds | prompt, scan, reassign, verify | "ALL GOOD" is true; a failed attempt can be repeated | `LeaderSetup` |
| Teleoperation and other leader drivers | last leader pose, serial link | poll, map, send | clients: only their commands matter to the controller | environment (`Push`) |
| Policy node (act_policy_node.py) | action chunks with ages | predict, ensemble, clamp, send | every command within a step of the measured pose | no |
| Cameras, lidar, UPS, display, heartbeat | device handles | publish, reconnect | independent of the control path | no |
| Recording, calibration, training, web viewer | files, models | scripts run by hand, presentation | numeric or I/O | no |

**Interactions.** Clients push msgpack `CommandMessage`s on a ZMQ PULL socket;
the controller takes at most one per arm tick. Motors answer on CAN; recovery
disables motors and removes sockets under the handlers' feet. The bridge is one
more client, the collector another: it reads the leader arm over a serial port,
hears the stop from telemetry and from a hardware e-stop of its own, and sends
commands from two threads over one PUSH socket. systemd restarts the controller
when recovery exits. Nothing is persisted by the controller; the servos of the
leader arm keep their ids, bauds, modes and torque across a reset of its board.

**Hard behaviours.** The controller is one thread, so its ticks do not overlap,
but commands, motor faults, adapter failures and restarts fall between any two
of its phases, and blocking handlers (`enable_motor`, up to some hundred
milliseconds a motor) age the timestamps of every other motor. The receiver has
two threads without a lock. The recovery ladder keeps per-bus and shared state
in one loop. The collector's sender thread re-sends the last bundle at 100 Hz
while the main loop replaces it at 30. The leader's bus loses packets and
replies, which the firmware cannot tell apart and mostly does not look at, and
its watchdog shares one loop with commands that block for seconds.
`PROJECT.json` lists these hazards line by line with the
properties that cover them.

## 2. Modules

* **`Motor`** has no variables: each method of `struct Motor` is an operator
  from the record before the call to the record after. An `Instant` is the time
  since it, in arm periods, saturated just above the larger timeout.
* **`ControlSystem`** is the process. `pc` is the phase of the arm tick
  (`select`: between ticks, `read`: after `read_feedback` began, `recv`: after
  `check_safety`); each command handler is one action guarded by `Receive(op)`,
  which takes the command and applies the emergency-stop gate. `hw` is the mode
  each motor's hardware is in, which the controller learns from feedback only:
  a disable frame may be dropped and an enable attempt may be aborted, so `hw`
  and `state` can disagree. `RecoverSocket` and `RecoverLink` may strike any bus
  at the end of a base tick; which one is due is `CanRecovery`'s subject.
  Control frames are functions of the motors' records (`FrameVelocity`,
  `FrameTorque`), not state.
* **`SafeMotion`** is the promise to the operator: each motor off, armed,
  moving or faulted, with the stop latch. `ControlSystem` implements it under
  `latched <- eStop, mode <- MotionMode`.
* **`CanRecovery`** is `safe_write_frame`'s counter and
  `recover_can_if_needed`, one action per branch, visited bus by bus.
  `driven` (buses with active motors) abstracts the control traffic, `wedged`
  the adapters. **`RecoveryLadder`** is its abstraction: rungs climbed one at a
  time, surrender at the top.
* **`EstopRelay`** goes from the button to the controller's latch. The copies of
  the message in `onReceive` and in `loop()` are two steps each, in either
  order, since nothing orders them.
* **`Collector`** has the main loop, one action per section of a tick (`Keys`,
  `Gui`, `Motor`, `Telemetry`), the messages a handler has yet to send (`todo`),
  the sender thread (`Snapshot` under the lock, then `SenderSends`), and what
  stands around them: the hardware e-stop's reader, the telemetry receiver, and
  the controller reduced to what its answers depend on, the arm being off, on or
  running and the stop latch. `Send` drops what does not fit.
* **`OpenrbLeader`** is the force feedback half of the firmware. `pc` is the
  place in loop() and in the handler; each bus transaction is a step
  (`Deliver`), which reaches the servo and is answered, or is lost, or takes
  effect and its answer is lost.
* **`LeaderSetup`** composes the wizard, the firmware's SCAN and REID and the
  operator, who forgets servos on the bus and skips joints. `Transact` and the
  sweeps know that servos with one id and one baud answer at once.
* **`MCControlSystem`, `MCCanRecovery`** define the instances; the others are
  checked as they are.
* **`MotorLemmas`, `ControlSystemProofs`, `SafeMotionProofs`,
  `CanRecoveryProofs`, `EstopRelayProofs`, `OpenrbLeaderProofs`,
  `LeaderSetupProofs`, `CollectorProofs`** hold the theorems.

Operators named "Mutant of X" in a comment are plausible bugs in X's code; no
specification uses them. Replacing X by one of them must violate the property
that `PROJECT.json` pairs it with.

### Simplifications

* Floats are integers: only order, sign and clamping matter to the properties.
  NaN, which passes every limit check in motor.rs, is therefore not modelled.
* All motors share one set of limits and ratings; a motor without soft limits
  is one whose limits lie beyond every position.
* The Calibration and Unknown modes of a feedback frame are never commanded and
  are left out, as are gains, temperature, `fault_info`, telemetry and the
  battery average: nothing modelled reads them.
* The frames a blocking enable exchanges are not state; its possible outcomes
  (confirmed, failed, aborted; hardware on or off) and its duration are.
* A write that succeeds at its tenth retry is a write that succeeds.
* `Collector`: positions are left out, so whether the arm is at its target, a
  leader is present or a frame of the episode is due is open in every tick. The
  wait of up to 1.5 s for telemetry before E engages is not a step. `enable`
  and `disable` stand for the message kinds, whatever motors they name. The
  loop's variables are reset when it ends, so that states after it do not
  differ in them; `waited` is 0 outside a shutdown for the same reason. The
  sender thread makes at least one whole turn between two motor sections, which
  100 Hz against 30 justifies, and joining it succeeds within the second the
  code allows. A second Ctrl-C during the way out, keys R, Z, M, P and K, the
  drive axes, recording, and an episode that fails to load are left out; motor
  faults and the controller's watchdog are `ControlSystem`'s subject.
* `OpenrbLeader`: the profile writes of a CENTER are one packet. A servo is
  plugged in again only between two rounds of the loop. A write of the operating
  mode leaves a goal current of 0 or the limit, as the firmware cannot tell
  which. POLL, IDENT and the joystick write no servo and are one action,
  `ReadOther`. The age of the last frame matters only until the second stage.
* `LeaderSetup`: new servos carry ids among the joints' (other ids collide with
  nothing that matters). The first scan only warns. A failed scan, `--no-verify`
  and the torque-off at the end are left out. The servo asked for is always
  plugged in. A packet to servos with one id reaches all or none. After a failed
  REID the wizard is run again with `--start-at` that joint, after a failed
  verification from the first. `VerifyTries` is 2 in the run and 5 in the code
  (main.cpp:549).

## 3. What the runs check

| Run | Instance | Shows |
|---|---|---|
| `joint` (MCJoint) | one joint with its full record, limits 0..1, reported positions {0,2}, `ErrorLimit` 2, timeouts 1 and 2, `MaxBlock` 2, an inbox of 1, restarts | `TypeOK`, `TargetsWithinRatings`, `StartsOnlyOnAcceptedTarget`, `NoLurch`, `FaultIsSticky` |
| `robot` (MCRobot) | a wheel and a joint on two buses, timeouts 0, restarts | `EStopHoldsStill`, `ArmedIsStill`, `StartsOnlyOnAcceptedTarget`, `ImplementsSafeMotion` |
| `liveness` (MCLiveness) | one joint, five commands, an inbox of 2, fairness | `EStopTakesEffect`, `SilenceBringsRest`, `SilentMotorTrips` |
| `recovery` (MCCanRecovery) | two buses, threshold 2, cooldowns 1 and 2, two attempts each | `TypeOK`, `LostSocketStaysDue`, `ClimbsLadder`, `RemediesAreSpaced`, `StuckBusForcesExit` |
| `estop_relay` (MCEstopRelay) | two serial lines, one queued command | `TypeOK`, `RelayFollowsButton`, `LastMessageArrives`, `NoPhantomStop` |
| `leader` (MCLeader) | two servos, a request above the cap, watchdog ages 1 and 2; a lost packet, a reset, a cable pulled | `TypeOK`, `Accountable`, `StaleIsSafe`, `CenterLetsGo`, `SoftStart`, `SilentHostReleases` |
| `leader_setup` (MCSetup) | three servos, two bauds, two verification pings; two losses, two slips | `TypeOK`, `AllGoodIsComplete`, `AllGoodIsRight`, `SetupConverges` |
| `collector` (MCCollector) | a socket of 2, a shutdown of 1 tick, one stop of the robot or one change of the hardware e-stop, which may be pressed from the start | `TypeOK`, `ParkedIsQuiet`, `QuitDisarms`, `SoftEngage`, `ShutdownEnds` |
| `revive`, `mech_zero`, `collector_estop`, `estop_press` | see below | what a comment or document says and the code does not do |

**Why the bounds are enough.**
`joint`: a position beyond each kind of limit, a torque beyond the rating in
both signs, too few positions, missing velocities and an unknown motor are all
among the commands; two bad frames reach the fault and one does not; a blocking
handler of two periods outlasts the command timeout, and the feedback timeout
together with the period of a tick.
`robot`: two motors on two buses are the least with which a command touches one
group and not the other, a wheel rejects while the arm part is pending, and a
link reset hits one bus only. Timeouts of 0 make the watchdogs fire as early as
they can, and ages take two values only. Both runs constrain exploration to
`ArrivesLate`: a command pushed earlier in a tick changes nothing before the
receive phase (only that phase and a restart read the inbox, and a restart may
drop any prefix of it), so the states left out differ from explored ones in
their inbox alone, and nothing checked there mentions a waiting command outside
that phase.
`liveness`: an inbox of 2 lets a stop wait behind another command, the release
of the stop included.
`recovery`: two buses are the least that share a cooldown and the VBUS cursor;
a threshold of 2 distinguishes "one error" from "due"; the two cooldowns
differ, so that one can have run out without the other.
`estop_relay`: a line pair (JSON and diagnostic) fills the serial buffer, and
one queued command blocks the bridge.
`leader`: a second servo is what a loop over slots may forget while it works on
the first; one loss between any two packets, with a reset and a cable pulled,
is every single fault at every place, and the properties say which double
faults they leave out (`lost <= 1`). The two watchdog stages differ by a tick,
so that each can be due without the other.
`leader_setup`: three servos are the least in which a forgotten one takes the id
of a joint already done and of one still to come; two losses are needed to blind
both the wizard's scan and the firmware's own sweep, the exception
`AllGoodIsRight` names. Slips are bounded: an operator who for ever forgets a
servo never finishes.
`collector`: a socket of 2 is full after one handler, so a drop can hit the
enable, the pose or the disable; a shutdown of one tick has a first, a middle
and a last turn. One stop of the robot, or one change of the hardware e-stop
(a press, or the release of one that was pressed before the loop began), is
enough to fall between any two steps (`MaxEvents` bounds them together). The
longer queue and shutdown of the code (4; seconds), and any number of events,
are covered by the proofs for the safety properties.

**Fairness.** `ControlSystem`: the arm tick begins, `check_safety` runs and
every receive phase ends. These are branches of an endless `select!` over
interval timers in a process that does nothing else, and each handler
terminates (with the exception named in section 6). Nothing is assumed of the
clients, the motors, the frames or the recovery. `CanRecovery`: base ticks come
and run to their end, time passes, systemd restarts the process
(`Restart=on-failure`). Nothing is assumed of control frames, adapters or
operators, so `StuckBusForcesExit` rests on the VBUS poll alone. `EstopRelay`:
the two receiver threads, the bridge's loop and the controller's receive keep
running; the button, the radio and the plug do as they like, and the properties
that need messages or an open port say so in their hypotheses. `OpenrbLeader`:
the board's loop goes on, and time passes though the loop's rounds are shorter
than a tick (strong fairness of `Tick`, which is not enabled while a command
is being read); nothing of the host. `LeaderSetup`: the operator answers
prompts and the board works; slips and losses are bounded, not forbidden.
`Collector`: the main loop goes round and the sender thread is scheduled,
nothing of the operator, the robot, the telemetry or the GUI; quitting is always
possible and is one of the ways a shutdown ends.

Deadlock is checked except in `leader`, `leader_setup` and the two runs of
`Collector`, which really may stop: a quiet host with nothing plugged, a wizard
that has said "ALL GOOD", a collector that has left.

## 4. Where the code and its documents disagree

* **`revive`**: `recover_link` sets a bus's motors to Disabled, "user must
  re-enable" (main.rs:501), but `emergency_stop` (motor.rs:293) makes every
  motor Enabled, so a stop command makes those motors active again. They are
  then told to hold still (`ArmedIsStill`).
* **`mech_zero`**: messages.rs:90 says the handler refuses unless every named
  motor is disabled. It checks the software state; an enable aborted by a read
  error, or a dropped disable frame, leaves the hardware in Run mode with state
  Idle or Disabled, and the zero is sent.
* **`collector_estop`**: collect_demo.py:4213 says "E-stop cleared — return to
  READY, user must re-enable". In the ESTOP state the motor section (line 3828
  on) has no branch, the holder keeps its bundle and CmdTx goes on sending it;
  the stop leaves the motors Enabled (motor.rs:293). Once another client clears
  the stop, the next of these commands makes the arm run before the collector
  has noticed.
* **`estop_press`**: README.md:66 says the wireless stop "broadcasts stop to all
  motors"; the bridge sends JSON (bridge.py:84) and the controller decodes
  msgpack only (zmq_bridge.rs:41), so a press has no effect. `RelayFollowsButton`
  shows that everything up to the encoding works.

Seen while reading, and stated by no run:

* `total_recoveries` is documented as "exit at 10" (main.rs:157) and never
  counted or compared.
* collect_demo.py:3803 says the hardware e-stop skips "ALL motor commands so
  watchdog holds position"; the sender thread re-sends the holder all the while.
* collect_demo.py:2928 says that on E "the arm ramps toward the leader pose at a
  bounded rate (instead of snapping at full PD authority)". While the hardware
  e-stop is pressed (3814) the keys still change the state and main posts
  nothing, so E, H, H leads to TRACKING, and on the release the first motion
  command an enabled arm gets is the leader's pose, without the approach.
  `SoftEngage` names the release as an exception (`upset`).
* collect_demo.py:3342 says of replay_on "motors off until user arms"; no disable
  is sent. Line 3398 says that the live replay blocks the teleop keys; gamepad
  keys are read after that block (3446), so E and H, H under the replay lead to
  tracking without the slow approach once the replay is switched off
  (`SoftEngage` excludes that by `upset`), and key K is not in the blocked list
  at all, so a mechanical zero may be requested during a replay (3717).
* collect_demo.py:1995 says replay_off is "Rejected while motors are actively
  commanded"; it is accepted in PAUSED and DONE, which send a hold in every tick.
* The ESTOP state ends whenever a tick has no fresh telemetry (4208), and the
  disable sent on the way out is ignored by a controller that is stopped.
* openrb_setup_arm.py's docstring promises a follow-up scan after each
  assignment; there is one verification at the end. main.cpp:806 says a
  malformed REID is answered with NOT_FOUND, but it is carried out with id 0xFF.
  main.cpp:661 says `ff_enable_slot` "Returns true if the servo is now under
  current control", which it is not for a slot that is active and was replugged.

## 5. What is proved

All constants are arbitrary, under `MotorAssumption`, `ControlAssumption`,
`RecoveryAssumption`, `RelayAssumption`, `LeaderAssumption`, `SetupAssumption`
and `CollectorAssumption` (types,
positive limits of counts, the two motor groups disjoint, the first watchdog
stage before the second); `BusOf` and `Command` are any wiring and any set of commands.

* `ControlSystemProofs`: `TypeCorrect`, `EStopSafe`, `ArmedSafe`,
  `RatingsRespected`, `StartsSafely`, `FaultsStick`, `TargetsNeverLurch`. The
  invariant the runs check is not inductive: `ArmedIsStill` speaks of a wheel's velocity target while it is
  Enabled, but drive commands change that target in every other state. The
  strengthening `Sound` (per motor) and `IInv` say that a motor that is Enabled
  has no velocity target, whatever group it is in, and that none is Running
  while the stop is latched; every path into Enabled (a confirmed enable, an
  emergency stop) clears it and every path that sets it leaves Enabled.
  `MotorLemmas` states what each method of `Motor` preserves; the proof of a
  step then has one part per handler. The two action properties are about what
  a handler may not do to a motor, so each is one lemma per handler on top of
  `IInv`: `FaultsStick` splits the handlers into those that may clear a fault
  and those that only rewrite a record by a method that keeps `Error`
  (`StickyStep`); `TargetsNeverLurch` splits them into the commands that set a
  position target (`MotionSteady`), those that enable motors, which leave a
  Running one's target alone (`PowerSteady`), and the rest, the watchdog's hold included,
  which keep it (`TickSteady`, `OtherCommandsSteady`).
* `SafeMotionProofs`: `SafeMotionImplemented`, that `ControlSystem` implements
  `SafeMotion`. Each handler maps to one abstract action or a stutter; a bundle
  that starts both groups is one `Move`, an enable with several outcomes one
  `Arm`, a safety check one `Trip`. That a second emergency stop never has to be
  mapped is the gate at the head of `handle_command`.
* `CanRecoveryProofs`: `TypeCorrect` (no bus exceeds its attempts),
  `SocketsComeBack`, `LadderImplemented`, `CooldownsKept`. The invariant adds
  `Due` (a bus being visited is at the threshold) and `Rungs` (attempts against the level's limit,
  level 2 only after the exit). `CooldownsKept` shows per branch of a visit that
  a bus climbs at most one rung, on a cooldown that has run out, and starts it
  again; an escalation and the remedy it falls through to are one step.
* `EstopRelayProofs`: `TypeCorrect`, `PhantomStopsNever`. The latter is of the
  form "[] of the button => [] of the bridge", so the induction runs under the
  hypothesis that the button is not pressed. `NoStopSeen` says what may then be
  where: the empty message, which reads as a stop, only in a receiver whose flag
  is down and whose loop is idle; the message a callback is storing says SAFE, and
  so do the fields it has written; lines on the wire say SAFE.
* `OpenrbLeaderProofs`: `LeaderTyped`, `PushesAreTracked`,
  `PushesOnlyWhenAsked`, `StaleHostIsSafe`, `CenterAlwaysLetsGo`, for any number
  of servos. `Accountable` alone is not inductive: in the middle of a handler a servo may push that is not yet, or no
  longer, active. `Tracked` names the exceptions by place (the slot the loop is
  at, the packet that is out), `Progress` what each place knows of the slot and
  the frame, `Powered` that an unplugged servo has no torque, `BootInactive`
  that setup() starts with no slot active. The last two theorems need more:
  `Staged`, what the two watchdog stages and `ff_disabled` mean while the loop is
  outside a frame, and `Lossless`, that on a bus that has lost nothing an
  energised servo is an active one in current mode or the one a CENTER is moving
  (`Held`), is enabled in current mode (`Enabling`), and does not push once
  `ff_zeroed` is set (`Zeroing`).
* `LeaderSetupProofs`: `TypeCorrect`, `CompleteWhenGood`, `RightWhenGood`, for any
  number of joints. Completeness is a matter of counting: a verdict of ALL GOOD
  has heard every joint's id at the target baud (`AllNamed`; `HeardIsThere` says
  that what a sweep hears is there), and as many servos as joints bear each id
  once (`OneEach`). For rightness `MissedNothing` relates what a sweep has not
  heard to what was lost, and `RenamedAlike` says that then all servos on the bus
  are renamed to the joint's id. That an assigned servo has its own id is not
  preserved, as a later slip may rename it. `NoForeignCycle` is: every set of
  assigned joints whose servos' ids stay in the set has a servo with its own id,
  because renaming what is on the bus closes a chain at the joint's own servo.
  With the counting, the servos that bear a wrong id would be such a set.
* `CollectorProofs`: `CollectorTyped`, `ParkedArmIsQuiet`, `QuittingDisarms`,
  `EngagesSoftly`. `Quiet` counts the message in the sender's hand with those it has sent since
  the arm was parked. `Leaving` follows the last disable from main to the socket
  to the controller; it needs that the sender has ended before the last messages
  are made, and that a stopped robot has no running arm. `EngagesSoftly` is about
  the far end of a queue: whether tracking may be sent depends on what the arm
  will be once it has taken all that is before it. While nothing has upset the
  order that future is determined, so `Soft` says that a course exists, the
  states the arm goes through over the messages on the socket (`Course`), no
  tracking command meeting one that is "on", and that the collector's own state
  agrees with the course's end (`Agrees`): who tracks has a running arm and no
  disable under way, what the holder offers goes to an arm that is not off, a
  state that commands the arm is about to enable it or has done so. A send
  prolongs the course, a receive shortens it at the other end. The fact that
  makes `Agrees` inductive is that the thread makes a whole turn between two
  motor sections (`turn`): an idle, hold or approach pose reached the socket
  before tracking can take its place in the holder.

Only model-checked: the liveness properties (`EStopTakesEffect`,
`SilenceBringsRest`, `SilentMotorTrips`, `StuckBusForcesExit`,
`RelayFollowsButton`, `LastMessageArrives`, `SilentHostReleases`,
`SetupConverges`, `ShutdownEnds`); every invariant and action property of the
passing runs is proved. The proof system handles neither liveness under fairness nor ENABLED, nor induction over data through library
theorems with operator parameters, nor RECURSIVE operators (none is used).

## 6. Not modelled

* The drain loops of `enable_motor` end on `WouldBlock` only (main.rs:702,
  :724); with another persistent read error the handler never returns. Handlers
  are single steps here, so the models assume they end.
* The zero-force keepalives a blocking enable sends to Running joints
  (main.rs:663) are frames, not state. `clear_fault` (main.rs:1206) refreshes
  the timestamp of the motor it recovered but not of those it recovered before.
* A restart of the bridge repeats the button's state once (bridge.py:30), so it
  may release a stop another client asked for; a restart of the controller does
  not make the bridge repeat one.
* The codec is a pure function of one frame. Reading it shows that
  `parse_feedback` masks the error bits with 0x1F (robstride.rs:219) and so
  never reports bit 5, "uncalibrated".
* The policy node averages predictions and clamps the result, in floating
  point and without state another component sees.
* Clients other than the collector, sensors, displays, tools and the web viewer,
  as the inventory says.
* Most of the repository's C and C++ is the vendored board support package of
  the leader's board (firmware/openrb_leader/openrb150_bsp), with tens of
  thousands of lines of bootloader images as byte arrays. None of it is this
  system's logic; of the project's own firmware, the leader's main.cpp and the
  two halves of the wireless stop are modelled, the display's is not. Any count
  of mapped lines against all C and C++ lines is therefore small.

## 7. Plan

Proofs to add: the safety half of the liveness properties, each as an action
property or an invariant (that a queued emergency stop is never dropped and only
moves forward; that an age only grows until its watchdog has fired; that
each wizard attempt either assigns its joint or leaves the servo where an
attempt can start).

Models to add: `ControlSystem` with `CanRecovery` in one process, so that a
remedy happens only when due; `EstopRelay` with other clients and restarts of
either side.
