------------------------------ MODULE Collector ------------------------------
(***************************************************************************)
(* The demonstration collector (src/python/scripts/collect_demo.py): the    *)
(* main loop turns the operator's keys into motor commands, and a thread of *)
(* its own, CmdTx, sends the latest motion command again and again at 100   *)
(* Hz from a holder they share.  Both write to one PUSH socket.  Around     *)
(* them: the hardware e-stop's reader and the telemetry receiver, two more  *)
(* threads, and the motor controller, which takes the commands in order and *)
(* may be stopped by another client.  Positions are left out: what matters  *)
(* here is who commands the arm, when, and with what right.                 *)
(***************************************************************************)
EXTENDS Integers, Sequences

CONSTANTS QueueMax,    \* SNDHWM of the PUSH socket (4 in the code)
          MaxWait,     \* ticks a shutdown may take before it gives up waiting for the arm
          EstopPort,   \* --estop-port is given
          MaxEvents    \* bound on emergency stops of the robot and changes of
                       \* the hardware e-stop, together

ASSUME CollectorAssumption ==
    /\ QueueMax \in Nat \ {0} /\ MaxWait \in Nat
    /\ EstopPort \in BOOLEAN /\ MaxEvents \in Nat

VARIABLES
    pc, todo,            \* main: where it is in its tick; messages it has yet to send
    state, waited,       \* teleop_state; how long its shutdown has lasted, 0 when there is none
    live, phase, rwaited, \* the live replay: on?, its phase, and likewise
    holder,              \* _cmd_holder: "none", a static bundle ("pose"), or tracking ("track")
    sender, turn,        \* CmdTx: at its wait, holding a message, or done; its turn since main's last Motor
    stopTx,              \* _cmd_tx_stop
    flag,                \* _estop_flag
    telem,               \* _telem_cache holds a message main has not seen that says the robot is stopped
    chan,                \* the PUSH socket
    arm, eStop,          \* controller: the arm "off" (Disabled), "on" (Enabled), "running"; its latch
    parked, strays, dropped, upset,  \* history
    events

main       == <<pc, todo, state, waited>>
replay     == <<live, phase, rwaited>>
tx         == <<sender, turn, stopTx>>
controller == <<arm, eStop>>
faults     == <<dropped, upset>>
vars == <<main, replay, holder, tx, flag, telem, chan, controller,
          parked, strays, faults, events>>

Msg == {"enable", "disable", "pose", "track", "drive"}

TypeOK ==
    /\ pc \in {"input", "pad", "motor", "telem", "exit", "join", "last", "closed"}
    /\ todo \in Seq(Msg) /\ chan \in Seq(Msg) /\ Len(chan) <= QueueMax
    /\ state \in {"READY", "IDLE", "TRACKING", "HOLD", "ENGAGING", "SHUTDOWN", "ESTOP"}
    /\ phase \in {"READY", "ARMING", "PLAYING", "PAUSED", "DONE", "SHUTDOWN"}
    /\ waited \in 0..MaxWait + 1 /\ rwaited \in 0..MaxWait + 1
    /\ holder \in {"none", "pose", "track"} /\ sender \in {"wait", "pose", "track", "done"}
    /\ turn \in {"owed", "taken", "made"}
    /\ {live, stopTx, flag, telem, eStop, parked, dropped, upset} \subseteq BOOLEAN
    /\ arm \in {"off", "on", "running"}
    /\ strays \in 0..2
    /\ events \in 0..MaxEvents

----------------------------------------------------------------------------
(* The socket drops a message when it is full (zmq.Again is swallowed).     *)
Send(m) ==
    IF Len(chan) < QueueMax
      THEN chan' = Append(chan, m) /\ UNCHANGED faults
      ELSE dropped' = TRUE /\ upset' = TRUE /\ UNCHANGED chan

\* main sends the messages of a handler one by one; CmdTx may get between.
Flush ==
    /\ todo # <<>>
    /\ Send(Head(todo))
    /\ todo' = Tail(todo)
    /\ UNCHANGED <<pc, state, waited, replay, holder, tx, flag, telem, controller,
                   parked, strays, events>>

Left == {"exit", "join", "last", "closed"}

At(here) == pc = here /\ todo = <<>>

----------------------------------------------------------------------------
(* Keys: from the keyboard or the GUI, which are not heard while the live   *)
(* replay owns the arm, or from the gamepad, which is.                      *)

Keyboard == pc = "input" /\ ~live

Handled(s, msgs) == state' = s /\ todo' = msgs

\* Mutant of Engaged: tracking starts without the slow approach.
MutantEngaged == {"TRACKING", "HOLD"}

\* What E leads to: an approach to the leader, or a hold when there is none.
Engaged == {"ENGAGING", "HOLD"}

\* A collector that knows no position yet enables and idles the arm first.
KeyE == /\ state \in {"READY", "IDLE"}
        /\ \E s \in Engaged, msgs \in {<<"enable">>, <<"enable", "pose", "enable">>} :
             Handled(s, msgs)
        /\ UNCHANGED waited

Idle(from) == /\ Keyboard /\ state \in from
              /\ Handled("IDLE", <<"enable", "pose">>)
              /\ UNCHANGED waited

KeyI   == Idle({"READY", "IDLE"})
PedalB == Idle({"TRACKING", "ENGAGING", "HOLD"})

KeyH == /\ \/ state \in {"TRACKING", "ENGAGING", "IDLE"} /\ Handled("HOLD", <<>>)
           \/ state = "HOLD" /\ \E s \in {"TRACKING", "IDLE"} : Handled(s, <<>>)
        /\ UNCHANGED waited

KeyX == /\ state \in {"TRACKING", "HOLD", "IDLE", "ENGAGING"}
        /\ Handled("SHUTDOWN", <<>>) /\ waited' = 0

CancelShutdown == state = "SHUTDOWN" /\ Handled("HOLD", <<>>) /\ waited' = 0

NoKey == UNCHANGED <<state, todo, waited>>

Keys ==
    /\ At("input") \/ At("pad")
    /\ \/ pc' = "motor" /\ (NoKey \/ KeyE \/ KeyI \/ PedalB \/ KeyH \/ KeyX \/ CancelShutdown)
       \/ pc' = "exit" /\ NoKey
    /\ upset' = (upset \/ (live /\ state' # state))
    /\ UNCHANGED <<dropped, replay, holder, tx, flag, telem, chan, controller, parked, strays, events>>

----------------------------------------------------------------------------
(* The live replay's commands, from the GUI. *)

ReplayOn  == /\ live' = TRUE /\ phase' = "READY" /\ rwaited' = 0
             /\ Handled("READY", <<>>) /\ waited' = 0

ReplayOff == /\ phase \notin {"ARMING", "PLAYING", "SHUTDOWN"}
             /\ live' = FALSE /\ phase' = "READY" /\ UNCHANGED <<rwaited, state, todo, waited>>

\* To the start pose first, or straight to the episode.
StartsPlaying(msgs) ==
    /\ phase' \in {"ARMING", "PLAYING"} /\ todo' = msgs
    /\ UNCHANGED <<live, rwaited, state, waited>>

ReplayArm == live /\ phase # "SHUTDOWN" /\ StartsPlaying(<<"enable">>)

ReplayPlay ==
    /\ live
    /\ \/ phase \in {"READY", "DONE"} /\ StartsPlaying(<<"enable">>)
       \/ phase = "PAUSED" /\ phase' = "PLAYING" /\ UNCHANGED <<live, rwaited, state, todo, waited>>

ReplayPause == live /\ phase = "PLAYING" /\ phase' = "PAUSED" /\ UNCHANGED <<live, rwaited, state, todo, waited>>

ReplayRestart ==
    /\ live /\ phase # "SHUTDOWN"
    /\ StartsPlaying(IF phase \in {"ARMING", "PLAYING"} THEN <<>> ELSE <<"enable">>)

ReplayStop == /\ live /\ phase \notin {"SHUTDOWN", "READY"}
              /\ phase' = "SHUTDOWN" /\ rwaited' = 0 /\ UNCHANGED <<live, state, todo, waited>>

\* replay_toggle is pause or play.
Gui ==
    /\ At("input") /\ pc' = "pad"
    /\ ReplayOn \/ ReplayOff \/ ReplayArm \/ ReplayPlay \/ ReplayPause \/ ReplayRestart \/ ReplayStop
    /\ UNCHANGED <<holder, tx, flag, telem, chan, controller, parked, strays, faults, events>>

----------------------------------------------------------------------------
(* The motor commands of a tick. *)

Post(h) == holder' = h /\ parked' = FALSE /\ strays' = 0
Park    == holder' = "none" /\ parked' = TRUE /\ strays' = IF parked THEN strays ELSE 0

\* Mutant of TimedOut: a shutdown waits for the arm for ever.
MutantTimedOut(w) == FALSE

TimedOut(w) == w > MaxWait

\* A shutdown holds the arm, ramps it to zero and ends when the arm is there,
\* or when it has waited long enough.
Over(w, there) == w > 0 /\ (there \/ TimedOut(w))

\* Mutant of TeleopShutdown: the time spent waiting is not kept.
MutantTeleopShutdown ==
    \E there \in BOOLEAN :
      IF Over(waited, there)
        THEN Park /\ Handled("READY", <<"disable">>) /\ waited' = 0
        ELSE Post("pose") /\ waited' = 1 /\ UNCHANGED <<state, todo>>

TeleopShutdown ==
    \E there \in BOOLEAN :
      IF Over(waited, there)
        THEN Park /\ Handled("READY", <<"disable">>) /\ waited' = 0
        ELSE Post("pose") /\ waited' = waited + 1 /\ UNCHANGED <<state, todo>>

Teleop ==
    \/ state = "READY" /\ Park /\ UNCHANGED <<state, todo, waited>>
    \/ state = "SHUTDOWN" /\ TeleopShutdown
    \/ state \in {"IDLE", "HOLD"} /\ Post("pose") /\ UNCHANGED <<state, todo, waited>>
    \/ /\ state = "ENGAGING" /\ Post("pose")
       /\ state' \in {"ENGAGING", "TRACKING"} /\ UNCHANGED <<todo, waited>>
    \/ state = "TRACKING" /\ Post("track") /\ UNCHANGED <<state, todo, waited>>
    \/ state = "ESTOP" /\ UNCHANGED <<state, todo, waited, holder, parked, strays>>

\* _LiveReplay.step(): a frame of the episode is not due in every tick.
ReplayStep ==
    \/ phase = "READY" /\ todo' = <<>> /\ UNCHANGED <<phase, rwaited>>
    \/ phase = "ARMING" /\ todo' = <<"pose">> /\ phase' \in {"ARMING", "PLAYING"} /\ UNCHANGED rwaited
    \/ /\ phase = "PLAYING"
       /\ \/ todo' = <<>> /\ UNCHANGED phase
          \/ todo' = <<"pose">> /\ phase' \in {"PLAYING", "DONE"}
       /\ UNCHANGED rwaited
    \/ phase \in {"PAUSED", "DONE"} /\ todo' = <<"pose">> /\ UNCHANGED <<phase, rwaited>>
    \/ /\ phase = "SHUTDOWN"
       /\ \E there \in BOOLEAN :
            IF Over(rwaited, there)
              THEN todo' = <<"disable">> /\ phase' = "READY" /\ rwaited' = 0
              ELSE todo' = <<"pose">> /\ rwaited' = rwaited + 1 /\ UNCHANGED phase

\* Mutant of LiveTick: the holder is left as it is.
MutantLiveTick == ReplayStep /\ parked' = TRUE /\ strays' = (IF parked THEN strays ELSE 0)
                  /\ UNCHANGED <<holder, live, state, waited>>

LiveTick == Park /\ ReplayStep /\ UNCHANGED <<live, state, waited>>

\* Under the hardware e-stop main sends and posts nothing, and leaves the
\* holder to CmdTx as it is.  CmdTx runs at 100 Hz, main at 30: CmdTx makes a
\* whole turn between two of main's.
Motor ==
    /\ At("motor") /\ pc' = "telem"
    /\ turn = "made" /\ turn' = "owed"
    /\ \/ /\ flag /\ parked' = FALSE /\ strays' = 0
          /\ UNCHANGED <<state, todo, waited, replay, holder>>
       \/ ~flag /\ live /\ LiveTick
       \/ ~flag /\ ~live /\ Teleop /\ UNCHANGED replay
    /\ UNCHANGED <<sender, stopTx, flag, telem, chan, controller, faults, events>>

\* A tick ends with the telemetry.  No new telemetry counts as no stop.
Telemetry ==
    /\ At("telem") /\ pc' = "input"
    /\ telem' = FALSE
    /\ state' = IF telem THEN "ESTOP" ELSE IF state = "ESTOP" THEN "READY" ELSE state
    /\ waited' = IF telem THEN 0 ELSE waited
    /\ UNCHANGED <<todo, replay, holder, tx, flag, chan, controller,
                   parked, strays, faults, events>>

----------------------------------------------------------------------------
(* The way out: Q, or Ctrl-C anywhere in a tick. *)

Interrupt ==
    /\ pc \in {"input", "pad", "motor", "telem"}
    /\ pc' = "exit" /\ todo' = <<>>
    /\ UNCHANGED <<state, waited, replay, holder, tx, flag, telem, chan, controller,
                   parked, strays, faults, events>>

\* The loop's own state is of no use any more.
StopCmdTx ==
    /\ At("exit") /\ pc' = "join"
    /\ holder' = "none" /\ stopTx' = TRUE /\ turn' = "made"
    /\ state' = "READY" /\ waited' = 0 /\ live' = FALSE /\ phase' = "READY" /\ rwaited' = 0
    /\ flag' = FALSE /\ telem' = FALSE /\ parked' = FALSE /\ strays' = 0
    /\ UNCHANGED <<todo, sender, chan, controller, faults, events>>

\* Mutant of Joined: main does not wait for the thread.
MutantJoined == TRUE

Joined == sender = "done"

Join ==
    /\ At("join") /\ Joined
    /\ pc' = "last" /\ todo' = <<"drive", "disable">>
    /\ UNCHANGED <<state, waited, replay, holder, tx, flag, telem, chan, controller,
                   parked, strays, faults, events>>

\* LINGER is 0: what has not left after 0.1 s is discarded.
Close ==
    /\ At("last") /\ pc' = "closed"
    /\ \E n \in 0..Len(chan) :
         /\ chan' = SubSeq(chan, 1, n)
         /\ dropped' = (dropped \/ n < Len(chan)) /\ upset' = (upset \/ n < Len(chan))
    /\ UNCHANGED <<todo, state, waited, replay, holder, tx, flag, telem, controller,
                   parked, strays, events>>

----------------------------------------------------------------------------
(* CmdTx: a snapshot of the holder under its lock, then the send.  Tracking *)
(* sends nothing while there is no sample of the leader.                    *)

Taken == IF holder = "track" THEN {"track", "none"} ELSE {holder}

Snapshot ==
    /\ sender = "wait" /\ ~stopTx
    /\ \E m \in Taken :
         IF m = "none" THEN turn' = "made" /\ UNCHANGED sender
         ELSE sender' = m /\ turn' = IF turn = "owed" THEN "taken" ELSE turn
    /\ UNCHANGED <<main, replay, holder, stopTx, flag, telem, chan, controller,
                   parked, strays, faults, events>>

SenderSends ==
    /\ sender \in {"pose", "track"}
    /\ Send(sender) /\ sender' = "wait"
    /\ turn' = IF turn = "taken" THEN "made" ELSE turn
    /\ strays' = IF parked /\ strays < 2 THEN strays + 1 ELSE strays
    /\ UNCHANGED <<main, replay, holder, stopTx, flag, telem, controller, parked, events>>

SenderEnds ==
    /\ sender = "wait" /\ stopTx
    /\ sender' = "done"
    /\ UNCHANGED <<main, replay, holder, turn, stopTx, flag, telem, chan, controller,
                   parked, strays, faults, events>>

----------------------------------------------------------------------------
(* The rest of the robot. *)

\* The controller takes a command; while it is stopped it ignores all of
\* these.  Enabling may fail.  Motion makes an enabled arm run.
Receive ==
    /\ chan # <<>> /\ chan' = Tail(chan)
    /\ LET m == Head(chan) IN
       \/ eStop /\ UNCHANGED <<arm, faults>>
       \/ ~eStop /\ m = "enable" /\ arm # "off" /\ UNCHANGED <<arm, faults>>
       \/ ~eStop /\ m = "enable" /\ arm = "off" /\ arm' = "on" /\ UNCHANGED faults
       \/ ~eStop /\ m = "enable" /\ arm = "off" /\ upset' = TRUE /\ UNCHANGED <<arm, dropped>>
       \/ ~eStop /\ m = "disable" /\ arm' = "off" /\ UNCHANGED faults
       \/ ~eStop /\ m \in {"pose", "track"} /\ UNCHANGED faults
          /\ arm' = IF arm = "on" THEN "running" ELSE arm
       \/ ~eStop /\ m = "drive" /\ UNCHANGED <<arm, faults>>
    /\ UNCHANGED <<main, replay, holder, tx, flag, telem, eStop, parked, strays, events>>

\* Another client stops the robot: every motor becomes Enabled.
EmergencyStop ==
    /\ ~eStop /\ events < MaxEvents
    /\ eStop' = TRUE /\ arm' = "on" /\ events' = events + 1
    /\ upset' = TRUE /\ UNCHANGED dropped
    /\ UNCHANGED <<main, replay, holder, tx, flag, telem, chan, parked, strays>>

ClearEmergencyStop ==
    /\ eStop /\ eStop' = FALSE
    /\ UNCHANGED <<main, replay, holder, tx, flag, telem, chan, arm, parked, strays, faults, events>>

TelemetryArrives ==
    /\ pc \notin Left /\ telem' = eStop
    /\ UNCHANGED <<main, replay, holder, tx, flag, chan, controller, parked, strays, faults, events>>

\* Pressed, or released: only a release may upset the order of commands.
HardwareEstop ==
    /\ EstopPort /\ pc \notin Left /\ events < MaxEvents
    /\ flag' = ~flag /\ events' = events + 1
    /\ upset' = (upset \/ flag) /\ UNCHANGED dropped
    /\ UNCHANGED <<main, replay, holder, tx, telem, chan, controller, parked, strays>>

----------------------------------------------------------------------------
Init ==
    /\ pc = "input" /\ todo = <<>> /\ state = "READY" /\ waited = 0
    /\ live = FALSE /\ phase = "READY" /\ rwaited = 0
    /\ holder = "none" /\ sender = "wait" /\ turn = "made" /\ stopTx = FALSE
    /\ flag \in {FALSE, EstopPort}  \* its reader runs before the loop does
    /\ telem = FALSE
    /\ chan = <<>> /\ arm = "off" /\ eStop = FALSE
    /\ parked = TRUE /\ strays = 0 /\ dropped = FALSE /\ upset = FALSE
    /\ events = 0

Main  == Flush \/ Keys \/ Gui \/ Motor \/ Telemetry \/ Interrupt \/ StopCmdTx \/ Join \/ Close
CmdTx == Snapshot \/ SenderSends \/ SenderEnds
Robot == Receive \/ EmergencyStop \/ ClearEmergencyStop \/ TelemetryArrives \/ HardwareEstop

Next == Main \/ CmdTx \/ Robot

\* The operator need not leave, the loop goes round and the thread is scheduled.
Spec == Init /\ [][Next]_vars /\ WF_vars(Main) /\ WF_vars(CmdTx)

----------------------------------------------------------------------------
\* Once main has parked the arm - in READY, at the end of a shutdown, under
\* the live replay - CmdTx puts at most one more command on the socket, the
\* one it had already taken from the holder.
ParkedIsQuiet == parked => strays <= 1

\* An arm that was just enabled is not set in motion by a tracking command:
\* the slow approach, a hold or an idle pose comes first, however sends and
\* keys interleave - unless a command was dropped, an enable failed, the robot
\* was stopped, or the hardware e-stop was released.  While that is pressed the
\* keys work and main posts nothing, so E, H, H and a release skip the approach.
SoftEngage ==
    [][arm = "on" /\ arm' = "running" /\ Head(chan) = "track" => upset]_vars

\* After the collector has left and its last commands are taken, nothing it
\* sent keeps the arm running, unless the socket lost the commands.
QuitDisarms == pc = "closed" /\ chan = <<>> /\ ~dropped => arm # "running"

\* A shutdown ends, though the arm may never get to zero and the operator do
\* nothing: the arm is disabled or somebody else has it.  It does not end
\* under the hardware e-stop, which suspends it, or while a replay runs.
ShutdownEnds == state = "SHUTDOWN" ~> state # "SHUTDOWN" \/ flag \/ live

\* "E-stop cleared - return to READY, user must re-enable": while the
\* collector shows a stop, the arm does not start to move.
UserMustReenable == [][state = "ESTOP" => ~(arm # "running" /\ arm' = "running")]_vars
=============================================================================
