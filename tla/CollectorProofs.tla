--------------------------- MODULE CollectorProofs ---------------------------
(***************************************************************************)
(* Proofs about Collector, for every size of the socket, length of a        *)
(* shutdown and number of events: its types, that a parked arm is left       *)
(* alone, that quitting disarms the arm, and that tracking never starts it. *)
(***************************************************************************)
EXTENDS Collector, TLAPS

USE CollectorAssumption

\* Which action a step takes.
LEMMA Cases ==
    ASSUME [Next]_vars
    PROVE  \/ Flush \/ Keys \/ Gui \/ Motor \/ Telemetry \/ Interrupt \/ StopCmdTx \/ Join \/ Close
           \/ Snapshot \/ SenderSends \/ SenderEnds
           \/ Receive \/ EmergencyStop \/ ClearEmergencyStop \/ TelemetryArrives \/ HardwareEstop
           \/ UNCHANGED vars
BY DEF Next, Main, CmdTx, Robot

----------------------------------------------------------------------------
(* Sequences of messages. *)

LEMMA AppendProps ==
    ASSUME NEW s \in Seq(Msg), NEW m \in Msg
    PROVE  /\ Append(s, m) \in Seq(Msg)
           /\ Len(Append(s, m)) = Len(s) + 1
           /\ Append(s, m) # <<>>
           /\ Append(s, m)[Len(s) + 1] = m
OBVIOUS

LEMMA LenZero == ASSUME NEW s \in Seq(Msg) PROVE Len(s) \in Nat /\ (Len(s) = 0 <=> s = <<>>)
OBVIOUS

LEMMA Literals ==
    /\ Msg = {"enable", "disable", "pose", "track", "drive"}
    /\ <<>> \in Seq(Msg) /\ <<"enable">> \in Seq(Msg) /\ <<"disable">> \in Seq(Msg)
    /\ <<"pose">> \in Seq(Msg) /\ <<"enable", "pose">> \in Seq(Msg)
    /\ <<"enable", "pose", "enable">> \in Seq(Msg) /\ <<"drive", "disable">> \in Seq(Msg)
BY DEF Msg

\* Taking a message leaves the last one last.
LEMMA TailProps ==
    ASSUME NEW s \in Seq(Msg), s # <<>>
    PROVE  /\ Head(s) \in Msg /\ Tail(s) \in Seq(Msg)
           /\ Len(Tail(s)) = Len(s) - 1
           /\ Tail(s) # <<>> => Tail(s)[Len(Tail(s))] = s[Len(s)]
           /\ Tail(s) = <<>> => Head(s) = s[Len(s)]
<1>1. /\ Head(s) \in Msg /\ Tail(s) \in Seq(Msg)
      /\ Len(Tail(s)) = Len(s) - 1 /\ Head(s) = s[1]
  OBVIOUS
<1>2. ASSUME Tail(s) = <<>> PROVE Len(s) = 1
  <2>1. Len(Tail(s)) = 0 BY <1>1, <1>2, LenZero
  <2>2. Len(s) \in Nat /\ Len(Tail(s)) = Len(s) - 1 BY <1>1, LenZero
  <2>3. QED BY <2>1, <2>2
<1>3. ASSUME Tail(s) # <<>> PROVE Tail(s)[Len(Tail(s))] = s[Len(s)]
  BY <1>1, <1>3
<1>q. QED BY <1>1, <1>2, <1>3

\* What close() leaves of the socket.
LEMMA PrefixProps ==
    ASSUME NEW s \in Seq(Msg), NEW n \in 0..Len(s)
    PROVE  /\ SubSeq(s, 1, n) \in Seq(Msg) /\ Len(SubSeq(s, 1, n)) = n
           /\ n = Len(s) => SubSeq(s, 1, n) = s
OBVIOUS

\* What Send() does to the socket.
LEMMA SendProps ==
    ASSUME NEW m \in Msg, chan \in Seq(Msg), Len(chan) <= QueueMax, Send(m)
    PROVE  /\ chan' \in Seq(Msg) /\ Len(chan') <= QueueMax
           /\ \/ chan' = Append(chan, m) /\ dropped' = dropped
              \/ dropped' = TRUE
<1>1. CASE Len(chan) < QueueMax
  <2>1. chan' = Append(chan, m) /\ UNCHANGED faults BY <1>1 DEF Send
  <2>2. chan' \in Seq(Msg) BY <2>1, AppendProps
  <2>3. Len(chan') = Len(chan) + 1 BY <2>1, AppendProps
  <2>4. Len(chan) \in Nat BY LenZero
  <2>5. QED BY <1>1, <2>1, <2>2, <2>3, <2>4 DEF faults
<1>2. CASE ~(Len(chan) < QueueMax)
  BY <1>2 DEF Send
<1>q. QED BY <1>1, <1>2

----------------------------------------------------------------------------
(* Types. *)

Flags == {live, stopTx, flag, telem, eStop, parked, dropped, upset} \subseteq BOOLEAN

\* The Boolean half of TypeOK.
LEMMA FlagsStep == ASSUME Flags, [Next]_vars PROVE Flags'
<1>1. CASE Flush
  BY <1>1, Zenon DEF Flags, Flush, Send, main, replay, tx, controller, faults
<1>2. CASE Keys
  BY <1>2, Zenon DEF Flags, Keys, At, NoKey, KeyE, KeyI, PedalB, Idle, KeyH, KeyX,
     CancelShutdown, Engaged, Handled, Keyboard, main, replay, tx, controller, faults
<1>3. CASE Gui
  BY <1>3, Zenon DEF Flags, Gui, At, ReplayOn, ReplayOff, ReplayArm, ReplayPlay, ReplayPause,
     ReplayRestart, ReplayStop, StartsPlaying, Handled, main, replay, tx, controller, faults
<1>4. CASE Motor
  BY <1>4, Zenon DEF Flags, Motor, At, LiveTick, ReplayStep, Teleop, TeleopShutdown, Over,
     TimedOut, Post, Park, Handled, main, replay, tx, controller, faults
<1>5. CASE Telemetry
  BY <1>5, Zenon DEF Flags, Telemetry, At, main, replay, tx, controller, faults
<1>6. CASE Interrupt
  BY <1>6, Zenon DEF Flags, Interrupt, main, replay, tx, controller, faults
<1>7. CASE StopCmdTx
  BY <1>7, Zenon DEF Flags, StopCmdTx, main, replay, tx, controller, faults
<1>8. CASE Join
  BY <1>8, Zenon DEF Flags, Join, main, replay, tx, controller, faults
<1>9. CASE Close
  BY <1>9, Zenon DEF Flags, Close, main, replay, tx, controller, faults
<1>10. CASE Snapshot
  BY <1>10, Zenon DEF Flags, Snapshot, Taken, main, replay, tx, controller, faults
<1>11. CASE SenderSends
  BY <1>11, Zenon DEF Flags, SenderSends, Send, main, replay, tx, controller, faults
<1>12. CASE SenderEnds
  BY <1>12, Zenon DEF Flags, SenderEnds, main, replay, tx, controller, faults
<1>13. CASE Receive
  BY <1>13, Zenon DEF Flags, Receive, main, replay, tx, controller, faults
<1>14. CASE EmergencyStop
  BY <1>14, Zenon DEF Flags, EmergencyStop, main, replay, tx, controller, faults
<1>15. CASE ClearEmergencyStop
  BY <1>15, Zenon DEF Flags, ClearEmergencyStop, main, replay, tx, controller, faults
<1>16. CASE TelemetryArrives
  BY <1>16, Zenon DEF Flags, TelemetryArrives, main, replay, tx, controller, faults
<1>17. CASE HardwareEstop
  BY <1>17, Zenon DEF Flags, HardwareEstop, main, replay, tx, controller, faults
<1>18. CASE UNCHANGED vars
  BY <1>18, Zenon DEF Flags, vars, main, replay, tx, controller, faults
<1>q. QED BY Cases, <1>1, <1>2, <1>3, <1>4, <1>5, <1>6, <1>7, <1>8, <1>9, <1>10, <1>11, <1>12,
     <1>13, <1>14, <1>15, <1>16, <1>17, <1>18

Data ==
    /\ pc \in {"input", "pad", "motor", "telem", "exit", "join", "last", "closed"}
    /\ todo \in Seq(Msg) /\ chan \in Seq(Msg) /\ Len(chan) <= QueueMax
    /\ state \in {"READY", "IDLE", "TRACKING", "HOLD", "ENGAGING", "SHUTDOWN", "ESTOP"}
    /\ phase \in {"READY", "ARMING", "PLAYING", "PAUSED", "DONE", "SHUTDOWN"}
    /\ waited \in 0..MaxWait + 1 /\ rwaited \in 0..MaxWait + 1
    /\ holder \in {"none", "pose", "track"} /\ sender \in {"wait", "pose", "track", "done"}
    /\ turn \in {"owed", "taken", "made"}
    /\ arm \in {"off", "on", "running"}
    /\ strays \in 0..2
    /\ events \in 0..MaxEvents

\* The other half: messages, the tick's states and the counters.
LEMMA DataStep == ASSUME Data, [Next]_vars PROVE Data'
<1>1. CASE Flush
  <2>1. /\ Head(todo) \in Msg /\ todo' \in Seq(Msg)
        /\ Send(Head(todo))
    BY <1>1, TailProps DEF Data, Flush
  <2>2. chan' \in Seq(Msg) /\ Len(chan') <= QueueMax
    BY <2>1, SendProps DEF Data
  <2>3. QED
    BY <1>1, <2>1, <2>2 DEF Data, Flush, replay, tx, controller
<1>2. CASE Keys
  <2>1. todo' \in Seq(Msg)
    BY <1>2, Literals, Zenon DEF Data, Keys, At, NoKey, KeyE, KeyI, PedalB, Idle, KeyH, KeyX,
     CancelShutdown, Engaged, Handled
  <2>2. /\ pc' \in {"motor", "exit"}
        /\ state' \in {"READY", "IDLE", "TRACKING", "HOLD", "ENGAGING", "SHUTDOWN", "ESTOP"}
        /\ waited' \in {0, waited}
    BY <1>2, Zenon DEF Data, Keys, At, NoKey, KeyE, KeyI, PedalB, Idle, KeyH, KeyX,
     CancelShutdown, Engaged, Handled
  <2>3. /\ UNCHANGED <<chan, phase, rwaited, holder, sender, turn, arm, strays, events>>
    BY <1>2, Zenon DEF Keys, main, replay, tx, controller, faults
  <2>4. QED
    BY <2>1, <2>2, <2>3 DEF Data
<1>3. CASE Gui
  <2>1. todo' \in Seq(Msg)
    BY <1>3, Literals, Zenon DEF Data, Gui, At, ReplayOn, ReplayOff, ReplayArm, ReplayPlay,
     ReplayPause, ReplayRestart, ReplayStop, StartsPlaying, Handled
  <2>2. /\ pc' = "pad" /\ state' \in {"READY", state}
        /\ phase' \in {"READY", "ARMING", "PLAYING", "PAUSED", "DONE", "SHUTDOWN"}
        /\ waited' \in {0, waited} /\ rwaited' \in {0, rwaited}
    BY <1>3, Zenon DEF Data, Gui, At, ReplayOn, ReplayOff, ReplayArm, ReplayPlay, ReplayPause,
     ReplayRestart, ReplayStop, StartsPlaying, Handled
  <2>3. /\ UNCHANGED <<chan, holder, sender, turn, arm, strays, events>>
    BY <1>3, Zenon DEF Gui, main, replay, tx, controller, faults
  <2>4. QED
    BY <2>1, <2>2, <2>3 DEF Data
<1>4. CASE Motor
  <2>1. todo' \in Seq(Msg)
    BY <1>4, Literals, Zenon DEF Data, Motor, At, LiveTick, ReplayStep, Teleop, TeleopShutdown,
     Over, TimedOut, Post, Park, Handled, replay
  <2>2. /\ pc' = "telem" /\ turn' = "owed"
        /\ state' \in {"READY", "TRACKING", "ENGAGING", state}
        /\ phase' \in {"READY", "PLAYING", "DONE", phase, "ARMING"}
        /\ holder' \in {"none", "pose", "track", holder}
        /\ strays' \in {0, strays}
    BY <1>4, Zenon DEF Data, Motor, At, LiveTick, ReplayStep, Teleop, TeleopShutdown, Over,
     TimedOut, Post, Park, Handled, replay
  <2>3. waited' \in 0..MaxWait + 1 /\ rwaited' \in 0..MaxWait + 1
    BY <1>4 DEF Data, Motor, At, LiveTick, ReplayStep, Teleop, TeleopShutdown, Over, TimedOut,
     Post, Park, Handled, replay
  <2>4. /\ UNCHANGED <<chan, sender, arm, events>>
    BY <1>4, Zenon DEF Motor, main, replay, tx, controller, faults
  <2>5. QED
    BY <2>1, <2>2, <2>3, <2>4 DEF Data
<1>5. CASE Telemetry
  BY <1>5 DEF Data, Telemetry, At, main, replay, tx, controller, faults
<1>6. CASE Interrupt
  BY <1>6, Literals DEF Data, Interrupt, main, replay, tx, controller, faults
<1>7. CASE StopCmdTx
  BY <1>7 DEF Data, StopCmdTx, main, replay, tx, controller, faults
<1>8. CASE Join
  BY <1>8, Literals DEF Data, Join, main, replay, tx, controller, faults
<1>9. CASE Close
  BY <1>9, PrefixProps DEF Data, Close, main, replay, tx, controller, faults
<1>10. CASE Snapshot
  BY <1>10 DEF Data, Snapshot, Taken, main, replay, tx, controller, faults
<1>11. CASE SenderSends
  <2>1. Send(sender) /\ sender \in Msg
    BY <1>11 DEF SenderSends, Msg
  <2>2. chan' \in Seq(Msg) /\ Len(chan') <= QueueMax
    BY <2>1, SendProps DEF Data
  <2>3. QED
    BY <1>11, <2>2 DEF Data, SenderSends, main, replay, controller
<1>12. CASE SenderEnds
  BY <1>12 DEF Data, SenderEnds, main, replay, tx, controller, faults
<1>13. CASE Receive
  BY <1>13, TailProps DEF Data, Receive, main, replay, tx, controller, faults
<1>14. CASE EmergencyStop
  BY <1>14 DEF Data, EmergencyStop, main, replay, tx, controller, faults
<1>15. CASE ClearEmergencyStop
  BY <1>15 DEF Data, ClearEmergencyStop, main, replay, tx, controller, faults
<1>16. CASE TelemetryArrives
  BY <1>16 DEF Data, TelemetryArrives, main, replay, tx, controller, faults
<1>17. CASE HardwareEstop
  BY <1>17 DEF Data, HardwareEstop, main, replay, tx, controller, faults
<1>18. CASE UNCHANGED vars
  BY <1>18 DEF Data, vars, main, replay, tx, controller, faults
<1>q. QED BY Cases, <1>1, <1>2, <1>3, <1>4, <1>5, <1>6, <1>7, <1>8, <1>9, <1>10, <1>11, <1>12,
     <1>13, <1>14, <1>15, <1>16, <1>17, <1>18

LEMMA TypesTogether == TypeOK <=> Flags /\ Data
BY Zenon DEF TypeOK, Flags, Data

\* The collector, the socket and the arm keep their types: the socket never
\* holds more than SNDHWM messages, and a shutdown never counts past its limit.
THEOREM CollectorTyped == Spec => []TypeOK
<1>1. Init => TypeOK
  <2>1. Init => Flags BY Zenon DEF Init, Flags
  <2>2. Init => Data BY Literals DEF Init, Data
  <2>3. QED BY <2>1, <2>2, TypesTogether
<1>2. TypeOK /\ [Next]_vars => TypeOK'
  BY TypesTogether, FlagsStep, DataStep DEF TypeOK, Flags, Data
<1>3. QED BY <1>1, <1>2, PTL DEF Spec

----------------------------------------------------------------------------
(* A parked arm.  Once the holder is empty CmdTx takes nothing more from it, *)
(* so what it may still send is the one message in its hand.                 *)

InHand == IF sender \in {"pose", "track"} THEN 1 ELSE 0

Quiet == parked => holder = "none" /\ strays + InHand <= 1

\* Every step keeps a parked arm quiet.
LEMMA QuietStep == ASSUME TypeOK, Quiet, [Next]_vars PROVE Quiet'
<1>0. strays \in 0..2 /\ parked \in BOOLEAN BY Zenon DEF TypeOK
<1>1. CASE \/ Flush \/ Keys \/ Gui \/ Telemetry \/ Interrupt \/ Join \/ Close
           \/ Receive \/ EmergencyStop \/ ClearEmergencyStop \/ TelemetryArrives \/ HardwareEstop
           \/ UNCHANGED vars
  <2>1. UNCHANGED <<holder, sender, parked, strays>>
    BY <1>1, Zenon DEF Flush, Keys, Gui, Telemetry, Interrupt, Join, Close, Receive, EmergencyStop,
       ClearEmergencyStop, TelemetryArrives, HardwareEstop, tx, vars
  <2>2. QED BY <2>1 DEF Quiet, InHand
<1>2. CASE Motor
  <2>1. sender' = sender BY <1>2 DEF Motor
  <2>2. \/ parked' = FALSE
        \/ Park
        \/ UNCHANGED <<holder, parked, strays>>
    BY <1>2, Zenon DEF Motor, LiveTick, Teleop, TeleopShutdown, Post
  <2>3. CASE Park
    BY <1>0, <2>1, <2>3 DEF Quiet, InHand, Park
  <2>4. CASE UNCHANGED <<holder, parked, strays>>
    BY <2>1, <2>4 DEF Quiet, InHand
  <2>5. CASE parked' = FALSE
    BY <2>5 DEF Quiet
  <2>6. QED BY <2>2, <2>3, <2>4, <2>5
<1>3. CASE StopCmdTx
  BY <1>3 DEF StopCmdTx, Quiet
<1>4. CASE Snapshot
  <2>1. UNCHANGED <<holder, parked, strays>> BY <1>4, Zenon DEF Snapshot
  <2>2. ASSUME parked PROVE sender' = sender
    BY <1>4, <2>2 DEF Snapshot, Quiet, Taken
  <2>3. QED BY <2>1, <2>2 DEF Quiet, InHand
<1>5. CASE SenderSends
  <2>1. UNCHANGED <<holder, parked>> /\ sender' = "wait" /\ InHand = 1
        /\ strays' = IF parked /\ strays < 2 THEN strays + 1 ELSE strays
    BY <1>5 DEF SenderSends, InHand
  <2>2. QED BY <1>0, <2>1 DEF Quiet, InHand
<1>6. CASE SenderEnds
  BY <1>6 DEF SenderEnds, Quiet, InHand
<1>q. QED BY Cases, <1>1, <1>2, <1>3, <1>4, <1>5, <1>6

\* After main has parked the arm, CmdTx sends at most one more command,
\* however its turns and main's interleave.
THEOREM ParkedArmIsQuiet == Spec => []ParkedIsQuiet
<1>1. Init => Quiet BY DEF Init, Quiet, InHand
<1>2. TypeOK /\ Quiet /\ [Next]_vars => Quiet' BY QuietStep
<1>3. TypeOK /\ Quiet => ParkedIsQuiet
  <2>1. TypeOK => strays \in 0..2 BY Zenon DEF TypeOK
  <2>2. QED BY <2>1 DEF Quiet, InHand, ParkedIsQuiet
<1>4. QED BY <1>1, <1>2, <1>3, CollectorTyped, PTL DEF Spec

----------------------------------------------------------------------------
(* Quitting.  By the time the last commands are on their way CmdTx has       *)
(* ended, so the last message of all is a disable: it is still with main,    *)
(* or last on the socket, or the controller has had it.                      *)

LastIsDisable ==
    \/ todo # <<>> /\ todo[Len(todo)] = "disable"
    \/ todo = <<>> /\ chan # <<>> /\ chan[Len(chan)] = "disable"
    \/ todo = <<>> /\ chan = <<>> /\ arm # "running"

Leaving ==
    /\ eStop => arm # "running"
    /\ pc \in {"last", "closed"} => sender = "done"
    /\ pc = "closed" => todo = <<>>
    /\ pc \in {"last", "closed"} /\ ~dropped => LastIsDisable

\* A step that leaves all this alone, or is taken before main is leaving.
LEMMA LeavingKept ==
    ASSUME Leaving, UNCHANGED <<arm, eStop>>,
           \/ pc' \notin {"last", "closed"}
           \/ UNCHANGED <<pc, todo, chan, sender, dropped>>
    PROVE  Leaving'
BY Zenon DEF Leaving, LastIsDisable

\* Every step keeps the order of the way out.
LEMMA LeavingStep == ASSUME TypeOK, Leaving, [Next]_vars PROVE Leaving'
<1>0. todo \in Seq(Msg) /\ chan \in Seq(Msg) /\ Len(chan) <= QueueMax
  BY Zenon DEF TypeOK
<1>1. CASE Keys \/ Gui \/ Motor \/ Telemetry \/ Interrupt \/ StopCmdTx
  <2>1. UNCHANGED <<arm, eStop>> /\ pc' \notin {"last", "closed"}
    BY <1>1, Zenon DEF Keys, Gui, Motor, Telemetry, Interrupt, StopCmdTx, controller
  <2>2. QED BY <2>1, LeavingKept
<1>2. CASE Snapshot \/ SenderEnds \/ TelemetryArrives \/ HardwareEstop \/ UNCHANGED vars
  <2>1. UNCHANGED <<pc, todo, chan, dropped, arm, eStop>>
    BY <1>2, Zenon DEF Snapshot, Taken, SenderEnds, TelemetryArrives, HardwareEstop, vars,
     main, controller, faults, tx
  <2>2. sender = "done" => sender' = "done"
    BY <1>2 DEF Snapshot, SenderEnds, TelemetryArrives, HardwareEstop, vars, tx
  <2>3. QED BY <2>1, <2>2 DEF Leaving, LastIsDisable
<1>3. CASE SenderSends
  <2>1. pc' = pc /\ UNCHANGED <<arm, eStop>> /\ sender # "done"
    BY <1>3 DEF SenderSends, main, controller
  <2>2. QED BY <2>1, LeavingKept DEF Leaving
<1>4. CASE Join
  <2>1. pc' = "last" /\ todo' = <<"drive", "disable">> /\ sender = "done"
        /\ UNCHANGED <<sender, arm, eStop>>
    BY <1>4, Zenon DEF Join, Joined, tx, controller
  <2>2. todo' # <<>> /\ todo'[Len(todo')] = "disable" BY <2>1
  <2>3. QED BY <2>1, <2>2 DEF Leaving, LastIsDisable
<1>5. CASE Close
  <2>1. pc = "last" /\ todo = <<>> /\ UNCHANGED <<todo, sender, arm, eStop>>
    BY <1>5, Zenon DEF Close, At, tx, controller
  <2>2. ASSUME ~dropped' PROVE ~dropped /\ chan' = chan
    <3>1. PICK n \in 0..Len(chan) : chan' = SubSeq(chan, 1,
     n) /\ dropped' = (dropped \/ n < Len(chan))
      BY <1>5 DEF Close
    <3>2. Len(chan) \in Nat BY <1>0, LenZero
    <3>3. ~dropped /\ ~(n < Len(chan)) BY <2>2, <3>1, Zenon
    <3>4. n = Len(chan) BY <3>2, <3>3
    <3>5. QED BY <1>0, <3>1, <3>3, <3>4, PrefixProps
  <2>3. QED BY <2>1, <2>2, Zenon DEF Leaving, LastIsDisable
<1>6. CASE Flush
  <2>1. /\ todo # <<>> /\ Send(Head(todo)) /\ todo' = Tail(todo)
        /\ UNCHANGED <<pc, sender, arm, eStop>>
    BY <1>6, Zenon DEF Flush, tx, controller
  <2>2. Head(todo) \in Msg BY <1>0, <2>1, TailProps
  <2>3. \/ chan' = Append(chan, Head(todo)) /\ dropped' = dropped
        \/ dropped' = TRUE
    BY <1>0, <2>1, <2>2, SendProps
  <2>4. ASSUME pc \in {"last", "closed"}, ~dropped' PROVE LastIsDisable'
    <3>1. chan' = Append(chan, Head(todo)) /\ ~dropped BY <2>3, <2>4
    <3>2. todo[Len(todo)] = "disable" BY <2>1, <2>4, <3>1 DEF Leaving, LastIsDisable
    <3>3. CASE Tail(todo) # <<>>
      <4>1. todo'[Len(todo')] = "disable" BY <1>0, <2>1, <3>2, <3>3, TailProps
      <4>2. QED BY <2>1, <3>3, <4>1 DEF LastIsDisable
    <3>4. CASE Tail(todo) = <<>>
      <4>1. Head(todo) = "disable" BY <1>0, <2>1, <3>2, <3>4, TailProps
      <4>2. Len(chan') = Len(chan) + 1 /\ chan' # <<>> /\ chan'[Len(chan) + 1] = Head(todo)
        BY <1>0, <2>2, <3>1, AppendProps
      <4>3. QED BY <2>1, <3>4, <4>1, <4>2 DEF LastIsDisable
    <3>5. QED BY <3>3, <3>4
  <2>5. QED BY <2>1, <2>4, Zenon DEF Leaving
<1>7. CASE Receive
  <2>1. /\ chan # <<>> /\ chan' = Tail(chan) /\ UNCHANGED <<pc, todo, sender, eStop, dropped>>
    BY <1>7, Zenon DEF Receive, main, tx, faults
  <2>2. eStop => arm' = arm
    BY <1>7, Zenon DEF Receive
  <2>3. ~eStop /\ Head(chan) = "disable" => arm' = "off"
    BY <1>7 DEF Receive
  <2>4. ASSUME pc \in {"last", "closed"}, ~dropped PROVE LastIsDisable'
    <3>1. CASE todo # <<>>
      BY <2>1, <2>4, <3>1, Zenon DEF Leaving, LastIsDisable
    <3>2. CASE todo = <<>>
      <4>1. chan[Len(chan)] = "disable" BY <2>1, <2>4, <3>2, Zenon DEF Leaving, LastIsDisable
      <4>2. CASE Tail(chan) # <<>>
        <5>1. chan'[Len(chan')] = "disable" BY <1>0, <2>1, <4>1, <4>2, TailProps
        <5>2. QED BY <2>1, <3>2, <4>2, <5>1, Zenon DEF LastIsDisable
      <4>3. CASE Tail(chan) = <<>>
        <5>1. Head(chan) = "disable" BY <1>0, <2>1, <4>1, <4>3, TailProps
        <5>2. arm' # "running" BY <2>2, <2>3, <5>1 DEF Leaving
        <5>3. QED BY <2>1, <3>2, <4>3, <5>2, Zenon DEF LastIsDisable
      <4>4. QED BY <4>2, <4>3
    <3>3. QED BY <3>1, <3>2
  <2>5. QED BY <2>1, <2>2, <2>4, Zenon DEF Leaving
<1>8. CASE EmergencyStop \/ ClearEmergencyStop
  <2>1. /\ UNCHANGED <<pc, todo, chan, sender, dropped>>
        /\ \/ arm' = "on"
           \/ arm' = arm /\ eStop' = FALSE
    BY <1>8, Zenon DEF EmergencyStop, ClearEmergencyStop, main, tx, faults
  <2>2. QED BY <2>1 DEF Leaving, LastIsDisable
<1>q. QED BY Cases, <1>1, <1>2, <1>3, <1>4, <1>5, <1>6, <1>7, <1>8

\* After the collector has left and its last commands are taken, the arm is
\* not running, unless the socket lost one: main joins CmdTx before it sends
\* them, so nothing comes after the disable.
THEOREM QuittingDisarms == Spec => []QuitDisarms
<1>1. Init => Leaving BY DEF Init, Leaving
<1>2. TypeOK /\ Leaving /\ [Next]_vars => Leaving' BY LeavingStep
<1>3. Leaving => QuitDisarms
  BY DEF Leaving, LastIsDisable, QuitDisarms
<1>4. QED BY <1>1, <1>2, <1>3, CollectorTyped, PTL DEF Spec

----------------------------------------------------------------------------
(* The soft engagement.  While nothing has upset the order of the commands,  *)
(* the arm's future is determined: it takes the messages on the socket one   *)
(* by one.  A course lists the states it will be in; the last of them is the *)
(* one the collector's own state must agree with.                            *)

\* The arm after it has taken message m.
After(a, m) ==
    CASE m = "enable"           -> IF a = "off" THEN "on" ELSE a
      [] m = "disable"          -> "off"
      [] m \in {"pose", "track"} -> IF a = "on" THEN "running" ELSE a
      [] m = "drive"            -> a

ArmState == {"off", "on", "running"}

\* The arm's course over the socket, on which no tracking command starts it.
Course(f) ==
    /\ f \in [0..Len(chan) -> ArmState]
    /\ f[0] = arm
    /\ \A k \in 1..Len(chan) : /\ f[k] = After(f[k - 1], chan[k])
                               /\ chan[k] = "track" => f[k - 1] # "on"

Loop == {"input", "pad", "motor", "telem"}

Powered == {"IDLE", "HOLD", "ENGAGING", "TRACKING", "SHUTDOWN"}

Harmless(s) == \A i \in 1..Len(s) : s[i] # "disable"

\* Nobody stopped the robot, and the live replay takes over in READY only.
Undisturbed == ~eStop /\ ~telem /\ state # "ESTOP" /\ (live => state = "READY")

\* Whoever tracks has a running arm, and no disable is on its way.
TrackingRuns(a) ==
    holder = "track" \/ sender = "track" => a = "running" /\ Harmless(todo)

\* What the holder offers goes to an arm that is not off; after a whole turn of
\* CmdTx it runs.
HolderRuns(a) ==
    holder # "none" => a # "off" /\ Harmless(todo) /\ (turn = "made" => a = "running")

\* In the states that command the arm it is not off, or is about to be enabled.
PoweredUp(a) ==
    pc \in Loop /\ state \in Powered =>
        /\ Harmless(todo)
        /\ a # "off" \/ (todo # <<>> /\ todo[1] = "enable")

\* A tick in one of them has filled the holder, unless the hardware e-stop is on.
HolderFilled ==
    ~flag /\ \/ pc \in {"telem", "input", "pad"} /\ state \in Powered
             \/ pc = "motor" /\ state = "TRACKING"
    => holder # "none"

\* Who waits for the arm has taken the tracking out of the holder.
WaitingHolds ==
    pc \in Loop => /\ state = "SHUTDOWN" /\ waited > 0 => holder = "pose"
                   /\ live /\ rwaited > 0 => holder = "none"

\* After a whole turn CmdTx does not hold a message older than the holder's.
HandIsFresh ==
    pc \in Loop \cup {"exit"} /\ sender = "track" /\ turn # "owed" => holder = "track"

\* main joins CmdTx, which ends when the holder is empty.
HolderEmptied ==
    /\ stopTx <=> pc \in {"join", "last", "closed"}
    /\ stopTx => holder = "none"
    /\ pc \in {"last", "closed"} => sender = "done"

\* What main sends: only CmdTx sends tracking commands.
Order == Msg \ {"track"}

MainOrders == todo \in Seq(Order)

Agrees(a) ==
    /\ Undisturbed /\ TrackingRuns(a) /\ HolderRuns(a) /\ PoweredUp(a)
    /\ HolderFilled /\ WaitingHolds /\ HandIsFresh /\ HolderEmptied

\* Its end, e, is the state the collector agrees with.
Steers == \E f, e : Course(f) /\ e = f[Len(chan)] /\ Agrees(e)

Soft == ~upset => Steers

\* The arm takes its course one message at a time.
LEMMA AfterTyped ==
    ASSUME NEW a \in ArmState, NEW m \in Msg
    PROVE  After(a, m) \in ArmState
BY DEF After, ArmState, Msg

\* A message that enters the socket prolongs the course.
LEMMA CourseSend ==
    ASSUME NEW f, Course(f), chan \in Seq(Msg), NEW m \in Msg, chan' = Append(chan, m),
           arm' = arm, m = "track" => f[Len(chan)] # "on"
    PROVE  \E g : Course(g)' /\ g[Len(chan')] = After(f[Len(chan)], m)
<1> DEFINE n == Len(chan)
           g == [k \in 0..(n + 1) |-> IF k = n + 1 THEN After(f[n], m) ELSE f[k]]
<1>1. n \in Nat /\ Len(chan') = n + 1 /\ chan'[n + 1] = m /\ \A k \in 1..n : chan'[k] = chan[k]
  <2>1. n \in Nat BY LenZero
  <2>2. Len(chan') = n + 1 /\ chan'[n + 1] = m BY AppendProps
  <2>3. \A k \in 1..n : chan'[k] = chan[k] OBVIOUS
  <2>4. QED BY <2>1, <2>2, <2>3
<1>2. f \in [0..n -> ArmState] /\ f[0] = arm
  BY DEF Course
<1>3. f[n] \in ArmState /\ After(f[n], m) \in ArmState
  BY <1>1, <1>2, AfterTyped
<1>4. g \in [0..(n + 1) -> ArmState]
  BY <1>1, <1>2, <1>3
<1>5. g[0] = arm' /\ g[n + 1] = After(f[n], m)
  BY <1>1, <1>2
<1>6. ASSUME NEW k \in 1..(n + 1)
      PROVE  g[k] = After(g[k - 1], chan'[k]) /\ (chan'[k] = "track" => g[k - 1] # "on")
  <2>1. CASE k = n + 1
    <3>1. k - 1 = n /\ n \in 0..(n + 1) /\ n # n + 1 BY <1>1, <2>1
    <3>2. g[n] = f[n] BY <3>1
    <3>3. g[k] = After(f[n], m) /\ chan'[k] = m BY <1>1, <1>5, <2>1
    <3>4. QED BY <3>1, <3>2, <3>3
  <2>2. CASE k # n + 1
    <3>1. k \in 1..n /\ k - 1 \in 0..n /\ k \in 0..(n + 1) /\ k - 1 \in 0..(n + 1) /\ k - 1 # n + 1
      BY <1>1, <2>2
    <3>2. g[k - 1] = f[k - 1] /\ g[k] = f[k] /\ chan'[k] = chan[k]
      BY <1>1, <2>2, <3>1
    <3>3. f[k] = After(f[k - 1], chan[k]) /\ (chan[k] = "track" => f[k - 1] # "on")
      BY <3>1 DEF Course
    <3>4. QED BY <3>2, <3>3
  <2>3. QED BY <2>1, <2>2
<1> HIDE DEF g
<1> PICK h : h = g
  OBVIOUS
<1>7. Course(h)'
  BY <1>1, <1>4, <1>5, <1>6 DEF Course
<1>8. h[Len(chan')] = After(f[Len(chan)], m)
  BY <1>1, <1>5
<1>9. QED
  BY <1>7, <1>8

\* A message that the arm takes shortens it, and leaves its end.
LEMMA CourseReceive ==
    ASSUME NEW f, Course(f), chan \in Seq(Msg), chan # <<>>, chan' = Tail(chan), arm' = f[1]
    PROVE  \E g : Course(g)' /\ g[Len(chan')] = f[Len(chan)]
<1> DEFINE n == Len(chan)
           g == [k \in 0..(n - 1) |-> f[k + 1]]
<1>1. n \in Nat /\ n >= 1 /\ Len(chan') = n - 1 /\ \A k \in 1..(n - 1) : chan'[k] = chan[k + 1]
  <2>1. n \in Nat /\ n # 0 BY LenZero
  <2>2. Len(chan') = n - 1 BY TailProps
  <2>3. \A k \in 1..(n - 1) : chan'[k] = chan[k + 1] OBVIOUS
  <2>4. QED BY <2>1, <2>2, <2>3
<1>2. f \in [0..n -> ArmState]
  BY DEF Course
<1>3. g \in [0..(n - 1) -> ArmState]
  BY <1>1, <1>2
<1>4. g[0] = arm' /\ g[n - 1] = f[n]
  BY <1>1
<1>5. ASSUME NEW k \in 1..(n - 1)
      PROVE  g[k] = After(g[k - 1], chan'[k]) /\ (chan'[k] = "track" => g[k - 1] # "on")
  <2>1. k + 1 \in 1..n /\ k \in 0..(n - 1) /\ k - 1 \in 0..(n - 1) /\ (k - 1) + 1 = k /\ (k + 1) - 1 = k
    BY <1>1
  <2>2. g[k - 1] = f[k] /\ g[k] = f[k + 1] /\ chan'[k] = chan[k + 1]
    BY <1>1, <2>1
  <2>3. f[k + 1] = After(f[k], chan[k + 1]) /\ (chan[k + 1] = "track" => f[k] # "on")
    BY <2>1 DEF Course
  <2>4. QED BY <2>2, <2>3
<1> HIDE DEF g
<1> PICK h : h = g
  OBVIOUS
<1>6. Course(h)'
  BY <1>1, <1>3, <1>4, <1>5 DEF Course
<1>7. h[Len(chan')] = f[Len(chan)]
  BY <1>1, <1>4
<1>8. QED
  BY <1>6, <1>7

\* The first and the last state of a course.
LEMMA CourseEnds ==
    ASSUME NEW f, Course(f), chan \in Seq(Msg)
    PROVE  /\ f[Len(chan)] \in ArmState
           /\ chan # <<>> => /\ f[1] = After(arm, Head(chan))
                             /\ Head(chan) = "track" => arm # "on"
<1>1. Len(chan) \in Nat /\ (chan # <<>> => Len(chan) >= 1)
  <2>1. Len(chan) \in Nat /\ (Len(chan) = 0 <=> chan = <<>>) BY LenZero
  <2>2. QED BY <2>1
<1>2. f[Len(chan)] \in ArmState
  BY <1>1 DEF Course
<1>3. ASSUME chan # <<>>
      PROVE  f[1] = After(arm, Head(chan)) /\ (Head(chan) = "track" => arm # "on")
  <2>1. 1 \in 1..Len(chan) /\ 1 - 1 = 0 /\ Head(chan) = chan[1]
    BY <1>1, <1>3
  <2>2. f[1] = After(f[1 - 1], chan[1]) /\ (chan[1] = "track" => f[1 - 1] # "on")
    BY <2>1 DEF Course
  <2>3. QED BY <2>1, <2>2 DEF Course
<1>4. QED BY <1>2, <1>3

\* What main sends that is no disable, and what is left of it.
LEMMA HarmlessLists ==
    /\ Harmless(<<>>) /\ Harmless(<<"enable">>) /\ Harmless(<<"pose">>)
    /\ Harmless(<<"enable", "pose">>) /\ Harmless(<<"enable", "pose", "enable">>)
    /\ <<"enable">> # <<>> /\ <<"enable">>[1] = "enable"
    /\ <<"enable", "pose">> # <<>> /\ <<"enable", "pose">>[1] = "enable"
    /\ <<"enable", "pose", "enable">> # <<>> /\ <<"enable", "pose", "enable">>[1] = "enable"
BY DEF Harmless

LEMMA HarmlessTail ==
    ASSUME NEW s \in Seq(Msg), s # <<>>, Harmless(s)
    PROVE  Head(s) # "disable" /\ Harmless(Tail(s)) /\ Head(s) = s[1]
<1>1. /\ Len(s) \in Nat /\ Len(s) # 0 /\ Head(s) = s[1]
      /\ Len(Tail(s)) = Len(s) - 1
      /\ \A i \in 1..(Len(s) - 1) : Tail(s)[i] = s[i + 1]
  <2>1. Len(s) \in Nat /\ Len(s) # 0 BY LenZero
  <2>2. Len(Tail(s)) = Len(s) - 1 BY TailProps
  <2>3. Head(s) = s[1] /\ \A i \in 1..(Len(s) - 1) : Tail(s)[i] = s[i + 1] OBVIOUS
  <2>4. QED BY <2>1, <2>2, <2>3
<1>2. \A i \in 1..(Len(s) - 1) : i + 1 \in 1..Len(s)
  BY <1>1
<1>3. QED BY <1>1, <1>2 DEF Harmless

\* The messages main sends, and what is left of them.
LEMMA OrderLists ==
    /\ <<>> \in Seq(Order) /\ <<"enable">> \in Seq(Order) /\ <<"disable">> \in Seq(Order)
    /\ <<"pose">> \in Seq(Order) /\ <<"enable", "pose">> \in Seq(Order)
    /\ <<"enable", "pose", "enable">> \in Seq(Order) /\ <<"drive", "disable">> \in Seq(Order)
BY DEF Order, Msg

LEMMA OrderTail ==
    ASSUME NEW s \in Seq(Order), s # <<>>
    PROVE  Head(s) \in Order /\ Tail(s) \in Seq(Order)
OBVIOUS

\* main never sends a tracking command.
LEMMA OrdersStep == ASSUME MainOrders, [Next]_vars PROVE MainOrders'
<1>1. CASE Flush
  BY <1>1, OrderTail DEF MainOrders, Flush
<1>2. CASE Keys
  BY <1>2, OrderLists, Zenon DEF MainOrders, Keys, At, NoKey, KeyE, KeyI, PedalB, Idle, KeyH, KeyX,
     CancelShutdown, Engaged, Handled
<1>3. CASE Gui
  BY <1>3, OrderLists, Zenon DEF MainOrders, Gui, At, ReplayOn, ReplayOff, ReplayArm, ReplayPlay,
     ReplayPause, ReplayRestart, ReplayStop, StartsPlaying, Handled
<1>4. CASE Motor
  BY <1>4, OrderLists, Zenon DEF MainOrders, Motor, At, LiveTick, ReplayStep, Teleop,
     TeleopShutdown, Over, TimedOut, Post, Park, Handled, replay
<1>5. CASE Interrupt \/ Join
  BY <1>5, OrderLists, Zenon DEF MainOrders, Interrupt, Join
<1>6. CASE \/ Telemetry \/ StopCmdTx \/ Close \/ Snapshot \/ SenderSends \/ SenderEnds \/ Receive
           \/ EmergencyStop \/ ClearEmergencyStop \/ TelemetryArrives \/ HardwareEstop
           \/ UNCHANGED vars
  <2>1. todo' = todo
    BY <1>6, Zenon DEF Telemetry, StopCmdTx, Close, Snapshot, SenderSends, SenderEnds, Receive,
       EmergencyStop, ClearEmergencyStop, TelemetryArrives, HardwareEstop, vars, main
  <2>2. QED BY <2>1 DEF MainOrders
<1>q. QED BY Cases, <1>1, <1>2, <1>3, <1>4, <1>5, <1>6

\* What has once upset the order stays on record.
LEMMA UpsetStays == ASSUME upset, [Next]_vars PROVE upset'
<1>1. CASE Flush \/ SenderSends
  BY <1>1, Zenon DEF Flush, SenderSends, Send, faults
<1>2. CASE Keys \/ Close \/ Receive \/ EmergencyStop \/ HardwareEstop
  BY <1>2, Zenon DEF Keys, Close, Receive, EmergencyStop, HardwareEstop, faults
<1>3. CASE \/ Gui \/ Motor \/ Telemetry \/ Interrupt \/ StopCmdTx \/ Join \/ Snapshot \/ SenderEnds
           \/ ClearEmergencyStop \/ TelemetryArrives \/ UNCHANGED vars
  <2>1. upset' = upset
    BY <1>3, Zenon DEF Gui, Motor, Telemetry, Interrupt, StopCmdTx, Join, Snapshot, SenderEnds,
       ClearEmergencyStop, TelemetryArrives, vars, faults
  <2>2. QED BY <2>1
<1>q. QED BY Cases, <1>1, <1>2, <1>3

\* A message sent to a socket that is not full enters it.
LEMMA SentEnters == ASSUME NEW m, Send(m), ~upset' PROVE chan' = Append(chan, m)
BY DEF Send
----------------------------------------------------------------------------
(* The collector's own state keeps agreeing with the end of the course. *)

\* The keys: each state that commands the arm is entered with an enable, or
\* from another one.
LEMMA KeysAgree ==
    ASSUME TypeOK, NEW a \in ArmState, Agrees(a), Keys, ~upset, ~upset'
    PROVE  Agrees(a)'
<1>1. /\ pc \in {"input", "pad"} /\ todo = <<>> /\ pc' \in {"motor", "exit"}
      /\ UNCHANGED <<live, phase, rwaited, holder, sender, turn, stopTx, flag, telem, eStop>>
  BY Zenon DEF Keys, At, replay, tx, controller
<1>2. \/ UNCHANGED <<state, todo, waited>>
      \/ /\ pc' = "motor" /\ waited' = waited /\ state' \in {"ENGAGING", "HOLD", "IDLE"}
         /\ todo' \in {<<"enable">>, <<"enable", "pose">>, <<"enable", "pose", "enable">>}
      \/ /\ pc' = "motor" /\ todo' = <<>> /\ state \in Powered
         /\ \/ waited' = waited /\ state' \in {"HOLD", "TRACKING", "IDLE"}
            \/ waited' = 0 /\ state' \in {"SHUTDOWN", "HOLD"}
  BY Zenon DEF Keys, NoKey, KeyE, KeyI, PedalB, Idle, KeyH, KeyX, CancelShutdown, Engaged, Handled,
     Powered
<1>3. live => state' = state
  BY Zenon DEF Keys
<1>4. Undisturbed'
  BY <1>1, <1>2, <1>3, Zenon DEF Agrees, Undisturbed, Powered
<1>5. Harmless(todo')
  BY <1>1, <1>2, HarmlessLists, Zenon
<1>6. TrackingRuns(a)' /\ HolderRuns(a)'
  BY <1>1, <1>5, Zenon DEF Agrees, TrackingRuns, HolderRuns
<1>7. PoweredUp(a)'
  <2>1. state \in Powered => a # "off"
    BY <1>1, Zenon DEF Agrees, PoweredUp, Loop
  <2>2. CASE UNCHANGED <<state, todo, waited>>
    BY <1>1, <1>5, <2>1, <2>2, Zenon DEF PoweredUp
  <2>3. CASE todo' \in {<<"enable">>, <<"enable", "pose">>, <<"enable", "pose", "enable">>}
    <3>1. todo' # <<>> /\ todo'[1] = "enable" BY <2>3, HarmlessLists, Zenon
    <3>2. QED BY <1>5, <3>1, Zenon DEF PoweredUp
  <2>4. CASE state \in Powered
    BY <1>5, <2>1, <2>4, Zenon DEF PoweredUp
  <2>5. QED BY <1>2, <2>2, <2>3, <2>4
<1>8. HolderFilled'
  <2>1. state \in Powered /\ ~flag => holder # "none"
    BY <1>1, Zenon DEF Agrees, HolderFilled
  <2>2. state' = "TRACKING" => state \in Powered
    BY <1>2 DEF Powered
  <2>3. QED BY <1>1, <2>1, <2>2 DEF HolderFilled
<1>9. WaitingHolds'
  <2>1. state' = "SHUTDOWN" /\ waited' > 0 => state = "SHUTDOWN" /\ waited' = waited
    BY <1>2
  <2>2. QED BY <1>1, <2>1 DEF Agrees, WaitingHolds, Loop
<1>10. HandIsFresh' /\ HolderEmptied'
  BY <1>1 DEF Agrees, HandIsFresh, HolderEmptied, Loop
<1>11. QED
  BY <1>4, <1>6, <1>7, <1>8, <1>9, <1>10 DEF Agrees

\* The live replay's commands: they enable the arm, or send it to READY.
LEMMA GuiAgree ==
    ASSUME TypeOK, NEW a \in ArmState, Agrees(a), Gui
    PROVE  Agrees(a)'
<1>1. /\ pc = "input" /\ todo = <<>> /\ pc' = "pad"
      /\ UNCHANGED <<holder, sender, turn, stopTx, flag, telem, eStop>>
  BY Zenon DEF Gui, At, tx, controller
<1>2. \/ /\ live' = TRUE /\ state' = "READY" /\ todo' = <<>> /\ waited' = 0 /\ rwaited' = 0
      \/ /\ live' = FALSE /\ UNCHANGED <<state, todo, waited, rwaited>>
      \/ /\ live /\ live' = live /\ UNCHANGED <<state, waited>>
         /\ todo' \in {<<>>, <<"enable">>} /\ rwaited' \in {0, rwaited}
  BY <1>1, Zenon DEF Gui, ReplayOn, ReplayOff, ReplayArm, ReplayPlay, ReplayPause, ReplayRestart,
     ReplayStop, StartsPlaying, Handled
<1>3. Undisturbed'
  <2>1. ~eStop' /\ ~telem' /\ state # "ESTOP" /\ (live => state = "READY")
    BY <1>1, Zenon DEF Agrees, Undisturbed
  <2>2. CASE live' = TRUE /\ state' = "READY"
    BY <2>1, <2>2 DEF Undisturbed
  <2>3. CASE live' = FALSE /\ state' = state
    BY <2>1, <2>3 DEF Undisturbed
  <2>4. CASE live /\ state' = state
    BY <2>1, <2>4 DEF Undisturbed
  <2>5. QED BY <1>2, <2>2, <2>3, <2>4, Zenon
<1>4. Harmless(todo')
  BY <1>1, <1>2, HarmlessLists, Zenon
<1>5. TrackingRuns(a)' /\ HolderRuns(a)'
  BY <1>1, <1>4, Zenon DEF Agrees, TrackingRuns, HolderRuns
<1>6. state' \in Powered => state' = state /\ ~live /\ todo' = todo
  BY <1>2, Zenon DEF Powered, Agrees, Undisturbed
<1>7. PoweredUp(a)' /\ HolderFilled'
  BY <1>1, <1>4, <1>6, Zenon DEF Agrees, PoweredUp, HolderFilled, Loop
<1>8. WaitingHolds'
  BY <1>1, <1>2 DEF Agrees, WaitingHolds, Loop
<1>9. HandIsFresh' /\ HolderEmptied'
  BY <1>1 DEF Agrees, HandIsFresh, HolderEmptied, Loop
<1>10. QED
  BY <1>3, <1>5, <1>7, <1>8, <1>9 DEF Agrees

\* What the motor section of a tick does.
LEMMA MotorCases ==
    ASSUME Motor, state # "ESTOP"
    PROVE  /\ pc = "motor" /\ todo = <<>> /\ pc' = "telem" /\ turn = "made" /\ turn' = "owed"
           /\ UNCHANGED <<sender, stopTx, flag, telem, eStop, live>>
           /\ \/ flag /\ UNCHANGED <<state, todo, waited, rwaited, holder>>
              \/ /\ ~flag /\ live /\ holder' = "none" /\ UNCHANGED <<state, waited>>
                 /\ \/ todo' \in {<<>>, <<"pose">>}
                    \/ todo' = <<"disable">> /\ rwaited > 0
              \/ /\ ~flag /\ ~live /\ state = "READY" /\ holder' = "none"
                 /\ UNCHANGED <<state, todo, waited, rwaited>>
              \/ /\ ~flag /\ ~live /\ state = "SHUTDOWN" /\ waited > 0 /\ rwaited' = rwaited
                 /\ holder' = "none" /\ state' = "READY" /\ todo' = <<"disable">>
              \/ /\ ~flag /\ ~live /\ state \in {"SHUTDOWN", "IDLE", "HOLD", "ENGAGING"}
                 /\ holder' = "pose" /\ state' \in {state, "TRACKING"} /\ todo' = todo
                 /\ rwaited' = rwaited
              \/ /\ ~flag /\ ~live /\ state = "TRACKING" /\ holder' = "track"
                 /\ UNCHANGED <<state, todo, waited, rwaited>>
<1>1. /\ pc = "motor" /\ todo = <<>> /\ pc' = "telem" /\ turn = "made" /\ turn' = "owed"
      /\ UNCHANGED <<sender, stopTx, flag, telem, eStop>>
      /\ \/ flag /\ UNCHANGED <<state, todo, waited, live, rwaited, holder>>
         \/ ~flag /\ live /\ LiveTick
         \/ ~flag /\ ~live /\ Teleop /\ UNCHANGED <<live, rwaited>>
  BY Zenon DEF Motor, At, replay, controller
<1>2. CASE ~flag /\ live /\ LiveTick
  <2>1. holder' = "none" /\ UNCHANGED <<live, state, waited>> /\ ReplayStep
    BY <1>2, Zenon DEF LiveTick, Park
  <2>2. \/ todo' \in {<<>>, <<"pose">>}
        \/ todo' = <<"disable">> /\ rwaited > 0
    BY <2>1, Zenon DEF ReplayStep, Over
  <2>3. QED BY <1>1, <1>2, <2>1, <2>2, Zenon
<1>3. CASE ~flag /\ ~live /\ Teleop /\ UNCHANGED <<live, rwaited>>
  <2>1. CASE state = "SHUTDOWN" /\ TeleopShutdown
    <3>1. \/ waited > 0 /\ holder' = "none" /\ state' = "READY" /\ todo' = <<"disable">>
          \/ holder' = "pose" /\ UNCHANGED <<state, todo>>
      BY <2>1, Zenon DEF TeleopShutdown, Over, Park, Post, Handled
    <3>2. QED BY <1>1, <1>3, <2>1, <3>1, Zenon
  <2>2. CASE state = "READY" /\ Park /\ UNCHANGED <<state, todo, waited>>
    BY <1>1, <1>3, <2>2, Zenon DEF Park
  <2>3. CASE state \in {"IDLE", "HOLD"} /\ Post("pose") /\ UNCHANGED <<state, todo, waited>>
    BY <1>1, <1>3, <2>3, Zenon DEF Post
  <2>4. CASE /\ state = "ENGAGING" /\ Post("pose")
             /\ state' \in {"ENGAGING", "TRACKING"} /\ UNCHANGED <<todo, waited>>
    BY <1>1, <1>3, <2>4, Zenon DEF Post
  <2>5. CASE state = "TRACKING" /\ Post("track") /\ UNCHANGED <<state, todo, waited>>
    BY <1>1, <1>3, <2>5, Zenon DEF Post
  <2>6. QED BY <1>3, <2>1, <2>2, <2>3, <2>4, <2>5, Zenon DEF Teleop
<1>4. CASE flag /\ UNCHANGED <<state, todo, waited, live, rwaited, holder>>
  BY <1>1, <1>4, Zenon
<1>5. QED BY <1>1, <1>2, <1>3, <1>4, Zenon

\* The motor section: what it posts goes to an arm that can take it.
LEMMA MotorAgree ==
    ASSUME TypeOK, NEW a \in ArmState, Agrees(a), Motor
    PROVE  Agrees(a)'
<1>0. state # "ESTOP"
  BY Zenon DEF Agrees, Undisturbed
<1>1. /\ pc = "motor" /\ todo = <<>> /\ pc' = "telem" /\ turn = "made" /\ turn' = "owed"
      /\ UNCHANGED <<sender, stopTx, flag, telem, eStop, live>>
  BY <1>0, MotorCases, Zenon
<1>2. /\ state \in Powered => a # "off"
      /\ holder # "none" => a = "running"
      /\ sender = "track" => a = "running" /\ holder = "track"
      /\ stopTx' <=> pc' \in {"join", "last", "closed"}
  BY <1>1 DEF Agrees, PoweredUp, HolderRuns, TrackingRuns, HandIsFresh, HolderEmptied, Loop
<1>3. ~stopTx
  BY <1>1, Zenon DEF Agrees, HolderEmptied
<1>4. HandIsFresh' /\ HolderEmptied'
  BY <1>1, <1>2, <1>3, Zenon DEF HandIsFresh, HolderEmptied
<1>5. CASE flag /\ UNCHANGED <<state, todo, waited, rwaited, holder>>
  <2>1. Undisturbed'
    BY <1>1, <1>5, Zenon DEF Agrees, Undisturbed
  <2>2. TrackingRuns(a)' /\ HolderRuns(a)' /\ PoweredUp(a)' /\ HolderFilled'
    BY <1>1, <1>2, <1>5, HarmlessLists, Zenon
    DEF TrackingRuns, HolderRuns, PoweredUp, HolderFilled
  <2>3. WaitingHolds'
    BY <1>1, <1>5 DEF Agrees, WaitingHolds, Loop
  <2>4. QED BY <1>4, <2>1, <2>2, <2>3 DEF Agrees
<1>6. CASE /\ ~flag /\ live /\ holder' = "none" /\ UNCHANGED <<state, waited>>
           /\ \/ todo' \in {<<>>, <<"pose">>}
              \/ todo' = <<"disable">> /\ rwaited > 0
  <2>1. Undisturbed' /\ state' = "READY"
    BY <1>1, <1>6, Zenon DEF Agrees, Undisturbed
  <2>2. rwaited > 0 => holder = "none"
    BY <1>1, <1>6, Zenon DEF Agrees, WaitingHolds, Loop
  <2>3. sender = "track" => Harmless(todo')
    BY <1>2, <1>6, <2>2, HarmlessLists, Zenon
  <2>4. TrackingRuns(a)' /\ HolderRuns(a)'
    BY <1>1, <1>2, <1>6, <2>3, Zenon DEF TrackingRuns, HolderRuns
  <2>5. PoweredUp(a)' /\ HolderFilled'
    BY <1>1, <2>1, Zenon DEF PoweredUp, HolderFilled, Powered
  <2>6. WaitingHolds'
    BY <1>6, <2>1, Zenon DEF WaitingHolds
  <2>7. QED BY <1>4, <2>1, <2>4, <2>5, <2>6 DEF Agrees
<1>7. CASE /\ ~flag /\ ~live /\ state = "READY" /\ holder' = "none"
           /\ UNCHANGED <<state, todo, waited, rwaited>>
  <2>1. Undisturbed'
    BY <1>1, <1>7, Zenon DEF Agrees, Undisturbed
  <2>2. TrackingRuns(a)' /\ HolderRuns(a)'
    BY <1>1, <1>2, <1>7, HarmlessLists, Zenon DEF TrackingRuns, HolderRuns
  <2>3. PoweredUp(a)' /\ HolderFilled'
    BY <1>1, <1>7, Zenon DEF PoweredUp, HolderFilled, Powered
  <2>4. WaitingHolds'
    BY <1>1, <1>7, Zenon DEF WaitingHolds
  <2>5. QED BY <1>4, <2>1, <2>2, <2>3, <2>4 DEF Agrees
<1>8. CASE /\ ~flag /\ ~live /\ state = "SHUTDOWN" /\ waited > 0 /\ rwaited' = rwaited
           /\ holder' = "none" /\ state' = "READY" /\ todo' = <<"disable">>
  <2>1. Undisturbed'
    BY <1>1, <1>8, Zenon DEF Agrees, Undisturbed
  <2>2. sender # "track"
    BY <1>1, <1>2, <1>8, Zenon DEF Agrees, WaitingHolds, Loop
  <2>3. TrackingRuns(a)' /\ HolderRuns(a)'
    BY <1>1, <1>8, <2>2, Zenon DEF TrackingRuns, HolderRuns
  <2>4. PoweredUp(a)' /\ HolderFilled'
    BY <1>1, <1>8, Zenon DEF PoweredUp, HolderFilled, Powered
  <2>5. WaitingHolds'
    BY <1>1, <1>8, Zenon DEF WaitingHolds
  <2>6. QED BY <1>4, <2>1, <2>3, <2>4, <2>5 DEF Agrees
<1>9. CASE /\ ~flag /\ ~live /\ state \in {"SHUTDOWN", "IDLE", "HOLD", "ENGAGING"}
           /\ holder' = "pose" /\ state' \in {state, "TRACKING"} /\ todo' = todo
           /\ rwaited' = rwaited
  <2>1. Undisturbed' /\ state \in Powered
    BY <1>1, <1>9, Zenon DEF Agrees, Undisturbed, Powered
  <2>2. TrackingRuns(a)' /\ HolderRuns(a)' /\ PoweredUp(a)'
    BY <1>1, <1>2, <1>9, <2>1, HarmlessLists, Zenon DEF TrackingRuns, HolderRuns, PoweredUp
  <2>3. HolderFilled' /\ WaitingHolds'
    BY <1>1, <1>9, Zenon DEF HolderFilled, WaitingHolds
  <2>4. QED BY <1>4, <2>1, <2>2, <2>3 DEF Agrees
<1>10. CASE /\ ~flag /\ ~live /\ state = "TRACKING" /\ holder' = "track"
            /\ UNCHANGED <<state, todo, waited, rwaited>>
  <2>1. Undisturbed'
    BY <1>1, <1>10, Zenon DEF Agrees, Undisturbed
  <2>2. holder # "none"
    BY <1>1, <1>10, Zenon DEF Agrees, HolderFilled
  <2>3. TrackingRuns(a)' /\ HolderRuns(a)' /\ PoweredUp(a)'
    BY <1>1, <1>2, <1>10, <2>2, HarmlessLists, Zenon
    DEF TrackingRuns, HolderRuns, PoweredUp, ArmState
  <2>4. HolderFilled' /\ WaitingHolds'
    BY <1>1, <1>10, Zenon DEF HolderFilled, WaitingHolds
  <2>5. QED BY <1>4, <2>1, <2>3, <2>4 DEF Agrees
<1>11. QED
  BY <1>0, <1>5, <1>6, <1>7, <1>8, <1>9, <1>10, MotorCases

\* The way out, and main's telemetry.
LEMMA WayOutAgrees ==
    ASSUME TypeOK, NEW a \in ArmState, Agrees(a), ~upset, ~upset',
           Telemetry \/ Interrupt \/ StopCmdTx \/ Join \/ Close
    PROVE  Agrees(a)'
<1>1. CASE Telemetry
  <2>1. /\ pc = "telem" /\ todo = <<>> /\ pc' = "input" /\ telem' = FALSE
        /\ UNCHANGED <<todo, live, rwaited, holder, sender, turn, stopTx, flag, eStop>>
    BY <1>1, Zenon DEF Telemetry, At, replay, tx, controller
  <2>2. UNCHANGED <<state, waited>>
    BY <1>1, Zenon DEF Telemetry, Agrees, Undisturbed
  <2>3. Undisturbed'
    BY <2>1, <2>2, Zenon DEF Agrees, Undisturbed
  <2>4. TrackingRuns(a)' /\ HolderRuns(a)' /\ PoweredUp(a)' /\ HolderFilled'
    BY <2>1, <2>2, Zenon DEF Agrees, TrackingRuns, HolderRuns, PoweredUp, HolderFilled, Loop
  <2>5. WaitingHolds' /\ HandIsFresh' /\ HolderEmptied'
    BY <2>1, <2>2, Zenon DEF Agrees, WaitingHolds, HandIsFresh, HolderEmptied, Loop
  <2>6. QED BY <2>3, <2>4, <2>5 DEF Agrees
<1>2. CASE Interrupt
  <2>1. /\ pc \in Loop /\ pc' = "exit" /\ todo' = <<>>
        /\ UNCHANGED <<state, telem, live, holder, sender, turn, stopTx, flag, eStop>>
    BY <1>2, Zenon DEF Interrupt, replay, tx, controller, Loop
  <2>2. Undisturbed' /\ TrackingRuns(a)' /\ HolderRuns(a)'
    BY <2>1, HarmlessLists, Zenon DEF Agrees, Undisturbed, TrackingRuns, HolderRuns
  <2>3. PoweredUp(a)' /\ HolderFilled' /\ WaitingHolds'
    BY <2>1, Zenon DEF PoweredUp, HolderFilled, WaitingHolds, Loop
  <2>4. HandIsFresh' /\ HolderEmptied'
    BY <2>1, Zenon DEF Agrees, HandIsFresh, HolderEmptied, Loop
  <2>5. QED BY <2>2, <2>3, <2>4 DEF Agrees
<1>3. CASE StopCmdTx
  <2>1. /\ pc' = "join" /\ holder' = "none" /\ stopTx' = TRUE /\ state' = "READY"
        /\ live' = FALSE /\ telem' = FALSE /\ UNCHANGED <<todo, sender, eStop>>
    BY <1>3, Zenon DEF StopCmdTx, At, controller
  <2>2. Undisturbed' /\ TrackingRuns(a)' /\ HolderRuns(a)'
    BY <2>1, Zenon DEF Agrees, Undisturbed, TrackingRuns, HolderRuns
  <2>3. PoweredUp(a)' /\ HolderFilled' /\ WaitingHolds'
    BY <2>1, Zenon DEF PoweredUp, HolderFilled, WaitingHolds, Loop
  <2>4. HandIsFresh' /\ HolderEmptied'
    BY <2>1, Zenon DEF HandIsFresh, HolderEmptied, Loop
  <2>5. QED BY <2>2, <2>3, <2>4 DEF Agrees
<1>4. CASE Join
  <2>1. /\ pc = "join" /\ pc' = "last" /\ sender = "done"
        /\ UNCHANGED <<state, telem, live, holder, sender, stopTx, eStop>>
    BY <1>4, Zenon DEF Join, At, Joined, replay, tx, controller
  <2>2. stopTx /\ holder = "none"
    BY <2>1, Zenon DEF Agrees, HolderEmptied
  <2>3. Undisturbed' /\ TrackingRuns(a)' /\ HolderRuns(a)'
    BY <2>1, <2>2, Zenon DEF Agrees, Undisturbed, TrackingRuns, HolderRuns
  <2>4. PoweredUp(a)' /\ HolderFilled' /\ WaitingHolds'
    BY <2>1, Zenon DEF PoweredUp, HolderFilled, WaitingHolds, Loop
  <2>5. HandIsFresh' /\ HolderEmptied'
    BY <2>1, <2>2, Zenon DEF HandIsFresh, HolderEmptied, Loop
  <2>6. QED BY <2>3, <2>4, <2>5 DEF Agrees
<1>5. CASE Close
  <2>1. /\ pc = "last" /\ pc' = "closed"
        /\ UNCHANGED <<todo, state, telem, live, holder, sender, turn, stopTx, eStop>>
    BY <1>5, Zenon DEF Close, At, replay, tx, controller
  <2>2. Undisturbed' /\ TrackingRuns(a)' /\ HolderRuns(a)'
    BY <2>1, Zenon DEF Agrees, Undisturbed, TrackingRuns, HolderRuns
  <2>3. PoweredUp(a)' /\ HolderFilled' /\ WaitingHolds'
    BY <2>1, Zenon DEF PoweredUp, HolderFilled, WaitingHolds, Loop
  <2>4. HandIsFresh' /\ HolderEmptied'
    BY <2>1, Zenon DEF Agrees, HandIsFresh, HolderEmptied, Loop
  <2>5. QED BY <2>2, <2>3, <2>4 DEF Agrees
<1>6. QED BY <1>1, <1>2, <1>3, <1>4, <1>5

\* CmdTx takes a message from the holder, or ends.
LEMMA CmdTxAgrees ==
    ASSUME TypeOK, NEW a \in ArmState, Agrees(a), Snapshot \/ SenderEnds
    PROVE  Agrees(a)'
<1>1. UNCHANGED <<pc, todo, state, waited, live, rwaited, holder, stopTx, flag, telem, eStop>>
  BY Zenon DEF Snapshot, SenderEnds, Taken, main, replay, controller
<1>2. \/ /\ ~stopTx /\ sender' = sender /\ sender = "wait" /\ turn' = "made"
         /\ holder \in {"none", "track"}
      \/ /\ ~stopTx /\ holder # "none" /\ sender' \in {"pose", holder}
         /\ sender' = "track" => holder = "track"
         /\ turn' = "made" => turn = "made"
      \/ stopTx /\ sender' = "done" /\ turn' = turn
  <2>1. holder \in {"none", "pose", "track"}
    BY Zenon DEF TypeOK
  <2>2. QED BY <2>1 DEF Snapshot, SenderEnds, Taken
<1>3. Undisturbed'
  BY <1>1, Zenon DEF Agrees, Undisturbed
<1>4. TrackingRuns(a)'
  BY <1>1, <1>2 DEF Agrees, TrackingRuns
<1>5. HolderRuns(a)'
  <2>1. holder # "none" /\ turn' = "made" => a = "running"
    BY <1>2 DEF Agrees, TrackingRuns, HolderRuns, HolderEmptied
  <2>2. QED BY <1>1, <2>1, Zenon DEF Agrees, HolderRuns
<1>6. PoweredUp(a)' /\ HolderFilled' /\ WaitingHolds'
  BY <1>1, Zenon DEF Agrees, PoweredUp, HolderFilled, WaitingHolds, Loop
<1>7. HandIsFresh' /\ HolderEmptied'
  <2>1. pc \in {"last", "closed"} => stopTx
    BY Zenon DEF Agrees, HolderEmptied
  <2>2. sender' = "track" => holder = "track"
    BY <1>2
  <2>3. pc \in {"last", "closed"} => sender' = "done"
    BY <1>2, <2>1, Zenon
  <2>4. HandIsFresh'
    BY <1>1, <2>2, Zenon DEF HandIsFresh
  <2>5. HolderEmptied'
    BY <1>1, <2>3, Zenon DEF Agrees, HolderEmptied
  <2>6. QED BY <2>4, <2>5
<1>8. QED
  BY <1>3, <1>4, <1>5, <1>6, <1>7 DEF Agrees

\* The rest of the robot: an emergency stop or a release would upset the order.
LEMMA RobotAgrees ==
    ASSUME TypeOK, NEW a \in ArmState, Agrees(a), ~upset, ~upset',
           Receive \/ ClearEmergencyStop \/ TelemetryArrives \/ HardwareEstop \/ UNCHANGED vars
    PROVE  Agrees(a)'
<1>1. UNCHANGED <<pc, todo, state, waited, live, rwaited, holder, sender, turn, stopTx>>
  BY Zenon DEF Receive, ClearEmergencyStop, TelemetryArrives, HardwareEstop, vars, main, replay, tx
<1>2. ~eStop' /\ ~telem'
  <2>1. ~eStop /\ ~telem BY Zenon DEF Agrees, Undisturbed
  <2>2. CASE Receive \/ HardwareEstop \/ UNCHANGED vars
    <3>1. eStop' = eStop /\ telem' = telem
      BY <2>2, Zenon DEF Receive, HardwareEstop, vars, controller
    <3>2. QED BY <2>1, <3>1
  <2>3. CASE ClearEmergencyStop
    BY <2>1, <2>3, Zenon DEF ClearEmergencyStop
  <2>4. CASE TelemetryArrives
    BY <2>1, <2>4 DEF TelemetryArrives, controller
  <2>5. QED BY <2>2, <2>3, <2>4
<1>3. ~flag' => ~flag
  BY Zenon DEF Receive, ClearEmergencyStop, TelemetryArrives, HardwareEstop, vars
<1>4. Undisturbed' /\ TrackingRuns(a)' /\ HolderRuns(a)' /\ PoweredUp(a)'
  BY <1>1, <1>2, Zenon DEF Agrees, Undisturbed, TrackingRuns, HolderRuns, PoweredUp
<1>5. HolderFilled' /\ WaitingHolds' /\ HandIsFresh' /\ HolderEmptied'
  BY <1>1, <1>3, Zenon DEF Agrees, HolderFilled, WaitingHolds, HandIsFresh, HolderEmptied
<1>6. QED
  BY <1>4, <1>5 DEF Agrees

\* main sends the head of its list: a disable only when nobody tracks.
LEMMA FlushAgrees ==
    ASSUME TypeOK, MainOrders, NEW a \in ArmState, Agrees(a), Flush, NEW b, b = After(a, Head(todo))
    PROVE  Agrees(b)' /\ Head(todo) # "track"
<1>1. /\ todo # <<>> /\ todo' = Tail(todo) /\ todo \in Seq(Msg)
      /\ UNCHANGED <<pc, state, waited, live, rwaited, holder, sender, turn, stopTx, flag, telem, eStop>>
  BY Zenon DEF Flush, replay, tx, controller, TypeOK
<1>2. Head(todo) \in Order
  BY <1>1, OrderTail DEF MainOrders
<1>3. Harmless(todo) => Head(todo) # "disable" /\ Harmless(todo') /\ Head(todo) = todo[1]
  BY <1>1, HarmlessTail
<1>4. /\ Head(todo) # "disable" /\ a # "off" => b # "off"
      /\ Head(todo) # "disable" /\ a = "running" => b = "running"
      /\ Head(todo) = "enable" => b # "off"
  BY <1>2 DEF After, ArmState, Order, Msg
<1>5. Undisturbed' /\ Head(todo) # "track"
  BY <1>1, <1>2, Zenon DEF Agrees, Undisturbed, Order
<1>6. TrackingRuns(b)'
  BY <1>1, <1>3, <1>4, Zenon DEF Agrees, TrackingRuns
<1>7. HolderRuns(b)'
  BY <1>1, <1>3, <1>4, Zenon DEF Agrees, HolderRuns
<1>8. PoweredUp(b)'
  <2>1. ASSUME pc \in Loop, state \in Powered
        PROVE  Harmless(todo') /\ b # "off"
    <3>1. Harmless(todo) /\ (a # "off" \/ todo[1] = "enable")
      BY <2>1, Zenon DEF Agrees, PoweredUp
    <3>2. QED BY <1>3, <1>4, <3>1
  <2>2. QED BY <1>1, <2>1, Zenon DEF PoweredUp
<1>9. HolderFilled' /\ WaitingHolds' /\ HandIsFresh' /\ HolderEmptied'
  BY <1>1, Zenon DEF Agrees, HolderFilled, WaitingHolds, HandIsFresh, HolderEmptied, Loop
<1>10. QED
  BY <1>5, <1>6, <1>7, <1>8, <1>9 DEF Agrees

\* CmdTx sends what it holds.
LEMMA SendAgrees ==
    ASSUME TypeOK, NEW a \in ArmState, Agrees(a), SenderSends, NEW b, b = After(a, sender)
    PROVE  Agrees(b)' /\ (sender = "track" => a # "on")
<1>1. /\ sender \in {"pose", "track"} /\ sender' = "wait"
      /\ UNCHANGED <<pc, todo, state, waited, live, rwaited, holder, stopTx, flag, telem, eStop>>
      /\ turn' = IF turn = "taken" THEN "made" ELSE turn
  BY Zenon DEF SenderSends, main, replay, controller
<1>2. b = IF a = "on" THEN "running" ELSE a
  BY <1>1 DEF After
<1>3. (a # "off" => b = "running") /\ (a = "running" => b = "running")
  BY <1>2 DEF ArmState
<1>4. Undisturbed' /\ (sender = "track" => a # "on")
  BY <1>1, Zenon DEF Agrees, Undisturbed, TrackingRuns
<1>5. TrackingRuns(b)' /\ HolderRuns(b)' /\ PoweredUp(b)'
  BY <1>1, <1>3, Zenon DEF Agrees, TrackingRuns, HolderRuns, PoweredUp
<1>6. HolderFilled' /\ WaitingHolds'
  BY <1>1, Zenon DEF Agrees, HolderFilled, WaitingHolds, Loop
<1>7. HandIsFresh' /\ HolderEmptied'
  BY <1>1 DEF Agrees, HandIsFresh, HolderEmptied
<1>8. QED
  BY <1>4, <1>5, <1>6, <1>7 DEF Agrees

----------------------------------------------------------------------------
(* The invariant, and the theorem. *)

\* A step that leaves the socket and the arm leaves the course.
LEMMA CourseKept ==
    ASSUME NEW f, Course(f), UNCHANGED <<chan, arm>>
    PROVE  Course(f)' /\ f[Len(chan')] = f[Len(chan)]
<1>1. chan' = chan /\ arm' = arm
  OBVIOUS
<1>2. Course(f)'
  BY <1>1, Zenon DEF Course
<1>3. QED BY <1>1, <1>2

\* The steps that do.
LEMMA StillSteers ==
    ASSUME TypeOK, NEW f, Course(f), NEW e \in ArmState, e = f[Len(chan)],
           UNCHANGED <<chan, arm>>, Agrees(e)'
    PROVE  Steers'
<1>1. Course(f)' /\ e = f[Len(chan')]
  BY CourseKept, Zenon
<1>2. QED BY <1>1, Zenon DEF Steers

\* Every step keeps a course that the collector agrees with.
LEMMA SoftStep == ASSUME TypeOK, MainOrders, Soft, [Next]_vars PROVE Soft'
<1> SUFFICES ASSUME ~upset' PROVE Steers'
  BY Zenon DEF Soft
<1>0. chan \in Seq(Msg) /\ todo \in Seq(Msg) /\ Len(chan) <= QueueMax
  BY Zenon DEF TypeOK
<1>1. ~upset
  BY UpsetStays, Zenon
<1>2. PICK f, e : Course(f) /\ e = f[Len(chan)] /\ Agrees(e)
  BY <1>1, Zenon DEF Soft, Steers
<1>3. /\ e \in ArmState
      /\ chan # <<>> => f[1] = After(arm, Head(chan))
  BY <1>0, <1>2, CourseEnds
<1>4. ASSUME NEW m \in Msg, Send(m), arm' = arm, m = "track" => e # "on",
             NEW c, c = After(e, m), Agrees(c)'
      PROVE  Steers'
  <2>1. chan' = Append(chan, m)
    BY <1>4, SentEnters
  <2>2. PICK g : Course(g)' /\ g[Len(chan')] = c
    BY <1>0, <1>2, <1>4, <2>1, CourseSend
  <2>3. QED BY <1>4, <2>2, Zenon DEF Steers
<1>5. CASE Keys
  <2>1. Agrees(e)' BY <1>1, <1>2, <1>3, <1>5, KeysAgree
  <2>2. UNCHANGED <<chan, arm>> BY <1>5, Zenon DEF Keys, controller
  <2>3. QED BY <1>2, <1>3, <2>1, <2>2, StillSteers
<1>6. CASE Gui
  <2>1. Agrees(e)' BY <1>2, <1>3, <1>6, GuiAgree
  <2>2. UNCHANGED <<chan, arm>> BY <1>6, Zenon DEF Gui, controller
  <2>3. QED BY <1>2, <1>3, <2>1, <2>2, StillSteers
<1>7. CASE Motor
  <2>1. Agrees(e)' BY <1>2, <1>3, <1>7, MotorAgree
  <2>2. UNCHANGED <<chan, arm>> BY <1>7, Zenon DEF Motor, controller
  <2>3. QED BY <1>2, <1>3, <2>1, <2>2, StillSteers
<1>8. CASE Telemetry \/ Interrupt \/ StopCmdTx \/ Join \/ Close
  <2>1. Agrees(e)' BY <1>1, <1>2, <1>3, <1>8, WayOutAgrees
  <2>2. CASE Close
    <3>1. PICK n \in 0..Len(chan) : chan' = SubSeq(chan, 1, n) /\ upset' = (upset \/ n < Len(chan))
      BY <2>2, Zenon DEF Close
    <3>2. n = Len(chan)
      <4>1. Len(chan) \in Nat BY <1>0, LenZero
      <4>2. ~(n < Len(chan)) BY <3>1, Zenon
      <4>3. QED BY <4>1, <4>2
    <3>3. chan' = chan BY <1>0, <3>1, <3>2, PrefixProps
    <3>4. arm' = arm BY <2>2, Zenon DEF Close, controller
    <3>5. QED BY <1>2, <1>3, <2>1, <3>3, <3>4, StillSteers
  <2>3. CASE Telemetry \/ Interrupt \/ StopCmdTx \/ Join
    <3>1. UNCHANGED <<chan, arm>>
      BY <2>3, Zenon DEF Telemetry, Interrupt, StopCmdTx, Join, controller
    <3>2. QED BY <1>2, <1>3, <2>1, <3>1, StillSteers
  <2>4. QED BY <1>8, <2>2, <2>3
<1>9. CASE Snapshot \/ SenderEnds
  <2>1. Agrees(e)' BY <1>2, <1>3, <1>9, CmdTxAgrees
  <2>2. UNCHANGED <<chan, arm>> BY <1>9, Zenon DEF Snapshot, SenderEnds, controller
  <2>3. QED BY <1>2, <1>3, <2>1, <2>2, StillSteers
<1>10. CASE ClearEmergencyStop \/ TelemetryArrives \/ HardwareEstop \/ UNCHANGED vars
  <2>1. Agrees(e)' BY <1>1, <1>2, <1>3, <1>10, RobotAgrees
  <2>2. UNCHANGED <<chan, arm>>
    BY <1>10, Zenon DEF ClearEmergencyStop, TelemetryArrives, HardwareEstop, vars, controller
  <2>3. QED BY <1>2, <1>3, <2>1, <2>2, StillSteers
<1>11. CASE Flush
  <2>1. Head(todo) \in Msg /\ Send(Head(todo)) /\ arm' = arm
    BY <1>0, <1>11, TailProps DEF Flush, controller
  <2>2. PICK c : c = After(e, Head(todo))
    OBVIOUS
  <2>3. Agrees(c)' /\ Head(todo) # "track"
    BY <1>2, <1>3, <1>11, <2>2, FlushAgrees
  <2>4. PICK m \in Msg : m = Head(todo)
    BY <2>1
  <2>5. Send(m) /\ c = After(e, m) /\ m # "track"
    BY <2>1, <2>2, <2>3, <2>4
  <2>6. QED BY <1>4, <2>1, <2>3, <2>5
<1>12. CASE SenderSends
  <2>1. sender \in Msg /\ Send(sender) /\ arm' = arm
    BY <1>12 DEF SenderSends, controller, Msg
  <2>2. PICK c : c = After(e, sender)
    OBVIOUS
  <2>3. Agrees(c)' /\ (sender = "track" => e # "on")
    BY <1>2, <1>3, <1>12, <2>2, SendAgrees
  <2>4. PICK m \in Msg : m = sender
    BY <2>1
  <2>5. Send(m) /\ c = After(e, m) /\ (m = "track" => e # "on")
    BY <2>1, <2>2, <2>3, <2>4
  <2>6. QED BY <1>4, <2>1, <2>3, <2>5
<1>13. CASE Receive
  <2>1. Agrees(e)' BY <1>1, <1>2, <1>3, <1>13, RobotAgrees
  <2>2. chan # <<>> /\ chan' = Tail(chan) /\ ~eStop
    BY <1>2, <1>13, Zenon DEF Receive, Agrees, Undisturbed
  <2>3. arm' = After(arm, Head(chan))
    BY <1>0, <1>13, <2>2, TailProps DEF Receive, After, Msg
  <2>4. PICK g : Course(g)' /\ g[Len(chan')] = e
    BY <1>0, <1>2, <1>3, <2>2, <2>3, CourseReceive
  <2>5. QED BY <2>1, <2>4, Zenon DEF Steers
<1>14. CASE EmergencyStop
  BY <1>14, Zenon DEF EmergencyStop
<1>15. QED
  BY Cases, <1>5, <1>6, <1>7, <1>8, <1>9, <1>10, <1>11, <1>12, <1>13, <1>14

\* Initially the socket is empty and the arm is off.
LEMMA SoftInit == Init => Soft /\ MainOrders
<1> SUFFICES ASSUME Init PROVE Steers /\ MainOrders
  BY DEF Soft
<1>1. MainOrders
  BY OrderLists DEF Init, MainOrders
<1> DEFINE f == [k \in 0..0 |-> "off"]
<1>2. chan = <<>> /\ Len(chan) = 0 /\ arm = "off" /\ todo = <<>>
  BY DEF Init
<1>3. Course(f) /\ f[Len(chan)] = "off"
  BY <1>2 DEF Course, ArmState
<1>4. Agrees("off")
  BY <1>2, HarmlessLists DEF Init, Agrees, Undisturbed, TrackingRuns, HolderRuns, PoweredUp,
     HolderFilled, WaitingHolds, HandIsFresh, HolderEmptied, Loop, Powered
<1> HIDE DEF f
<1>5. QED BY <1>1, <1>3, <1>4, Zenon DEF Steers

\* An arm that was just enabled is not set in motion by a tracking command,
\* however the keys, CmdTx and the socket interleave, while nothing has upset
\* the order: the approach, a hold or an idle pose gets there first.
THEOREM EngagesSoftly == Spec => SoftEngage
<1>1. Init => MainOrders /\ Soft
  BY SoftInit
<1>2. TypeOK /\ MainOrders /\ Soft /\ [Next]_vars => MainOrders' /\ Soft'
  BY OrdersStep, SoftStep
<1>3. ASSUME TypeOK, Soft, [Next]_vars
      PROVE  [arm = "on" /\ arm' = "running" /\ Head(chan) = "track" => upset]_vars
  <2> SUFFICES ASSUME arm = "on", arm' = "running", Head(chan) = "track", ~upset PROVE FALSE
    BY Zenon
  <2>1. PICK f : Course(f)
    BY <1>3, Zenon DEF Soft, Steers
  <2>2. chan \in Seq(Msg)
    BY <1>3, Zenon DEF TypeOK
  <2>3. Receive
    <3>1. arm' # arm
      OBVIOUS
    <3>2. ~EmergencyStop
      BY DEF EmergencyStop
    <3>3. QED BY <1>3, <3>1, <3>2, Cases, Zenon DEF Flush, Keys, Gui, Motor, Telemetry, Interrupt,
       StopCmdTx, Join, Close, Snapshot, SenderSends, SenderEnds, ClearEmergencyStop,
       TelemetryArrives, HardwareEstop, vars, controller
  <2>4. chan # <<>>
    BY <2>3, Zenon DEF Receive
  <2>5. QED BY <2>1, <2>2, <2>4, CourseEnds
<1>4. QED
  BY <1>1, <1>2, <1>3, CollectorTyped, PTL DEF Spec, SoftEngage
=============================================================================
