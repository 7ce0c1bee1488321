----------------------------- MODULE EstopRelay -----------------------------
(***************************************************************************)
(* The wireless emergency stop (firmware/estop): a station samples the     *)
(* button and sends it over ESP-NOW; the receiver's callback onReceive     *)
(* stores the message while its loop() copies it out and prints lines on a *)
(* serial port; bridge.py turns those lines into commands for the motor    *)
(* controller.                                                             *)
(*                                                                         *)
(* The callback and the loop are two threads of the receiver that share    *)
(* g_last_msg without a lock, so each of their memory copies is two steps, *)
(* in either order: the field the JSON line is made from (estop_active)    *)
(* and the one the diagnostic line is made from (nc_raw).  Both are kept   *)
(* as the button state they stand for.  The flag g_got_msg is volatile and *)
(* is taken to be stored after the copy that precedes it.                  *)
(*                                                                         *)
(* A message in the air is a callback that has not begun to store it; one  *)
(* that is lost never gets that far.  The station's sequence number and    *)
(* the receiver's age are only printed.                                    *)
(***************************************************************************)
EXTENDS Naturals, Sequences

CONSTANTS
    MaxLines,   \* lines in the serial buffers (bound)
    MaxOutbox   \* high-water mark of the bridge's PUSH socket

ASSUME RelayAssumption == MaxLines \in Nat \ {0, 1} /\ MaxOutbox \in Nat \ {0}

VARIABLES
    pressed,      \* the button as the station shows it: "STOP" or "SAFE"
    g_last_msg,   \* receiver: last message, by field
    g_got_msg,    \* receiver: a message is waiting for the loop
    callback,     \* onReceive: the message it holds and the fields still to store
    loop,         \* loop(): what it copied so far and the fields still to copy
    g_prev_estop, \* receiver: state of the last JSON line, "none" for -1
    plugged,      \* the receiver is on the USB port, which powers it
    lines,        \* serial lines on their way to the bridge
    ser,          \* bridge: serial port, "stale" when its device is gone
    prev_estop,   \* bridge: state of the last command, "none" for None
    outbox,       \* bridge: commands not yet received by the motor controller
    emergency_stop \* motor controller: the latch

station  == pressed
receiver == <<g_last_msg, g_got_msg, callback, loop, g_prev_estop, plugged>>
bridge   == <<ser, prev_estop, outbox>>
vars     == <<station, receiver, lines, bridge, emergency_stop>>

Fields == {"estop_active", "nc_raw"}

Reading == {"STOP", "SAFE"}

Message == [Fields -> Reading]

Both(b) == [f \in Fields |-> b]

\* g_last_msg = {}: a zero nc_raw reads as a pressed button.
NoMessage == [f \in Fields |-> IF f = "nc_raw" THEN "STOP" ELSE "SAFE"]

Idle == [msg |-> Both("SAFE"), left |-> {}, busy |-> FALSE]

Thread == [msg : Message, left : SUBSET Fields, busy : BOOLEAN]

\* "{" is a JSON line, "#" a diagnostic line, "text" anything else (a banner, a
\* line cut by the opening of the port).
Line == [kind : {"{", "#", "text"}, pressed : Reading]

Command == [format : {"json", "msgpack"}, type : {"emergency_stop", "clear_emergency_stop"}]

Report == Reading \cup {"none"}

TypeOK ==
    /\ pressed \in Reading
    /\ g_last_msg \in Message /\ g_got_msg \in BOOLEAN
    /\ callback \in Thread /\ loop \in Thread
    /\ g_prev_estop \in Report
    /\ plugged \in BOOLEAN
    /\ lines \in Seq(Line) /\ Len(lines) <= MaxLines
    /\ ser \in {"closed", "open", "stale"}
    /\ prev_estop \in Report
    /\ outbox \in Seq(Command) /\ Len(outbox) <= MaxOutbox
    /\ emergency_stop \in BOOLEAN

Init ==
    /\ pressed \in Reading
    /\ g_last_msg = NoMessage /\ g_got_msg = FALSE
    /\ callback = Idle /\ loop = Idle
    /\ g_prev_estop = "none"
    /\ plugged = TRUE
    /\ lines = <<>>
    /\ ser = "closed" /\ prev_estop = "none" /\ outbox = <<>>
    /\ emergency_stop = FALSE

----------------------------------------------------------------------------
(* Station and radio. *)

Button ==
    /\ pressed' \in Reading \ {pressed}
    /\ UNCHANGED <<receiver, lines, bridge, emergency_stop>>

\* Mutant of Deliver: the flag is raised before the message is stored.
DeliverEarly ==
    /\ plugged /\ ~callback.busy
    /\ callback' = [msg |-> Both(pressed), left |-> Fields, busy |-> TRUE]
    /\ g_got_msg' = TRUE
    /\ UNCHANGED <<station, g_last_msg, loop, g_prev_estop, plugged, lines, bridge, emergency_stop>>

\* The station's loop sends what it reads; onReceive is called with it.
Deliver ==
    /\ plugged /\ ~callback.busy
    /\ callback' = [msg |-> Both(pressed), left |-> Fields, busy |-> TRUE]
    /\ UNCHANGED <<station, g_last_msg, g_got_msg, loop, g_prev_estop, plugged>>
    /\ UNCHANGED <<lines, bridge, emergency_stop>>

----------------------------------------------------------------------------
(* Receiver: onReceive stores the message, then raises the flag. *)

Store(f) ==
    /\ callback.busy /\ f \in callback.left
    /\ g_last_msg' = [g_last_msg EXCEPT ![f] = callback.msg[f]]
    /\ callback' = [callback EXCEPT !.left = @ \ {f}]
    /\ UNCHANGED <<station, g_got_msg, loop, g_prev_estop, plugged, lines, bridge, emergency_stop>>

RaiseFlag ==
    /\ callback.busy /\ callback.left = {}
    /\ g_got_msg' = TRUE
    /\ callback' = Idle
    /\ UNCHANGED <<station, g_last_msg, loop, g_prev_estop, plugged, lines, bridge, emergency_stop>>

(* loop() lowers the flag, copies the message, prints it. *)

LowerFlag ==
    /\ g_got_msg /\ ~loop.busy
    /\ g_got_msg' = FALSE
    /\ loop' = [Idle EXCEPT !.left = Fields, !.busy = TRUE]
    /\ UNCHANGED <<station, g_last_msg, callback, g_prev_estop, plugged, lines, bridge, emergency_stop>>

Copy(f) ==
    /\ loop.busy /\ f \in loop.left
    /\ loop' = [msg  |-> [loop.msg EXCEPT ![f] = g_last_msg[f]],
                left |-> loop.left \ {f}, busy |-> TRUE]
    /\ UNCHANGED <<station, g_last_msg, g_got_msg, callback, g_prev_estop, plugged>>
    /\ UNCHANGED <<lines, bridge, emergency_stop>>

\* A JSON line on a change of state, and a diagnostic line every time.
Printed(msg) ==
    (IF msg["estop_active"] # g_prev_estop
     THEN <<[kind |-> "{", pressed |-> msg["estop_active"]]>> ELSE <<>>)
    \o <<[kind |-> "#", pressed |-> msg["nc_raw"]]>>

\* Mutant of PrintState: the flag is lowered (again) after the copy.
PrintStateLowers ==
    /\ loop.busy /\ loop.left = {}
    /\ Len(lines) + Len(Printed(loop.msg)) <= MaxLines
    /\ lines' = IF ser = "open" THEN lines \o Printed(loop.msg) ELSE lines
    /\ g_prev_estop' = loop.msg["estop_active"]
    /\ loop' = Idle
    /\ g_got_msg' = FALSE
    /\ UNCHANGED <<station, g_last_msg, callback, plugged, bridge, emergency_stop>>

\* Lines printed while the port is not open are lost.
PrintState ==
    /\ loop.busy /\ loop.left = {}
    /\ Len(lines) + Len(Printed(loop.msg)) <= MaxLines
    /\ lines' = IF ser = "open" THEN lines \o Printed(loop.msg) ELSE lines
    /\ g_prev_estop' = loop.msg["estop_active"]
    /\ loop' = Idle
    /\ UNCHANGED <<station, g_last_msg, g_got_msg, callback, plugged, bridge, emergency_stop>>

Unplug ==
    /\ plugged /\ plugged' = FALSE
    /\ ser' = IF ser = "open" THEN "stale" ELSE ser
    /\ lines' = <<>>
    /\ g_last_msg' = NoMessage /\ g_got_msg' = FALSE
    /\ callback' = Idle /\ loop' = Idle /\ g_prev_estop' = "none"
    /\ UNCHANGED <<station, prev_estop, outbox, emergency_stop>>

Plug ==
    /\ ~plugged /\ plugged' = TRUE
    /\ UNCHANGED <<station, g_last_msg, g_got_msg, callback, loop, g_prev_estop>>
    /\ UNCHANGED <<lines, bridge, emergency_stop>>

----------------------------------------------------------------------------
(* Bridge. *)

\* The first line read after opening may be the tail of one.
OpenPort ==
    /\ ser = "closed" /\ plugged
    /\ ser' = "open"
    /\ lines' \in {<<>>, <<[kind |-> "text", pressed |-> "SAFE"]>>}
    /\ UNCHANGED <<station, receiver, prev_estop, outbox, emergency_stop>>

LosePort ==
    /\ ser = "stale" /\ ser' = "closed"
    /\ UNCHANGED <<station, receiver, lines, prev_estop, outbox, emergency_stop>>

\* Mutant of Understood: diagnostic lines are ignored.
UnderstoodJson(line) == line.kind = "{"

Understood(line) == line.kind \in {"{", "#"}

CommandFor(b) ==
    [format |-> "json", type |-> IF b = "STOP" THEN "emergency_stop" ELSE "clear_emergency_stop"]

\* Mutant of ReadLine: the send does not wait for the high-water mark.
ReadLineUnblocked ==
    /\ ser = "open" /\ lines # <<>>
    /\ lines' = Tail(lines)
    /\ IF Understood(Head(lines)) /\ Head(lines).pressed # prev_estop
       THEN /\ outbox' = Append(outbox, CommandFor(Head(lines).pressed))
            /\ prev_estop' = Head(lines).pressed
       ELSE UNCHANGED <<outbox, prev_estop>>
    /\ UNCHANGED <<station, receiver, ser, emergency_stop>>

\* A command is sent when the state differs from the last one sent; the send
\* blocks at the high-water mark.
ReadLine ==
    /\ ser = "open" /\ lines # <<>>
    /\ lines' = Tail(lines)
    /\ \/ /\ ~Understood(Head(lines)) \/ Head(lines).pressed = prev_estop
          /\ UNCHANGED <<outbox, prev_estop>>
       \/ /\ Understood(Head(lines)) /\ Head(lines).pressed # prev_estop
          /\ Len(outbox) < MaxOutbox
          /\ outbox' = Append(outbox, CommandFor(Head(lines).pressed))
          /\ prev_estop' = Head(lines).pressed
    /\ UNCHANGED <<station, receiver, ser, emergency_stop>>

\* The process fails and is started again: what it had queued is lost.
BridgeRestarts ==
    /\ ser' = "closed" /\ prev_estop' = "none" /\ outbox' = <<>> /\ lines' = <<>>
    /\ UNCHANGED <<station, receiver, emergency_stop>>

----------------------------------------------------------------------------
(* Motor controller: recv_command decodes msgpack, and drops the rest. *)

Decodes(cmd) == cmd.format = "msgpack"

TakeCommand ==
    /\ outbox # <<>> /\ outbox' = Tail(outbox)
    /\ emergency_stop' = IF Decodes(Head(outbox)) THEN Head(outbox).type = "emergency_stop"
                                                  ELSE emergency_stop
    /\ UNCHANGED <<station, receiver, lines, ser, prev_estop>>

----------------------------------------------------------------------------
Receive == RaiseFlag \/ \E f \in Fields : Store(f)

Loop == LowerFlag \/ PrintState \/ \E f \in Fields : Copy(f)

Bridge == OpenPort \/ LosePort \/ ReadLine

Next ==
    \/ Button \/ Deliver \/ Receive \/ Loop \/ Unplug \/ Plug
    \/ Bridge \/ BridgeRestarts \/ TakeCommand

Spec == Init /\ [][Next]_vars

(* Both threads of the receiver, the bridge and the controller keep running;  *)
(* nothing is assumed of the button, the radio and the plug.                  *)
Fairness ==
    WF_vars(Receive) /\ WF_vars(Loop) /\ WF_vars(Bridge) /\ WF_vars(TakeCommand)

FairSpec == Spec /\ Fairness

----------------------------------------------------------------------------
(* Properties. *)

\* Once the button rests, the bridge's last command agrees with it for good,
\* whatever was lost, torn or reordered by then, as long as messages keep
\* arriving and the port stays open.  The JSON lines alone would not do: the
\* receiver prints one per change, and a port that was closed misses it.
RelayFollowsButton ==
    \A b \in Reading :
        <>[](pressed = b) /\ <>[](ser = "open") /\ []<><<Deliver>>_vars =>
            <>[](prev_estop = b)

\* The last message before the radio falls silent is not lost between the two
\* threads of the receiver: it reaches the bridge, unless the port is lost.
LastMessageArrives ==
    \A b \in Reading :
        (g_got_msg /\ ser = "open" /\ g_last_msg = Both(b))
            ~> (prev_estop = b \/ ser # "open" \/ g_last_msg # Both(b))

\* A button that is never pressed never stops the robot, although the
\* receiver's empty message reads as a pressed button.
NoPhantomStop == [](pressed = "SAFE") => [](prev_estop # "STOP")

\* "Wireless e-stop - ESP32 ESP-NOW receiver bridged to ZMQ; broadcasts stop to
\* all motors" (README.md): a button held down stops the motor controller.
PressStopsRobot ==
    <>[](pressed = "STOP") /\ <>[](ser = "open") /\ []<><<Deliver>>_vars => <>emergency_stop
=============================================================================
