-------------------------- MODULE EstopRelayProofs --------------------------
(***************************************************************************)
(* Theorems about EstopRelay, for any serial buffer and any high-water     *)
(* mark.                                                                   *)
(***************************************************************************)
EXTENDS EstopRelay, SequenceTheorems, TLAPS

SaysSafe(msg) == \A f \in Fields : msg[f] = "SAFE"

SafeLine == [kind : {"{", "#", "text"}, pressed : {"SAFE"}]

\* While the button is not pressed, only whole messages that say so get past
\* the receiver's threads: the flag is never up, and the loop never at work,
\* over the empty message or one that is stored in part.
NoStopSeen ==
    /\ g_got_msg \/ loop.busy => SaysSafe(g_last_msg)
    /\ callback.busy => /\ SaysSafe(callback.msg)
                        /\ \A f \in Fields \ callback.left : g_last_msg[f] = "SAFE"
    /\ SaysSafe(loop.msg)
    /\ lines \in Seq(SafeLine)
    /\ prev_estop # "STOP"

----------------------------------------------------------------------------
(* Type correctness. *)

LEMMA Facts == /\ MaxLines \in Nat /\ MaxLines >= 2 /\ MaxOutbox \in Nat /\ MaxOutbox >= 1
               /\ NoMessage \in Message /\ \A b \in Reading : Both(b) \in Message
               /\ Idle \in Thread /\ Reading = {"STOP", "SAFE"} /\ Report = {"STOP", "SAFE", "none"}
<1>1. MaxLines \in Nat /\ MaxLines >= 2 /\ MaxOutbox \in Nat /\ MaxOutbox >= 1
  BY RelayAssumption
<1>2. Reading = {"STOP", "SAFE"} /\ Report = {"STOP", "SAFE", "none"}
  BY DEF Reading, Report
<1>3. NoMessage \in Message /\ \A b \in Reading : Both(b) \in Message
  BY <1>2 DEF NoMessage, Both, Message
<1>4. Idle \in Thread
  BY <1>2, <1>3 DEF Idle, Thread
<1>5. QED
  BY <1>1, <1>2, <1>3, <1>4

\* What the loop prints of a message: one or two lines that say what it says.
LEMMA PrintedSays ==
    ASSUME NEW msg \in Message, NEW B, \A f \in Fields : msg[f] \in B
    PROVE  Printed(msg) \in Seq([kind : {"{", "#", "text"}, pressed : B])
<1>1. msg["estop_active"] \in B /\ msg["nc_raw"] \in B
  BY DEF Fields
<1> DEFINE L == [kind : {"{", "#", "text"}, pressed : B]
           j == [kind |-> "{", pressed |-> msg["estop_active"]]
           d == [kind |-> "#", pressed |-> msg["nc_raw"]]
<1>2. j \in L /\ d \in L
  BY <1>1
<1>3. <<j>> \in Seq(L) /\ <<d>> \in Seq(L) /\ <<>> \in Seq(L)
  BY <1>2
<1> HIDE DEF L
<1>4. (IF msg["estop_active"] # g_prev_estop THEN <<j>> ELSE <<>>) \in Seq(L)
  BY <1>3
<1>5. Printed(msg) = (IF msg["estop_active"] # g_prev_estop THEN <<j>> ELSE <<>>) \o <<d>>
  BY DEF Printed
<1>6. Printed(msg) \in Seq(L)
  <2>1. ASSUME NEW s \in Seq(L), NEW t \in Seq(L)
        PROVE  s \o t \in Seq(L)
    OBVIOUS
  <2>2. QED
    BY <1>3, <1>4, <1>5, <2>1, Zenon
<1>7. QED
  BY <1>6 DEF L

LEMMA TypeInit == Init => TypeOK
<1>1. SUFFICES ASSUME Init PROVE TypeOK
  OBVIOUS
<1>2. lines = <<>> /\ lines \in Seq(Line) /\ Len(lines) = 0 /\ outbox \in Seq(Command) /\ Len(outbox) = 0
  BY <1>1 DEF Init
<1>3. Len(lines) <= MaxLines /\ Len(outbox) <= MaxOutbox
  BY <1>2, Facts
<1>4. ser \in {"closed", "open", "stale"} /\ prev_estop \in Report /\ g_prev_estop \in Report
  BY <1>1, Facts DEF Init
<1>5. g_got_msg \in BOOLEAN /\ plugged \in BOOLEAN /\ emergency_stop \in BOOLEAN
  BY <1>1 DEF Init
<1>6. pressed \in Reading /\ g_last_msg \in Message /\ callback \in Thread /\ loop \in Thread
  BY <1>1, Facts DEF Init
<1>7. QED
  BY <1>2, <1>3, <1>4, <1>5, <1>6 DEF TypeOK

LEMMA RadioTyped == TypeOK /\ (Button \/ Deliver) => TypeOK'
<1>1. ASSUME TypeOK, Button PROVE TypeOK'
  <2>1. pressed' \in Reading
    BY <1>1 DEF Button
  <2>2. QED
    BY <1>1, <2>1 DEF Button, TypeOK, receiver, bridge
<1>2. ASSUME TypeOK, Deliver PROVE TypeOK'
  <2>1. callback' \in Thread
    BY <1>2, Facts DEF Deliver, Thread, TypeOK
  <2>2. QED
    BY <1>2, <2>1 DEF Deliver, TypeOK, station, bridge
<1>3. QED
  BY <1>1, <1>2

LEMMA CallbackTyped == TypeOK /\ Receive => TypeOK'
<1>1. ASSUME TypeOK, NEW f \in Fields, Store(f) PROVE TypeOK'
  <2>1. callback.msg[f] \in Reading
    BY <1>1 DEF TypeOK, Thread, Message
  <2>2. g_last_msg' \in Message
    BY <1>1, <2>1 DEF Store, TypeOK, Message
  <2>3. callback' \in Thread
    BY <1>1 DEF Store, TypeOK, Thread
  <2>4. QED
    BY <1>1, <2>2, <2>3 DEF Store, TypeOK, station, bridge
<1>2. ASSUME TypeOK, RaiseFlag PROVE TypeOK'
  BY <1>2, Facts DEF RaiseFlag, TypeOK, station, bridge
<1>3. QED
  BY <1>1, <1>2 DEF Receive

LEMMA LoopTyped == TypeOK /\ Loop => TypeOK'
<1>1. ASSUME TypeOK, LowerFlag PROVE TypeOK'
  <2>1. loop' \in Thread
    BY <1>1, Facts DEF LowerFlag, Idle, Thread
  <2>2. QED
    BY <1>1, <2>1 DEF LowerFlag, TypeOK, station, bridge
<1>2. ASSUME TypeOK, NEW f \in Fields, Copy(f) PROVE TypeOK'
  <2>1. g_last_msg[f] \in Reading
    BY <1>2 DEF TypeOK, Message
  <2>2. loop' \in Thread
    BY <1>2, <2>1 DEF Copy, TypeOK, Thread, Message
  <2>3. QED
    BY <1>2, <2>2 DEF Copy, TypeOK, station, bridge
<1>3. ASSUME TypeOK, PrintState PROVE TypeOK'
  <2>1. loop.msg \in Message /\ \A f \in Fields : loop.msg[f] \in Reading
    BY <1>3 DEF TypeOK, Thread, Message
  <2>2. Printed(loop.msg) \in Seq(Line)
    BY <2>1, PrintedSays DEF Line
  <2>3. lines \o Printed(loop.msg) \in Seq(Line)
        /\ Len(lines \o Printed(loop.msg)) = Len(lines) + Len(Printed(loop.msg))
    BY <1>3, <2>2, ConcatProperties DEF TypeOK
  <2>4. lines' \in Seq(Line) /\ Len(lines') <= MaxLines
    BY <1>3, <2>3 DEF PrintState, TypeOK
  <2>5. g_prev_estop' \in Report /\ loop' \in Thread
    BY <1>3, <2>1, Facts DEF PrintState, Fields
  <2>6. QED
    BY <1>3, <2>4, <2>5 DEF PrintState, TypeOK, station, bridge
<1>4. QED
  BY <1>1, <1>2, <1>3 DEF Loop

LEMMA PortTyped == TypeOK /\ (Unplug \/ Plug \/ OpenPort \/ LosePort \/ BridgeRestarts) => TypeOK'
<1>1. <<>> \in Seq(Line) /\ Len(<<>>) <= MaxLines /\ <<>> \in Seq(Command) /\ Len(<<>>) <= MaxOutbox
  BY Facts
<1>2. ASSUME TypeOK, Unplug PROVE TypeOK'
  BY <1>1, <1>2, Facts DEF Unplug, TypeOK, station
<1>3. ASSUME TypeOK, Plug PROVE TypeOK'
  BY <1>3 DEF Plug, TypeOK, station, bridge
<1>4. ASSUME TypeOK, OpenPort PROVE TypeOK'
  <2> DEFINE t == [kind |-> "text", pressed |-> "SAFE"]
  <2>1. t \in Line
    BY DEF Line, Reading
  <2>2. <<t>> \in Seq(Line) /\ Len(<<t>>) = 1
    BY <2>1
  <2>3. lines' \in Seq(Line) /\ Len(lines') <= MaxLines
    <3>1. lines' = <<>> \/ lines' = <<t>>
      BY <1>4 DEF OpenPort
    <3>2. Len(<<t>>) <= MaxLines
      BY <2>2, Facts
    <3>3. QED
      BY <1>1, <2>2, <3>1, <3>2
  <2>4. QED
    BY <1>4, <2>3 DEF OpenPort, TypeOK, station, receiver
<1>5. ASSUME TypeOK, LosePort PROVE TypeOK'
  BY <1>5 DEF LosePort, TypeOK, station, receiver
<1>6. ASSUME TypeOK, BridgeRestarts PROVE TypeOK'
  BY <1>1, <1>6, Facts DEF BridgeRestarts, TypeOK, station, receiver
<1>7. QED
  BY <1>2, <1>3, <1>4, <1>5, <1>6

LEMMA QueueTyped == TypeOK /\ (ReadLine \/ TakeCommand) => TypeOK'
<1>1. ASSUME TypeOK, ReadLine PROVE TypeOK'
  <2>1. Tail(lines) \in Seq(Line) /\ Len(Tail(lines)) <= MaxLines /\ Head(lines) \in Line
    BY <1>1, HeadTailProperties, Facts, LenProperties DEF ReadLine, TypeOK
  <2>2. Head(lines).pressed \in Reading
    BY <2>1 DEF Line
  <2>3. CommandFor(Head(lines).pressed) \in Command
    BY DEF CommandFor, Command
  <2>4. outbox' \in Seq(Command) /\ Len(outbox') <= MaxOutbox /\ prev_estop' \in Report
    <3>1. CASE UNCHANGED <<outbox, prev_estop>>
      BY <1>1, <3>1 DEF TypeOK
    <3>2. CASE /\ Len(outbox) < MaxOutbox
               /\ outbox' = Append(outbox, CommandFor(Head(lines).pressed))
               /\ prev_estop' = Head(lines).pressed
      BY <1>1, <2>2, <2>3, <3>2, AppendProperties, LenProperties, Facts DEF TypeOK
    <3>3. QED
      BY <1>1, <3>1, <3>2 DEF ReadLine
  <2>5. QED
    BY <1>1, <2>1, <2>4 DEF ReadLine, TypeOK, station, receiver
<1>2. ASSUME TypeOK, TakeCommand PROVE TypeOK'
  <2>1. Tail(outbox) \in Seq(Command) /\ Len(Tail(outbox)) <= MaxOutbox
    BY <1>2, HeadTailProperties, LenProperties, Facts DEF TakeCommand, TypeOK
  <2>2. emergency_stop' \in BOOLEAN
    BY <1>2 DEF TakeCommand, TypeOK
  <2>3. QED
    BY <1>2, <2>1, <2>2 DEF TakeCommand, TypeOK, station, receiver
<1>3. QED
  BY <1>1, <1>2

LEMMA NextTyped == TypeOK /\ [Next]_vars => TypeOK'
<1>1. ASSUME TypeOK, UNCHANGED vars PROVE TypeOK'
  BY <1>1 DEF TypeOK, vars, station, receiver, bridge
<1>2. QED
  BY <1>1, RadioTyped, CallbackTyped, LoopTyped, PortTyped, QueueTyped DEF Next, Bridge

\* Type correctness: the relay's buffers stay within their bounds, and a
\* message has a button state in each of its fields, torn or not.
THEOREM TypeCorrect == Spec => []TypeOK
  BY TypeInit, NextTyped, PTL DEF Spec

----------------------------------------------------------------------------
(* A button that is never pressed. *)

LEMMA SafeMessages == SaysSafe(Both("SAFE")) /\ SaysSafe(Idle.msg) /\ ~Idle.busy
  BY DEF SaysSafe, Both, Idle

LEMMA QuietInit == Init => NoStopSeen
<1>1. SUFFICES ASSUME Init PROVE NoStopSeen
  OBVIOUS
<1>2. ~g_got_msg /\ callback = Idle /\ loop = Idle /\ lines = <<>> /\ prev_estop = "none"
  BY <1>1 DEF Init
<1>3. lines \in Seq(SafeLine)
  BY <1>2
<1>4. QED
  BY <1>2, <1>3, SafeMessages DEF NoStopSeen

LEMMA DeliverQuiet ==
    ASSUME NoStopSeen, pressed = "SAFE", Deliver
    PROVE  NoStopSeen'
<1>1. callback' = [msg |-> Both("SAFE"), left |-> Fields, busy |-> TRUE]
      /\ UNCHANGED <<g_last_msg, g_got_msg, loop, lines, prev_estop>>
  BY DEF Deliver, bridge
<1>2. SaysSafe(callback'.msg) /\ callback'.left = Fields
  BY <1>1, SafeMessages
<1>3. QED
  BY <1>1, <1>2 DEF NoStopSeen, SaysSafe

LEMMA StoreQuiet ==
    ASSUME TypeOK, NoStopSeen, NEW f \in Fields, Store(f)
    PROVE  NoStopSeen'
<1>1. /\ callback.busy /\ f \in callback.left /\ callback' = [callback EXCEPT !.left = @ \ {f}]
      /\ g_last_msg' = [g_last_msg EXCEPT ![f] = callback.msg[f]]
      /\ UNCHANGED <<g_got_msg, loop, lines, prev_estop>>
  BY DEF Store, bridge
<1>2. callback'.msg = callback.msg /\ callback'.left = callback.left \ {f} /\ callback \in Thread
      /\ g_last_msg \in Message
  BY <1>1 DEF TypeOK, Thread
<1>3. callback.msg[f] = "SAFE"
  BY <1>1 DEF NoStopSeen, SaysSafe
<1>4. \A e \in Fields : g_last_msg'[e] = IF e = f THEN "SAFE" ELSE g_last_msg[e]
  BY <1>1, <1>2, <1>3 DEF Message
<1>5. QED
  BY <1>1, <1>2, <1>4 DEF NoStopSeen, SaysSafe

LEMMA RaiseFlagQuiet ==
    ASSUME NoStopSeen, RaiseFlag
    PROVE  NoStopSeen'
<1>1. /\ callback.busy /\ callback.left = {} /\ callback' = Idle
      /\ UNCHANGED <<g_last_msg, loop, lines, prev_estop>>
  BY DEF RaiseFlag, bridge
<1>2. SaysSafe(g_last_msg)
  BY <1>1 DEF NoStopSeen, SaysSafe
<1>3. QED
  BY <1>1, <1>2, SafeMessages DEF NoStopSeen, SaysSafe

LEMMA LowerFlagQuiet ==
    ASSUME NoStopSeen, LowerFlag
    PROVE  NoStopSeen'
<1>1. /\ g_got_msg /\ loop' = [Idle EXCEPT !.left = Fields, !.busy = TRUE]
      /\ UNCHANGED <<g_last_msg, callback, lines, prev_estop>>
  BY DEF LowerFlag, bridge
<1>2. loop'.msg = Idle.msg
  BY <1>1 DEF Idle
<1>3. QED
  BY <1>1, <1>2, SafeMessages DEF NoStopSeen, SaysSafe

LEMMA CopyQuiet ==
    ASSUME TypeOK, NoStopSeen, NEW f \in Fields, Copy(f)
    PROVE  NoStopSeen'
<1>1. /\ loop.busy
      /\ loop' = [msg  |-> [loop.msg EXCEPT ![f] = g_last_msg[f]],
                  left |-> loop.left \ {f}, busy |-> TRUE]
      /\ UNCHANGED <<g_last_msg, g_got_msg, callback, lines, prev_estop>>
  BY DEF Copy, bridge
<1>2. SaysSafe(g_last_msg) /\ SaysSafe(loop.msg) /\ loop.msg \in Message
  BY <1>1 DEF NoStopSeen, TypeOK, Thread
<1>3. SaysSafe(loop'.msg)
  BY <1>1, <1>2 DEF SaysSafe, Message
<1>4. QED
  BY <1>1, <1>2, <1>3 DEF NoStopSeen, SaysSafe

LEMMA PrintStateQuiet ==
    ASSUME TypeOK, NoStopSeen, PrintState
    PROVE  NoStopSeen'
<1>1. /\ loop.busy /\ loop' = Idle
      /\ lines' = IF ser = "open" THEN lines \o Printed(loop.msg) ELSE lines
      /\ UNCHANGED <<g_last_msg, g_got_msg, callback, prev_estop>>
  BY DEF PrintState, bridge
<1>2. loop.msg \in Message /\ \A f \in Fields : loop.msg[f] \in {"SAFE"}
  BY DEF TypeOK, Thread, NoStopSeen, SaysSafe
<1>3. Printed(loop.msg) \in Seq(SafeLine)
  BY <1>2, PrintedSays DEF SafeLine
<1>4. lines' \in Seq(SafeLine)
  BY <1>1, <1>3, ConcatProperties DEF NoStopSeen
<1>5. QED
  BY <1>1, <1>4, SafeMessages DEF NoStopSeen, SaysSafe

LEMMA PortQuiet ==
    ASSUME NoStopSeen, Unplug \/ Plug \/ OpenPort \/ LosePort \/ BridgeRestarts
    PROVE  NoStopSeen'
<1>1. <<>> \in Seq(SafeLine)
  OBVIOUS
<1>2. CASE Unplug
  BY <1>1, <1>2, SafeMessages DEF Unplug, NoStopSeen
<1>3. CASE Plug
  BY <1>3 DEF Plug, NoStopSeen, SaysSafe, bridge
<1>4. CASE OpenPort
  <2> DEFINE t == [kind |-> "text", pressed |-> "SAFE"]
  <2>1. t \in SafeLine
    BY DEF SafeLine
  <2>2. <<t>> \in Seq(SafeLine) /\ (lines' = <<>> \/ lines' = <<t>>)
    BY <1>4, <2>1 DEF OpenPort
  <2>3. lines' \in Seq(SafeLine)
    BY <1>1, <2>2
  <2>4. QED
    BY <1>4, <2>3 DEF OpenPort, NoStopSeen, SaysSafe, receiver
<1>5. CASE LosePort
  BY <1>5 DEF LosePort, NoStopSeen, SaysSafe, receiver
<1>6. CASE BridgeRestarts
  BY <1>1, <1>6 DEF BridgeRestarts, NoStopSeen, SaysSafe, receiver
<1>7. QED
  BY <1>2, <1>3, <1>4, <1>5, <1>6

LEMMA ReadLineQuiet ==
    ASSUME NoStopSeen, ReadLine
    PROVE  NoStopSeen'
<1>1. Head(lines) \in SafeLine /\ lines' \in Seq(SafeLine)
  BY HeadTailProperties DEF ReadLine, NoStopSeen
<1>2. prev_estop' # "STOP"
  BY <1>1 DEF ReadLine, NoStopSeen, SafeLine
<1>3. UNCHANGED <<g_last_msg, g_got_msg, callback, loop>>
  BY DEF ReadLine, receiver
<1>4. QED
  BY <1>1, <1>2, <1>3 DEF NoStopSeen, SaysSafe

LEMMA NextQuiet ==
    TypeOK /\ NoStopSeen /\ pressed = "SAFE" /\ [Next]_vars => NoStopSeen'
<1>1. ASSUME NoStopSeen, Button \/ TakeCommand \/ UNCHANGED vars PROVE NoStopSeen'
  <2>1. UNCHANGED <<g_last_msg, g_got_msg, callback, loop, lines, prev_estop>>
    BY <1>1 DEF Button, TakeCommand, vars, receiver, bridge
  <2>2. QED
    BY <1>1, <2>1 DEF NoStopSeen, SaysSafe
<1>2. QED
  BY <1>1, DeliverQuiet, StoreQuiet, RaiseFlagQuiet, LowerFlagQuiet, CopyQuiet, PrintStateQuiet,
     PortQuiet, ReadLineQuiet
     DEF Next, Receive, Loop, Bridge

\* A button that is never pressed never makes the bridge send a stop: not
\* over the receiver's empty message, which reads as a pressed button, not
\* over a message torn between its threads, not after any loss of the port.
THEOREM PhantomStopsNever == Spec => NoPhantomStop
<1>1. Spec /\ [](pressed = "SAFE") => []NoStopSeen
  BY QuietInit, NextQuiet, TypeCorrect, PTL DEF Spec
<1>2. NoStopSeen => prev_estop # "STOP"
  BY DEF NoStopSeen
<1>3. QED
  BY <1>1, <1>2, PTL DEF NoPhantomStop
=============================================================================
