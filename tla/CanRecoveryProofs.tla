------------------------- MODULE CanRecoveryProofs -------------------------
(***************************************************************************)
(* Theorems about CanRecovery, for any buses, thresholds, cooldowns and    *)
(* numbers of attempts.                                                    *)
(***************************************************************************)
EXTENDS CanRecovery, SequenceTheorems, TLAPS

\* A bus without a socket, and a bus chosen for recovery, is at the threshold.
Due == \A b \in Bus : b \notin open \/ b \in todo => errors[b] = Threshold

\* The attempts of a level never exceed its limit; level 2 is a process that
\* has exited.
Rungs ==
    \A b \in Bus : /\ level[b] = 0 => attempts[b] <= MaxSocketAttempts
                   /\ level[b] # 0 => attempts[b] <= MaxLinkAttempts
                   /\ level[b] = 2 => ~running

IInv == TypeOK /\ Due /\ Rungs

\* What the constants and the poll order give.
LEMMA Facts ==
    /\ Threshold \in Nat /\ Threshold >= 1
    /\ SocketCooldown \in Nat /\ LinkCooldown \in Nat
    /\ MaxSocketAttempts \in Nat /\ MaxLinkAttempts \in Nat /\ MaxLinkAttempts >= 1
    /\ Len(Polled) \in Nat /\ Len(Polled) >= 1
    /\ \A i \in 1..Len(Polled) : Polled[i] \in Bus
<1>1. Len(Polled) \in Nat /\ \A i \in 1..Len(Polled) : Polled[i] \in Bus
  BY RecoveryAssumption, LenProperties, ElementOfSeq
<1>2. Len(Polled) # 0
  BY RecoveryAssumption, EmptySeq
<1>3. QED
  BY <1>1, <1>2, RecoveryAssumption

\* A write leaves the counter within its saturation bound.
LEMMA WriteTyped ==
    ASSUME TypeOK, NEW b \in Bus
    PROVE  ErrorsAfterWrite(b) \in 0..Threshold
  BY Facts DEF ErrorsAfterWrite, TypeOK

\* Whether a reopening succeeds or not, a bus without a socket stays due.
LEMMA ReopenStep ==
    ASSUME IInv, NEW b \in Bus, b \in todo, NEW ok \in BOOLEAN, ReopenSocket(b, ok)
    PROVE  /\ open' \subseteq Bus /\ errors' \in [Bus -> 0..Threshold]
           /\ \A c \in Bus : c \notin open' \/ (c \in todo /\ c # b) => errors'[c] = Threshold
<1>1. /\ open \subseteq Bus /\ errors \in [Bus -> 0..Threshold]
      /\ errors[b] = Threshold /\ 0 \in 0..Threshold
  BY Facts DEF IInv, TypeOK, Due
<1>2. CASE ok
  BY <1>1, <1>2 DEF ReopenSocket, IInv, Due
<1>3. CASE ~ok
  BY <1>1, <1>3 DEF ReopenSocket, IInv, Due
<1>4. QED
  BY <1>2, <1>3

\* One more remedy tried on bus b, and nothing on the others, is a climb.
LEMMA OneRungUp ==
    ASSUME NEW b \in Bus, running, running' = running,
           Rung[b] < MaxSocketAttempts + MaxLinkAttempts,
           Rung'[b] = Rung[b] + 1,
           \A c \in Bus : c # b => Rung'[c] = Rung[c]
    PROVE  Ladder!Climb(b)
<1>1. Rung' = [c \in Bus |-> Rung'[c]] /\ Rung = [c \in Bus |-> Rung[c]]
  BY DEF Rung
<1> HIDE DEF Rung
<1>2. Rung' = [Rung EXCEPT ![b] = Rung[b] + 1]
  BY <1>1
<1>3. QED
  BY <1>2 DEF Ladder!Climb

\* The invariant holds initially.
LEMMA InitIInv == Init => IInv
<1> SUFFICES ASSUME Init PROVE IInv
  OBVIOUS
<1>1. TypeOK
  BY Facts DEF Init, TypeOK
<1>2. Due /\ Rungs
  BY Facts DEF Init, Due, Rungs
<1>3. QED
  BY <1>1, <1>2 DEF IInv

----------------------------------------------------------------------------
(* The steps of recover_can_if_needed. *)

\* A visit that waits for the cooldown leaves the ladder where it is.
LEMMA CoolingDownStep ==
    ASSUME IInv, NEW b \in Bus, CoolingDown(b)
    PROVE  IInv' /\ UNCHANGED <<Rung, running>>
  BY DEF IInv, TypeOK, Due, Rungs, CoolingDown, Visit, ladder, world, Rung

\* Reopening the socket is one rung up.
LEMMA TrySocketStep ==
    ASSUME IInv, NEW b \in Bus, TrySocket(b)
    PROVE  IInv' /\ Ladder!Climb(b)
<1> PICK ok \in BOOLEAN : ReopenSocket(b, ok)
  BY DEF TrySocket
<1>1. /\ open' \subseteq Bus /\ errors' \in [Bus -> 0..Threshold]
      /\ \A c \in Bus : c \notin open' \/ (c \in todo /\ c # b) => errors'[c] = Threshold
  BY ReopenStep DEF TrySocket, Visit
<1>2. /\ attempts[b] \in 0..(MaxSocketAttempts + MaxLinkAttempts)
      /\ attempts[b] < MaxSocketAttempts /\ level[b] = 0
  BY DEF IInv, TypeOK, TrySocket
<1>3. TypeOK'
  <2>1. attempts' \in [Bus -> 0..(MaxSocketAttempts + MaxLinkAttempts)]
    BY <1>2, Facts DEF IInv, TypeOK, TrySocket
  <2>2. sinceSocket' \in 0..SocketCooldown /\ todo' \subseteq Bus
    BY Facts DEF IInv, TypeOK, TrySocket, Visit
  <2>3. QED
    BY <1>1, <2>1, <2>2 DEF IInv, TypeOK, TrySocket, Visit, world
<1>4. Due'
  BY <1>1 DEF Due, TrySocket, Visit
<1>5. Rungs'
  BY <1>2, Facts DEF IInv, TypeOK, Rungs, TrySocket, Visit
<1>6. Ladder!Climb(b)
  <2>1. Rung[b] = attempts[b] /\ Rung'[b] = attempts[b] + 1
    BY <1>2 DEF Rung, IInv, TypeOK, TrySocket
  <2>2. \A c \in Bus : c # b => Rung'[c] = Rung[c]
    BY DEF Rung, IInv, TypeOK, TrySocket
  <2>3. Rung[b] < MaxSocketAttempts + MaxLinkAttempts /\ Rung'[b] = Rung[b] + 1
    BY <1>2, <2>1, Facts
  <2>4. QED
    BY <2>2, <2>3, OneRungUp DEF TrySocket, Visit
<1>7. QED
  BY <1>3, <1>4, <1>5, <1>6 DEF IInv

\* Escalating is one rung up when the link is reset at once, else a stutter.
LEMMA EscalateStep ==
    ASSUME IInv, NEW b \in Bus, Escalate(b)
    PROVE  IInv' /\ (Ladder!Climb(b) \/ UNCHANGED <<Rung, running>>)
<1>1. /\ attempts[b] = MaxSocketAttempts /\ level[b] = 0 /\ b \in todo /\ running
      /\ level' = [level EXCEPT ![b] = 1]
  BY Facts DEF IInv, TypeOK, Rungs, Escalate, Visit
<1>2. CASE ~LinkReady
  <2>1. /\ attempts' = [attempts EXCEPT ![b] = 0]
        /\ UNCHANGED <<open, errors, sinceLink, driven, sinceSocket, running, wedged, cursor>>
        /\ todo' = todo \ {b}
    BY <1>2 DEF Escalate, Visit
  <2>2. IInv'
    BY <1>1, <2>1, Facts DEF IInv, TypeOK, Due, Rungs
  <2>3. Rung' = Rung
    BY <1>1, <2>1, Facts DEF IInv, TypeOK, Rung
  <2>4. QED
    BY <2>1, <2>2, <2>3
<1>3. CASE LinkReady
  <2>1. PICK ok \in BOOLEAN : ResetLink(b, ok)
    BY <1>3 DEF Escalate
  <2>2. /\ attempts' = [attempts EXCEPT ![b] = 1] /\ sinceLink' = 0
        /\ UNCHANGED <<sinceSocket, running, wedged, cursor>>
        /\ todo' = todo \ {b}
    BY <1>3 DEF Escalate, Visit
  <2>3. /\ open' \subseteq Bus /\ errors' \in [Bus -> 0..Threshold]
        /\ \A c \in Bus : c \notin open' \/ (c \in todo /\ c # b) => errors'[c] = Threshold
    BY <1>1, <2>1, ReopenStep DEF ResetLink
  <2>4. driven' \subseteq Bus
    BY <2>1 DEF ResetLink, IInv, TypeOK
  <2>5. TypeOK'
    <3>1. /\ attempts' \in [Bus -> 0..(MaxSocketAttempts + MaxLinkAttempts)]
          /\ level' \in [Bus -> 0..2] /\ sinceLink' \in 0..LinkCooldown
      BY <1>1, <2>2, Facts DEF IInv, TypeOK
    <3>2. QED
      BY <2>2, <2>3, <2>4, <3>1 DEF IInv, TypeOK
  <2>6. Due'
    BY <2>2, <2>3 DEF Due
  <2>7. Rungs'
    BY <1>1, <2>2, Facts DEF IInv, TypeOK, Rungs
  <2>8. Ladder!Climb(b)
    <3>1. Rung[b] = MaxSocketAttempts /\ Rung'[b] = MaxSocketAttempts + 1
      BY <1>1, <2>2 DEF Rung, IInv, TypeOK
    <3>2. \A c \in Bus : c # b => Rung'[c] = Rung[c]
      BY <1>1, <2>2 DEF Rung, IInv, TypeOK
    <3>3. Rung[b] < MaxSocketAttempts + MaxLinkAttempts /\ Rung'[b] = Rung[b] + 1
      BY <3>1, Facts
    <3>4. QED
      BY <1>1, <2>2, <3>2, <3>3, OneRungUp
  <2>9. QED
    BY <2>5, <2>6, <2>7, <2>8 DEF IInv
<1>4. QED
  BY <1>2, <1>3

\* Resetting the link is one rung up.
LEMMA TryLinkStep ==
    ASSUME IInv, NEW b \in Bus, TryLink(b)
    PROVE  IInv' /\ Ladder!Climb(b)
<1> PICK ok \in BOOLEAN : ResetLink(b, ok)
  BY DEF TryLink
<1>1. /\ open' \subseteq Bus /\ errors' \in [Bus -> 0..Threshold]
      /\ \A c \in Bus : c \notin open' \/ (c \in todo /\ c # b) => errors'[c] = Threshold
  BY ReopenStep DEF TryLink, Visit, ResetLink
<1>2. /\ attempts[b] \in 0..(MaxSocketAttempts + MaxLinkAttempts)
      /\ attempts[b] < MaxLinkAttempts /\ level[b] = 1
  BY DEF IInv, TypeOK, TryLink
<1>3. driven' \subseteq Bus
  BY DEF ResetLink, IInv, TypeOK
<1>4. TypeOK'
  <2>1. attempts' \in [Bus -> 0..(MaxSocketAttempts + MaxLinkAttempts)]
    BY <1>2, Facts DEF IInv, TypeOK, TryLink
  <2>2. sinceLink' \in 0..LinkCooldown /\ todo' \subseteq Bus
    BY Facts DEF IInv, TypeOK, TryLink, Visit
  <2>3. QED
    BY <1>1, <1>3, <2>1, <2>2 DEF IInv, TypeOK, TryLink, Visit
<1>5. Due'
  BY <1>1 DEF Due, TryLink, Visit
<1>6. Rungs'
  BY <1>2, Facts DEF IInv, TypeOK, Rungs, TryLink, Visit
<1>7. Ladder!Climb(b)
  <2>1. /\ Rung[b] = MaxSocketAttempts + attempts[b]
        /\ Rung'[b] = MaxSocketAttempts + (attempts[b] + 1)
    BY <1>2 DEF Rung, IInv, TypeOK, TryLink
  <2>2. \A c \in Bus : c # b => Rung'[c] = Rung[c]
    BY DEF Rung, IInv, TypeOK, TryLink
  <2>3. Rung[b] < MaxSocketAttempts + MaxLinkAttempts /\ Rung'[b] = Rung[b] + 1
    BY <1>2, <2>1, Facts
  <2>4. QED
    BY <2>2, <2>3, OneRungUp DEF TryLink, Visit
<1>8. QED
  BY <1>4, <1>5, <1>6, <1>7 DEF IInv

\* The process exits from the last rung.
LEMMA GiveUpStep ==
    ASSUME IInv, NEW b \in Bus, GiveUp(b)
    PROVE  IInv' /\ Ladder!Surrender
<1>1. attempts[b] = MaxLinkAttempts /\ level[b] = 1
  BY Facts DEF IInv, TypeOK, Rungs, GiveUp
<1>2. IInv'
  <2>1. TypeOK'
    <3>1. level' \in [Bus -> 0..2] /\ running' \in BOOLEAN /\ todo' \subseteq Bus
      <4>1. level \in [Bus -> 0..2] /\ todo \subseteq Bus /\ 2 \in 0..2
        BY DEF IInv, TypeOK
      <4>2. level' = [level EXCEPT ![b] = 2] /\ running' = FALSE /\ todo' = todo \ {b}
        BY DEF GiveUp, Visit
      <4>3. level' \in [Bus -> 0..2]
        BY <4>1, <4>2
      <4>4. running' \in BOOLEAN
        BY <4>2
      <4>5. QED
        BY <4>1, <4>2, <4>3, <4>4
    <3>2. QED
      BY <3>1 DEF IInv, TypeOK, GiveUp, Visit, world
  <2>2. Due' /\ Rungs'
    BY <1>1 DEF IInv, TypeOK, Due, Rungs, GiveUp, Visit
  <2>3. QED
    BY <2>1, <2>2 DEF IInv
<1>3. Rung' = Rung
  BY <1>1 DEF IInv, TypeOK, GiveUp, Rung
<1>4. Rung[b] = MaxSocketAttempts + MaxLinkAttempts
  BY <1>1 DEF Rung
<1>5. QED
  BY <1>2, <1>3, <1>4 DEF GiveUp, Visit, Ladder!Surrender

----------------------------------------------------------------------------
(* The other steps. *)

\* The VBUS poll leaves the ladder where it is, and picks buses at the threshold.
LEMMA BaseTickStep ==
    ASSUME IInv, BaseTick
    PROVE  IInv' /\ UNCHANGED <<Rung, running>>
<1> DEFINE b == Polled[cursor]
<1>1. b \in Bus /\ NextCursor \in 1..Len(Polled)
  BY Facts DEF IInv, TypeOK, NextCursor
<1>2. cursor' \in 1..Len(Polled) /\ errors' \in [Bus -> 0..Threshold]
  BY <1>1, WriteTyped DEF IInv, TypeOK, BaseTick
<1>3. \A c \in Bus : c \notin open => errors'[c] = Threshold
  BY <1>1 DEF IInv, TypeOK, Due, BaseTick
<1>4. \A c \in todo' : errors'[c] = Threshold
  BY <1>2, Facts DEF BaseTick
<1>5. TypeOK'
  BY <1>2 DEF IInv, TypeOK, BaseTick, ladder, world
<1>6. Due' /\ Rungs'
  BY <1>3, <1>4 DEF IInv, Due, Rungs, BaseTick, ladder
<1>7. QED
  BY <1>5, <1>6 DEF IInv, BaseTick, ladder, Rung

\* A control frame is written to a bus that has a socket only.
LEMMA ControlFrameStep ==
    ASSUME IInv, NEW b \in Bus, ControlFrame(b)
    PROVE  IInv' /\ UNCHANGED <<Rung, running>>
<1>1. errors' \in [Bus -> 0..Threshold] /\ \A c \in Bus : c # b => errors'[c] = errors[c]
  BY WriteTyped DEF IInv, TypeOK, ControlFrame
<1>2. QED
  BY <1>1 DEF IInv, TypeOK, Due, Rungs, ControlFrame, ladder, world, Rung

\* Time moves the cooldowns only.
LEMMA TickStep ==
    ASSUME IInv, Tick
    PROVE  IInv' /\ UNCHANGED <<Rung, running>>
<1>1. sinceSocket' \in 0..SocketCooldown /\ sinceLink' \in 0..LinkCooldown
  BY Facts DEF IInv, TypeOK, Tick, Passed
<1>2. QED
  BY <1>1 DEF IInv, TypeOK, Due, Rungs, Tick, world, Rung

\* A new process starts at the foot of the ladder.
LEMMA RestartStep ==
    ASSUME IInv, Restart
    PROVE  IInv' /\ Ladder!StartAgain
<1>1. TypeOK'
  BY Facts DEF IInv, TypeOK, Restart
<1>2. Due' /\ Rungs'
  BY Facts DEF Due, Rungs, Restart
<1>3. Ladder!StartAgain
  BY DEF Restart, Rung, Ladder!StartAgain
<1>4. QED
  BY <1>1, <1>2, <1>3 DEF IInv

\* Adapters and operators do not touch the recovery.
LEMMA WorldStep ==
    ASSUME IInv, \/ \E b \in Bus : Adapter(b) \/ Operate(b)
                 \/ UNCHANGED vars
    PROVE  IInv' /\ UNCHANGED <<Rung, running>>
  BY DEF IInv, TypeOK, Due, Rungs, Adapter, Operate, vars, ladder, world, Rung

\* Every step preserves the invariant and is a step, or a stutter, of the
\* ladder.
LEMMA NextStep ==
    ASSUME IInv, [Next]_vars
    PROVE  IInv' /\ [Ladder!LadderNext]_<<Rung, running>>
  BY CoolingDownStep, TrySocketStep, EscalateStep, TryLinkStep, GiveUpStep, BaseTickStep,
     ControlFrameStep, TickStep, RestartStep, WorldStep
  DEF Next, Recover, Ladder!LadderNext

----------------------------------------------------------------------------
(* The cooldowns. *)

\* The rungs of bus c change as RemediesAreSpaced says.
Spaced(c) ==
    running /\ Rung'[c] > Rung[c] =>
        IF Rung'[c] <= MaxSocketAttempts THEN SocketReady /\ sinceSocket' = 0
                                         ELSE LinkReady /\ sinceLink' = 0

\* The rung of a bus is a number.
LEMMA RungTyped ==
    ASSUME IInv, NEW c \in Bus
    PROVE  Rung[c] \in Nat
  BY Facts DEF IInv, TypeOK, Rung

\* A reopened socket leaves the bus on a rung of level 0, after the socket
\* cooldown, which starts again.
LEMMA TrySocketSpaced ==
    ASSUME IInv, NEW b \in Bus, TrySocket(b), NEW c \in Bus
    PROVE  Spaced(c)
<1>1. level[b] = 0 /\ attempts[b] < MaxSocketAttempts /\ attempts[b] \in Nat
  BY Facts DEF IInv, TypeOK, TrySocket
<1>2. SocketReady /\ sinceSocket' = 0
  BY DEF TrySocket
<1>3. CASE c = b
  <2>1. Rung'[c] = attempts[b] + 1
    BY <1>1, <1>3 DEF Rung, IInv, TypeOK, TrySocket
  <2>2. Rung'[c] <= MaxSocketAttempts
    BY <1>1, <2>1, Facts
  <2>3. QED
    BY <1>2, <2>2 DEF Spaced
<1>4. CASE c # b
  <2>1. Rung'[c] = Rung[c]
    BY <1>4 DEF Rung, IInv, TypeOK, TrySocket
  <2>2. QED
    BY <2>1, RungTyped DEF Spaced
<1>5. QED
  BY <1>3, <1>4

\* A link reset, the one of an escalation included, leaves the bus on a rung
\* of level 1, after the link cooldown, which starts again.
LEMMA LinkSpaced ==
    ASSUME IInv, NEW b \in Bus, NEW c \in Bus, LinkReady, sinceLink' = 0,
           level'[b] = 1, attempts'[b] \in Nat \ {0},
           c # b => level'[c] = level[c] /\ attempts'[c] = attempts[c]
    PROVE  Spaced(c)
<1>1. CASE c = b
  <2>1. Rung'[c] = MaxSocketAttempts + attempts'[b]
    BY <1>1 DEF Rung
  <2>2. ~(Rung'[c] <= MaxSocketAttempts)
    BY <2>1, Facts
  <2>3. QED
    BY <2>2 DEF Spaced
<1>2. CASE c # b
  <2>1. Rung'[c] = Rung[c]
    BY <1>2 DEF Rung
  <2>2. QED
    BY <2>1, RungTyped DEF Spaced
<1>3. QED
  BY <1>1, <1>2

\* Every visit of recover_can_if_needed.
LEMMA VisitSpaced ==
    ASSUME IInv, Recover, NEW c \in Bus
    PROVE  Spaced(c)
<1> PICK b \in Bus :
      CoolingDown(b) \/ TrySocket(b) \/ Escalate(b) \/ TryLink(b) \/ GiveUp(b)
  BY DEF Recover
<1>1. ASSUME Rung' = Rung
      PROVE  Spaced(c)
  BY <1>1, RungTyped DEF Spaced
<1>2. CASE CoolingDown(b)
  BY <1>1, <1>2, CoolingDownStep
<1>3. CASE TrySocket(b)
  BY <1>3, TrySocketSpaced
<1>4. CASE Escalate(b)
  <2>1. CASE ~LinkReady
    <3>1. attempts[b] = MaxSocketAttempts /\ level[b] = 0
      BY <1>4, Facts DEF IInv, TypeOK, Rungs, Escalate
    <3>2. level' = [level EXCEPT ![b] = 1] /\ attempts' = [attempts EXCEPT ![b] = 0]
      BY <1>4, <2>1 DEF Escalate
    <3>3. Rung' = Rung
      BY <3>1, <3>2, Facts DEF IInv, TypeOK, Rung
    <3>4. QED
      BY <1>1, <3>3
  <2>2. CASE LinkReady
    <3>1. /\ level' = [level EXCEPT ![b] = 1] /\ attempts' = [attempts EXCEPT ![b] = 1]
          /\ sinceLink' = 0
      BY <1>4, <2>2 DEF Escalate
    <3>2. /\ level'[b] = 1 /\ attempts'[b] = 1
          /\ c # b => level'[c] = level[c] /\ attempts'[c] = attempts[c]
      BY <3>1 DEF IInv, TypeOK
    <3>3. QED
      BY <2>2, <3>1, <3>2, LinkSpaced
  <2>3. QED
    BY <2>1, <2>2
<1>5. CASE TryLink(b)
  <2>1. /\ level' = level /\ attempts' = [attempts EXCEPT ![b] = attempts[b] + 1]
        /\ sinceLink' = 0 /\ LinkReady /\ level[b] = 1
    BY <1>5 DEF TryLink
  <2>2. attempts[b] \in Nat
    BY Facts DEF IInv, TypeOK
  <2>3. /\ level'[b] = 1 /\ attempts'[b] \in Nat \ {0}
        /\ c # b => level'[c] = level[c] /\ attempts'[c] = attempts[c]
    BY <2>1, <2>2 DEF IInv, TypeOK
  <2>4. QED
    BY <2>1, <2>3, LinkSpaced
<1>6. CASE GiveUp(b)
  BY <1>1, <1>6, GiveUpStep DEF Ladder!Surrender
<1>7. QED
  BY <1>2, <1>3, <1>4, <1>5, <1>6

\* Every step.
LEMMA SpacedStep ==
    ASSUME IInv, [Next]_vars, NEW c \in Bus
    PROVE  Spaced(c)
<1>1. CASE Recover
  BY <1>1, VisitSpaced
<1>2. CASE Restart
  BY <1>2 DEF Restart, Spaced
<1>3. CASE ~Recover /\ ~Restart
  <2>1. Rung' = Rung
    BY <1>3, BaseTickStep, ControlFrameStep, TickStep, WorldStep DEF Next
  <2>2. QED
    BY <2>1, RungTyped DEF Spaced
<1>4. QED
  BY <1>1, <1>2, <1>3

----------------------------------------------------------------------------
(* Theorems. *)

\* IInv is an invariant of the recovery.
THEOREM Invariance == Spec => []IInv
<1>1. IInv /\ [Next]_vars => IInv'
  BY NextStep
<1>2. QED
  BY <1>1, InitIInv, PTL DEF Spec

\* The state always has its type.
THEOREM TypeCorrect == Spec => []TypeOK
<1>1. IInv => TypeOK
  BY DEF IInv
<1>2. QED
  BY <1>1, Invariance, PTL

\* A bus that lost its socket stays due for recovery.
THEOREM SocketsComeBack == Spec => []LostSocketStaysDue
<1>1. IInv => LostSocketStaysDue
  BY Facts DEF IInv, Due, LostSocketStaysDue
<1>2. QED
  BY <1>1, Invariance, PTL

\* The recovery implements the ladder.
THEOREM LadderImplemented == Spec => ClimbsLadder
<1>1. Init => Ladder!LadderInit
  BY DEF Init, Rung, Ladder!LadderInit
<1>2. IInv /\ [Next]_vars => [Ladder!LadderNext]_(Ladder!ladderVars)
  BY NextStep DEF Ladder!ladderVars
<1>3. QED
  BY <1>1, <1>2, Invariance, PTL DEF Spec, ClimbsLadder, Ladder!LadderSpec

\* A remedy on one bus comes a full cooldown of its kind after the last one on
\* any bus, and starts that cooldown again.
THEOREM CooldownsKept == Spec => RemediesAreSpaced
<1>1. IInv /\ [Next]_vars =>
        [\A b \in Bus : running /\ Rung'[b] > Rung[b] =>
           IF Rung'[b] <= MaxSocketAttempts THEN SocketReady /\ sinceSocket' = 0
                                            ELSE LinkReady /\ sinceLink' = 0]_vars
  BY SpacedStep DEF Spaced
<1>2. QED
  BY <1>1, Invariance, PTL DEF Spec, RemediesAreSpaced
=============================================================================
