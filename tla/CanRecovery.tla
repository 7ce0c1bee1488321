---------------------------- MODULE CanRecovery ----------------------------
(***************************************************************************)
(* How the motor controller detects and repairs a CAN bus it can no longer *)
(* transmit on: safe_write_frame counts failed writes per bus, and         *)
(* recover_can_if_needed, at the end of every base tick, gives each bus    *)
(* above the threshold its next remedy: reopen the socket, take the link   *)
(* down and up, exit so that systemd restarts the process after a USB      *)
(* reset (rust/motor_control/src/main.rs).                                 *)
(*                                                                         *)
(* A write that succeeds at once and one that succeeds on its tenth retry  *)
(* are not distinguished.  Elapsed times saturate at the cooldown they are *)
(* compared with; one unit is the cooldown's grain.  Frames come from two  *)
(* sources: control frames to active motors, and the round-robin VBUS poll *)
(* of every base tick, which goes to motors in any state.                  *)
(***************************************************************************)
EXTENDS Naturals, Sequences

CONSTANTS
    Bus,             \* CAN buses (keys of can_interfaces)
    Polled,          \* bus of each motor, in the order the VBUS poll visits them
    Threshold,       \* RECOVERY_THRESHOLD (50)
    SocketCooldown,  \* SOCKET_COOLDOWN (10 s)
    LinkCooldown,    \* LINK_COOLDOWN (30 s)
    MaxSocketAttempts, MaxLinkAttempts   \* 2 and 2

ASSUME RecoveryAssumption ==
    /\ Polled \in Seq(Bus) /\ Polled # <<>>
    /\ Threshold \in Nat \ {0}
    /\ SocketCooldown \in Nat /\ LinkCooldown \in Nat
    /\ MaxSocketAttempts \in Nat /\ MaxLinkAttempts \in Nat \ {0}

VARIABLES
    open,        \* can_sockets: the buses with a socket
    errors,      \* consecutive_tx_errors, saturated at Threshold
    level,       \* can_recovery_level
    attempts,    \* can_recovery_attempts
    sinceSocket, \* last_socket_recovery.elapsed()
    sinceLink,   \* last_link_recovery.elapsed()
    cursor,      \* vbus_query_idx, modulo the number of motors, plus 1
    todo,        \* buses_to_recover still to visit in this base tick
    running,     \* the process has not exited
    wedged,      \* buses whose adapter refuses every frame
    driven       \* buses with an active motor, that get control frames

ladder == <<level, attempts, sinceSocket, sinceLink>>
world  == <<wedged, driven>>
vars   == <<open, errors, ladder, cursor, todo, running, world>>

TypeOK ==
    /\ open \subseteq Bus
    /\ errors \in [Bus -> 0..Threshold]
    /\ level \in [Bus -> 0..2]
    /\ attempts \in [Bus -> 0..(MaxSocketAttempts + MaxLinkAttempts)]
    /\ sinceSocket \in 0..SocketCooldown
    /\ sinceLink \in 0..LinkCooldown
    /\ cursor \in 1..Len(Polled)
    /\ todo \subseteq Bus
    /\ running \in BOOLEAN
    /\ wedged \subseteq Bus /\ driven \subseteq Bus

Init ==
    /\ open = Bus
    /\ errors = [b \in Bus |-> 0]
    /\ level = [b \in Bus |-> 0]
    /\ attempts = [b \in Bus |-> 0]
    /\ sinceSocket = 0 /\ sinceLink = 0
    /\ cursor = 1
    /\ todo = {}
    /\ running = TRUE
    /\ wedged \in SUBSET Bus /\ driven = {}

----------------------------------------------------------------------------
(* Writing frames. *)

\* consecutive_tx_errors of bus b after safe_write_frame on it.
ErrorsAfterWrite(b) ==
    IF b \notin wedged THEN 0
    ELSE IF errors[b] < Threshold THEN errors[b] + 1 ELSE Threshold

\* A control frame of an arm or base tick; without a socket none is sent.
ControlFrame(b) ==
    /\ running /\ todo = {}
    /\ b \in driven /\ b \in open
    /\ errors' = [errors EXCEPT ![b] = ErrorsAfterWrite(b)]
    /\ UNCHANGED <<open, ladder, cursor, todo, running, world>>

NextCursor == IF cursor = Len(Polled) THEN 1 ELSE cursor + 1

\* A base tick polls the next motor for its bus voltage, and then collects the
\* buses to recover, which it visits before the next one.  The cursor waits for a bus that has no socket.
BaseTick ==
    /\ running /\ todo = {}
    /\ LET b == Polled[cursor]
       IN  IF b \in open
           THEN /\ errors' = [errors EXCEPT ![b] = ErrorsAfterWrite(b)]
                /\ cursor' = NextCursor
           ELSE UNCHANGED <<errors, cursor>>
    /\ todo' = {b \in Bus : errors'[b] >= Threshold}
    /\ UNCHANGED <<open, ladder, running, world>>

----------------------------------------------------------------------------
(* The remedies. *)

\* Mutant of ReopenSocket: the counter is cleared although the open failed.
ReopenForgets(b, success) ==
    /\ open' = IF success THEN open \cup {b} ELSE open \ {b}
    /\ errors' = [errors EXCEPT ![b] = 0]

\* Close the socket of b and open it again.
ReopenSocket(b, success) ==
    IF success
    THEN open' = open \cup {b} /\ errors' = [errors EXCEPT ![b] = 0]
    ELSE open' = open \ {b} /\ errors' = errors

\* Take the link down and up.  A success also disables every motor of the bus;
\* a failure at any step leaves the bus without a socket.
ResetLink(b, success) ==
    /\ ReopenSocket(b, success)
    /\ driven' = IF success THEN driven \ {b} ELSE driven

----------------------------------------------------------------------------
(* recover_can_if_needed, one bus at a time in the order of a hash map.     *)
(* Level 2 is entered together with the exit, so no visit finds it.         *)

Visit(b) == running /\ b \in todo /\ todo' = todo \ {b} /\ cursor' = cursor

SocketReady == sinceSocket >= SocketCooldown
LinkReady   == sinceLink >= LinkCooldown

CoolingDown(b) ==
    /\ Visit(b)
    /\ \/ level[b] = 0 /\ ~SocketReady
       \/ level[b] = 1 /\ ~LinkReady
    /\ UNCHANGED <<open, errors, ladder, running, world>>

\* Mutant of TrySocket: a reopen that worked is not counted as an attempt.
TrySocketForgives(b) ==
    /\ Visit(b)
    /\ level[b] = 0 /\ SocketReady /\ attempts[b] < MaxSocketAttempts
    /\ sinceSocket' = 0
    /\ \E success \in BOOLEAN :
         /\ ReopenSocket(b, success)
         /\ attempts' = IF success THEN attempts ELSE [attempts EXCEPT ![b] = @ + 1]
    /\ UNCHANGED <<level, sinceLink, running, world>>

TrySocket(b) ==
    /\ Visit(b)
    /\ level[b] = 0 /\ SocketReady /\ attempts[b] < MaxSocketAttempts
    /\ \E success \in BOOLEAN : ReopenSocket(b, success)
    /\ sinceSocket' = 0
    /\ attempts' = [attempts EXCEPT ![b] = @ + 1]
    /\ UNCHANGED <<level, sinceLink, running, world>>

\* Mutants of Escalate: the attempts of level 0 are kept for level 1, or the
\* link is reset at once, without regard to the cooldown.
EscalateKeepsAttempts(b) ==
    /\ Visit(b)
    /\ level[b] = 0 /\ SocketReady /\ attempts[b] >= MaxSocketAttempts
    /\ level' = [level EXCEPT ![b] = 1]
    /\ UNCHANGED <<open, errors, attempts, sinceSocket, sinceLink, running, world>>
EscalateAtOnce(b) ==
    /\ Visit(b)
    /\ level[b] = 0 /\ SocketReady /\ attempts[b] >= MaxSocketAttempts
    /\ level' = [level EXCEPT ![b] = 1]
    /\ \E success \in BOOLEAN : ResetLink(b, success)
    /\ sinceLink' = 0
    /\ attempts' = [attempts EXCEPT ![b] = 1]
    /\ UNCHANGED <<sinceSocket, running, wedged>>

\* Level 0 is exhausted: level 1, whose first attempt is made at once when the
\* link cooldown allows it.
Escalate(b) ==
    /\ Visit(b)
    /\ level[b] = 0 /\ SocketReady /\ attempts[b] >= MaxSocketAttempts
    /\ level' = [level EXCEPT ![b] = 1]
    /\ \/ /\ ~LinkReady
          /\ attempts' = [attempts EXCEPT ![b] = 0]
          /\ UNCHANGED <<open, errors, sinceLink, driven>>
       \/ /\ LinkReady
          /\ \E success \in BOOLEAN : ResetLink(b, success)
          /\ sinceLink' = 0
          /\ attempts' = [attempts EXCEPT ![b] = 1]
    /\ UNCHANGED <<sinceSocket, running, wedged>>

\* Mutant of TryLink: level 1 is never exhausted.
TryLinkForever(b) ==
    /\ Visit(b)
    /\ level[b] = 1 /\ LinkReady
    /\ \E success \in BOOLEAN : ResetLink(b, success)
    /\ sinceLink' = 0
    /\ attempts' = [attempts EXCEPT ![b] = @ + 1]
    /\ UNCHANGED <<level, sinceSocket, running, wedged>>

TryLink(b) ==
    /\ Visit(b)
    /\ level[b] = 1 /\ LinkReady /\ attempts[b] < MaxLinkAttempts
    /\ \E success \in BOOLEAN : ResetLink(b, success)
    /\ sinceLink' = 0
    /\ attempts' = [attempts EXCEPT ![b] = @ + 1]
    /\ UNCHANGED <<level, sinceSocket, running, wedged>>

\* Level 1 is exhausted: the process exits.
GiveUp(b) ==
    /\ Visit(b)
    /\ level[b] = 1 /\ LinkReady /\ attempts[b] >= MaxLinkAttempts
    /\ level' = [level EXCEPT ![b] = 2]
    /\ running' = FALSE
    /\ UNCHANGED <<open, errors, attempts, sinceSocket, sinceLink, world>>

Recover ==
    \E b \in Bus :
        CoolingDown(b) \/ TrySocket(b) \/ Escalate(b) \/ TryLink(b) \/ GiveUp(b)

----------------------------------------------------------------------------
(* Time, systemd, the adapters and the operators. *)

Passed(age, cooldown) == IF age < cooldown THEN age + 1 ELSE age

Tick ==
    /\ running
    /\ sinceSocket' = Passed(sinceSocket, SocketCooldown)
    /\ sinceLink' = Passed(sinceLink, LinkCooldown)
    /\ UNCHANGED <<open, errors, level, attempts, cursor, todo, running, world>>

\* Restart=on-failure; every motor of the new process is Idle.
Restart ==
    /\ ~running /\ running' = TRUE
    /\ open' = Bus
    /\ errors' = [b \in Bus |-> 0] /\ level' = [b \in Bus |-> 0]
    /\ attempts' = [b \in Bus |-> 0]
    /\ sinceSocket' = 0 /\ sinceLink' = 0
    /\ cursor' = 1 /\ todo' = {}
    /\ driven' = {} /\ wedged' = wedged

\* An adapter stops, or resumes, taking frames.
Adapter(b) ==
    /\ wedged' = (wedged \ {b}) \cup ({b} \ wedged)
    /\ UNCHANGED <<open, errors, ladder, cursor, todo, running, driven>>

\* Motors of bus b are enabled, or all of them disabled.
Operate(b) ==
    /\ running /\ todo = {}
    /\ driven' = (driven \ {b}) \cup ({b} \ driven)
    /\ UNCHANGED <<open, errors, ladder, cursor, todo, running, wedged>>

Next ==
    \/ BaseTick \/ Recover \/ Tick \/ Restart
    \/ \E b \in Bus : ControlFrame(b) \/ Adapter(b) \/ Operate(b)

Spec == Init /\ [][Next]_vars

(* Base ticks keep coming and run to their end, time passes, systemd restarts *)
(* the process.  Nothing is assumed of control frames, adapters, operators.   *)
Fairness ==
    WF_vars(BaseTick) /\ WF_vars(Recover) /\ WF_vars(Tick) /\ WF_vars(Restart)

FairSpec == Spec /\ Fairness

----------------------------------------------------------------------------
(* Properties. *)

\* A bus that lost its socket is still due for recovery: its error counter
\* stays at the threshold until the socket is back, although no frame can be
\* counted any more (recover_socket and recover_link return early on failure).
LostSocketStaysDue ==
    running => \A b \in Bus : b \notin open => errors[b] >= Threshold

\* Remedies tried on bus b by this process.
Rung ==
    [b \in Bus |-> IF level[b] = 0 THEN attempts[b] ELSE MaxSocketAttempts + attempts[b]]

Ladder == INSTANCE RecoveryLadder
            WITH rung <- Rung, up <- running, MaxRung <- MaxSocketAttempts + MaxLinkAttempts

\* Every remedy is one rung up, and the process exits only after all of them
\* were tried on one bus.
ClimbsLadder == Ladder!LadderSpec

\* The cooldowns are shared by the buses: a remedy on one bus comes a full
\* cooldown of its kind after the last one on any bus.
RemediesAreSpaced ==
    [][\A b \in Bus : running /\ Rung'[b] > Rung[b] =>
         IF Rung'[b] <= MaxSocketAttempts THEN SocketReady /\ sinceSocket' = 0
                                          ELSE LinkReady /\ sinceLink' = 0]_vars

\* A bus whose adapter is stuck for good ends the process again and again (the
\* USB reset of the restart is the last remedy): no bus is left behind, also
\* when the VBUS poll waits for a bus that has no socket.
StuckBusForcesExit ==
    \A b \in {Polled[i] : i \in DOMAIN Polled} :
        <>[](b \in wedged) => []<>(~running)
=============================================================================
