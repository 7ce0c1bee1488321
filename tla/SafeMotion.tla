----------------------------- MODULE SafeMotion -----------------------------
(***************************************************************************)
(* What the motor controller promises its operators about motion, with     *)
(* targets, timers, buses, feedback and the command inbox left out.  A     *)
(* motor is off, armed (it holds still, with zero force), moving (it       *)
(* follows a command) or faulted; `latched` is the emergency stop.         *)
(*                                                                         *)
(* A motor starts to move only from armed, and only while the emergency    *)
(* stop is released; engaging the stop leaves no motor moving; a stopped   *)
(* system re-arms faulted motors only; faults and power-downs may happen   *)
(* at any time.  Module ControlSystem implements this specification.       *)
(***************************************************************************)
CONSTANT Motors

VARIABLES latched, mode

abstractVars == <<latched, mode>>

Mode == {"off", "armed", "moving", "fault"}

SafeTypeOK == latched \in BOOLEAN /\ mode \in [Motors -> Mode]

SafeInit == latched = FALSE /\ mode = [m \in Motors |-> "off"]

\* Every motor of S gets a mode from To, the others keep theirs.
Becomes(S, To) ==
    /\ mode' \in [Motors -> Mode]
    /\ \A m \in Motors : mode'[m] \in IF m \in S THEN To ELSE {mode[m]}

Stop == ~latched /\ latched' = TRUE /\ Becomes(Motors, {"off", "armed", "fault"})

Release == latched' = FALSE /\ mode' = mode

Move ==
    /\ ~latched /\ latched' = latched
    /\ \E S \in SUBSET Motors :
         (\A m \in S : mode[m] = "armed") /\ Becomes(S, {"moving"})

Arm ==
    /\ latched' = latched
    /\ \E S \in SUBSET Motors :
         /\ \A m \in S : mode[m] = "fault" \/ (mode[m] = "off" /\ ~latched)
         /\ Becomes(S, {"armed", "fault"})

Trip == latched' = latched /\ \E S \in SUBSET Motors : Becomes(S, {"fault"})

PowerDown == latched' = latched /\ \E S \in SUBSET Motors : Becomes(S, {"off"})

Reboot == latched' = FALSE /\ Becomes(Motors, {"off"})

SafeNext == Stop \/ Release \/ Move \/ Arm \/ Trip \/ PowerDown \/ Reboot

SafeSpec == SafeInit /\ [][SafeNext]_abstractVars

\* While the emergency stop is latched no motor moves.
StoppedMeansStill == latched => \A m \in Motors : mode[m] # "moving"
=============================================================================
