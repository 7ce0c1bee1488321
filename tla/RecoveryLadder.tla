--------------------------- MODULE RecoveryLadder ---------------------------
(***************************************************************************)
(* What the CAN recovery promises: every bus climbs a ladder of MaxRung    *)
(* remedies, one rung at a time and never down, and the process gives up   *)
(* only when some bus stands on the last rung.  A new process starts at    *)
(* the bottom.  Module CanRecovery implements this specification.          *)
(***************************************************************************)
EXTENDS Naturals

CONSTANTS Bus, MaxRung

VARIABLES rung, up

ladderVars == <<rung, up>>

LadderInit == rung = [b \in Bus |-> 0] /\ up = TRUE

Climb(b) ==
    /\ up /\ up' = up
    /\ rung[b] < MaxRung
    /\ rung' = [rung EXCEPT ![b] = @ + 1]

Surrender ==
    /\ up /\ up' = FALSE
    /\ \E b \in Bus : rung[b] = MaxRung
    /\ rung' = rung

StartAgain == ~up /\ up' = TRUE /\ rung' = [b \in Bus |-> 0]

LadderNext == (\E b \in Bus : Climb(b)) \/ Surrender \/ StartAgain

LadderSpec == LadderInit /\ [][LadderNext]_ladderVars
=============================================================================
