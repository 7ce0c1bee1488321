--------------------------- MODULE MCCanRecovery ---------------------------
(***************************************************************************)
(* Small instances of CanRecovery for TLC.                                 *)
(***************************************************************************)
EXTENDS CanRecovery

TwoBuses == {"can1", "can2"}
PollTwo == <<"can1", "can2">>
=============================================================================
