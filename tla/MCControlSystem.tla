-------------------------- MODULE MCControlSystem --------------------------
(***************************************************************************)
(* Small instances of ControlSystem for TLC.                               *)
(***************************************************************************)
EXTENDS ControlSystem, TLC

\* Commands that arrive before the receive phase of a tick change nothing until
\* then, so it is enough to explore the arrivals of that phase.
ArrivesLate == inbox # <<>> => pc = "recv"

Pose(p, v, t) == [op |-> "arm_joints", pos |-> p, vel |-> v, trq |-> t]
Go(v)         == [op |-> "drive", linear |-> -v, angular |-> 0]
Turn(v)       == [op |-> "drive", linear |-> 0, angular |-> v]
Bundle(d, a)  == [op |-> "bundle", drive |-> d, arm |-> a]
About(op, ids) == [op |-> op, ids |-> ids]
Bare(op)      == [op |-> op]

Bares == {Bare("emergency_stop"), Bare("clear_emergency_stop"), Bare("undecodable")}

PowerOps == {"enable", "disable", "zero_position", "mech_zero",
             "clear_fault", "trigger_fault"}

One == "can1"

----------------------------------------------------------------------------
(* One joint, with every detail of its record.  Its limits are 0..1; it can  *)
(* report, and be told, position 2.                                         *)

JointOnly == <<"joint">>
NoWheels == <<>>
OneBus == {One}
JointBus == [m \in {"joint"} |-> One]
JointIds == {"joint", "absent"}
JointPosition == {0, 2}
JointCommand ==
    {Pose(<<1>>, <<1>>, <<3>>), Pose(<<0>>, <<>>, <<>>), Pose(<<2>>, <<0>>, <<0>>),
     Pose(<<1>>, <<2>>, <<0>>), Pose(<<>>, <<>>, <<>>),
     Bundle({}, {Pose(<<0>>, <<1>>, <<-3>>)}), Bundle({}, {})}
    \cup Bares
    \cup {About(op, {"joint"}) : op \in PowerOps} \cup {About("mech_zero", {"absent"})}

----------------------------------------------------------------------------
(* A wheel and a joint on a bus each; positions and torques do not matter.   *)

LeftWheel == <<"left">>
TwoBuses == {"can1", "can2"}
RobotBus == ("left" :> "can1") @@ ("joint" :> "can2")
RobotIds == {"left", "joint"}
Still == {0}
RobotCommand ==
    {Pose(<<0>>, <<1>>, <<0>>), Go(1), Turn(2),
     Bundle({Go(1)}, {Pose(<<0>>, <<0>>, <<0>>)}), Bundle({Turn(2)}, {Pose(<<0>>, <<1>>, <<0>>)}),
     Bundle({Turn(1)}, {})}
    \cup Bares
    \cup {About(op, RobotIds) : op \in {"enable", "clear_fault"}}
    \cup {About(op, {"joint"}) : op \in {"enable", "disable", "trigger_fault"}}
    \cup {About(op, {"left"}) : op \in {"disable", "zero_position"}}

----------------------------------------------------------------------------
(* Zeroing: one joint that nothing has enabled yet, and no restart.          *)

ZeroCommand == {About(op, {"joint"}) : op \in {"enable", "disable", "mech_zero"}}

ColdSpec == (Init /\ \A m \in Motors : hw[m] = "Reset") /\ [][Next]_vars

----------------------------------------------------------------------------
(* Liveness: one joint, a queue of two commands, no restart.                *)

LiveCommand ==
    {Pose(<<1>>, <<1>>, <<1>>), Pose(<<2>>, <<0>>, <<0>>),
     Bare("emergency_stop"), Bare("clear_emergency_stop"), About("enable", {"joint"})}
=============================================================================
