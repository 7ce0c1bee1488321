----------------------------- MODULE LeaderSetup -----------------------------
(***************************************************************************)
(* Giving the leader arm's servos their ids.  The wizard                    *)
(* (src/python/scripts/openrb_setup_arm.py) asks the operator to plug in    *)
(* one servo at a time and has the board                                    *)
(* (src/firmware/openrb_leader/src/main.cpp) look at the bus (SCAN) and     *)
(* rename what it finds (REID).  Servos with the same id on the same baud   *)
(* cannot be told apart: their answers collide and are heard as one or not  *)
(* at all, and a write to that id reaches them all.                         *)
(***************************************************************************)
EXTENDS Integers, FiniteSets

CONSTANTS NumJoints,    \* len(JOINTS); joint j's servo is to be given id j
          NumBauds,     \* N_BAUDS; baud code 0 is TARGET_BAUD
          VerifyTries,  \* verification pings of REID (5 in the code)
          MaxLost,      \* bound on packets and answers lost on the bus
          MaxSlips      \* bound on the operator's slips

ASSUME SetupAssumption ==
    /\ {NumJoints, NumBauds, VerifyTries} \subseteq Nat \ {0}
    /\ {MaxLost, MaxSlips} \subseteq Nat

Joints == 1..NumJoints
Bauds  == 0..NumBauds - 1
Target == 0
Statuses == {"ok", "not_found", "ambiguous", "write_failed", "baud_failed", "verify_failed"}

VARIABLES
    id, baud, plugged,    \* the servos, one per joint
    bus, known,           \* current_bus_baud; ids whose model number the library has cached
    pc, joint, skipped,   \* where wizard and board are; the wizard's joint and skipped list
    code, heard,          \* a sweep: the baud it is at, the answers so far
    tries, status,        \* REID: verification pings sent, what it replies
    missed, blind, done,  \* history: sweeps of this attempt that missed a servo; whether both did
                          \* in some attempt; the joints that were ever assigned
    lost, slips

servos  == <<id, baud, plugged>>
wizard  == <<joint, skipped>>
sweep   == <<code, heard>>
reid    == <<tries, status>>
history == <<missed, blind, done>>
vars    == <<servos, bus, known, pc, wizard, sweep, reid, history, lost, slips>>

TypeOK ==
    /\ id \in [Joints -> Joints] /\ baud \in [Joints -> Bauds] /\ plugged \subseteq Joints
    /\ bus \in Bauds /\ known \subseteq Joints
    /\ pc \in {"start", "prompt", "plugAll", "scan", "scanned", "reid", "found", "setId", "pingId",
               "setBaud", "verify", "reply", "verification", "verdict", "good"}
    /\ joint \in Joints /\ skipped \subseteq Joints
    /\ code \in Bauds /\ heard \subseteq Joints \X Bauds
    /\ tries \in 0..VerifyTries /\ status \in Statuses
    /\ missed \subseteq {"scan", "reid", "verification"} /\ blind \in BOOLEAN /\ done \subseteq Joints
    /\ lost \in 0..MaxLost /\ slips \in 0..MaxSlips

----------------------------------------------------------------------------
(* The bus. *)

Answering(i, b) == {u \in plugged : id[u] = i /\ baud[u] = b}

\* A packet to id i at the bus's baud reaches all who listen, or none.  It or
\* its answer may be lost, and the answers of several servos may be unreadable.
Transact(i, reached, acked) ==
    \/ /\ reached = Answering(i, bus) /\ UNCHANGED lost
       /\ IF acked THEN reached # {} ELSE Cardinality(reached) # 1
    \/ /\ Answering(i, bus) # {} /\ reached \in {{}, Answering(i, bus)}
       /\ ~acked /\ lost < MaxLost /\ lost' = lost + 1

Ping(i, acked) == Transact(i, Answering(i, bus), acked) /\ UNCHANGED servos

\* The locals of a handler start afresh, and are gone when it ends.
NoSweep == code' = 0 /\ heard' = {}

StartSweep(kind) == pc' = kind /\ NoSweep

\* One baud of a sweep: a broadcast ping collects the answers.  SCAN visits
\* every baud, REID stops after the second answer.
Sweep(kind, then, early) ==
    LET A == {id[u] : u \in {v \in plugged : baud[v] = code}} IN
    /\ pc = kind
    /\ bus' = code
    /\ \E H \in SUBSET A :
         LET gone == {i \in A \ H : Cardinality(Answering(i, code)) = 1} IN
         /\ lost + Cardinality(gone) <= MaxLost
         /\ lost' = lost + Cardinality(gone)
         /\ heard' = heard \union (H \X {code})
         /\ missed' = IF H = A THEN missed ELSE missed \union {kind}
    /\ IF code + 1 \in Bauds /\ ~(early /\ Cardinality(heard') > 1)
         THEN code' = code + 1 /\ UNCHANGED pc
         ELSE pc' = then /\ UNCHANGED code
    /\ UNCHANGED <<servos, known, wizard, reid, blind, done, slips>>

ScanSweep         == Sweep("scan", "scanned", FALSE)
ReidSweep         == Sweep("reid", "found", TRUE)
VerificationSweep == Sweep("verification", "verdict", FALSE)

----------------------------------------------------------------------------
(* The operator and the wizard. *)

Slip(slipped) == IF slipped THEN slips < MaxSlips /\ slips' = slips + 1 ELSE UNCHANGED slips

\* Opening the port resets the board; setup() pings each joint's id, which
\* fills the library's cache unless the ping is lost.
Start ==
    /\ pc = "start"
    /\ bus' = Target
    /\ \E K \in SUBSET {i \in Joints : Answering(i, Target) # {}} : known' = K
    /\ skipped' = {} /\ pc' = "prompt"
    /\ UNCHANGED <<servos, joint, sweep, reid, history, lost, slips>>

\* The operator has plugged in the joint's servo, and may have left others
\* on the bus.
Enter ==
    /\ pc = "prompt"
    /\ \E forgotten \in SUBSET (plugged \ {joint}) :
         plugged' = {joint} \union forgotten /\ Slip(forgotten # {})
    /\ StartSweep("scan") /\ missed' = {}
    /\ UNCHANGED <<id, baud, bus, known, wizard, reid, blind, done, lost>>

\* Mutant of NextJoint: the wizard goes on after its last joint.
MutantNextJoint == pc' = "prompt" /\ joint' = joint + 1

NextJoint == IF joint < NumJoints THEN pc' = "prompt" /\ joint' = joint + 1
                                  ELSE pc' = "plugAll" /\ UNCHANGED joint

Skip ==
    /\ pc = "prompt" /\ Slip(TRUE)
    /\ skipped' = skipped \union {joint}
    /\ NextJoint
    /\ UNCHANGED <<servos, bus, known, sweep, reid, history, lost>>

Quit ==
    /\ pc = "prompt" /\ Slip(TRUE)
    /\ pc' = "start"
    /\ UNCHANGED <<servos, bus, known, wizard, sweep, reid, history, lost>>

\* Mutant of Single: the wizard leaves it to REID to refuse several servos.
MutantSingle == heard # {}

Single == Cardinality(heard) = 1

\* _wait_for_single_servo() goes on to REID only when exactly one answered.
Scanned ==
    /\ pc = "scanned"
    /\ bus' = Target
    /\ IF Single THEN StartSweep("reid")
                 ELSE pc' = "prompt" /\ NoSweep
    /\ UNCHANGED <<servos, known, wizard, reid, history, lost, slips>>

PlugAll ==
    /\ pc = "plugAll"
    /\ plugged' = Joints /\ StartSweep("verification")
    /\ UNCHANGED <<id, baud, bus, known, wizard, reid, history, lost, slips>>

found_ids == {h[1] : h \in heard}
expected  == Joints \ skipped
missing   == expected \ found_ids
extra     == found_ids \ expected
wrong_baud == {h \in heard : h[2] # Target}

\* Mutant of AllGood: the final check looks at the ids alone.
MutantAllGood == missing = {} /\ extra = {}

AllGood == missing = {} /\ extra = {} /\ wrong_baud = {}

\* A failed verification sends the operator back to the first joint.
Verdict ==
    /\ pc = "verdict"
    /\ bus' = Target
    /\ IF AllGood THEN pc' = "good" /\ UNCHANGED joint
                  ELSE pc' = "start" /\ joint' = 1
    /\ NoSweep /\ missed' = {}
    /\ UNCHANGED <<servos, known, skipped, reid, blind, done, lost, slips>>

----------------------------------------------------------------------------
(* handle_reid(joint). *)

Reply(s) == pc' = "reply" /\ status' = s
Found == CHOOSE h \in heard : TRUE

FoundStatus == IF heard = {} THEN "not_found"
               ELSE IF Cardinality(heard) > 1 THEN "ambiguous"
               ELSE "ok"

ReidFound ==
    /\ pc = "found"
    /\ IF FoundStatus = "ok"
         THEN pc' = "setId" /\ bus' = Found[2] /\ UNCHANGED status
         ELSE Reply(FoundStatus) /\ UNCHANGED bus
    /\ blind' = (blind \/ {"scan", "reid"} \subseteq missed) /\ missed' = {}
    /\ UNCHANGED <<servos, known, wizard, sweep, tries, done, lost, slips>>

Rename(R) == id' = [u \in Joints |-> IF u \in R THEN joint ELSE id[u]] /\ UNCHANGED <<baud, plugged>>

SetId ==
    /\ pc = "setId"
    /\ \E acked \in BOOLEAN, reached \in {{}, Answering(Found[1], bus)} :
         /\ Transact(Found[1], reached, acked) /\ Rename(reached)
         /\ IF acked THEN pc' = "pingId" /\ UNCHANGED status ELSE Reply("write_failed")
    /\ UNCHANGED <<bus, known, wizard, sweep, tries, history, slips>>

\* Mutant of PingId: no ping before the baud is written.
MutantPingId == pc = "pingId" /\ pc' = "setBaud"
                /\ UNCHANGED <<servos, bus, known, wizard, sweep, reid, history, lost, slips>>

\* The answer is ignored, but it leaves the model number in the cache.
PingId ==
    /\ pc = "pingId"
    /\ \E acked \in BOOLEAN :
         /\ Ping(joint, acked)
         /\ known' = IF acked THEN known \union {joint} ELSE known
    /\ pc' = "setBaud"
    /\ UNCHANGED <<bus, wizard, sweep, reid, history, slips>>

Rebaud(R) == baud' = [u \in Joints |-> IF u \in R THEN Target ELSE baud[u]] /\ UNCHANGED <<id, plugged>>

\* setBaudrate() sends nothing for a servo whose model it does not know.
SetBaud ==
    /\ pc = "setBaud"
    /\ \/ /\ joint \in known
          /\ \E acked \in BOOLEAN, reached \in {{}, Answering(joint, bus)} :
               /\ Transact(joint, reached, acked) /\ Rebaud(reached)
               /\ IF acked THEN pc' = "verify" /\ bus' = Target /\ tries' = 0 /\ UNCHANGED status
                           ELSE Reply("baud_failed") /\ UNCHANGED <<bus, tries>>
       \/ /\ joint \notin known /\ Reply("baud_failed")
          /\ UNCHANGED <<servos, lost, bus, tries>>
    /\ UNCHANGED <<known, wizard, sweep, history, slips>>

Verify ==
    /\ pc = "verify"
    /\ \E acked \in BOOLEAN :
         /\ Ping(joint, acked)
         /\ known' = IF acked THEN known \union {joint} ELSE known
         /\ tries' = tries + 1
         /\ IF acked THEN Reply("ok")
            ELSE IF tries + 1 < VerifyTries THEN UNCHANGED <<pc, status>>
            ELSE Reply("verify_failed")
    /\ UNCHANGED <<bus, wizard, sweep, history, slips>>

\* The reply: the wizard goes on to the next joint, or exits and is run
\* again with --start-at this joint.
ReidReply ==
    /\ pc = "reply"
    /\ bus' = Target
    /\ IF status = "ok" THEN NextJoint /\ done' = done \union {joint}
                        ELSE pc' = "start" /\ UNCHANGED <<joint, done>>
    /\ NoSweep /\ tries' = 0 /\ status' = "ok"
    /\ UNCHANGED <<servos, known, skipped, missed, blind, lost, slips>>

----------------------------------------------------------------------------
\* Servos come new or second-hand, with any id and any baud.
Init ==
    /\ id \in [Joints -> Joints] /\ baud \in [Joints -> Bauds] /\ plugged = {}
    /\ bus = Target /\ known = {}
    /\ pc = "start" /\ joint \in Joints /\ skipped = {}
    /\ code = 0 /\ heard = {} /\ tries = 0 /\ status = "ok"
    /\ missed = {} /\ blind = FALSE /\ done = {}
    /\ lost = 0 /\ slips = 0

Operator == Start \/ Enter \/ Skip \/ Quit \/ PlugAll
Board == \/ ScanSweep \/ ReidSweep \/ VerificationSweep
         \/ Scanned \/ Verdict
         \/ ReidFound \/ SetId \/ PingId \/ SetBaud \/ Verify \/ ReidReply

Next == Operator \/ Board

Spec == Init /\ [][Next]_vars /\ WF_vars(Operator) /\ WF_vars(Board)

----------------------------------------------------------------------------
\* "ALL GOOD" means what it says, whatever was lost and whoever was left
\* plugged in on the way: the servos' ids are those of the joints, each of
\* them once, and all answer at 1 Mbps.
AllGoodIsComplete ==
    pc = "good" /\ skipped = {} => /\ {id[u] : u \in Joints} = Joints
                                   /\ \A u \in Joints : baud[u] = Target

\* No servo ends up with the id of another joint, although forgotten servos
\* may have been renamed along with the right one, even if packets were
\* lost: it takes an attempt in which both the wizard's scan and REID's own
\* sweep miss a servo.
AllGoodIsRight ==
    pc = "good" /\ skipped = {} /\ done = Joints /\ ~blind => \A j \in Joints : id[j] = j

\* Whatever state a failed REID leaves a servo in, running the wizard again
\* gets over it: setup completes once the slips and losses stop.
SetupConverges == <>(pc = "good")
=============================================================================
