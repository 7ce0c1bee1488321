-------------------------- MODULE LeaderSetupProofs --------------------------
(***************************************************************************)
(* Theorems about LeaderSetup, for any numbers of joints, baud rates,      *)
(* verification pings, losses and slips.                                   *)
(***************************************************************************)
EXTENDS LeaderSetup, FiniteSetTheorems, TLAPS

Renaming == {"setId", "pingId", "setBaud", "verify"}
Single1  == {"scan", "scanned", "reid", "found"} \union Renaming \union {"reply"}
Hearing  == {"scan", "scanned", "reid", "found", "setId", "verification", "verdict"}

Heard(u) == <<id[u], baud[u]>> \in heard
Alike    == \A u, v \in plugged : id[u] = id[v] /\ baud[u] = baud[v]

\* The servo the wizard is about is on the bus, and at the end all are.
Placed ==
    /\ pc \in Single1 => joint \in plugged
    /\ pc \in {"verification", "verdict"} => plugged = Joints
    /\ pc = "verify" => tries < VerifyTries

\* What a sweep hears is there.
HeardIsThere ==
    pc \in Hearing => \A h \in heard : \E u \in plugged : h = <<id[u], baud[u]>>

\* A sweep that missed nothing has heard all there was at the bauds it visited.
MissedNothing ==
    /\ \A kind \in {"scan", "reid", "verification"} :
          pc = kind /\ kind \notin missed => \A u \in plugged : baud[u] < code => Heard(u)
    /\ pc = "scanned" /\ "scan" \notin missed => \A u \in plugged : Heard(u)
    /\ pc = "found" /\ "reid" \notin missed => \/ Cardinality(heard) > 1
                                               \/ \A u \in plugged : Heard(u)

\* Unless both sweeps missed something, the servos on the bus are all alike
\* when one of them is to be renamed, and renamed alike.
RenamedAlike ==
    /\ pc \in {"reid", "found"} /\ "scan" \notin missed => Alike
    /\ pc = "setId" => Cardinality(heard) = 1 /\ bus = Found[2]
    /\ pc = "setId" /\ ~blind => Alike
    /\ pc \in Renaming \ {"setId"} /\ ~blind => \A u \in plugged : id[u] = joint
    /\ pc = "reply" /\ status = "ok" /\ ~blind => \A u \in plugged : id[u] = joint

\* Following the ids from an assigned joint's servo to the servo of the joint
\* it is named after ends at one that is named right, or leaves the assigned.
NoForeignCycle ==
    ~blind => \A S \in SUBSET done :
                 S # {} /\ (\A u \in S : id[u] \in S) => \E u \in S : id[u] = u

\* When all is good every joint has a servo of that id at the target baud.
AllNamed ==
    pc = "good" /\ skipped = {} =>
        \A j \in Joints : \E u \in Joints : id[u] = j /\ baud[u] = Target

IInv == /\ TypeOK /\ Placed /\ HeardIsThere /\ MissedNothing
        /\ RenamedAlike /\ NoForeignCycle /\ AllNamed

----------------------------------------------------------------------------
(* Facts about the constants, the bus and the sweeps. *)

LEMMA Facts ==
    /\ NumJoints \in Nat /\ NumJoints >= 1 /\ NumBauds \in Nat /\ NumBauds >= 1
    /\ VerifyTries \in Nat /\ VerifyTries >= 1 /\ MaxLost \in Nat /\ MaxSlips \in Nat
    /\ 1 \in Joints /\ 0 \in Bauds /\ Target = 0
    /\ IsFiniteSet(Joints) /\ IsFiniteSet(Bauds)
<1>1. {NumJoints, NumBauds, VerifyTries} \subseteq Nat \ {0} /\ {MaxLost, MaxSlips} \subseteq Nat
  BY SetupAssumption
<1>2. /\ NumJoints \in Nat /\ NumJoints >= 1 /\ NumBauds \in Nat /\ NumBauds >= 1
      /\ VerifyTries \in Nat /\ VerifyTries >= 1 /\ MaxLost \in Nat /\ MaxSlips \in Nat
  BY <1>1
<1>3. 1 \in Int /\ NumJoints \in Int /\ 0 \in Int /\ NumBauds - 1 \in Int
  BY <1>2
<1>4. IsFiniteSet(1..NumJoints) /\ IsFiniteSet(0..NumBauds - 1)
  BY <1>3, FS_Interval
<1>5. QED
  BY <1>2, <1>4 DEF Joints, Bauds, Target

\* What was heard can be counted: exactly one answer is a singleton.
LEMMA HeardCounted ==
    ASSUME heard \subseteq Joints \X Bauds
    PROVE  /\ IsFiniteSet(heard) /\ Cardinality(heard) \in Nat
           /\ Cardinality(heard) = 0 <=> heard = {}
           /\ Cardinality(heard) = 1 <=> \E h : heard = {h}
<1>1. IsFiniteSet(Joints \X Bauds)
  BY Facts, FS_Product
<1>2. IsFiniteSet(heard)
  BY <1>1, FS_Subset
<1>3. QED
  BY <1>2, FS_CardinalityType, FS_EmptySet, FS_Singleton

\* A packet reaches all who listen or none, and all if it was acknowledged.
LEMMA TransactReaches ==
    ASSUME TypeOK, NEW i, NEW reached, NEW acked \in BOOLEAN, Transact(i, reached, acked)
    PROVE  /\ lost' \in 0..MaxLost
           /\ reached \in {{}, Answering(i, bus)}
           /\ acked => reached = Answering(i, bus)
<1>1. lost \in 0..MaxLost /\ MaxLost \in Nat
  BY Facts DEF TypeOK
<1>2. CASE reached = Answering(i, bus) /\ UNCHANGED lost
  BY <1>1, <1>2
<1>3. CASE /\ reached \in {{}, Answering(i, bus)}
           /\ ~acked /\ lost < MaxLost /\ lost' = lost + 1
  BY <1>1, <1>3
<1>4. QED
  BY <1>2, <1>3 DEF Transact

\* If the servos on the bus are alike, the id and baud of any of them is
\* that of all.
LEMMA AllAnswer ==
    ASSUME TypeOK, HeardIsThere, RenamedAlike, Placed, pc = "setId", ~blind
    PROVE  Answering(Found[1], bus) = plugged
<1>1. heard # {}
  BY HeardCounted DEF RenamedAlike, TypeOK
<1>2. Found \in heard
  BY <1>1 DEF Found
<1>3. PICK u \in plugged : Found = <<id[u], baud[u]>>
  BY <1>2 DEF HeardIsThere, Hearing
<1>4. Found[1] = id[u] /\ bus = baud[u] /\ Alike
  BY <1>3 DEF RenamedAlike
<1>5. QED
  BY <1>4 DEF Answering, Alike

----------------------------------------------------------------------------
(* The inductive invariant. *)

LEMMA InitInv == Init => IInv
<1>1. SUFFICES ASSUME Init PROVE IInv
  OBVIOUS
<1>2. TypeOK
  <2>1. /\ id \in [Joints -> Joints] /\ baud \in [Joints -> Bauds] /\ plugged = {} /\ bus = 0 /\ known = {}
        /\ pc = "start" /\ joint \in Joints /\ skipped = {}
        /\ code = 0 /\ heard = {} /\ tries = 0 /\ status = "ok"
        /\ missed = {} /\ blind = FALSE /\ done = {} /\ lost = 0 /\ slips = 0
    BY <1>1, Facts DEF Init
  <2>2. 0 \in Bauds /\ 0 \in 0..VerifyTries /\ 0 \in 0..MaxLost /\ 0 \in 0..MaxSlips
    BY Facts
  <2>3. QED
    BY <2>1, <2>2 DEF TypeOK, Statuses
<1>3. Placed /\ HeardIsThere /\ MissedNothing /\ RenamedAlike /\ AllNamed
  BY <1>1 DEF Init, Placed, HeardIsThere, MissedNothing, RenamedAlike, AllNamed, Single1, Hearing, Renaming
<1>4. NoForeignCycle
  BY <1>1 DEF Init, NoForeignCycle
<1>5. QED
  BY <1>2, <1>3, <1>4 DEF IInv

\* NoForeignCycle is about the ids and the joints assigned.
LEMMA SameIdsSameCycles ==
    ASSUME NoForeignCycle, id' = id, done' = done, blind' = blind
    PROVE  NoForeignCycle'
  BY DEF NoForeignCycle

\* One baud of a sweep: its type, what it hears, and how it ends.
LEMMA SweepHears ==
    ASSUME TypeOK, NEW kind \in {"scan", "reid", "verification"},
           NEW then \in {"scanned", "found", "verdict"}, NEW early \in BOOLEAN,
           Sweep(kind, then, early),
           \A h \in heard : \E u \in plugged : h = <<id[u], baud[u]>>,
           kind \notin missed => \A u \in plugged : baud[u] < code => Heard(u)
    PROVE  /\ TypeOK'
           /\ \A h \in heard' : \E u \in plugged' : h = <<id'[u], baud'[u]>>
           /\ missed \subseteq missed' /\ missed' \subseteq missed \union {kind}
           /\ \/ pc' = kind /\ (kind \notin missed' => \A u \in plugged' : baud'[u] < code' => Heard(u)')
              \/ pc' = then /\ (kind \notin missed' => \/ early /\ Cardinality(heard') > 1
                                                      \/ \A u \in plugged' : Heard(u)')
<1> DEFINE A == {id[u] : u \in {v \in plugged : baud[v] = code}}
<1>1. PICK H \in SUBSET A :
         LET gone == {i \in A \ H : Cardinality(Answering(i, code)) = 1} IN
         /\ lost + Cardinality(gone) <= MaxLost
         /\ lost' = lost + Cardinality(gone)
         /\ heard' = heard \union (H \X {code})
         /\ missed' = IF H = A THEN missed ELSE missed \union {kind}
  BY DEF Sweep
<1>2. A \subseteq Joints
  BY DEF TypeOK
<1> DEFINE gone == {i \in A \ H : Cardinality(Answering(i, code)) = 1}
<1>3. Cardinality(gone) \in Nat
  <2>1. gone \in SUBSET Joints
    BY <1>2
  <2>2. QED
    BY <2>1, Facts, FS_Subset, FS_CardinalityType
<1>4. lost' \in 0..MaxLost
  BY <1>1, <1>3, Facts DEF TypeOK
<1>5. heard' = heard \union (H \X {code}) /\ missed' = IF H = A THEN missed ELSE missed \union {kind}
  BY <1>1
<1>6. UNCHANGED <<id, baud, plugged>> /\ code \in Bauds /\ bus' = code
  BY DEF Sweep, servos, TypeOK
<1>7. \/ code + 1 \in Bauds /\ code' = code + 1 /\ pc' = kind
      \/ code' = code /\ pc' = then /\ (code + 1 \notin Bauds \/ (early /\ Cardinality(heard') > 1))
  BY DEF Sweep
<1>8. TypeOK'
  <2>1. heard' \subseteq Joints \X Bauds
    BY <1>2, <1>5, <1>6 DEF TypeOK
  <2>2. missed' \subseteq {"scan", "reid", "verification"}
    BY <1>5 DEF TypeOK
  <2>3. code' \in Bauds /\ bus' \in Bauds
    BY <1>6, <1>7
  <2>4. UNCHANGED <<known, joint, skipped, tries, status, blind, done, slips>>
    BY DEF Sweep, wizard, reid
  <2>5. pc' \in {kind, then}
    BY <1>7
  <2>6. QED
    BY <1>4, <1>6, <2>1, <2>2, <2>3, <2>4, <2>5 DEF TypeOK
<1>9. ASSUME NEW h \in heard'
      PROVE  \E u \in plugged' : h = <<id'[u], baud'[u]>>
  <2>1. CASE h \in heard
    BY <1>6, <2>1
  <2>2. CASE h \in H \X {code}
    <3>1. h = <<h[1], code>> /\ h[1] \in A
      BY <2>2
    <3>2. PICK u \in plugged : id[u] = h[1] /\ baud[u] = code
      BY <3>1
    <3>3. QED
      BY <1>6, <3>1, <3>2
  <2>3. QED
    BY <1>5, <2>1, <2>2
<1>10. ASSUME kind \notin missed', NEW u \in plugged', baud'[u] <= code
       PROVE  Heard(u)'
  <2>1. H = A /\ kind \notin missed
    BY <1>5, <1>10
  <2>2. u \in plugged /\ id'[u] = id[u] /\ baud'[u] = baud[u] /\ baud[u] \in Bauds
    BY <1>6 DEF TypeOK
  <2>3. CASE baud[u] = code
    BY <1>5, <2>1, <2>2, <2>3 DEF Heard
  <2>4. CASE baud[u] # code
    <3>1. baud[u] < code
      BY <1>6, <1>10, <2>2, <2>4, Facts DEF Bauds
    <3>2. QED
      BY <1>5, <2>1, <2>2, <3>1 DEF Heard
  <2>5. QED
    BY <2>3, <2>4
<1>11. missed \subseteq missed' /\ missed' \subseteq missed \union {kind}
  BY <1>5
<1>12. \A u \in plugged' : baud'[u] \in Bauds
  BY <1>6 DEF TypeOK
<1>13. CASE code + 1 \in Bauds /\ code' = code + 1 /\ pc' = kind
  <2>1. \A u \in plugged' : baud'[u] < code' => baud'[u] <= code
    BY <1>6, <1>12, <1>13, Facts DEF Bauds
  <2>2. QED
    BY <1>8, <1>9, <1>10, <1>11, <1>13, <2>1
<1>14. CASE code' = code /\ pc' = then /\ code + 1 \notin Bauds
  <2>1. \A u \in plugged' : baud'[u] <= code
    BY <1>6, <1>12, <1>14, Facts DEF Bauds
  <2>2. QED
    BY <1>8, <1>9, <1>10, <1>11, <1>14, <2>1
<1>15. CASE code' = code /\ pc' = then /\ early /\ Cardinality(heard') > 1
  BY <1>8, <1>9, <1>11, <1>15
<1>16. QED
  BY <1>7, <1>13, <1>14, <1>15

\* A sweep of the wizard's.
LEMMA ScanSweepStep == IInv /\ ScanSweep => IInv'
<1>1. SUFFICES ASSUME IInv, Sweep("scan", "scanned", FALSE) PROVE IInv'
  BY DEF ScanSweep
<1>2. pc = "scan" /\ UNCHANGED <<id, baud, plugged, joint, skipped, tries, status, blind, done>>
  BY <1>1 DEF Sweep, servos, wizard, reid
<1>3. /\ TypeOK'
      /\ \A h \in heard' : \E u \in plugged' : h = <<id'[u], baud'[u]>>
      /\ \/ pc' = "scan" /\ ("scan" \notin missed' => \A u \in plugged' : baud'[u] < code' => Heard(u)')
         \/ pc' = "scanned" /\ ("scan" \notin missed' => \A u \in plugged' : Heard(u)')
  BY <1>1, <1>2, SweepHears DEF IInv, HeardIsThere, Hearing, MissedNothing
<1>4. Placed'
  BY <1>1, <1>2, <1>3 DEF IInv, Placed, Single1
<1>5. HeardIsThere'
  BY <1>3 DEF HeardIsThere
<1>6. MissedNothing'
  BY <1>3 DEF MissedNothing
<1>7. RenamedAlike'
  BY <1>3 DEF RenamedAlike, Renaming
<1>8. NoForeignCycle' /\ AllNamed'
  BY <1>1, <1>2, <1>3, SameIdsSameCycles DEF IInv, AllNamed
<1>9. QED
  BY <1>3, <1>4, <1>5, <1>6, <1>7, <1>8 DEF IInv

\* A sweep of REID's: what the scan knew of the servos still holds.
LEMMA ReidSweepStep == IInv /\ ReidSweep => IInv'
<1>1. SUFFICES ASSUME IInv, Sweep("reid", "found", TRUE) PROVE IInv'
  BY DEF ReidSweep
<1>2. pc = "reid" /\ UNCHANGED <<id, baud, plugged, joint, skipped, tries, status, blind, done>>
  BY <1>1 DEF Sweep, servos, wizard, reid
<1>3. /\ TypeOK'
      /\ \A h \in heard' : \E u \in plugged' : h = <<id'[u], baud'[u]>>
      /\ missed \subseteq missed'
      /\ \/ pc' = "reid" /\ ("reid" \notin missed' => \A u \in plugged' : baud'[u] < code' => Heard(u)')
         \/ pc' = "found" /\ ("reid" \notin missed' => \/ Cardinality(heard') > 1
                                                      \/ \A u \in plugged' : Heard(u)')
  BY <1>1, <1>2, SweepHears DEF IInv, HeardIsThere, Hearing, MissedNothing
<1>4. Placed'
  BY <1>1, <1>2, <1>3 DEF IInv, Placed, Single1
<1>5. HeardIsThere'
  BY <1>3 DEF HeardIsThere
<1>6. MissedNothing'
  BY <1>3 DEF MissedNothing
<1>7. RenamedAlike'
  <2>1. "scan" \notin missed' => Alike'
    BY <1>1, <1>2, <1>3 DEF IInv, RenamedAlike, Alike
  <2>2. QED
    BY <1>3, <2>1 DEF RenamedAlike, Renaming
<1>8. NoForeignCycle' /\ AllNamed'
  BY <1>1, <1>2, <1>3, SameIdsSameCycles DEF IInv, AllNamed
<1>9. QED
  BY <1>3, <1>4, <1>5, <1>6, <1>7, <1>8 DEF IInv

\* The sweep of the final verification.
LEMMA VerificationSweepStep == IInv /\ VerificationSweep => IInv'
<1>1. SUFFICES ASSUME IInv, Sweep("verification", "verdict", FALSE) PROVE IInv'
  BY DEF VerificationSweep
<1>2. pc = "verification" /\ UNCHANGED <<id, baud, plugged, joint, skipped, tries, status, blind, done>>
  BY <1>1 DEF Sweep, servos, wizard, reid
<1>3. /\ TypeOK'
      /\ \A h \in heard' : \E u \in plugged' : h = <<id'[u], baud'[u]>>
      /\ \/ /\ pc' = "verification"
            /\ "verification" \notin missed' => \A u \in plugged' : baud'[u] < code' => Heard(u)'
         \/ pc' = "verdict"
  BY <1>1, <1>2, SweepHears DEF IInv, HeardIsThere, Hearing, MissedNothing
<1>4. Placed'
  BY <1>1, <1>2, <1>3 DEF IInv, Placed, Single1, Renaming
<1>5. HeardIsThere'
  BY <1>3 DEF HeardIsThere
<1>6. MissedNothing'
  BY <1>3 DEF MissedNothing
<1>7. RenamedAlike'
  BY <1>3 DEF RenamedAlike, Renaming
<1>8. NoForeignCycle' /\ AllNamed'
  BY <1>1, <1>2, <1>3, SameIdsSameCycles DEF IInv, AllNamed
<1>9. QED
  BY <1>3, <1>4, <1>5, <1>6, <1>7, <1>8 DEF IInv

----------------------------------------------------------------------------
(* The wizard's steps. *)

\* A step to the prompt, or to the start, of the wizard.
LEMMA IdleStep ==
    ASSUME IInv, TypeOK', pc' \in {"start", "prompt", "plugAll"}, id' = id, done' = done, blind' = blind
    PROVE  IInv'
<1>1. Placed' /\ HeardIsThere' /\ MissedNothing' /\ RenamedAlike' /\ AllNamed'
  BY DEF Placed, HeardIsThere, MissedNothing, RenamedAlike, AllNamed, Single1, Hearing, Renaming
<1>2. QED
  BY <1>1, SameIdsSameCycles DEF IInv

LEMMA NextJointTyped ==
    ASSUME TypeOK, NextJoint
    PROVE  joint' \in Joints /\ pc' \in {"prompt", "plugAll"}
<1>1. joint \in Nat /\ joint >= 1 /\ joint <= NumJoints /\ NumJoints \in Nat
  BY Facts DEF TypeOK, Joints
<1>2. CASE joint < NumJoints
  BY <1>1, <1>2 DEF NextJoint, Joints
<1>3. CASE ~(joint < NumJoints)
  BY <1>1, <1>3 DEF NextJoint, Joints
<1>4. QED
  BY <1>2, <1>3

LEMMA SlipTyped ==
    ASSUME TypeOK, NEW slipped \in BOOLEAN, Slip(slipped)
    PROVE  slips' \in 0..MaxSlips
  BY Facts DEF TypeOK, Slip

LEMMA StartStep == IInv /\ Start => IInv'
<1>1. SUFFICES ASSUME IInv, Start PROVE IInv'
  OBVIOUS
<1>2. known' \subseteq Joints
  BY <1>1 DEF Start
<1>3. TypeOK'
  BY <1>1, <1>2, Facts DEF Start, IInv, TypeOK, servos, sweep, reid, history
<1>4. QED
  BY <1>1, <1>3, IdleStep DEF Start, servos, history

LEMMA EnterStep == IInv /\ Enter => IInv'
<1>1. SUFFICES ASSUME IInv, Enter PROVE IInv'
  OBVIOUS
<1>2. PICK forgotten \in SUBSET (plugged \ {joint}) :
         plugged' = {joint} \union forgotten /\ Slip(forgotten # {})
  BY <1>1 DEF Enter
<1>3. slips' \in 0..MaxSlips
  BY <1>1, <1>2, SlipTyped DEF IInv
<1>4. /\ pc' = "scan" /\ code' = 0 /\ heard' = {} /\ missed' = {}
      /\ UNCHANGED <<id, baud, bus, known, joint, skipped, tries, status, blind, done, lost>>
  BY <1>1 DEF Enter, StartSweep, NoSweep, wizard, reid
<1>5. TypeOK'
  <2>1. plugged' \subseteq Joints /\ code' \in Bauds
    BY <1>1, <1>2, <1>4, Facts DEF IInv, TypeOK
  <2>2. QED
    BY <1>1, <1>3, <1>4, <2>1 DEF IInv, TypeOK
<1>6. Placed' /\ HeardIsThere' /\ RenamedAlike' /\ AllNamed'
  BY <1>2, <1>4 DEF Placed, HeardIsThere, RenamedAlike, AllNamed, Renaming
<1>7. MissedNothing'
  <2>1. \A u \in plugged' : ~(baud'[u] < code')
    BY <1>4, <1>5, Facts DEF TypeOK, Bauds
  <2>2. QED
    BY <1>4, <2>1 DEF MissedNothing
<1>8. QED
  BY <1>1, <1>4, <1>5, <1>6, <1>7, SameIdsSameCycles DEF IInv

LEMMA SkipStep == IInv /\ Skip => IInv'
<1>1. SUFFICES ASSUME IInv, Skip PROVE IInv'
  OBVIOUS
<1>2. joint' \in Joints /\ pc' \in {"prompt", "plugAll"} /\ slips' \in 0..MaxSlips
  BY <1>1, NextJointTyped, SlipTyped DEF Skip, IInv
<1>3. /\ skipped' = skipped \union {joint}
      /\ UNCHANGED <<id, baud, plugged, bus, known, code, heard, tries, status, missed, blind, done, lost>>
  BY <1>1 DEF Skip, servos, sweep, reid, history
<1>4. TypeOK'
  BY <1>1, <1>2, <1>3 DEF IInv, TypeOK
<1>5. QED
  BY <1>1, <1>2, <1>3, <1>4, IdleStep

LEMMA QuitStep == IInv /\ Quit => IInv'
<1>1. SUFFICES ASSUME IInv, Quit PROVE IInv'
  OBVIOUS
<1>2. pc' = "start" /\ slips' \in 0..MaxSlips
  BY <1>1, SlipTyped DEF Quit, IInv
<1>3. UNCHANGED <<id, baud, plugged, bus, known, joint, skipped, code, heard, tries, status, missed, blind, done, lost>>
  BY <1>1 DEF Quit, servos, wizard, sweep, reid, history
<1>4. TypeOK'
  BY <1>1, <1>2, <1>3 DEF IInv, TypeOK
<1>5. QED
  BY <1>1, <1>2, <1>3, <1>4, IdleStep

LEMMA PlugAllStep == IInv /\ PlugAll => IInv'
<1>1. SUFFICES ASSUME IInv, PlugAll PROVE IInv'
  OBVIOUS
<1>2. /\ plugged' = Joints /\ pc' = "verification" /\ code' = 0 /\ heard' = {}
      /\ UNCHANGED <<id, baud, bus, known, joint, skipped, tries, status, missed, blind, done, lost, slips>>
  BY <1>1 DEF PlugAll, StartSweep, NoSweep, wizard, reid, history
<1>3. TypeOK'
  BY <1>1, <1>2, Facts DEF IInv, TypeOK
<1>4. Placed' /\ HeardIsThere' /\ RenamedAlike' /\ AllNamed'
  BY <1>2 DEF Placed, HeardIsThere, RenamedAlike, AllNamed, Renaming, Single1
<1>5. MissedNothing'
  <2>1. \A u \in plugged' : ~(baud'[u] < code')
    BY <1>2, <1>3, Facts DEF TypeOK, Bauds
  <2>2. QED
    BY <1>2, <2>1 DEF MissedNothing
<1>6. QED
  BY <1>1, <1>2, <1>3, <1>4, <1>5, SameIdsSameCycles DEF IInv

\* If exactly one answer was heard and no servo was missed, the servos on
\* the bus are alike.
LEMMA OneAnswerAlike ==
    ASSUME TypeOK, Cardinality(heard) = 1, \A u \in plugged : Heard(u)
    PROVE  Alike
<1>1. PICK h : heard = {h}
  BY HeardCounted DEF TypeOK
<1>2. \A u \in plugged : <<id[u], baud[u]>> = h
  BY <1>1 DEF Heard
<1>3. QED
  BY <1>2 DEF Alike

LEMMA ScannedStep == IInv /\ Scanned => IInv'
<1>1. SUFFICES ASSUME IInv, Scanned PROVE IInv'
  OBVIOUS
<1>2. /\ pc = "scanned" /\ bus' = 0 /\ code' = 0 /\ heard' = {}
      /\ \/ Single /\ pc' = "reid"
         \/ pc' = "prompt"
      /\ UNCHANGED <<id, baud, plugged, known, joint, skipped, tries, status, missed, blind, done, lost, slips>>
  BY <1>1, Facts DEF Scanned, StartSweep, NoSweep, servos, wizard, reid, history
<1>3. TypeOK'
  BY <1>1, <1>2, Facts DEF IInv, TypeOK
<1>4. CASE pc' = "prompt"
  BY <1>1, <1>2, <1>3, <1>4, IdleStep
<1>5. CASE Single /\ pc' = "reid"
  <2>1. Placed' /\ HeardIsThere' /\ AllNamed'
    BY <1>1, <1>2, <1>5 DEF IInv, Placed, HeardIsThere, AllNamed, Single1
  <2>2. MissedNothing'
    <3>1. \A u \in plugged' : ~(baud'[u] < code')
      BY <1>2, <1>3, Facts DEF TypeOK, Bauds
    <3>2. QED
      BY <1>5, <3>1 DEF MissedNothing
  <2>3. RenamedAlike'
    <3>1. "scan" \notin missed => Alike
      BY <1>1, <1>2, <1>5, OneAnswerAlike DEF IInv, MissedNothing, Single
    <3>2. QED
      BY <1>2, <1>5, <3>1 DEF RenamedAlike, Alike, Renaming
  <2>4. QED
    BY <1>1, <1>2, <1>3, <2>1, <2>2, <2>3, SameIdsSameCycles DEF IInv
<1>6. QED
  BY <1>2, <1>4, <1>5

LEMMA VerdictStep == IInv /\ Verdict => IInv'
<1>1. SUFFICES ASSUME IInv, Verdict PROVE IInv'
  OBVIOUS
<1>2. /\ pc = "verdict" /\ bus' = 0 /\ code' = 0 /\ heard' = {} /\ missed' = {}
      /\ \/ AllGood /\ pc' = "good" /\ joint' = joint
         \/ pc' = "start" /\ joint' = 1
      /\ UNCHANGED <<id, baud, plugged, known, skipped, tries, status, blind, done, lost, slips>>
  BY <1>1, Facts DEF Verdict, NoSweep, servos, reid
<1>3. TypeOK'
  BY <1>1, <1>2, Facts DEF IInv, TypeOK
<1>4. CASE pc' = "start"
  BY <1>1, <1>2, <1>3, <1>4, IdleStep
<1>5. CASE AllGood /\ pc' = "good"
  <2>1. Placed' /\ HeardIsThere' /\ MissedNothing' /\ RenamedAlike'
    BY <1>2, <1>5 DEF Placed, HeardIsThere, MissedNothing, RenamedAlike, Single1, Hearing, Renaming
  <2>2. ASSUME skipped = {}, NEW j \in Joints
        PROVE  \E u \in Joints : id[u] = j /\ baud[u] = Target
    <3>1. PICK h \in heard : h[1] = j
      BY <1>5, <2>2 DEF AllGood, missing, expected, found_ids
    <3>2. h[2] = Target
      BY <1>5 DEF AllGood, wrong_baud
    <3>3. PICK u \in plugged : h = <<id[u], baud[u]>>
      BY <1>1, <1>2 DEF IInv, HeardIsThere, Hearing
    <3>4. u \in Joints
      BY <1>1 DEF IInv, TypeOK
    <3>5. QED
      BY <3>1, <3>2, <3>3, <3>4
  <2>3. AllNamed'
    BY <1>2, <2>2 DEF AllNamed
  <2>4. QED
    BY <1>1, <1>2, <1>3, <2>1, <2>3, SameIdsSameCycles DEF IInv
<1>6. QED
  BY <1>2, <1>4, <1>5

----------------------------------------------------------------------------
(* REID's steps. *)

\* A reply other than "ok".
LEMMA RefusalStep ==
    ASSUME IInv, TypeOK', pc' = "reply", status' # "ok", pc \in Single1,
           UNCHANGED <<plugged, joint, id, done>>, blind => blind'
    PROVE  IInv'
<1>1. Placed' /\ HeardIsThere' /\ MissedNothing' /\ RenamedAlike' /\ AllNamed'
  BY DEF IInv, Placed, HeardIsThere, MissedNothing, RenamedAlike, AllNamed, Hearing, Renaming
<1>2. NoForeignCycle'
  BY DEF IInv, NoForeignCycle, TypeOK
<1>3. QED
  BY <1>1, <1>2 DEF IInv

LEMMA ReidFoundStep == IInv /\ ReidFound => IInv'
<1>1. SUFFICES ASSUME IInv, ReidFound PROVE IInv'
  OBVIOUS
<1>2. /\ pc = "found" /\ missed' = {} /\ blind' = (blind \/ {"scan", "reid"} \subseteq missed)
      /\ UNCHANGED <<id, baud, plugged, known, joint, skipped, code, heard, tries, done, lost, slips>>
  BY <1>1 DEF ReidFound, servos, wizard, sweep
<1>3. blind \in BOOLEAN /\ blind' \in BOOLEAN /\ (blind => blind')
  BY <1>1, <1>2 DEF IInv, TypeOK
<1>4. CASE FoundStatus = "ok"
  <2>1. pc' = "setId" /\ bus' = Found[2] /\ status' = status
    BY <1>1, <1>4 DEF ReidFound
  <2>2. heard # {} /\ ~(Cardinality(heard) > 1)
    BY <1>4 DEF FoundStatus
  <2>3. heard \subseteq Joints \X Bauds
    BY <1>1 DEF IInv, TypeOK
  <2>4. Cardinality(heard) = 1
    <3>1. Cardinality(heard) \in Nat /\ Cardinality(heard) # 0
      BY <2>2, <2>3, HeardCounted
    <3>2. QED
      BY <2>2, <3>1
  <2>5. Found \in heard
    BY <2>2 DEF Found
  <2>6. TypeOK'
    <3>1. bus' \in Bauds
      BY <2>1, <2>3, <2>5
    <3>2. QED
      BY <1>1, <1>2, <1>3, <2>1, <3>1 DEF IInv, TypeOK
  <2>7. Placed' /\ HeardIsThere' /\ MissedNothing' /\ AllNamed'
    BY <1>1, <1>2, <2>1 DEF IInv, Placed, HeardIsThere, MissedNothing, AllNamed, Single1, Hearing
  <2>8. ~blind' => Alike
    <3>1. CASE "scan" \notin missed
      BY <1>1, <1>2, <3>1 DEF IInv, RenamedAlike
    <3>2. CASE "reid" \notin missed
      BY <1>1, <1>2, <2>2, <2>4, <3>2, OneAnswerAlike DEF IInv, MissedNothing
    <3>3. QED
      BY <1>2, <3>1, <3>2
  <2>9. RenamedAlike'
    <3>1. Found' = Found
      BY <1>2 DEF Found
    <3>2. QED
      BY <1>2, <2>1, <2>4, <2>8, <3>1 DEF RenamedAlike, Alike, Renaming
  <2>10. NoForeignCycle'
    BY <1>1, <1>2, <1>3 DEF IInv, NoForeignCycle
  <2>11. QED
    BY <2>6, <2>7, <2>9, <2>10 DEF IInv
<1>5. CASE FoundStatus # "ok"
  <2>1. pc' = "reply" /\ status' = FoundStatus /\ bus' = bus
    BY <1>1, <1>5 DEF ReidFound, Reply
  <2>2. FoundStatus \in Statuses
    BY DEF FoundStatus, Statuses
  <2>3. TypeOK'
    BY <1>1, <1>2, <1>3, <2>1, <2>2 DEF IInv, TypeOK
  <2>4. QED
    BY <1>1, <1>2, <1>3, <1>5, <2>1, <2>3, RefusalStep DEF Single1
<1>6. QED
  BY <1>4, <1>5

\* Renaming all servos on the bus to the joint's id closes a chain of ids at
\* the joint's servo; a write that reaches none changes nothing.
LEMMA RenameKeepsCycles ==
    ASSUME TypeOK, NoForeignCycle, joint \in plugged, ~blind,
           NEW R \in {{}, plugged}, id' = [u \in Joints |-> IF u \in R THEN joint ELSE id[u]],
           done' = done
    PROVE  NoForeignCycle'
<1>1. joint \in Joints /\ plugged \subseteq Joints /\ id \in [Joints -> Joints] /\ done \subseteq Joints
  BY DEF TypeOK
<1>2. SUFFICES ASSUME NEW S \in SUBSET done, S # {}, \A u \in S : id'[u] \in S
               PROVE  \E u \in S : id'[u] = u
  BY DEF NoForeignCycle
<1>3. CASE S \cap R # {}
  <2>1. PICK u \in S : u \in R
    BY <1>3
  <2>2. R = plugged
    BY <2>1
  <2>3. joint \in S /\ id'[joint] = joint
    BY <1>1, <1>2, <2>1, <2>2
  <2>4. QED
    BY <2>3
<1>4. CASE S \cap R = {}
  <2>1. \A u \in S : id'[u] = id[u]
    BY <1>1, <1>4
  <2>2. \E u \in S : id[u] = u
    BY <1>2, <2>1 DEF NoForeignCycle
  <2>3. QED
    BY <2>1, <2>2
<1>5. QED
  BY <1>3, <1>4

LEMMA SetIdStep == IInv /\ SetId => IInv'
<1>1. SUFFICES ASSUME IInv, SetId PROVE IInv'
  OBVIOUS
<1>2. PICK acked \in BOOLEAN, reached \in {{}, Answering(Found[1], bus)} :
         /\ Transact(Found[1], reached, acked) /\ Rename(reached)
         /\ IF acked THEN pc' = "pingId" /\ UNCHANGED status ELSE Reply("write_failed")
  BY <1>1 DEF SetId
<1>3. /\ pc = "setId"
      /\ UNCHANGED <<baud, plugged, bus, known, joint, skipped, code, heard, tries, missed, blind, done, slips>>
  BY <1>1, <1>2 DEF SetId, Rename, wizard, sweep, history
<1>4. lost' \in 0..MaxLost /\ (acked => reached = Answering(Found[1], bus))
  BY <1>1, <1>2, TransactReaches DEF IInv
<1>5. id' = [u \in Joints |-> IF u \in reached THEN joint ELSE id[u]]
  BY <1>2 DEF Rename
<1>6. TypeOK'
  <2>1. id' \in [Joints -> Joints]
    BY <1>1, <1>5 DEF IInv, TypeOK
  <2>2. pc' \in {"pingId", "reply"} /\ status' \in Statuses
    BY <1>1, <1>2 DEF Reply, Statuses, IInv, TypeOK
  <2>3. QED
    BY <1>1, <1>3, <1>4, <2>1, <2>2 DEF IInv, TypeOK
<1>7. \/ acked /\ pc' = "pingId"
      \/ pc' = "reply" /\ status' = "write_failed"
  BY <1>2 DEF Reply
<1>8. joint \in plugged
  BY <1>1, <1>3 DEF IInv, Placed, Single1, Renaming
<1>9. Placed' /\ HeardIsThere' /\ MissedNothing' /\ AllNamed'
  BY <1>3, <1>7, <1>8 DEF Placed, HeardIsThere, MissedNothing, AllNamed, Single1, Hearing
<1>10. ~blind => Answering(Found[1], bus) = plugged
  BY <1>1, <1>3, AllAnswer DEF IInv
<1>11. RenamedAlike'
  <2>1. ASSUME ~blind, acked, NEW u \in plugged PROVE id'[u] = joint
    BY <1>1, <1>4, <1>5, <1>10, <2>1 DEF IInv, TypeOK
  <2>2. QED
    BY <1>3, <1>7, <2>1 DEF RenamedAlike, Renaming
<1>12. NoForeignCycle'
  <2>1. CASE ~blind
    BY <1>1, <1>3, <1>5, <1>8, <1>10, <2>1, RenameKeepsCycles DEF IInv
  <2>2. CASE blind
    BY <1>3, <2>2 DEF NoForeignCycle
  <2>3. QED
    BY <2>1, <2>2
<1>13. QED
  BY <1>6, <1>9, <1>11, <1>12 DEF IInv

\* REID goes on with the servos renamed.
LEMMA GoOnStep ==
    ASSUME IInv, TypeOK', pc \in {"pingId", "setBaud", "verify"},
           pc' \in {"setBaud", "verify", "reply"}, pc' = "verify" => tries' < VerifyTries,
           UNCHANGED <<id, plugged, joint, blind, done>>
    PROVE  IInv'
<1>1. Placed' /\ HeardIsThere' /\ MissedNothing' /\ AllNamed'
  BY DEF IInv, Placed, HeardIsThere, MissedNothing, AllNamed, Single1, Hearing, Renaming
<1>2. RenamedAlike'
  BY DEF IInv, RenamedAlike, Renaming
<1>3. QED
  BY <1>1, <1>2, SameIdsSameCycles DEF IInv

LEMMA PingIdStep == IInv /\ PingId => IInv'
<1>1. SUFFICES ASSUME IInv, PingId PROVE IInv'
  OBVIOUS
<1>2. PICK acked \in BOOLEAN :
         Ping(joint, acked) /\ known' = IF acked THEN known \union {joint} ELSE known
  BY <1>1 DEF PingId
<1>3. lost' \in 0..MaxLost
  BY <1>1, <1>2, TransactReaches DEF IInv, Ping
<1>4. /\ pc = "pingId" /\ pc' = "setBaud"
      /\ UNCHANGED <<id, baud, plugged, bus, joint, skipped, code, heard, tries, status, missed, blind, done, slips>>
  BY <1>1, <1>2 DEF PingId, Ping, servos, wizard, sweep, reid, history
<1>5. TypeOK'
  <2>1. known' \subseteq Joints
    BY <1>1, <1>2 DEF IInv, TypeOK
  <2>2. QED
    BY <1>1, <1>3, <1>4, <2>1 DEF IInv, TypeOK
<1>6. QED
  BY <1>1, <1>4, <1>5, GoOnStep

LEMMA SetBaudStep == IInv /\ SetBaud => IInv'
<1>1. SUFFICES ASSUME IInv, SetBaud PROVE IInv'
  OBVIOUS
<1>2. /\ pc = "setBaud"
      /\ UNCHANGED <<known, joint, skipped, code, heard, missed, blind, done, slips>>
  BY <1>1 DEF SetBaud, wizard, sweep, history
<1>3. CASE /\ joint \in known
           /\ \E acked \in BOOLEAN, reached \in {{}, Answering(joint, bus)} :
                /\ Transact(joint, reached, acked) /\ Rebaud(reached)
                /\ IF acked THEN pc' = "verify" /\ bus' = Target /\ tries' = 0 /\ UNCHANGED status
                            ELSE Reply("baud_failed") /\ UNCHANGED <<bus, tries>>
  <2>1. PICK acked \in BOOLEAN, reached \in {{}, Answering(joint, bus)} :
                /\ Transact(joint, reached, acked) /\ Rebaud(reached)
                /\ IF acked THEN pc' = "verify" /\ bus' = Target /\ tries' = 0 /\ UNCHANGED status
                            ELSE Reply("baud_failed") /\ UNCHANGED <<bus, tries>>
    BY <1>3
  <2>2. lost' \in 0..MaxLost
    BY <1>1, <2>1, TransactReaches DEF IInv
  <2>3. UNCHANGED <<id, plugged>> /\ baud' \in [Joints -> Bauds]
    BY <1>1, <2>1, Facts DEF Rebaud, IInv, TypeOK
  <2>4. \/ pc' = "verify" /\ bus' = 0 /\ tries' = 0 /\ status' = status
        \/ pc' = "reply" /\ status' = "baud_failed" /\ UNCHANGED <<bus, tries>>
    BY <2>1, Facts DEF Reply
  <2>5. TypeOK'
    <3>1. 0 \in Bauds /\ 0 \in 0..VerifyTries
      BY Facts
    <3>2. QED
      BY <1>1, <1>2, <2>2, <2>3, <2>4, <3>1 DEF IInv, TypeOK, Statuses
  <2>6. QED
    BY <1>1, <1>2, <2>3, <2>4, <2>5, GoOnStep, Facts
<1>4. CASE joint \notin known /\ Reply("baud_failed") /\ UNCHANGED <<servos, lost, bus, tries>>
  <2>1. pc' = "reply" /\ status' = "baud_failed" /\ UNCHANGED <<id, baud, plugged, lost, bus, tries>>
    BY <1>4 DEF Reply, servos
  <2>2. TypeOK'
    BY <1>1, <1>2, <2>1 DEF IInv, TypeOK, Statuses
  <2>3. QED
    BY <1>1, <1>2, <2>1, <2>2, GoOnStep
<1>5. QED
  BY <1>1, <1>3, <1>4 DEF SetBaud

LEMMA VerifyStep == IInv /\ Verify => IInv'
<1>1. SUFFICES ASSUME IInv, Verify PROVE IInv'
  OBVIOUS
<1>2. PICK acked \in BOOLEAN :
         /\ Ping(joint, acked)
         /\ known' = IF acked THEN known \union {joint} ELSE known
         /\ tries' = tries + 1
         /\ IF acked THEN Reply("ok")
            ELSE IF tries + 1 < VerifyTries THEN UNCHANGED <<pc, status>>
            ELSE Reply("verify_failed")
  BY <1>1 DEF Verify
<1>3. lost' \in 0..MaxLost
  BY <1>1, <1>2, TransactReaches DEF IInv, Ping
<1>4. /\ pc = "verify"
      /\ UNCHANGED <<id, baud, plugged, bus, joint, skipped, code, heard, missed, blind, done, slips>>
  BY <1>1, <1>2 DEF Verify, Ping, servos, wizard, sweep, history
<1>5. \/ pc' = "reply" /\ status' \in Statuses
      \/ pc' = "verify" /\ status' = status /\ tries' < VerifyTries
  BY <1>2, <1>4 DEF Reply, Statuses
<1>6. TypeOK'
  <2>1. known' \subseteq Joints
    BY <1>1, <1>2 DEF IInv, TypeOK
  <2>2. tries' \in 0..VerifyTries
    BY <1>1, <1>2, <1>4, Facts DEF IInv, TypeOK, Placed
  <2>3. QED
    BY <1>1, <1>3, <1>4, <1>5, <2>1, <2>2 DEF IInv, TypeOK
<1>7. QED
  BY <1>1, <1>4, <1>5, <1>6, GoOnStep

LEMMA ReidReplyStep == IInv /\ ReidReply => IInv'
<1>1. SUFFICES ASSUME IInv, ReidReply PROVE IInv'
  OBVIOUS
<1>2. /\ pc = "reply" /\ bus' = 0 /\ code' = 0 /\ heard' = {} /\ tries' = 0 /\ status' = "ok"
      /\ UNCHANGED <<id, baud, plugged, known, skipped, missed, blind, lost, slips>>
  BY <1>1, Facts DEF ReidReply, NoSweep, servos
<1>3. joint \in plugged /\ joint \in Joints /\ id \in [Joints -> Joints]
  BY <1>1, <1>2 DEF IInv, Placed, Single1, TypeOK
<1>4. /\ pc' \in {"start", "prompt", "plugAll"} /\ joint' \in Joints
      /\ \/ done' = done
         \/ done' = done \union {joint} /\ status = "ok"
  BY <1>1, NextJointTyped DEF ReidReply, IInv, TypeOK
<1>5. TypeOK'
  <2>1. 0 \in Bauds /\ 0 \in 0..VerifyTries
    BY Facts
  <2>2. done' \subseteq Joints
    BY <1>1, <1>3, <1>4 DEF IInv, TypeOK
  <2>3. QED
    BY <1>1, <1>2, <1>4, <2>1, <2>2 DEF IInv, TypeOK, Statuses
<1>6. NoForeignCycle'
  <2>1. SUFFICES ASSUME ~blind, NEW S \in SUBSET done', S # {}, \A u \in S : id[u] \in S
                 PROVE  \E u \in S : id[u] = u
    BY <1>2 DEF NoForeignCycle
  <2>2. CASE S \subseteq done
    BY <1>1, <2>1, <2>2 DEF IInv, NoForeignCycle
  <2>3. CASE ~(S \subseteq done)
    <3>1. joint \in S /\ status = "ok"
      BY <1>4, <2>1, <2>3
    <3>2. id[joint] = joint
      BY <1>1, <1>2, <1>3, <2>1, <3>1 DEF IInv, RenamedAlike
    <3>3. QED
      BY <3>1, <3>2
  <2>4. QED
    BY <2>2, <2>3
<1>7. Placed' /\ HeardIsThere' /\ MissedNothing' /\ RenamedAlike' /\ AllNamed'
  BY <1>4 DEF Placed, HeardIsThere, MissedNothing, RenamedAlike, AllNamed, Single1, Hearing, Renaming
<1>8. QED
  BY <1>5, <1>6, <1>7 DEF IInv

LEMMA StutterStep == IInv /\ UNCHANGED vars => IInv'
<1>1. SUFFICES ASSUME IInv, UNCHANGED vars PROVE IInv'
  OBVIOUS
<1>2. UNCHANGED <<id, baud, plugged, bus, known, pc, joint, skipped, code, heard, tries, status,
                  missed, blind, done, lost, slips>>
  BY <1>1 DEF vars, servos, wizard, sweep, reid, history
<1>3. TypeOK' /\ Placed' /\ HeardIsThere'
  BY <1>1, <1>2 DEF IInv, TypeOK, Placed, HeardIsThere
<1>4. MissedNothing'
  BY <1>1, <1>2 DEF IInv, MissedNothing, Heard
<1>5. RenamedAlike'
  BY <1>1, <1>2 DEF IInv, RenamedAlike, Alike, Found
<1>6. NoForeignCycle' /\ AllNamed'
  BY <1>1, <1>2, SameIdsSameCycles DEF IInv, AllNamed
<1>7. QED
  BY <1>3, <1>4, <1>5, <1>6 DEF IInv

\* The wizard, the operator and the board keep the invariant, whatever is
\* lost on the bus and whoever is left plugged in.
THEOREM Invariant == Spec => []IInv
<1>1. IInv /\ [Next]_vars => IInv'
  <2>1. SUFFICES ASSUME IInv, [Next]_vars PROVE IInv'
    OBVIOUS
  <2>2. CASE Operator
    BY <2>1, <2>2, StartStep, EnterStep, SkipStep, QuitStep, PlugAllStep DEF Operator
  <2>3. CASE Board
    BY <2>1, <2>3, ScanSweepStep, ReidSweepStep, VerificationSweepStep, ScannedStep, VerdictStep,
       ReidFoundStep, SetIdStep, PingIdStep, SetBaudStep, VerifyStep, ReidReplyStep DEF Board
  <2>4. CASE UNCHANGED vars
    BY <2>1, <2>4, StutterStep
  <2>5. QED
    BY <2>1, <2>2, <2>3, <2>4 DEF Next
<1>2. QED
  BY InitInv, <1>1, PTL DEF Spec

----------------------------------------------------------------------------
(* What the wizard promises. *)

\* Type correctness: no counter of the wizard or of the board leaves its range.
THEOREM TypeCorrect == Spec => []TypeOK
<1>1. IInv => TypeOK
  BY DEF IInv
<1>2. QED
  BY Invariant, <1>1, PTL

\* The pigeonhole argument: servos that bear every joint's id are all the
\* servos, and no two of them bear the same.
LEMMA OneEach ==
    ASSUME id \in [Joints -> Joints], NEW U \in SUBSET Joints,
           \A j \in Joints : \E u \in U : id[u] = j
    PROVE  /\ U = Joints
           /\ \A u, v \in Joints : id[u] = id[v] => u = v
<1> DEFINE f == [u \in U |-> id[u]]
<1>1. IsFiniteSet(Joints) /\ IsFiniteSet(U) /\ Cardinality(U) <= Cardinality(Joints)
      /\ (Cardinality(U) = Cardinality(Joints) => U = Joints)
  BY Facts, FS_Subset
<1>2. f \in Surjection(U, Joints)
  BY DEF Surjection
<1>3. Cardinality(Joints) <= Cardinality(U)
      /\ (Cardinality(Joints) = Cardinality(U) <=> f \in Injection(U, Joints))
  BY <1>1, <1>2, FS_Surjection
<1>4. Cardinality(U) \in Nat /\ Cardinality(Joints) \in Nat
  BY <1>1, FS_CardinalityType
<1>5. Cardinality(U) = Cardinality(Joints)
  BY <1>1, <1>3, <1>4
<1>6. U = Joints /\ f \in Injection(U, Joints)
  BY <1>1, <1>3, <1>5
<1>7. \A u, v \in Joints : id[u] = id[v] => u = v
  BY <1>6 DEF Injection, IsInjective
<1>8. QED
  BY <1>6, <1>7

\* "ALL GOOD" after a run that skipped no joint: the ids on the arm are those
\* of the joints, each once, and every servo answers at the target baud --
\* whatever the final sweep could not tell apart.
THEOREM CompleteWhenGood == Spec => []AllGoodIsComplete
<1>1. IInv => AllGoodIsComplete
  <2>1. SUFFICES ASSUME IInv, pc = "good", skipped = {}
                 PROVE  {id[u] : u \in Joints} = Joints /\ \A u \in Joints : baud[u] = Target
    BY DEF AllGoodIsComplete
  <2> DEFINE U == {u \in Joints : baud[u] = Target}
  <2>2. id \in [Joints -> Joints] /\ \A j \in Joints : \E u \in U : id[u] = j
    BY <2>1 DEF IInv, TypeOK, AllNamed
  <2>3. U = Joints
    BY <2>2, OneEach
  <2>4. QED
    BY <2>2, <2>3
<1>2. QED
  BY Invariant, <1>1, PTL

\* No servo ends up with another joint's id, although servos left plugged in
\* are renamed along with the right one and packets are lost, unless both
\* sweeps of an attempt missed one.
THEOREM RightWhenGood == Spec => []AllGoodIsRight
<1>1. IInv => AllGoodIsRight
  <2>1. SUFFICES ASSUME IInv, pc = "good", skipped = {}, done = Joints, ~blind
                 PROVE  \A j \in Joints : id[j] = j
    BY DEF AllGoodIsRight
  <2> DEFINE W == {u \in Joints : id[u] # u}
  <2>2. id \in [Joints -> Joints] /\ \A j \in Joints : \E u \in Joints : id[u] = j
    BY <2>1 DEF IInv, TypeOK, AllNamed
  <2>3. \A u, v \in Joints : id[u] = id[v] => u = v
    BY <2>2, OneEach
  <2>4. \A u \in W : id[u] \in W
    BY <2>2, <2>3
  <2>5. W = {}
    BY <2>1, <2>4 DEF IInv, NoForeignCycle
  <2>6. QED
    BY <2>5
<1>2. QED
  BY Invariant, <1>1, PTL
=============================================================================
