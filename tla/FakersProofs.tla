----------------------------- MODULE FakersProofs -----------------------------
(***************************************************************************)
(* The safety of the three state fakers for every family of probes and     *)
(* every list of target files: the invariants that MCFakers checks, and    *)
(* the implementation of ProbeContract.                                    *)
(***************************************************************************)
EXTENDS Fakers, TLAPS

\* Where the loop stands says what the files hold: the targets before `next`
\* hold their payload, those after it (and the one at it, until its write ran)
\* are as the world left them.
LoopInv ==
    /\ \A i \in DOMAIN Targets : i < next => file[Targets[i]] = "payload"
    /\ \A i \in DOMAIN Targets : i > next => file[Targets[i]] \in {"absent", "world"}
    /\ outcome = "running" =>
          \A i \in DOMAIN Targets :
              i >= next => file[Targets[i]] \in {"absent", "world"}
    /\ written = {Targets[i] : i \in {j \in DOMAIN Targets : j < next}}
    /\ outcome = "reported" => next > Len(Targets)

IInv == TypeOK /\ LoopInv

\* The lists of the probes, as the code's tuples: indices from 1, no file twice.
LEMMA TargetsFacts ==
    ASSUME NEW p \in Probes
    PROVE  /\ DOMAIN TargetsOf[p] = 1 .. Len(TargetsOf[p])
           /\ Len(TargetsOf[p]) \in Nat
           /\ \A i \in DOMAIN TargetsOf[p] : TargetsOf[p][i] \in Paths
           /\ \A i, j \in DOMAIN TargetsOf[p] :
                  TargetsOf[p][i] = TargetsOf[p][j] => i = j
           /\ PathsOf(p) \subseteq Paths
  <1>1. TargetsOf[p] \in Seq(PathsOf(p))
    BY TargetsAreLists
  <1>2. PathsOf(p) \subseteq Paths
    BY DEF Paths
  <1>3. \A i \in DOMAIN TargetsOf[p] : TargetsOf[p][i] \in PathsOf(p)
    BY DEF PathsOf
  <1> QED
    BY <1>1, <1>2, <1>3, TargetsAreLists

\* One write of the loop: only the target at `next` changes, and to one of
\* the contents the shell can leave.
LEMMA WriteFacts ==
    ASSUME IInv, Writing, NEW w \in WriteResults
    PROVE  /\ w.content \in Content
           /\ w.rc = 0 => w.content = "payload"
           /\ Targets[next] \in Paths
           /\ next \in 1 .. Len(Targets)
  <1> USE DEF Targets
  <1>1. probe \in Probes /\ file \in [Paths -> Content]
    BY DEF IInv, TypeOK
  <1>2. Targets[next] \in Paths /\ next \in 1 .. Len(Targets)
    BY <1>1, TargetsFacts DEF Writing
  <1>3. file[Targets[next]] \in Content
    BY <1>1, <1>2
  <1> QED
    BY <1>2, <1>3 DEF WriteResults, Redirect, Content

LEMMA InitEstablishesIInv == Init => IInv
  <1> SUFFICES ASSUME Init PROVE IInv
    OBVIOUS
  <1> USE DEF Init, Targets
  <1>1. \A i \in DOMAIN Targets : Targets[i] \in Paths /\ i \in 1 .. Len(Targets)
    BY TargetsFacts
  <1>2. Len(Targets) \in Nat
    BY TargetsFacts
  <1>3. file \in [Paths -> Content]
    BY DEF Content
  <1>4. TypeOK
    BY <1>2, <1>3 DEF TypeOK
  <1>5. LoopInv
    BY <1>1 DEF LoopInv
  <1> QED
    BY <1>4, <1>5 DEF IInv

LEMMA NextPreservesIInv == IInv /\ [Next]_vars => IInv'
  <1> SUFFICES ASSUME IInv, [Next]_vars PROVE IInv'
    OBVIOUS
  <1> USE DEF Targets
  <1>0. /\ probe \in Probes /\ file \in [Paths -> Content] /\ Len(Targets) \in Nat
        /\ next \in 0 .. Len(Targets) + 1 /\ outputDir \in BOOLEAN
        /\ DOMAIN Targets = 1 .. Len(Targets)
        /\ \A i \in DOMAIN Targets : Targets[i] \in Paths
        /\ \A i, j \in DOMAIN Targets : Targets[i] = Targets[j] => i = j
    BY TargetsFacts DEF IInv, TypeOK
  <1>1. CASE MakeOutputDir
    <2>0. outputDir' \in BOOLEAN
      BY <1>0, <1>1, Zenon DEF MakeOutputDir
    <2>1. TypeOK'
      <3>1. next' = 1 /\ UNCHANGED <<probe, outcome, file, written, claims>>
        BY <1>1 DEF MakeOutputDir
      <3> QED
        BY <1>0, <2>0, <3>1 DEF IInv, TypeOK
    <2>2. LoopInv'
      BY <1>0, <1>1 DEF MakeOutputDir, IInv, LoopInv
    <2> QED
      BY <2>1, <2>2 DEF IInv
  <1>2. CASE LandTarget
    <2>1. PICK w \in WriteResults :
             w.rc = 0 /\ file' = [file EXCEPT ![Targets[next]] = w.content]
      BY <1>2 DEF LandTarget
    <2>2. /\ Writing /\ next' = next + 1 /\ probe' = probe /\ outcome' = outcome
          /\ outcome = "running"
          /\ written' = written \cup {Targets[next]} /\ UNCHANGED <<outputDir, claims>>
      BY <1>2 DEF LandTarget, Writing
    <2>3. w.content = "payload" /\ Targets[next] \in Paths /\ next \in 1 .. Len(Targets)
      BY <2>1, <2>2, WriteFacts
    <2>4. TypeOK'
      BY <1>0, <2>1, <2>2, <2>3 DEF IInv, TypeOK, Content
    <2>5. \A i \in DOMAIN Targets :
             file'[Targets[i]] = IF i = next THEN "payload" ELSE file[Targets[i]]
      BY <1>0, <2>1, <2>3
    <2>6. written' = {Targets[i] : i \in {j \in DOMAIN Targets : j < next + 1}}
      BY <1>0, <2>2, <2>3 DEF IInv, LoopInv
    <2>7. LoopInv'
      BY <1>0, <2>2, <2>3, <2>5, <2>6 DEF IInv, LoopInv
    <2> QED
      BY <2>4, <2>7 DEF IInv
  <1>3. CASE AbortOnFailedWrite
    <2>1. PICK w \in WriteResults : file' = [file EXCEPT ![Targets[next]] = w.content]
      BY <1>3 DEF AbortOnFailedWrite
    <2>2. Writing /\ outcome' = "aborted" /\ UNCHANGED <<probe, next, outputDir, written, claims>>
      BY <1>3 DEF AbortOnFailedWrite
    <2>3. w.content \in Content /\ Targets[next] \in Paths /\ next \in 1 .. Len(Targets)
      BY <2>2, WriteFacts
    <2>4. TypeOK'
      BY <1>0, <2>1, <2>2, <2>3 DEF IInv, TypeOK
    <2>5. \A i \in DOMAIN Targets : i # next => file'[Targets[i]] = file[Targets[i]]
      BY <1>0, <2>1, <2>3
    <2>6. LoopInv'
      BY <1>0, <2>2, <2>5 DEF IInv, LoopInv
    <2> QED
      BY <2>4, <2>6 DEF IInv
  <1>4. CASE ExecRaises
    <2>1. outcome' = "raised" /\ UNCHANGED <<probe, next, written, claims>>
      BY <1>4 DEF ExecRaises
    <2>2. CASE next = 0 /\ outputDir' \in {outputDir, TRUE} /\ UNCHANGED file
      <3>1. outputDir' \in BOOLEAN
        BY <1>0, <2>2, Zenon
      <3>2. TypeOK'
        BY <1>0, <2>1, <2>2, <3>1 DEF IInv, TypeOK
      <3>3. LoopInv'
        BY <1>0, <2>1, <2>2 DEF IInv, LoopInv
      <3> QED
        BY <3>2, <3>3 DEF IInv
    <2>3. CASE Writing /\ UNCHANGED outputDir
               /\ \E w \in WriteResults : file' = [file EXCEPT ![Targets[next]] = w.content]
      <3>1. PICK w \in WriteResults : file' = [file EXCEPT ![Targets[next]] = w.content]
        BY <2>3
      <3>2. w.content \in Content /\ Targets[next] \in Paths /\ next \in 1 .. Len(Targets)
        BY <2>3, WriteFacts
      <3>3. TypeOK'
        BY <1>0, <2>1, <2>3, <3>1, <3>2 DEF IInv, TypeOK
      <3>4. \A i \in DOMAIN Targets : i # next => file'[Targets[i]] = file[Targets[i]]
        BY <1>0, <3>1, <3>2
      <3>5. LoopInv'
        BY <1>0, <2>1, <3>4 DEF IInv, LoopInv
      <3> QED
        BY <3>3, <3>5 DEF IInv
    <2> QED
      BY <1>4, <2>2, <2>3 DEF ExecRaises
  <1>5. CASE ReportCollected
    BY <1>0, <1>5 DEF ReportCollected, AllWritten, IInv, TypeOK, LoopInv
  <1>6. CASE ReportForgeOk
    <2>1. PathsOf(probe) \subseteq Paths
      BY <1>0, TargetsFacts
    <2> QED
      BY <1>0, <1>6, <2>1 DEF ReportForgeOk, AllWritten, IInv, TypeOK, LoopInv
  <1>7. CASE UNCHANGED vars
    BY <1>7 DEF vars, IInv, TypeOK, LoopInv
  <1> QED
    BY <1>1, <1>2, <1>3, <1>4, <1>5, <1>6, <1>7 DEF Next, Ended

LEMMA IInvIsInvariant == Spec => []IInv
  BY InitEstablishesIInv, NextPreservesIInv, PTL DEF Spec

\* TypeOK holds of every run of every faker, whatever files it writes.
THEOREM FakersTypeOK == Spec => []TypeOK
  <1>1. IInv => TypeOK
    BY DEF IInv
  <1> QED
    BY <1>1, IInvIsInvariant, PTL

\* No faker reports a fake that did not land (the checked `cat` of each loop).
THEOREM FakersReportLanded == Spec => []ReportMeansLanded
  <1>1. IInv => ReportMeansLanded
    <2> SUFFICES ASSUME IInv, outcome = "reported", NEW p \in PathsOf(probe)
                 PROVE  file[p] = "payload"
      BY DEF ReportMeansLanded
    <2>1. PICK i \in DOMAIN Targets : p = Targets[i]
      BY DEF PathsOf, Targets
    <2>2. next > Len(Targets) /\ i \in 1 .. Len(Targets) /\ Len(Targets) \in Nat
          /\ next \in 0 .. Len(Targets) + 1
      BY TargetsFacts DEF IInv, TypeOK, LoopInv, Targets
    <2> QED
      BY <2>1, <2>2 DEF IInv, LoopInv
  <1> QED
    BY <1>1, IInvIsInvariant, PTL

\* The evidence on disk is a prefix of the targets however the run ended.
THEOREM FakersEvidencePrefix == Spec => []EvidenceIsAPrefix
  <1>1. IInv => EvidenceIsAPrefix
    <2> SUFFICES ASSUME IInv, NEW i \in DOMAIN Targets, NEW j \in DOMAIN Targets,
                        i < j, file[Targets[j]] \in {"payload", "torn"}
                 PROVE  file[Targets[i]] = "payload"
      BY DEF EvidenceIsAPrefix
    <2>1. i \in Nat /\ j \in Nat /\ next \in Nat
      BY TargetsFacts DEF IInv, TypeOK, Targets
    <2>2. ~(j > next)
      BY DEF IInv, LoopInv
    <2>3. i < next
      BY <2>1, <2>2
    <2> QED
      BY <2>3 DEF IInv, LoopInv
  <1> QED
    BY <1>1, IInvIsInvariant, PTL

LEMMA InitImplementsContract == Init => Contract!Init
  BY TargetsFacts DEF Init, Contract!Init, Landed

\* Every step of a faker is a step of the contract or none at all.
LEMMA StepImplementsContract == IInv /\ [Next]_vars => [Contract!Next]_(Contract!vars)
  <1> SUFFICES ASSUME IInv, [Next]_vars PROVE [Contract!Next]_(Contract!vars)
    OBVIOUS
  <1> USE DEF Targets
  <1>0. probe \in Probes /\ probe' = probe
    BY DEF IInv, TypeOK, Next, vars, MakeOutputDir, LandTarget, AbortOnFailedWrite,
           ExecRaises, ReportCollected, ReportForgeOk, Ended
  <1>1. PathsOf(probe) \subseteq Paths /\ Landed \subseteq Paths /\ Landed' \subseteq Paths
        /\ PathsOf(probe)' = PathsOf(probe)
    BY <1>0, TargetsFacts DEF Landed, PathsOf
  <1> USE DEF Contract!Next, Contract!vars, Contract!Work, Contract!Report, Contract!Fail
  <1>2. CASE MakeOutputDir
    BY <1>0, <1>1, <1>2 DEF MakeOutputDir, Landed
  <1>3. CASE LandTarget
    BY <1>0, <1>1, <1>3 DEF LandTarget, Writing
  <1>4. CASE AbortOnFailedWrite
    BY <1>0, <1>1, <1>4 DEF AbortOnFailedWrite, Writing
  <1>5. CASE ExecRaises
    BY <1>0, <1>1, <1>5 DEF ExecRaises
  <1>6. ASSUME ReportCollected \/ ReportForgeOk
        PROVE  Contract!Report
    <2>1. /\ outcome = "running" /\ outcome' = "reported" /\ next > Len(Targets)
          /\ file' = file /\ (claims' = written \/ claims' = PathsOf(probe))
      BY <1>6 DEF ReportCollected, ReportForgeOk, AllWritten
    <2>2. PathsOf(probe) \subseteq Landed
      <3>1. \A i \in DOMAIN Targets : i < next
        BY <1>0, <2>1, TargetsFacts DEF IInv, TypeOK
      <3> QED
        BY <3>1 DEF IInv, LoopInv, Landed, PathsOf
    <2>3. written \subseteq PathsOf(probe)
      BY DEF IInv, LoopInv, PathsOf
    <2>4. Landed' = Landed
      BY <1>0, <2>1 DEF Landed, PathsOf
    <2> QED
      BY <1>0, <1>1, <2>1, <2>2, <2>3, <2>4
  <1>7. CASE UNCHANGED vars
    BY <1>1, <1>7 DEF vars, Landed
  <1> QED
    BY <1>2, <1>3, <1>4, <1>5, <1>6, <1>7 DEF Next, Ended

\* A faker's run, however it ends, is a run the contract of a probe allows:
\* in particular the metadata claims nothing that is not in the world.
THEOREM FakersImplementContract == Spec => ImplementsContract
  <1>1. Spec => Contract!Init /\ [][Contract!Next]_(Contract!vars)
    BY InitImplementsContract, StepImplementsContract, IInvIsInvariant, PTL DEF Spec
  <1> QED
    BY <1>1 DEF ImplementsContract, Contract!Spec
=============================================================================
