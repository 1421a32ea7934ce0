----------------------- MODULE ForbiddenSubprocessProofs -----------------------
(***************************************************************************)
(* Why three interpreters that stop anywhere leave the graded files in     *)
(* order, and why a recorded hatch has been at all of them.                *)
(***************************************************************************)
EXTENDS ForbiddenSubprocess, TLAPS

\* The interpreter at work is the latest to have changed anything: it has been at
\* the files before the one it is at and at no other.  Between two hatches the
\* next one has not been anywhere.
TurnInv ==
    /\ write # 0 => next \in Interpreters
    /\ \A p \in Paths : by[p] <= next
    /\ outcome = "running" /\ write = 0 => \A p \in Paths : by[p] = 0 \/ by[p] < next
    /\ write # 0 =>
          \A i \in DOMAIN Targets :
              /\ i < write => /\ by[Targets[i]] = next
                              /\ next # Python => file[Targets[i]] = "payload"
              /\ i >= write => by[Targets[i]] < next

\* A recorded hatch is an earlier one, and has been at every file.
RecordInv ==
    /\ \A h \in writtenVia :
          /\ h < next
          /\ \A p \in Paths : by[p] >= h /\ (by[p] = h /\ h # Python => file[p] = "payload")
    /\ outcome = "reported" => write = 0 /\ claims = writtenVia
    /\ outcome # "reported" => claims = {}

IInv == TypeOK /\ StateIsNeverOlder /\ TurnInv /\ RecordInv

\* The three targets, and the number of hatches.
LEMMA TargetFacts ==
    /\ DOMAIN Targets = 1 .. 3 /\ Len(Targets) = 3 /\ Len(Hatches) = 8
    /\ \A i \in 1 .. 3 : Targets[i] \in Paths
    /\ \A p \in Paths : \E i \in 1 .. 3 : p = Targets[i]
    /\ \A i, j \in 1 .. 3 : Targets[i] = Targets[j] => i = j
  <1>1. DOMAIN Targets = 1 .. 3 /\ Len(Targets) = 3
    BY DEF Targets
  <1>2. Len(Hatches) = 8
    BY DEF Hatches
  <1>3. \A i, j \in 1 .. 3 : Targets[i] = Targets[j] => i = j
    BY DEF Targets
  <1> QED
    BY <1>1, <1>2, <1>3 DEF Paths

LEMMA InitEstablishesIInv == Init => IInv
  <1> SUFFICES ASSUME Init PROVE IInv
    OBVIOUS
  <1>1. \A p \in Paths : by[p] = 0
    BY DEF Init
  <1>2. TypeOK
    BY TargetFacts DEF Init, TypeOK, Content, Interpreters
  <1>3. StateIsNeverOlder
    BY <1>1, TargetFacts DEF StateIsNeverOlder, Python
  <1> QED
    BY <1>1, <1>2, <1>3 DEF Init, IInv, TurnInv, RecordInv

\* A file changed by the interpreter at work, at the one it is at.
LEMMA LeaveFacts ==
    ASSUME IInv, write \in DOMAIN Targets, NEW c \in Content, Leave(c)
    PROVE  /\ file' \in [Paths -> Content] /\ by' \in [Paths -> 0 .. 3]
           /\ next \in Interpreters
           /\ file'[Targets[write]] = c /\ by'[Targets[write]] = next
           /\ \A i \in 1 .. 3 : i # write =>
                 file'[Targets[i]] = file[Targets[i]] /\ by'[Targets[i]] = by[Targets[i]]
           /\ StateIsNeverOlder'
           /\ \A p \in Paths : by'[p] <= next
           /\ \A h \in writtenVia, p \in Paths :
                 by'[p] >= h /\ (by'[p] = h /\ h # Python => file'[p] = "payload")
  <1>1. TypeOK /\ StateIsNeverOlder /\ TurnInv /\ RecordInv
    BY DEF IInv
  <1>2. /\ write \in 1 .. 3 /\ Targets[write] \in Paths
        /\ file' = [file EXCEPT ![Targets[write]] = c]
        /\ by' = [by EXCEPT ![Targets[write]] = next]
    BY TargetFacts DEF Leave
  <1>3. next \in Interpreters /\ next \in 0 .. 3
    BY <1>1, <1>2 DEF TurnInv, Interpreters
  <1>4. file' \in [Paths -> Content] /\ by' \in [Paths -> 0 .. 3]
    BY <1>1, <1>2, <1>3 DEF TypeOK
  <1>5. file'[Targets[write]] = c /\ by'[Targets[write]] = next
    BY <1>1, <1>2 DEF TypeOK
  <1>6. \A p \in Paths : p # Targets[write] => file'[p] = file[p] /\ by'[p] = by[p]
    BY <1>1, <1>2 DEF TypeOK
  <1>7. \A i \in 1 .. 3 : i # write =>
           file'[Targets[i]] = file[Targets[i]] /\ by'[Targets[i]] = by[Targets[i]]
    BY <1>2, <1>6, TargetFacts
  <1>8. StateIsNeverOlder'
    <2> SUFFICES ASSUME NEW i \in 1 .. 3, NEW j \in 1 .. 3, i < j
                 PROVE  /\ by'[Targets[i]] >= by'[Targets[j]]
                        /\ by'[Targets[i]] = by'[Targets[j]] /\ by'[Targets[j]] > Python
                              => file'[Targets[i]] = "payload"
      BY TargetFacts DEF StateIsNeverOlder
    <2>1. \A k \in 1 .. 3 : by[Targets[k]] \in 0 .. 3
      BY <1>1, TargetFacts DEF TypeOK
    <2>2. \A k \in 1 .. 3 : /\ k < write => /\ by[Targets[k]] = next
                                            /\ next # Python => file[Targets[k]] = "payload"
                            /\ k >= write => by[Targets[k]] < next
      BY <1>1, <1>2, TargetFacts DEF TurnInv
    <2>3. CASE j = write
      <3>1. i < write /\ i # write
        BY <2>3, <1>2
      <3> QED
        BY <1>3, <1>5, <1>7, <2>2, <2>3, <3>1 DEF Python
    <2>4. CASE i = write
      <3>1. j >= write /\ j # write
        BY <2>4, <1>2
      <3> QED
        BY <1>3, <1>5, <1>7, <2>1, <2>2, <2>4, <3>1
    <2>5. CASE i # write /\ j # write
      BY <1>1, <1>7, <2>5, TargetFacts DEF StateIsNeverOlder
    <2> QED
      BY <2>3, <2>4, <2>5
  <1>9. \A p \in Paths : by'[p] <= next
    BY <1>1, <1>3, <1>5, <1>6 DEF TurnInv
  <1>10. \A h \in writtenVia, p \in Paths :
            by'[p] >= h /\ (by'[p] = h /\ h # Python => file'[p] = "payload")
    <2> TAKE h \in writtenVia, p \in Paths
    <2>1. h \in 0 .. 3 /\ h < next
      BY <1>1 DEF TypeOK, Interpreters, RecordInv
    <2> QED
      BY <1>1, <1>3, <1>5, <1>6, <2>1 DEF RecordInv
  <1> QED
    BY <1>3, <1>4, <1>5, <1>7, <1>8, <1>9, <1>10

\* The interpreter goes on to its next file, this one whole or lost.
LEMMA WritePreserves == IInv /\ (WriteTarget \/ LoseTarget) => IInv'
  <1> SUFFICES ASSUME IInv, WriteTarget \/ LoseTarget PROVE IInv'
    OBVIOUS
  <1>1. PICK c \in Content : Leave(c) /\ (next # Python => c = "payload")
    BY DEF WriteTarget, LoseTarget, Content
  <1>2. /\ write \in 1 .. 3 /\ write' = write + 1
        /\ UNCHANGED <<outcome, next, outputDir, background, writtenVia, claims>>
    BY TargetFacts DEF WriteTarget, LoseTarget
  <1>3. TypeOK /\ TurnInv /\ RecordInv
    BY DEF IInv
  <1>4. /\ file' \in [Paths -> Content] /\ by' \in [Paths -> 0 .. 3]
        /\ next \in Interpreters
        /\ file'[Targets[write]] = c /\ by'[Targets[write]] = next
        /\ \A i \in 1 .. 3 : i # write =>
              file'[Targets[i]] = file[Targets[i]] /\ by'[Targets[i]] = by[Targets[i]]
        /\ StateIsNeverOlder'
        /\ \A p \in Paths : by'[p] <= next
        /\ \A h \in writtenVia, p \in Paths :
              by'[p] >= h /\ (by'[p] = h /\ h # Python => file'[p] = "payload")
    BY <1>1, <1>2, LeaveFacts, TargetFacts
  <1>5. TypeOK'
    BY <1>2, <1>3, <1>4, TargetFacts DEF TypeOK
  <1>6. TurnInv'
    <2>1. \A i \in 1 .. 3 :
             /\ i < write' => /\ by'[Targets[i]] = next
                              /\ next # Python => file'[Targets[i]] = "payload"
             /\ i >= write' => by'[Targets[i]] < next
      <3> TAKE i \in 1 .. 3
      <3>1. CASE i = write
        BY <1>1, <1>2, <1>4, <3>1
      <3>2. CASE i # write
        <4>1. (i < write' <=> i < write) /\ (i >= write' => i >= write)
          BY <1>2, <3>2
        <4>2. /\ i < write => /\ by[Targets[i]] = next
                              /\ next # Python => file[Targets[i]] = "payload"
              /\ i >= write => by[Targets[i]] < next
          BY <1>2, <1>3, TargetFacts DEF TurnInv
        <4> QED
          BY <1>4, <3>2, <4>1, <4>2
      <3> QED
        BY <3>1, <3>2
    <2> QED
      BY <1>2, <1>4, <2>1, TargetFacts DEF TurnInv
  <1>7. RecordInv'
    BY <1>2, <1>3, <1>4 DEF RecordInv
  <1> QED
    BY <1>4, <1>5, <1>6, <1>7 DEF IInv

\* The interpreter stops at a file, as it was or torn.
LEMMA FailPreserves == IInv /\ FailTarget => IInv'
  <1> SUFFICES ASSUME IInv, FailTarget PROVE IInv'
    OBVIOUS
  <1>1. /\ write \in DOMAIN Targets /\ write \in 1 .. 3 /\ write' = 0
        /\ next' = IF outcome = "running" THEN next + 1 ELSE next
        /\ UNCHANGED <<outcome, outputDir, background, writtenVia, claims>>
        /\ UNCHANGED <<file, by>> \/ Leave("torn")
    BY TargetFacts DEF FailTarget, WriteFails, Resume
  <1>2. TypeOK /\ StateIsNeverOlder /\ TurnInv /\ RecordInv
    BY DEF IInv
  <1>3. next \in Interpreters /\ next \in 1 .. 3
    BY <1>1, <1>2 DEF TurnInv, Interpreters
  <1>4. /\ file' \in [Paths -> Content] /\ by' \in [Paths -> 0 .. 3]
        /\ StateIsNeverOlder'
        /\ \A p \in Paths : by'[p] <= next
        /\ \A h \in writtenVia, p \in Paths :
              by'[p] >= h /\ (by'[p] = h /\ h # Python => file'[p] = "payload")
    <2>1. CASE UNCHANGED <<file, by>>
      BY <1>2, <2>1 DEF TypeOK, StateIsNeverOlder, TurnInv, RecordInv
    <2>2. CASE Leave("torn")
      BY <1>1, <2>2, LeaveFacts DEF Content
    <2> QED
      BY <1>1, <2>1, <2>2
  <1>5. TypeOK'
    BY <1>1, <1>2, <1>3, <1>4, TargetFacts DEF TypeOK
  <1>6. TurnInv'
    <2>1. \A p \in Paths : by'[p] \in 0 .. 3 /\ by'[p] <= next
      BY <1>4
    <2>2. \A p \in Paths : by'[p] <= next' /\ (outcome = "running" => by'[p] < next')
      BY <1>1, <1>3, <2>1
    <2> QED
      BY <1>1, <2>2 DEF TurnInv
  <1>7. RecordInv'
    <2>1. \A h \in writtenVia : h \in 1 .. 3 /\ h < next
      BY <1>2 DEF TypeOK, Interpreters, RecordInv
    <2>2. \A h \in writtenVia : h < next'
      BY <1>1, <1>3, <2>1
    <2> QED
      BY <1>1, <1>2, <1>4, <2>2 DEF RecordInv
  <1> QED
    BY <1>4, <1>5, <1>6, <1>7 DEF IInv

\* All three files are behind the interpreter: it may be recorded.
LEMMA DonePreserves == IInv /\ InterpreterDone => IInv'
  <1> SUFFICES ASSUME IInv, InterpreterDone PROVE IInv'
    OBVIOUS
  <1>1. /\ write > 3 /\ write' = 0
        /\ next' = IF outcome = "running" THEN next + 1 ELSE next
        /\ writtenVia' = IF outcome = "running" THEN writtenVia \cup {next} ELSE writtenVia
        /\ UNCHANGED <<outcome, outputDir, file, by, background, claims>>
    BY TargetFacts DEF InterpreterDone, Resume
  <1>2. TypeOK /\ StateIsNeverOlder /\ TurnInv /\ RecordInv
    BY DEF IInv
  <1>3. next \in Interpreters /\ next \in 1 .. 3 /\ write # 0 /\ write \in 0 .. 4
    BY <1>1, <1>2, TargetFacts DEF TurnInv, TypeOK, Interpreters
  <1>4. \A p \in Paths : by[p] = next /\ (next # Python => file[p] = "payload")
    <2> TAKE p \in Paths
    <2>1. PICK i \in 1 .. 3 : p = Targets[i]
      BY TargetFacts
    <2>2. i < write
      BY <1>1, <1>3
    <2> QED
      BY <1>2, <1>3, <2>1, <2>2, TargetFacts DEF TurnInv
  <1>5. TypeOK'
    BY <1>1, <1>2, <1>3, TargetFacts DEF TypeOK
  <1>6. StateIsNeverOlder'
    BY <1>1, <1>2 DEF StateIsNeverOlder
  <1>7. TurnInv'
    <2>1. \A p \in Paths : by[p] <= next' /\ (outcome = "running" => by[p] < next')
      BY <1>1, <1>3, <1>4
    <2> QED
      BY <1>1, <2>1 DEF TurnInv
  <1>8. RecordInv'
    <2>1. \A h \in writtenVia' :
             /\ h < next'
             /\ \A p \in Paths : by[p] >= h /\ (by[p] = h /\ h # Python => file[p] = "payload")
      <3> TAKE h \in writtenVia'
      <3>1. CASE h \in writtenVia
        <4>1. h \in 1 .. 3 /\ h < next
          BY <1>2, <3>1 DEF TypeOK, Interpreters, RecordInv
        <4>2. h < next'
          BY <1>1, <1>3, <4>1
        <4> QED
          BY <1>2, <3>1, <4>2 DEF RecordInv
      <3>2. CASE h \notin writtenVia
        <4>1. h = next /\ outcome = "running"
          BY <1>1, <3>2
        <4> QED
          BY <1>1, <1>3, <1>4, <4>1
      <3> QED
        BY <3>1, <3>2
    <2>2. outcome # "reported"
      BY <1>2, <1>3 DEF RecordInv
    <2> QED
      BY <1>1, <1>2, <2>1, <2>2 DEF RecordInv
  <1> QED
    BY <1>5, <1>6, <1>7, <1>8 DEF IInv

\* A step between two hatches: no file changes, and the run goes on, ends, or
\* comes to the next hatch.
LEMMA BetweenPreserves ==
    ASSUME IInv, UNCHANGED <<file, by, writtenVia>>, TypeOK', write = 0, write' = 0,
           next' = next \/ (outcome = "running" /\ next' = next + 1),
           outcome' = outcome \/ (outcome = "running" /\ outcome' \in {"raised", "reported"}),
           IF outcome' = "reported" /\ outcome # "reported"
           THEN claims' = writtenVia ELSE claims' = claims
    PROVE  IInv'
  <1>1. TypeOK /\ StateIsNeverOlder /\ TurnInv /\ RecordInv
    BY DEF IInv
  <1>2. next \in Nat /\ next' \in Nat /\ next <= next'
    BY <1>1, TargetFacts DEF TypeOK
  <1>3. \A p \in Paths : by[p] \in 0 .. 3
    BY <1>1 DEF TypeOK
  <1>4. StateIsNeverOlder'
    BY <1>1 DEF StateIsNeverOlder
  <1>5. TurnInv'
    BY <1>1, <1>2, <1>3 DEF TurnInv
  <1>6. RecordInv'
    <2>1. \A h \in writtenVia : h \in 1 .. 3 /\ h < next
      BY <1>1 DEF TypeOK, Interpreters, RecordInv
    <2>2. \A h \in writtenVia : h < next'
      BY <1>2, <2>1
    <2> QED
      BY <1>1, <2>2 DEF RecordInv
  <1> QED
    BY <1>4, <1>5, <1>6 DEF IInv

LEMMA NextPreservesIInv == IInv /\ [Next]_vars => IInv'
  <1> SUFFICES ASSUME IInv, [Next]_vars PROVE IInv'
    OBVIOUS
  <1>0. TypeOK /\ StateIsNeverOlder /\ TurnInv /\ RecordInv
    BY DEF IInv
  <1>1. CASE WriteTarget \/ LoseTarget
    BY <1>1, WritePreserves
  <1>2. CASE FailTarget
    BY <1>2, FailPreserves
  <1>3. CASE InterpreterDone
    BY <1>3, DonePreserves
  <1>4. CASE MakeOutputDir \/ InterpreterBlocked \/ TryInertHatch \/ LaunchBackground
    <2>1. /\ UNCHANGED <<outcome, file, by, write, writtenVia, claims>>
          /\ outcome = "running" /\ write = 0
          /\ next' = next + 1 /\ next \in 0 .. 8
          /\ outputDir' \in {outputDir, TRUE} /\ background' \in {background, "none", "sleeping"}
      <3>1. CASE MakeOutputDir
        <4>1. next = 0 /\ next' = 1
          BY <3>1 DEF MakeOutputDir, At
        <4>2. next' = next + 1 /\ next \in 0 .. 8
          BY <4>1
        <4> QED
          BY <3>1, <4>2 DEF MakeOutputDir, At
      <3>2. CASE InterpreterBlocked
        BY <3>2 DEF InterpreterBlocked, At, Interpreters
      <3>3. CASE TryInertHatch
        BY <3>3 DEF TryInertHatch, At
      <3>4. CASE LaunchBackground
        BY <3>4 DEF LaunchBackground, At
      <3> QED
        BY <1>4, <3>1, <3>2, <3>3, <3>4
    <2>2. TypeOK'
      <3>1. next' \in 0 .. Len(Hatches) + 1
        BY <2>1, TargetFacts
      <3> QED
        BY <1>0, <2>1, <3>1 DEF TypeOK
    <2> QED
      BY <2>1, <2>2, BetweenPreserves
  <1>5. CASE StartInterpreter
    <2>1. /\ outcome = "running" /\ write = 0 /\ write' = 1 /\ next \in Interpreters
          /\ outputDir' = TRUE
          /\ UNCHANGED <<outcome, next, file, by, background, writtenVia, claims>>
      BY <1>5 DEF StartInterpreter, At
    <2>2. TypeOK'
      BY <1>0, <2>1, TargetFacts DEF TypeOK
    <2>3. \A p \in Paths : by[p] < next
      BY <1>0, <2>1 DEF TurnInv, Interpreters
    <2>4. TurnInv'
      BY <1>0, <2>1, <2>3, TargetFacts DEF TurnInv
    <2>5. StateIsNeverOlder' /\ RecordInv'
      BY <1>0, <2>1 DEF StateIsNeverOlder, RecordInv
    <2> QED
      BY <2>2, <2>4, <2>5 DEF IInv
  <1>6. CASE Report
    <2>1. /\ UNCHANGED <<next, outputDir, file, by, write, background, writtenVia>>
          /\ outcome = "running" /\ outcome' = "reported" /\ write = 0 /\ claims' = writtenVia
      BY <1>6 DEF Report, At
    <2>2. TypeOK'
      BY <1>0, <2>1 DEF TypeOK
    <2> QED
      BY <2>1, <2>2, BetweenPreserves
  <1>7. CASE DeferredWrite \/ ExecRaises \/ UNCHANGED vars
    <2>1. /\ UNCHANGED <<next, file, by, write, writtenVia, claims>>
          /\ outcome' = outcome \/ (outcome = "running" /\ outcome' = "raised")
          /\ outputDir' \in {outputDir, TRUE} /\ background' \in {background, "sleeping", "over"}
      BY <1>7 DEF DeferredWrite, ExecRaises, vars
    <2>2. TypeOK'
      BY <1>0, <2>1 DEF TypeOK
    <2>3. StateIsNeverOlder' /\ TurnInv' /\ RecordInv'
      BY <1>0, <2>1 DEF StateIsNeverOlder, TurnInv, RecordInv
    <2> QED
      BY <2>2, <2>3 DEF IInv
  <1> QED
    BY <1>1, <1>2, <1>3, <1>4, <1>5, <1>6, <1>7 DEF Next, Ended

LEMMA IInvIsInvariant == Spec => []IInv
  BY InitEstablishesIInv, NextPreservesIInv, PTL DEF Spec

\* The state of the run; in particular only interpreters are ever recorded.
THEOREM ForbiddenSubprocessTypeOK == Spec => []TypeOK
  <1>1. IInv => TypeOK
    BY DEF IInv
  <1> QED
    BY <1>1, IInvIsInvariant, PTL

\* However far each of the three interpreters got, alone or orphaned, no result is
\* newer than the graded state.
THEOREM TheStateIsNeverOlder == Spec => []StateIsNeverOlder
  <1>1. IInv => StateIsNeverOlder
    BY DEF IInv
  <1> QED
    BY <1>1, IInvIsInvariant, PTL

\* A hatch in state_written_via has been at every graded file, and what it left
\* there still stands unless a later one has been there.
THEOREM ARecordedHatchWrote == Spec => []ClaimedHatchLanded
  <1>1. IInv => ClaimedHatchLanded
    BY DEF IInv, RecordInv, ClaimedHatchLanded
  <1> QED
    BY <1>1, IInvIsInvariant, PTL

LEMMA InitImplementsContract == Init => Contract!Init
  BY DEF Init, Contract!Init

\* Every step of the run is a step of the contract or none at all.
LEMMA StepImplementsContract == IInv /\ [Next]_vars => [Contract!Next]_(Contract!vars)
  <1> SUFFICES ASSUME IInv, [Next]_vars PROVE [Contract!Next]_(Contract!vars)
    OBVIOUS
  <1> USE DEF Contract!Next, Contract!vars, Contract!Work, Contract!Report, Contract!Fail
  <1> DEFINE evidence == {h \in Interpreters : \A p \in Paths : by[p] >= h}
  <1>0. TypeOK /\ RecordInv
    BY DEF IInv
  <1>1. CASE Report
    <2>1. /\ outcome = "running" /\ outcome' = "reported" /\ by' = by /\ claims' = writtenVia
      BY <1>1 DEF Report, At
    <2>2. writtenVia \subseteq evidence
      BY <1>0 DEF TypeOK, RecordInv
    <2> QED
      BY <2>1, <2>2
  <1>2. CASE ExecRaises
    BY <1>2 DEF ExecRaises
  <1>3. CASE ~Report /\ ~ExecRaises
    <2>1. claims' = claims /\ outcome' = outcome
      BY <1>3 DEF Next, vars, MakeOutputDir, StartInterpreter, InterpreterBlocked, WriteTarget,
         LoseTarget, FailTarget, InterpreterDone, TryInertHatch, LaunchBackground,
         DeferredWrite, Ended
    <2>2. CASE outcome = "reported"
      <3>1. write = 0
        BY <1>0, <2>2 DEF RecordInv
      <3>2. by' = by
        BY <1>3, <2>2, <3>1, TargetFacts DEF Next, vars, MakeOutputDir, StartInterpreter,
           InterpreterBlocked, WriteTarget, LoseTarget, FailTarget, InterpreterDone,
           TryInertHatch, LaunchBackground, DeferredWrite, Ended, At
      <3> QED
        BY <2>1, <3>2
    <2>3. CASE outcome # "reported"
      BY <2>1, <2>3
    <2> QED
      BY <2>2, <2>3
  <1> QED
    BY <1>1, <1>2, <1>3

\* A run of forbidden_subprocess is a run of the contract.
THEOREM ForbiddenSubprocessImplementsContract == Spec => ImplementsContract
  BY InitImplementsContract, StepImplementsContract, IInvIsInvariant, PTL
     DEF Spec, ImplementsContract, Contract!Spec
=============================================================================
