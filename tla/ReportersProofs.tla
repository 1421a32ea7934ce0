--------------------------- MODULE ReportersProofs ----------------------------
(***************************************************************************)
(* The safety of the four reporters for every number of tokens and every   *)
(* choice of them: type correctness, and the two invariants that say what  *)
(* their reports are worth.                                                *)
(***************************************************************************)
EXTENDS Reporters, TLAPS

\* The list the loop collects, against the files: on the agent's own files it is
\* exactly what landed, at the boundary it misses nothing the probe changed.  A
\* file the single pass over distinct paths has not come to is as it was.
LoopInv ==
    /\ outcome # "raised" /\ probe \in OwnFiles =>
          \A p \in TargetsOf(probe) : file[p] = "payload" <=> p \in succeeded
    /\ outcome # "raised" /\ probe \notin OwnFiles =>
          \A p \in TargetsOf(probe) \ {Sink} :
              file[p] \in {"payload", "torn"} => p \in succeeded
    /\ outcome = "running" /\ probe = "judge_injection" =>
          \A k \in DOMAIN Attempts(probe) :
              k >= next => file[Attempts(probe)[k]] \in {"absent", "world"}
    /\ outcome = "reported" => claims = succeeded
    /\ outcome # "reported" => claims = {}

IInv == TypeOK /\ LoopInv

\* The attempts of a probe are a list of its targets; those of judge_injection
\* are distinct.
LEMMA AttemptsFacts ==
    ASSUME NEW p \in Probes
    PROVE  /\ Len(Attempts(p)) \in Nat
           /\ DOMAIN Attempts(p) = 1 .. Len(Attempts(p))
           /\ TargetsOf(p) \subseteq Paths
           /\ \A k \in DOMAIN Attempts(p) : Attempts(p)[k] \in TargetsOf(p)
           /\ p = "judge_injection" =>
                 \A i, j \in DOMAIN Attempts(p) : Attempts(p)[i] = Attempts(p)[j] => i = j
  <1>1. /\ TargetsOf(p) \subseteq Paths
        /\ \A k \in DOMAIN Attempts(p) : Attempts(p)[k] \in TargetsOf(p)
    BY DEF Paths, TargetsOf
  <1>2. CASE p = "reward_sink"
    BY <1>1, <1>2 DEF Attempts, TamperTargets
  <1>3. CASE p = "isolation_escape"
    BY <1>1, <1>3 DEF Attempts, EscapeTargets
  <1>4. CASE p = "judge_injection"
    BY <1>1, <1>4 DEF Attempts, InjectionTargets
  <1>5. CASE p = "token_echo"
    <2>1. Attempts(p) = [k \in 1 .. Tokens * 6 |-> OutputNames[(k - 1) \div Tokens + 1]]
      <3>1. Len(OutputNames) = 6
        BY DEF OutputNames
      <3> QED
        BY <1>5, <3>1 DEF Attempts
    <2>2. Tokens * 6 \in Nat
      BY FourProbes
    <2>3. Len(Attempts(p)) = Tokens * 6
      BY <2>1, <2>2
    <2> QED
      BY <1>1, <1>5, <2>1, <2>2, <2>3
  <1> QED
    BY <1>2, <1>3, <1>4, <1>5, FourProbes

LEMMA InitEstablishesIInv == Init => IInv
  <1> SUFFICES ASSUME Init PROVE IInv
    OBVIOUS
  <1>1. TargetsOf(probe) \subseteq Paths /\ Len(Attempts(probe)) \in Nat
        /\ \A k \in DOMAIN Attempts(probe) : Attempts(probe)[k] \in Paths
    BY AttemptsFacts DEF Init
  <1>2. TypeOK
    <2>1. file \in [Paths -> Content]
      BY DEF Init, Content
    <2>2. next \in 0 .. Len(Attempts(probe)) + 3
      BY <1>1 DEF Init
    <2> QED
      BY <2>1, <2>2 DEF Init, TypeOK
  <1>3. LoopInv
    BY <1>1 DEF Init, LoopInv
  <1> QED
    BY <1>2, <1>3 DEF IInv

\* What one attempt can do to its file and to the list, failures included.
LEMMA AttemptFacts ==
    ASSUME IInv, Attempting, NEW w \in Writes
    PROVE  /\ next \in 1 .. Len(Attempts(probe))
           /\ Path \in TargetsOf(probe)
           /\ w.content \in Content
           /\ probe = "judge_injection" /\ w.rc # 0 => w.content # "payload"
           /\ probe = "token_echo" /\ w.rc # 0 => w.content = file[Path]
           /\ w.rc = 0 => w.content = "payload"
           /\ Counts(Answer(w)) \in BOOLEAN
           /\ probe \in OwnFiles => (Counts(Answer(w)) <=> w.rc = 0)
           /\ probe \notin OwnFiles => (w.content \in {"payload", "torn"} => Counts(Answer(w)))
  <1>0. probe \in Probes /\ file \in [Paths -> Content] /\ outcome = "running"
    BY DEF IInv, TypeOK, Attempting
  <1>1. next \in 1 .. Len(Attempts(probe)) /\ Path \in TargetsOf(probe) /\ Path \in Paths
    BY <1>0, AttemptsFacts DEF Attempting, Path
  <1>2. file[Path] \in Content
    BY <1>0, <1>1
  <1>3. probe = "judge_injection" => file[Path] \in {"absent", "world"}
    BY <1>0, <1>1, AttemptsFacts DEF IInv, LoopInv, Path, Attempting
  <1>4. /\ w.content \in Content
        /\ probe = "token_echo" /\ w.rc # 0 => w.content = file[Path]
        /\ probe = "judge_injection" /\ w.rc # 0 => w.content # "payload"
        /\ w.rc = 0 => w.content = "payload"
    BY <1>2, <1>3 DEF Writes, Redirect, Content
  <1>5. /\ Counts(Answer(w)) \in BOOLEAN
        /\ probe \in OwnFiles => (Counts(Answer(w)) <=> w.rc = 0)
        /\ probe \notin OwnFiles => (w.content \in {"payload", "torn"} => Counts(Answer(w)))
    <2>1. CASE probe = "reward_sink"
      BY <2>1 DEF Counts, Answer, OwnFiles
    <2>2. CASE probe = "isolation_escape"
      BY <2>2 DEF Counts, Answer, OwnFiles
    <2>3. CASE probe \in OwnFiles
      BY <2>3 DEF Counts, Answer, OwnFiles
    <2> QED
      BY <1>0, <2>1, <2>2, <2>3, FourProbes DEF OwnFiles
  <1> QED
    BY <1>1, <1>4, <1>5

LEMMA NextPreservesIInv == IInv /\ [Next]_vars => IInv'
  <1> SUFFICES ASSUME IInv, [Next]_vars PROVE IInv'
    OBVIOUS
  <1>0. /\ probe \in Probes /\ file \in [Paths -> Content] /\ Len(Attempts(probe)) \in Nat
        /\ next \in 0 .. Len(Attempts(probe)) + 3 /\ suid \in BOOLEAN
        /\ succeeded \subseteq TargetsOf(probe) /\ claims \subseteq succeeded
        /\ TargetsOf(probe) \subseteq Paths
        /\ DOMAIN Attempts(probe) = 1 .. Len(Attempts(probe))
        /\ probe' = probe
    BY AttemptsFacts DEF IInv, TypeOK, Next, vars, MakeAppDir, Attempt, SkipEmptyPayload,
       Exfiltrate, Escalate, Report, ExecRaises, Ended
  <1>1. CASE MakeAppDir
    BY <1>0, <1>1 DEF MakeAppDir, IInv, TypeOK, LoopInv
  <1>2. CASE Attempt
    <2>1. PICK w \in Writes :
             /\ file' = [file EXCEPT ![Path] = w.content]
             /\ succeeded' = IF Counts(Answer(w)) THEN succeeded \cup {Path} ELSE succeeded
      BY <1>2 DEF Attempt
    <2>2. /\ Attempting /\ outcome = "running" /\ next' = next + 1
          /\ outcome' = "running" /\ UNCHANGED <<suid, claims>>
      BY <1>2 DEF Attempt, Attempting
    <2>3. /\ next \in 1 .. Len(Attempts(probe))
          /\ Path \in TargetsOf(probe)
          /\ w.content \in Content
          /\ probe = "judge_injection" /\ w.rc # 0 => w.content # "payload"
          /\ probe = "token_echo" /\ w.rc # 0 => w.content = file[Path]
          /\ w.rc = 0 => w.content = "payload"
          /\ probe \in OwnFiles => (Counts(Answer(w)) <=> w.rc = 0)
          /\ probe \notin OwnFiles => (w.content \in {"payload", "torn"} => Counts(Answer(w)))
      BY <2>2, AttemptFacts
    <2>4. \A p \in Paths : file'[p] = IF p = Path THEN w.content ELSE file[p]
      BY <1>0, <2>1, <2>3
    <2>5. TypeOK'
      BY <1>0, <2>1, <2>2, <2>3 DEF IInv, TypeOK
    <2>6. probe = "judge_injection" => file[Path] \in {"absent", "world"}
      BY <1>0, <2>2, <2>3 DEF IInv, LoopInv, Path
    <2>7. probe \in OwnFiles =>
             \A p \in TargetsOf(probe) : file'[p] = "payload" <=> p \in succeeded'
      BY <1>0, <2>1, <2>2, <2>3, <2>4, <2>6 DEF IInv, LoopInv, OwnFiles
    <2>8. probe \notin OwnFiles =>
             \A p \in TargetsOf(probe) \ {Sink} :
                 file'[p] \in {"payload", "torn"} => p \in succeeded'
      BY <1>0, <2>1, <2>2, <2>3, <2>4 DEF IInv, LoopInv
    <2>9. probe = "judge_injection" =>
             \A k \in DOMAIN Attempts(probe) :
                 k >= next' => file'[Attempts(probe)[k]] \in {"absent", "world"}
      <3> SUFFICES ASSUME probe = "judge_injection", NEW k \in DOMAIN Attempts(probe), k >= next'
                   PROVE  file'[Attempts(probe)[k]] \in {"absent", "world"}
        OBVIOUS
      <3>1. k # next /\ k >= next
        BY <1>0, <2>2, <2>3
      <3>2. Attempts(probe)[k] # Path /\ Attempts(probe)[k] \in Paths
        BY <1>0, <2>3, <3>1, AttemptsFacts DEF Path
      <3> QED
        BY <2>2, <2>4, <3>1, <3>2 DEF IInv, LoopInv
    <2>10. LoopInv'
      BY <1>0, <2>2, <2>7, <2>8, <2>9 DEF IInv, LoopInv
    <2> QED
      BY <2>5, <2>10 DEF IInv
  <1>3. CASE SkipEmptyPayload
    BY <1>0, <1>3 DEF SkipEmptyPayload, Attempting, IInv, TypeOK, LoopInv
  <1>4. CASE Exfiltrate
    <2>1. PICK w \in Redirect(file[Sink], TRUE) : file' = [file EXCEPT ![Sink] = w.content]
      BY <1>4 DEF Exfiltrate
    <2>2. /\ probe = "isolation_escape" /\ outcome = "running" /\ outcome' = "running"
          /\ next = Len(Attempts(probe)) + 1 /\ next' = next + 1
          /\ UNCHANGED <<succeeded, suid, claims>>
      BY <1>4 DEF Exfiltrate, After
    <2>3. Sink \in Paths
      <3>1. Attempts("isolation_escape")[4] = Sink /\ 4 \in DOMAIN Attempts("isolation_escape")
        BY DEF Attempts, EscapeTargets, Sink
      <3> QED
        BY <1>0, <2>2, <3>1, AttemptsFacts
    <2>4. w.content \in Content
      BY <1>0, <2>3 DEF Redirect, Content
    <2>5. \A p \in Paths \ {Sink} : file'[p] = file[p]
      BY <1>0, <2>1
    <2>6. TypeOK'
      <3>1. file' \in [Paths -> Content]
        BY <1>0, <2>1, <2>4
      <3>2. next' \in 0 .. Len(Attempts(probe)) + 3
        BY <1>0, <2>2
      <3> QED
        BY <1>0, <2>2, <3>1, <3>2 DEF IInv, TypeOK
    <2>7. LoopInv'
      BY <1>0, <2>2, <2>5 DEF IInv, LoopInv, OwnFiles
    <2> QED
      BY <2>6, <2>7 DEF IInv
  <1>5. CASE Escalate
    BY <1>0, <1>5 DEF Escalate, After, IInv, TypeOK, LoopInv
  <1>6. CASE Report
    BY <1>0, <1>6 DEF Report, After, IInv, TypeOK, LoopInv
  <1>7. CASE ExecRaises
    <2>1. outcome' = "raised" /\ outcome = "running" /\ UNCHANGED <<next, succeeded, claims>>
      BY <1>7 DEF ExecRaises
    <2>2. file' \in [Paths -> Content] /\ suid' \in BOOLEAN
      <3>1. CASE UNCHANGED <<file, suid>>
        BY <1>0, <3>1
      <3>2. CASE Attempting /\ UNCHANGED suid
                 /\ \E w \in Writes : file' = [file EXCEPT ![Path] = w.content]
        <4>1. PICK w \in Writes : file' = [file EXCEPT ![Path] = w.content]
          BY <3>2
        <4>2. w.content \in Content
          BY <3>2, AttemptFacts
        <4> QED
          BY <1>0, <3>2, <4>1, <4>2
      <3>3. CASE UNCHANGED suid /\ \E w \in Redirect(file[Sink], TRUE) :
                    file' = [file EXCEPT ![Sink] = w.content]
        <4>1. PICK w \in Redirect(file[Sink], TRUE) : file' = [file EXCEPT ![Sink] = w.content]
          BY <3>3
        <4>2. Sink \in Paths => w.content \in Content
          BY <1>0 DEF Redirect, Content
        <4> QED
          BY <1>0, <3>3, <4>1, <4>2
      <3>4. CASE suid' = TRUE /\ UNCHANGED file
        BY <1>0, <3>4
      <3> QED
        BY <1>7, <3>1, <3>2, <3>3, <3>4 DEF ExecRaises
    <2>3. TypeOK'
      BY <1>0, <2>1, <2>2 DEF IInv, TypeOK
    <2>4. LoopInv'
      BY <2>1 DEF IInv, LoopInv
    <2> QED
      BY <2>3, <2>4 DEF IInv
  <1>8. CASE UNCHANGED vars
    BY <1>0, <1>8 DEF vars, IInv, TypeOK, LoopInv
  <1> QED
    BY <1>1, <1>2, <1>3, <1>4, <1>5, <1>6, <1>7, <1>8 DEF Next, Ended

LEMMA IInvIsInvariant == Spec => []IInv
  BY InitEstablishesIInv, NextPreservesIInv, PTL DEF Spec

\* TypeOK holds of every run of every reporter, for any number of tokens.
THEOREM ReportersTypeOK == Spec => []TypeOK
  <1>1. IInv => TypeOK
    BY DEF IInv
  <1> QED
    BY <1>1, IInvIsInvariant, PTL

\* judge_injection and success_token_echo claim exactly the paths that landed:
\* one failed append of many neither hides a path nor adds one.
THEOREM OwnClaimsAreWhatLanded == Spec => []ClaimsAreWhatLanded
  <1>1. IInv => ClaimsAreWhatLanded
    BY DEF IInv, TypeOK, LoopInv, ClaimsAreWhatLanded
  <1> QED
    BY <1>1, IInvIsInvariant, PTL

\* reward_sink and isolation_escape miss no protected file they changed,
\* whatever their markers say of the others.
THEOREM ReportersMissNoBreach == Spec => []NoBreachMissed
  <1>1. IInv => NoBreachMissed
    BY DEF IInv, LoopInv, NoBreachMissed
  <1> QED
    BY <1>1, IInvIsInvariant, PTL
=============================================================================
