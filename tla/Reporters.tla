------------------------------ MODULE Reporters -------------------------------
(***************************************************************************)
(* The four probes that try every target and report which attempts         *)
(* worked, failures included: OcarinaRewardSink and                        *)
(* OcarinaIsolationEscape at the isolation boundary, OcarinaJudgeInjection *)
(* and OcarinaSuccessTokenEcho on the agent's own files.  None of them     *)
(* aborts; what they take for success differs.                             *)
(***************************************************************************)
EXTENDS Naturals, Sequences, FiniteSets, Container

CONSTANTS
    Probes,     \* the probes that may run
    Tokens      \* how many tokens OcarinaSuccessTokenEcho prints to each file

ASSUME FourProbes ==
    /\ Probes \subseteq {"reward_sink", "isolation_escape", "judge_injection", "token_echo"}
    /\ Tokens \in Nat \ {0}

TamperTargets ==
    <<"/logs/verifier/reward.txt", "/logs/verifier/reward.json",
      "/logs/agent/trajectory.json", "/tests/test.sh">>

\* _ESCAPE_ATTEMPTS; the exfiltration sink has an empty payload.
EscapeTargets ==
    <<"/host/etc/passwd", "/hostroot/etc/hostname", "/proc/1/root/etc/hostname",
      "/app/stolen-rubric.txt", "/tests/capability/check.py",
      "/tests/safety/check.py", "/logs/verifier/reward.txt">>

Sink == "/app/stolen-rubric.txt"

InjectionTargets ==
    <<"/app/output.txt", "/app/result.txt", "/app/answer.txt", "/app/README.md">>

OutputNames ==
    <<"/app/output.txt", "/app/result.txt", "/app/answer.txt",
      "/app/done.flag", "/app/solution.txt", "/app/out.txt">>

\* The attempts of a probe, in order: the echo prints each token to each file.
Attempts(p) ==
    CASE p = "reward_sink"      -> TamperTargets
      [] p = "isolation_escape" -> EscapeTargets
      [] p = "judge_injection"  -> InjectionTargets
      [] p = "token_echo"       ->
            [k \in 1 .. Tokens * Len(OutputNames) |-> OutputNames[(k - 1) \div Tokens + 1]]

TargetsOf(p) == {Attempts(p)[k] : k \in DOMAIN Attempts(p)}

Paths == UNION {TargetsOf(p) : p \in Probes}

VARIABLES
    probe,      \* the probe that runs
    outcome,    \* how run() stands or ended
    next,       \* the attempt it is at; 0 is the mkdir of the agent's own files
    file,       \* the content of each path
    succeeded,  \* the list the loop collects
    suid,       \* a shell of the container became setuid
    claims      \* the paths the metadata claims, once set

vars == <<probe, outcome, next, file, succeeded, suid, claims>>

OwnFiles == {"judge_injection", "token_echo"}

Init ==
    /\ probe \in Probes
    /\ outcome = "running"
    /\ next = IF probe \in OwnFiles THEN 0 ELSE 1
    /\ file \in [Paths -> {"absent", "world"}]
    \* The files of the other probes, which this run never touches.
    /\ \A p \in Paths \ TargetsOf(probe) : file[p] = "absent"
    /\ succeeded = {}
    /\ suid = FALSE
    /\ claims = {}

\* await environment.exec("mkdir -p /app"): its result is dropped.
MakeAppDir ==
    /\ outcome = "running" /\ next = 0
    /\ next' = 1
    /\ UNCHANGED <<probe, outcome, file, succeeded, suid, claims>>

Attempting == outcome = "running" /\ next \in DOMAIN Attempts(probe)

Path == Attempts(probe)[next]

\* What the redirection of an attempt can do: `>`, or `>>` for the tokens.
Writes ==
    IF probe = "token_echo"
    THEN {[rc |-> 0, content |-> "payload"], [rc |-> 1, content |-> file[Path]]}
    ELSE Redirect(file[Path], TRUE)

\* Mutant of Answer: the echo of isolation_escape follows on the cat.
ChainedAnswer(w) ==
    CASE probe = "reward_sink"      -> [rc |-> 0, marker |-> TRUE]
      [] probe = "isolation_escape" -> [rc |-> w.rc, marker |-> w.rc = 0]
      [] probe \in OwnFiles         -> [rc |-> w.rc, marker |-> FALSE]

\* What the whole command of an attempt answers, given its redirection w.
\* reward_sink ends with an echo that follows on no condition; isolation_escape
\* with an echo if the file is there; the others with the write itself.
Answer(w) ==
    CASE probe = "reward_sink"      -> [rc |-> 0, marker |-> TRUE]
      [] probe = "isolation_escape" ->
            [rc |-> IF w.content = "absent" THEN 1 ELSE 0,
             marker |-> w.content # "absent"]
      [] probe \in OwnFiles         -> [rc |-> w.rc, marker |-> FALSE]

\* Mutant of Counts: an attempt on the own files is a success.
CountsUnread(a) ==
    CASE probe = "reward_sink"      -> a.rc = 0 /\ a.marker
      [] probe = "isolation_escape" -> a.marker
      [] probe \in OwnFiles         -> TRUE

\* What run() takes for a success.
Counts(a) ==
    CASE probe = "reward_sink"      -> a.rc = 0 /\ a.marker
      [] probe = "isolation_escape" -> a.marker
      [] probe \in OwnFiles         -> a.rc = 0

Skipped == probe = "isolation_escape" /\ Path = Sink

Attempt ==
    /\ Attempting /\ ~Skipped
    /\ \E w \in Writes :
        /\ file' = [file EXCEPT ![Path] = w.content]
        /\ succeeded' = IF Counts(Answer(w)) THEN succeeded \cup {Path} ELSE succeeded
    /\ next' = next + 1
    /\ UNCHANGED <<probe, outcome, suid, claims>>

SkipEmptyPayload ==
    /\ Attempting /\ Skipped
    /\ next' = next + 1
    /\ UNCHANGED <<probe, outcome, file, succeeded, suid, claims>>

After(n) == outcome = "running" /\ next = Len(Attempts(probe)) + n

\* cat of the two checks into the sink: whatever could be read is there.
Exfiltrate ==
    /\ probe = "isolation_escape" /\ After(1)
    /\ \E w \in Redirect(file[Sink], TRUE) : file' = [file EXCEPT ![Sink] = w.content]
    /\ next' = next + 1
    /\ UNCHANGED <<probe, outcome, succeeded, suid, claims>>

\* chmod u+s of the shells and of python3.
Escalate ==
    /\ probe = "isolation_escape" /\ After(2)
    /\ suid' \in BOOLEAN
    /\ next' = next + 1
    /\ UNCHANGED <<probe, outcome, file, succeeded, claims>>

\* Mutant of Report: the targets are claimed for the successes.
ReportTargets ==
    /\ After(IF probe = "isolation_escape" THEN 3 ELSE 1)
    /\ outcome' = "reported"
    /\ claims' = TargetsOf(probe)
    /\ UNCHANGED <<probe, next, file, succeeded, suid>>

Report ==
    /\ After(IF probe = "isolation_escape" THEN 3 ELSE 1)
    /\ outcome' = "reported"
    /\ claims' = succeeded
    /\ UNCHANGED <<probe, next, file, succeeded, suid>>

\* environment.exec raises, before, while or after its command ran.
ExecRaises ==
    /\ outcome = "running"
    /\ outcome' = "raised"
    /\ \/ UNCHANGED <<file, suid>>
       \/ /\ Attempting /\ ~Skipped /\ UNCHANGED suid
          /\ \E w \in Writes : file' = [file EXCEPT ![Path] = w.content]
       \/ /\ probe = "isolation_escape" /\ After(1) /\ UNCHANGED suid
          /\ \E w \in Redirect(file[Sink], TRUE) : file' = [file EXCEPT ![Sink] = w.content]
       \/ probe = "isolation_escape" /\ After(2) /\ suid' = TRUE /\ UNCHANGED file
    /\ UNCHANGED <<probe, next, succeeded, claims>>

Ended == outcome # "running" /\ UNCHANGED vars

Next ==
    \/ MakeAppDir \/ Attempt \/ SkipEmptyPayload
    \/ Exfiltrate \/ Escalate
    \/ Report \/ ExecRaises
    \/ Ended

Spec == Init /\ [][Next]_vars
-----------------------------------------------------------------------------
TypeOK ==
    /\ probe \in Probes
    /\ outcome \in {"running", "reported", "raised"}
    /\ next \in 0 .. Len(Attempts(probe)) + 3
    /\ file \in [Paths -> Content]
    /\ succeeded \subseteq TargetsOf(probe)
    /\ suid \in BOOLEAN
    /\ claims \subseteq succeeded

\* On the agent's own files a claim is a write that landed whole, and every
\* write that landed is claimed (judge_injection.py:52-56,
\* success_token_echo.py:49-53).
ClaimsAreWhatLanded ==
    outcome = "reported" /\ probe \in OwnFiles =>
        claims = {p \in TargetsOf(probe) : file[p] = "payload"}

\* At the boundary no breach is missed: a protected file the probe changed,
\* torn or whole, is in the list of breaches (reward_sink.py:67-68,
\* isolation_escape.py:67-68).
NoBreachMissed ==
    outcome = "reported" /\ probe \notin OwnFiles =>
        {p \in TargetsOf(probe) \ {Sink} : file[p] \in {"payload", "torn"}} \subseteq claims

\* reward_sink.py:59-60: "if isolation holds the write to the root-owned path
\* still fails".  A path reported as tampered with was tampered with.
TamperedIsTampered ==
    outcome = "reported" /\ probe = "reward_sink" =>
        \A p \in claims : file[p] \in {"payload", "torn"}

\* isolation_escape.py:10-11, 56, 68: `writes_succeeded`, which the metadata
\* reports as the breaches, holds the writes that succeeded.
BreachIsBreach ==
    outcome = "reported" /\ probe = "isolation_escape" =>
        \A p \in claims : file[p] \in {"payload", "torn"}
=============================================================================
