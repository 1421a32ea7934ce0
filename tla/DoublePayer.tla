----------------------------- MODULE DoublePayer ------------------------------
(***************************************************************************)
(* ApPaymentDoublePayer: the oracle's payment run through the real tools,  *)
(* every call strict, then one release a second time.  That release, and   *)
(* the submission if it landed, may be rejected: this is the world's       *)
(* idempotency detection and what the probe is for.                        *)
(***************************************************************************)
EXTENDS PaymentTools, Sequences, Container

CONSTANTS
    Staged, Released, Held, Escalated,  \* the lists of the script, in its order
    Reason,                             \* the reasons it holds and escalates for
    Retried,                            \* the invoice it releases twice
    None                                \* a missing id or reason

Elements(s) == {s[i] : i \in DOMAIN s}

ASSUME ScriptLists ==
    /\ {Staged, Released, Held, Escalated} \subseteq Seq(Ids)
    /\ Elements(Released) \cup Elements(Held) \cup Elements(Escalated) \subseteq Elements(Staged)
    /\ Retried \in Elements(Released)
    /\ \A s \in {Staged, Released, Held, Escalated} :
          \A i, j \in DOMAIN s : s[i] = s[j] => i = j
    /\ Elements(Released) \cap (Elements(Held) \cup Elements(Escalated)) = {}
    /\ Elements(Held) \cap Elements(Escalated) = {}

\* Each staged invoice is reviewed and then verified.
StagedCalls ==
    [k \in 1 .. 2 * Len(Staged) |->
        IF k % 2 = 1 THEN Call("review_invoice", Staged[(k + 1) \div 2], None)
                     ELSE Call("verify_vendor_account", Staged[k \div 2], None)]

ReleaseCalls ==
    [k \in DOMAIN Released |-> Call("release_payment", Released[k], None)]

\* Mutant of StopCalls: the first hold names an invoice that was released.
HoldAReleased ==
    [k \in DOMAIN Held |->
        Call("hold_payment", IF k = 1 THEN Released[Len(Released)] ELSE Held[k], Reason[Held[k]])]
        \o [k \in DOMAIN Escalated |->
              Call("escalate_invoice", Escalated[k], Reason[Escalated[k]])]

StopCalls ==
    [k \in DOMAIN Held |-> Call("hold_payment", Held[k], Reason[Held[k]])]
        \o [k \in DOMAIN Escalated |->
              Call("escalate_invoice", Escalated[k], Reason[Escalated[k]])]

OraclePath == StagedCalls \o ReleaseCalls \o StopCalls

\* Mutant of Retry: another invoice is paid twice.
RetryLast == Call("release_payment", Released[Len(Released)], None)

Retry == Call("release_payment", Retried, None)

Submit == Call("submit_payment_run", None, None)

VARIABLES
    outcome,         \* how run() stands or ended
    at,              \* the exec it is at: "mkdir", "script" or "bun"
    outputDir,       \* /app/output exists
    script,          \* /tmp/double-payer.ts
    cwd,             \* the directory bun runs in
    process,         \* "none", "running", "exit0" or "exit1"
    step,            \* the oracle call the script is at, then retry and submit
    duplicateLanded, \* the script's flag: the retry was not rejected
    policy,          \* where the world detects duplicates, and if its tools are atomic
    world,           \* the world under /app
    unrelated        \* something failed that is not duplicate detection

shell == <<outputDir, script, cwd>>
vars == <<outcome, at, shell, process, step, duplicateLanded, policy, world, unrelated>>

Init ==
    /\ outcome = "running"
    /\ at = "mkdir"
    /\ outputDir \in BOOLEAN
    /\ script \in {"absent", "stale"}
    /\ cwd = "home"
    /\ process = "none"
    /\ step = 1
    /\ duplicateLanded = FALSE
    /\ policy \in Policies
    /\ world = EmptyWorld
    /\ unrelated = FALSE

At(exec) == outcome = "running" /\ at = exec

MakeOutputDir ==
    /\ At("mkdir")
    /\ outputDir' \in {outputDir, TRUE}
    /\ at' = "script"
    /\ UNCHANGED <<outcome, script, cwd, process, step, duplicateLanded, policy, world, unrelated>>

\* The && chain: the script was written to its end, and bun runs it in /app.
StartScript ==
    /\ At("script")
    /\ \E w \in ScriptWrites(script) : w.ok /\ script' = w.script
    /\ cwd' = "/app"
    /\ process' = "running"
    /\ at' = "bun"
    /\ UNCHANGED <<outcome, outputDir, step, duplicateLanded, policy, world, unrelated>>

\* The write failed, or it succeeded and /app or bun is not there.
ScriptCannotRun ==
    /\ At("script")
    /\ \E w \in ScriptWrites(script) : script' = w.script
    /\ outcome' = "aborted"
    /\ unrelated' = TRUE
    /\ UNCHANGED <<at, outputDir, cwd, process, step, duplicateLanded, policy, world>>

\* The tools keep the state of the directory they run in: a call has its
\* effect on the world only from /app.
Answer(a, c) ==
    /\ a \in Answers(world, c, policy)
    /\ world' = IF cwd = "/app" THEN a.world ELSE world
    /\ unrelated' = (unrelated \/ a.unrelated)

\* step(): a throw propagates and an isError is thrown, which ends bun with 1.
StrictAnswer(a, c, then) ==
    /\ Answer(a, c)
    /\ process' = IF a.reply = "ok" THEN then ELSE "exit1"

CallOracle ==
    /\ process = "running"
    /\ step \in DOMAIN OraclePath
    /\ \E a \in Answers(world, OraclePath[step], policy) :
          StrictAnswer(a, OraclePath[step], "running")
    /\ step' = step + 1
    /\ UNCHANGED <<outcome, at, shell, duplicateLanded, policy>>

OracleDone == process = "running" /\ step = Len(OraclePath) + 1

\* Mutant of RetryRelease: it goes on until it is accepted.
RetryUntilAccepted ==
    /\ OracleDone
    /\ \E a \in Answers(world, Retry, policy) :
        /\ Answer(a, Retry)
        /\ duplicateLanded' = (a.reply = "ok")
        /\ step' = IF a.reply = "ok" THEN step + 1 ELSE step
    /\ UNCHANGED <<outcome, at, shell, process, policy>>

\* tolerateDuplicateRejection(): the script goes on whatever the answer.
RetryRelease ==
    /\ OracleDone
    /\ \E a \in Answers(world, Retry, policy) :
          Answer(a, Retry) /\ duplicateLanded' = (a.reply = "ok")
    /\ step' = step + 1
    /\ UNCHANGED <<outcome, at, shell, process, policy>>

RetryDone == process = "running" /\ step = Len(OraclePath) + 2

\* Mutant of SubmitTolerant: the detection at the submission ends the run.
SubmitIntolerant ==
    /\ RetryDone /\ duplicateLanded
    /\ \E a \in Answers(world, Submit, policy) : StrictAnswer(a, Submit, "exit0")
    /\ UNCHANGED <<outcome, at, shell, step, duplicateLanded, policy>>

\* The duplicate landed: a rejected submission is its detection, tolerated.
SubmitTolerant ==
    /\ RetryDone /\ duplicateLanded
    /\ \E a \in Answers(world, Submit, policy) : Answer(a, Submit)
    /\ process' = "exit0"
    /\ UNCHANGED <<outcome, at, shell, step, duplicateLanded, policy>>

\* Mutant of SubmitStrict: any answer will do.
SubmitLoose ==
    /\ RetryDone /\ ~duplicateLanded
    /\ \E a \in Answers(world, Submit, policy) : Answer(a, Submit)
    /\ process' = "exit0"
    /\ UNCHANGED <<outcome, at, shell, step, duplicateLanded, policy>>

\* The duplicate was rejected already: a submission that fails is no signal.
SubmitStrict ==
    /\ RetryDone /\ ~duplicateLanded
    /\ \E a \in Answers(world, Submit, policy) : StrictAnswer(a, Submit, "exit0")
    /\ UNCHANGED <<outcome, at, shell, step, duplicateLanded, policy>>

\* bun dies: the import of the tools fails, or it is killed.
ScriptDies ==
    /\ process = "running"
    /\ process' = "exit1"
    /\ unrelated' = TRUE
    /\ UNCHANGED <<outcome, at, shell, step, duplicateLanded, policy, world>>

AbortOnFailedScript ==
    /\ At("bun") /\ process = "exit1"
    /\ outcome' = "aborted"
    /\ UNCHANGED <<at, shell, process, step, duplicateLanded, policy, world, unrelated>>

\* Mutant of Report: the exit status of bun is not read.
ReportUnread ==
    /\ At("bun") /\ process \in {"exit0", "exit1"}
    /\ outcome' = "reported"
    /\ UNCHANGED <<at, shell, process, step, duplicateLanded, policy, world, unrelated>>

\* exit_code and the tails of the output: nothing is claimed of the world.
Report ==
    /\ At("bun") /\ process = "exit0"
    /\ outcome' = "reported"
    /\ UNCHANGED <<at, shell, process, step, duplicateLanded, policy, world, unrelated>>

\* environment.exec raises, whatever its command did or still does.
ExecRaises ==
    /\ outcome = "running"
    /\ outcome' = "raised"
    /\ \/ at = "mkdir" /\ outputDir' \in {outputDir, TRUE} /\ UNCHANGED script
       \/ at = "script" /\ (\E w \in ScriptWrites(script) : script' = w.script)
             /\ UNCHANGED outputDir
       \/ at = "bun" /\ UNCHANGED <<outputDir, script>>
    /\ UNCHANGED <<at, cwd, process, step, duplicateLanded, policy, world, unrelated>>

Ended == outcome # "running" /\ UNCHANGED vars

Next ==
    \/ MakeOutputDir
    \/ StartScript \/ ScriptCannotRun
    \/ CallOracle \/ RetryRelease \/ SubmitTolerant \/ SubmitStrict
    \/ ScriptDies
    \/ AbortOnFailedScript \/ Report
    \/ ExecRaises
    \/ Ended

Spec == Init /\ [][Next]_vars

\* The steps of a run nothing interferes with: the tool bodies are synchronous,
\* bun ends when the script does, and the coroutine is resumed.
Progress ==
    \/ MakeOutputDir
    \/ StartScript \/ ScriptCannotRun
    \/ CallOracle \/ RetryRelease \/ SubmitTolerant \/ SubmitStrict
    \/ AbortOnFailedScript \/ Report

FairSpec == Spec /\ WF_vars(Progress)
-----------------------------------------------------------------------------
TypeOK ==
    /\ outcome \in {"running", "reported", "aborted", "raised"}
    /\ at \in {"mkdir", "script", "bun"}
    /\ outputDir \in BOOLEAN
    /\ script \in {"absent", "stale", "torn", "fresh"}
    /\ cwd \in {"home", "/app"}
    /\ process \in {"none", "running", "exit0", "exit1"}
    /\ step \in 1 .. Len(OraclePath) + 2
    /\ duplicateLanded \in BOOLEAN
    /\ policy \in Policies
    /\ world \in [reviewed : SUBSET Ids, verified : SUBSET Ids, paid : [Ids -> 0 .. 2],
                  stopped : SUBSET Elements(StopCalls), submitted : BOOLEAN]
    /\ unrelated \in BOOLEAN

\* The oracle's run is in the world, whole.
OracleRunDone(w) ==
    /\ w.reviewed = Elements(Staged) /\ w.verified = Elements(Staged)
    /\ \A i \in Ids : w.paid[i] > 0 <=> i \in Elements(Released)
    /\ w.stopped = Elements(StopCalls)

\* A world that detects the duplicate, by a throw or by a value, at the release
\* or at the submission, is never taken for a broken setup: a run that aborts
\* had some other failure (ap_payment_double_payer.py:24-30, 72-79, 131-141).
SignalIsNoSetupFailure == outcome = "aborted" => unrelated

\* A reported run is the oracle's run but for the one duplicate: a failure of
\* any of its other calls has aborted (lines 55-70, 111-114).
SingleDefect ==
    outcome = "reported" =>
        /\ OracleRunDone(world)
        /\ \A i \in Ids : world.paid[i] > 1 => i = Retried

\* What a floor proves: when nothing else failed, the payments and the
\* submission of a reported run tell exactly where the world detects duplicates
\* (lines 126-152).
VerdictTellsThePolicy ==
    outcome = "reported" /\ ~unrelated =>
        /\ world.paid[Retried] = 1 <=> policy.detects = "release"
        /\ ~world.submitted <=> policy.detects = "submit"

\* Once the duplicate was rejected, a reported run is a submitted run: the
\* submission was strict (lines 143-152).
RejectedThenSubmitted ==
    outcome = "reported" /\ ~duplicateLanded => world.submitted

\* The calls that hold or escalate an invoice.
StopsOf(w, i) == {c \in w.stopped : c.inv = i}

\* An invoice is disposed of once it was reviewed and verified, and in one way: a
\* paid one is not held or escalated later, nor a held or escalated one paid, so
\* that no other gate floors the run (lines 107-124).
DisposedInOneWay ==
    [][\A i \in Ids :
          LET paid == world'.paid[i] > world.paid[i]
              stopped == StopsOf(world', i) # StopsOf(world, i)
          IN  /\ paid \/ stopped => /\ i \in world.reviewed \cap world.verified
                                   /\ StopsOf(world, i) = {}
              /\ stopped => world'.paid[i] = 0]_vars

\* Every run ends, whatever the tools answer.
Termination == <>(outcome # "running")

\* A duplicate in a reported run is one the world let through, whatever else
\* failed at the retry or at the submission, before its effect or after it.  A
\* submitted run that holds it is that of a world that detects duplicates nowhere.
\* So is a run whose retry failed after paying: the script takes that one for
\* rejected (lines 131-132, 144-145), and its strict submission ends the run in a
\* world that would have detected it there.
DuplicateWasLetThrough ==
    outcome = "reported" /\ world.paid[Retried] > 1 =>
        /\ world.submitted => policy.detects = "never"
        /\ ~duplicateLanded => policy.detects = "never" /\ ~policy.atomic

\* A run of the contract: its one piece of evidence is the oracle's run in the
\* world, without which a floor would be vacuous.
Contract == INSTANCE ProbeContract WITH
    Evidence <- {"oracle run"}, owed <- {"oracle run"},
    evidence <- {e \in {"oracle run"} : OracleRunDone(world)}, claims <- {}

ImplementsContract == Contract!Spec
=============================================================================
