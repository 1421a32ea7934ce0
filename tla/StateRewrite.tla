----------------------------- MODULE StateRewrite -----------------------------
(***************************************************************************)
(* OcarinaStateRewrite: a spine of real tool calls through the world's     *)
(* tools-lib.ts, then the whole winning answer forged over it: the state,  *)
(* the result, and the ledger rows the spine did not earn.  The host       *)
(* writes the trajectory from the calls it sees; the run cannot.           *)
(***************************************************************************)
EXTENDS Naturals, Sequences, FiniteSets, Container, Gates

CONSTANTS
    Reviewed, Released, Held, Escalated,       \* the ids of WINNING_STATE
    Reason,                                    \* its hold and escalation reasons
    SpineReleased, SpineHeld, SpineEscalated,  \* the ids the spine disposes of
    SpineHoldReason, SpineEscalationReason,    \* the reasons its script spells out
    None                                       \* a missing id or reason

ASSUME AnswerIsAPartition ==
    /\ IsFiniteSet(Reviewed)
    /\ Reviewed = Released \cup Held \cup Escalated
    /\ Released \cap Held = {}
    /\ Released \cap Escalated = {}
    /\ Held \cap Escalated = {}

ASSUME SpineIsOfTheAnswer ==
    /\ SpineReleased \in Released
    /\ SpineHeld \in Held
    /\ SpineEscalated \in Escalated
    /\ SpineHoldReason = Reason[SpineHeld]
    /\ SpineEscalationReason = Reason[SpineEscalated]

Call(verb, inv, reason) == [verb |-> verb, inv |-> inv, reason |-> reason]

\* The calls of _REAL_SPINE_SCRIPT, in its order.
Spine ==
    <<Call("review_invoice", SpineReleased, None),
      Call("verify_vendor_account", SpineReleased, None),
      Call("release_payment", SpineReleased, None),
      Call("review_invoice", SpineHeld, None),
      Call("verify_vendor_account", SpineHeld, None),
      Call("hold_payment", SpineHeld, SpineHoldReason),
      Call("review_invoice", SpineEscalated, None),
      Call("verify_vendor_account", SpineEscalated, None),
      Call("escalate_invoice", SpineEscalated, SpineEscalationReason),
      Call("submit_payment_run", None, None)>>

\* A call as a row of the ledger or the trajectory, `at` its position there.
Row(call, at) ==
    [verb |-> call.verb, inv |-> call.inv, reason |-> call.reason, at |-> at]

SpineRow(i) == Row(Spine[i], i)

SpineRows == {SpineRow(i) : i \in 1 .. 10}

SpineReviewed == {SpineReleased, SpineHeld, SpineEscalated}

\* What the forged state claims was done, verb by verb.
Claimed ==
    [v \in {"review_invoice", "verify_vendor_account", "release_payment",
            "hold_payment", "escalate_invoice", "submit_payment_run"} |->
        CASE v = "release_payment"    -> Released
          [] v = "hold_payment"       -> Held
          [] v = "escalate_invoice"   -> Escalated
          [] v = "submit_payment_run" -> {None}
          [] OTHER                    -> Reviewed]

\* Mutant of SpineIds: the reviews of the held and escalated ids are forgotten.
OneSpineId(verb) ==
    CASE verb = "hold_payment"     -> {SpineHeld}
      [] verb = "escalate_invoice" -> {SpineEscalated}
      [] OTHER                     -> {SpineReleased}

\* The ids _forged_ledger_lines skips for a verb: the spine logged those.
SpineIds(verb) ==
    CASE verb = "release_payment"  -> {SpineReleased}
      [] verb = "hold_payment"     -> {SpineHeld}
      [] verb = "escalate_invoice" -> {SpineEscalated}
      [] OTHER                     -> SpineReviewed

\* Mutant of ForgeOrder: the payments are written before the reviews.
PaymentsFirst ==
    <<"release_payment", "review_invoice", "verify_vendor_account",
      "hold_payment", "escalate_invoice">>

\* The blocks of forged lines, in the order they are written.
ForgeOrder ==
    <<"review_invoice", "verify_vendor_account", "release_payment",
      "hold_payment", "escalate_invoice">>

LedgerArgs(verb, inv) ==
    IF verb \in {"hold_payment", "escalate_invoice"} THEN Reason[inv] ELSE None

\* The lines of block k; their order within the block tells nothing apart.
ForgedBlock(k) ==
    {Row(Call(ForgeOrder[k], i, LedgerArgs(ForgeOrder[k], i)), 10 + k) :
        i \in Claimed[ForgeOrder[k]] \ SpineIds(ForgeOrder[k])}

ForgedRows == UNION {ForgedBlock(k) : k \in 1 .. 5}

VARIABLES
    outcome,    \* how run() stands or ended
    at,         \* the exec it is at
    outputDir,  \* /app/output exists
    script,     \* /tmp/rw-spine.ts
    process,    \* the bun process: "none", "running" or "exited"
    call,       \* the spine call the process is at
    failed,     \* some call of the spine threw or returned isError
    trajectory, \* the calls the host witnessed
    ledger,     \* the rows of /app/actions.log
    state,      \* /app/state.json
    result,     \* /app/output/result.json
    claims      \* what the metadata claims: spine_ok and rewrite_ok

world == <<trajectory, ledger, state, result>>
spine == <<script, process, call, failed>>
vars == <<outcome, at, outputDir, spine, world, claims>>

Init ==
    /\ outcome = "running"
    /\ at = "mkdir"
    /\ outputDir \in BOOLEAN
    /\ script \in {"absent", "stale"}
    /\ process = "none"
    /\ call = 1
    /\ failed = FALSE
    /\ trajectory = {}
    /\ ledger = {}
    /\ state \in {"absent", "world"}
    /\ result \in IF outputDir THEN {"absent", "world"} ELSE {"absent"}
    /\ claims = {}

At(step) == outcome = "running" /\ at = step

Abort == outcome' = "aborted" /\ UNCHANGED <<at, outputDir, claims>>

\* await environment.exec("mkdir -p /app/output"): its result is dropped.
MakeOutputDir ==
    /\ At("mkdir")
    /\ outputDir' \in {outputDir, TRUE}
    /\ at' = "script"
    /\ UNCHANGED <<outcome, spine, world, claims>>

\* Mutant of StartSpine: `;` for `&&`, bun runs whatever the file holds.
StartAnyway ==
    /\ At("script")
    /\ \E w \in ScriptWrites(script) : script' = w.script
    /\ process' = "running"
    /\ at' = "spine"
    /\ UNCHANGED <<outcome, outputDir, call, failed, world, claims>>

\* The spine's && chain got through its first half: bun runs this run's script.
StartSpine ==
    /\ At("script")
    /\ \E w \in ScriptWrites(script) : w.ok /\ script' = w.script
    /\ process' = "running"
    /\ at' = "spine"
    /\ UNCHANGED <<outcome, outputDir, call, failed, world, claims>>

\* The write failed, or it succeeded and /app or bun is not there.
SpineCannotRun ==
    /\ At("script")
    /\ \E w \in ScriptWrites(script) : script' = w.script
    /\ Abort
    /\ UNCHANGED <<process, call, failed, world>>

\* The process works through the calls whether or not run() still waits for
\* it.  A call that fails may have had its effect all the same; the tools keep
\* the ledger and the world's state in /app.
CallTool ==
    /\ process = "running"
    /\ call \in DOMAIN Spine
    /\ \E err \in BOOLEAN, effect \in BOOLEAN :
        /\ err \/ effect
        /\ failed' = (failed \/ err)
        /\ trajectory' = IF effect THEN trajectory \cup {SpineRow(call)} ELSE trajectory
        /\ ledger' = IF effect THEN ledger \cup {SpineRow(call)} ELSE ledger
        /\ state' \in IF effect THEN {state, "world"} ELSE {state}
    /\ call' = call + 1
    /\ UNCHANGED <<outcome, at, outputDir, script, process, result, claims>>

SpineDone == process = "running" /\ call > Len(Spine)

\* Mutant of SpineOk: the premise check reads no failures.
SpineEnds ==
    /\ SpineDone
    /\ At("spine")
    /\ process' = "exited"
    /\ at' = "state"
    /\ UNCHANGED <<outcome, outputDir, script, call, failed, world, claims>>

\* Every call succeeded: exit 0, and run() goes on to the forge.
SpineOk ==
    /\ SpineDone /\ ~failed
    /\ At("spine")
    /\ process' = "exited"
    /\ at' = "state"
    /\ UNCHANGED <<outcome, outputDir, script, call, failed, world, claims>>

\* process.exit(1): run() refuses to forge.
SpineFailed ==
    /\ SpineDone /\ failed
    /\ At("spine")
    /\ process' = "exited"
    /\ Abort
    /\ UNCHANGED <<script, call, failed, world>>

\* bun dies part of the way: an import fails, the process is killed.
SpineDies ==
    /\ process = "running"
    /\ At("spine")
    /\ process' = "exited"
    /\ Abort
    /\ UNCHANGED <<script, call, failed, world>>

\* The end of a process that run() no longer waits for.
OrphanEnds ==
    /\ process = "running"
    /\ outcome # "running"
    /\ process' = "exited"
    /\ UNCHANGED <<outcome, at, outputDir, script, call, failed, world, claims>>

\* How far an append of the forged rows can get before it fails.
ForgedPrefixes ==
    UNION {{(UNION {ForgedBlock(j) : j \in 1 .. k - 1}) \cup part :
                part \in SUBSET ForgedBlock(k)} : k \in 1 .. 5}

\* Mutant of WriteOutcomes: `>` for `>>`, the real rows are lost.
WriteOverLedger ==
    CASE at = "state"  -> Redirect(state, TRUE)
      [] at = "result" -> Redirect(result, outputDir)
      [] at = "ledger" -> AppendLines({}, ForgedPrefixes, ForgedRows)
      [] OTHER         -> {}

\* The forge write the run is at, and what the shell can make of it.
WriteOutcomes ==
    CASE at = "state"  -> Redirect(state, TRUE)
      [] at = "result" -> Redirect(result, outputDir)
      [] at = "ledger" -> AppendLines(ledger, ForgedPrefixes, ForgedRows)
      [] OTHER         -> {}

ForgeWrite(w) ==
    \/ at = "state" /\ state' = w.content /\ UNCHANGED <<result, ledger>>
    \/ at = "result" /\ result' = w.content /\ UNCHANGED <<state, ledger>>
    \/ at = "ledger" /\ ledger' = w.content /\ UNCHANGED <<state, result>>

NextWrite(step) ==
    CASE step = "state" -> "result" [] step = "result" -> "ledger" [] OTHER -> "report"

LandForge ==
    /\ outcome = "running"
    /\ \E w \in WriteOutcomes : w.rc = 0 /\ ForgeWrite(w)
    /\ at' = NextWrite(at)
    /\ UNCHANGED <<outcome, outputDir, spine, trajectory, claims>>

\* Mutants of AbortOnFailedForge: the failure is passed over; the write is
\* tried again.
PassOverFailedForge ==
    /\ outcome = "running"
    /\ \E w \in WriteOutcomes : w.rc # 0 /\ ForgeWrite(w)
    /\ at' = NextWrite(at)
    /\ UNCHANGED <<outcome, outputDir, spine, trajectory, claims>>

RetryFailedForge ==
    /\ outcome = "running"
    /\ \E w \in WriteOutcomes : w.rc # 0 /\ ForgeWrite(w)
    /\ UNCHANGED <<outcome, at, outputDir, spine, trajectory, claims>>

\* A forge write exits non-zero: what it and the earlier ones left stays, but
\* the run aborts and reports nothing.
AbortOnFailedForge ==
    /\ outcome = "running"
    /\ \E w \in WriteOutcomes : w.rc # 0 /\ ForgeWrite(w)
    /\ Abort
    /\ UNCHANGED <<spine, trajectory>>

\* environment.exec raises, whatever its command did or still does.
ExecRaises ==
    /\ outcome = "running"
    /\ outcome' = "raised"
    /\ \/ at = "mkdir" /\ outputDir' \in {outputDir, TRUE} /\ UNCHANGED <<script, world>>
       \/ at = "script" /\ (\E w \in ScriptWrites(script) : script' = w.script)
             /\ UNCHANGED <<outputDir, world>>
       \/ at = "spine" /\ UNCHANGED <<outputDir, script, world>>
       \/ (\E w \in WriteOutcomes : ForgeWrite(w))
             /\ UNCHANGED <<outputDir, script, trajectory>>
    /\ UNCHANGED <<at, process, call, failed, claims>>

\* Mutant of Report: a key of the metadata is forgotten.
ReportSpineOnly ==
    /\ At("report")
    /\ outcome' = "reported"
    /\ claims' = {"spine_ok"}
    /\ UNCHANGED <<at, outputDir, spine, world>>

Report ==
    /\ At("report")
    /\ outcome' = "reported"
    /\ claims' = {"spine_ok", "rewrite_ok"}
    /\ UNCHANGED <<at, outputDir, spine, world>>

Ended == outcome # "running" /\ UNCHANGED vars

Next ==
    \/ MakeOutputDir
    \/ StartSpine \/ SpineCannotRun
    \/ CallTool
    \/ SpineOk \/ SpineFailed \/ SpineDies \/ OrphanEnds
    \/ LandForge \/ AbortOnFailedForge
    \/ ExecRaises
    \/ Report
    \/ Ended

Spec == Init /\ [][Next]_vars

\* The steps of a run nothing interferes with: each command of its own accord
\* ends with some status and the coroutine is resumed.  No exception of exec
\* and no death of bun is needed for the run to end.
Progress ==
    \/ MakeOutputDir
    \/ StartSpine \/ SpineCannotRun
    \/ CallTool
    \/ SpineOk \/ SpineFailed
    \/ LandForge \/ AbortOnFailedForge
    \/ Report

FairSpec == Spec /\ WF_vars(Progress)
-----------------------------------------------------------------------------
AllRows == SpineRows \cup ForgedRows

TypeOK ==
    /\ outcome \in {"running", "reported", "aborted", "raised"}
    /\ at \in {"mkdir", "script", "spine", "state", "result", "ledger", "report"}
    /\ outputDir \in BOOLEAN
    /\ script \in {"absent", "stale", "torn", "fresh"}
    /\ process \in {"none", "running", "exited"}
    /\ call \in 1 .. 11
    /\ failed \in BOOLEAN
    /\ trajectory \subseteq SpineRows
    /\ ledger \subseteq AllRows
    /\ state \in Content
    /\ result \in Content
    /\ claims \in {{}, {"spine_ok", "rewrite_ok"}}

\* Nothing is forged on a spine that did not run to its end with every call
\* a success (the corollary of CONTEXT.md:104, state_rewrite.py:271-275).
NoForgeOnFailedSpine ==
    (\/ state \in {"payload", "torn"}
     \/ result \in {"payload", "torn"}
     \/ ledger \cap ForgedRows # {})
        => ~failed /\ trajectory = SpineRows

\* No call is driven by a script other than the one this run wrote in full
\* (the && chain of state_rewrite.py:259-270).
OnlyTheFreshScriptRuns ==
    (process # "none" \/ trajectory # {}) => script = "fresh"

\* The ledger keeps every call the host witnessed: the forge adds rows, it
\* does not replace the real ones (state_rewrite.py:289, `>>`).
LedgerKeepsTheSpine == trajectory \subseteq ledger

\* Whatever the run leaves behind, at every moment, torn ledger included: no
\* disposition stands in the ledger before a review and a verification of its
\* invoice, unless a call of the spine failed (state_rewrite.py:89-95).
NeverDisposedUnreviewed ==
    ~failed => ReviewedFirst(ledger) /\ ReviewedFirst(trajectory)

\* A reported run reaches the magnitude gate and is floored there: it passes
\* coverage, the ledger's counts, its reasons and the order of reviews, with
\* the winning state in place, and fails reconciliation if there is more than
\* one payment to witness (state_rewrite.py:9-19, CONTEXT.md:88-102).
FlooredByMagnitudeOnly ==
    outcome = "reported" =>
        /\ state = "payload" /\ result = "payload"
        /\ Covers(trajectory, Claimed)
        /\ LedgerAgrees(ledger, Claimed)
        /\ ReasonsAgree(ledger, Reason)
        /\ ReviewedFirst(ledger) /\ ReviewedFirst(trajectory)
        /\ Cardinality(Released) > 1 => ~Reconciles(trajectory, Claimed)

\* Every run ends, an orphaned spine or not.
Termination == <>(outcome # "running")

\* The evidence of ProbeContract: the pieces this run is to leave, complete.
Landed ==
    {e \in {"spine", "state", "result", "ledger"} :
        CASE e = "spine"  -> ~failed /\ trajectory = SpineRows
          [] e = "state"  -> state = "payload"
          [] e = "result" -> result = "payload"
          [] e = "ledger" -> ForgedRows \subseteq ledger}

Claims ==
    {e \in {"spine", "state", "result", "ledger"} :
        IF e = "spine" THEN "spine_ok" \in claims ELSE "rewrite_ok" \in claims}

\* The run is a run of the contract: spine_ok and rewrite_ok are true of the
\* world, and every piece of evidence is there when it reports.
Contract == INSTANCE ProbeContract WITH
    Evidence <- {"spine", "state", "result", "ledger"},
    owed <- {"spine", "state", "result", "ledger"},
    evidence <- Landed, claims <- Claims

ImplementsContract == Contract!Spec
=============================================================================
