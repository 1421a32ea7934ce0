----------------------------- MODULE RandomAgent ------------------------------
(***************************************************************************)
(* OcarinaRandomAgent: a driver that calls whatever functions the world's  *)
(* tools-lib.ts exports, in a random order, each a random number of times  *)
(* with arbitrary arguments, and then a final state that is well formed    *)
(* and wrong.  The driver is best effort; the wrong state is not.          *)
(***************************************************************************)
EXTENDS Naturals, Sequences, Container

CONSTANTS
    Libraries,  \* what tools-lib.ts may export: sequences of functions
    GrabBag     \* the sequence of arbitrary arguments

Elements(s) == {s[i] : i \in DOMAIN s}

ASSUME LibrariesAreLists ==
    /\ GrabBag # <<>>
    /\ \A list \in Libraries \cup {GrabBag} : list \in Seq(Elements(list))
    /\ \A lib \in Libraries :
          \A i, j \in DOMAIN lib : lib[i] = lib[j] => i = j

Targets == <<"/app/state.json", "/app/output/result.json", "/app/result.json">>

Paths == Elements(Targets)

VARIABLES
    outcome,    \* how run() stands or ended
    at,         \* the exec it is at: "mkdir", "script", "bun" or "write"
    next,       \* the target of the write
    outputDir,  \* /app/output exists
    file,       \* the content of the targets
    script,     \* /tmp/random-driver.ts
    process,    \* the driver: "none", "running", "finished" or "died"
    callable,   \* the functions it found
    completes,  \* whether a call can complete: {TRUE}, {FALSE}, or either
    todo,       \* the functions its shuffled loop has not reached
    turn,       \* the function it is at and the calls it still owes it
    sweep,      \* the calls the fallback search has made
    completed,  \* the calls it counted
    claims      \* what the metadata claims: driver_ok

shell == <<outcome, at, next, outputDir, script, claims>>
driver == <<process, callable, completes, todo, turn, sweep, completed>>
vars == <<shell, file, driver>>

Idle == [fn |-> "none", times |-> 0]

Init ==
    /\ outcome = "running"
    /\ at = "mkdir"
    /\ next = 1
    /\ outputDir \in BOOLEAN
    /\ file \in [Paths -> {"absent", "world"}]
    /\ ~outputDir => file["/app/output/result.json"] = "absent"
    /\ script \in {"absent", "stale"}
    /\ process = "none"
    /\ callable \in Libraries
    /\ completes \in [Elements(callable) \X Elements(GrabBag) -> SUBSET BOOLEAN \ {{}}]
    /\ todo = Elements(callable)
    /\ turn = Idle
    /\ sweep = 0
    /\ completed = 0
    /\ claims = {}

At(exec) == outcome = "running" /\ at = exec

MakeOutputDir ==
    /\ At("mkdir")
    /\ outputDir' \in {outputDir, TRUE}
    /\ at' = "script"
    /\ UNCHANGED <<outcome, next, script, claims, file, driver>>

\* The && chain got through its first half: bun runs this run's script.
StartDriver ==
    /\ At("script")
    /\ \E w \in ScriptWrites(script) : w.ok /\ script' = w.script
    /\ process' = "running"
    /\ at' = "bun"
    /\ UNCHANGED <<outcome, next, outputDir, claims, file>>
    /\ UNCHANGED <<callable, completes, todo, turn, sweep, completed>>

\* The script was not written, or there is no /app or no bun: run() goes on.
DriverCannotRun ==
    /\ At("script")
    /\ \E w \in ScriptWrites(script) : script' = w.script
    /\ at' = "write"
    /\ UNCHANGED <<outcome, next, outputDir, claims, file, driver>>

\* callOnce(): a call completes unless it throws or yields isError, and it may
\* have saved the world's state either way.
CallOnce(fn, arg) ==
    \E ok \in completes[<<fn, arg>>] :
        /\ completed' = IF ok THEN completed + 1 ELSE completed
        /\ file' \in {file, [file EXCEPT !["/app/state.json"] = "world"]}

\* The loop takes the next function of the shuffled list, for 0 to 2 calls.
TakeFunction ==
    /\ process = "running"
    /\ turn.times = 0
    /\ \E fn \in todo, times \in 0 .. 2 :
        /\ todo' = todo \ {fn}
        /\ turn' = [fn |-> fn, times |-> times]
    /\ UNCHANGED <<shell, file, process, callable, completes, sweep, completed>>

\* Mutant of CallAtRandom: only completed calls count down.
CallUntilCompleted ==
    /\ process = "running"
    /\ turn.times > 0
    /\ \E arg \in Elements(GrabBag) : CallOnce(turn.fn, arg)
    /\ turn' = IF completed' > completed THEN [turn EXCEPT !.times = @ - 1] ELSE turn
    /\ UNCHANGED <<shell, process, callable, completes, todo, sweep>>

CallAtRandom ==
    /\ process = "running"
    /\ turn.times > 0
    /\ \E arg \in Elements(GrabBag) : CallOnce(turn.fn, arg)
    /\ turn' = [turn EXCEPT !.times = @ - 1]
    /\ UNCHANGED <<shell, process, callable, completes, todo, sweep>>

LoopDone == process = "running" /\ todo = {} /\ turn.times = 0

\* The pairs the fallback search tries, in its order.
Pairs == Len(callable) * Len(GrabBag)
PairFunction(k) == callable[((k - 1) \div Len(GrabBag)) + 1]
\* Mutant of PairArgument: the search tries one argument only.
FirstArgument(k) == GrabBag[1]

PairArgument(k) == GrabBag[((k - 1) % Len(GrabBag)) + 1]

\* Mutant of Search: no `break search`.
SearchOn ==
    /\ LoopDone
    /\ sweep < Pairs
    /\ CallOnce(PairFunction(sweep + 1), PairArgument(sweep + 1))
    /\ sweep' = sweep + 1
    /\ UNCHANGED <<shell, process, callable, completes, todo, turn>>

\* Nothing has completed yet: the search tries its next pair.
Search ==
    /\ LoopDone
    /\ completed = 0 /\ sweep < Pairs
    /\ CallOnce(PairFunction(sweep + 1), PairArgument(sweep + 1))
    /\ sweep' = sweep + 1
    /\ UNCHANGED <<shell, process, callable, completes, todo, turn>>

\* The script prints __RANDOM_OK__, and the exec returns with it.
FinishDriver ==
    /\ LoopDone
    /\ completed > 0 \/ sweep = Pairs
    /\ process' = "finished"
    /\ at' = IF outcome = "running" THEN "write" ELSE at
    /\ UNCHANGED <<outcome, next, outputDir, script, claims, file>>
    /\ UNCHANGED <<callable, completes, todo, turn, sweep, completed>>

\* The import throws (there is no tools-lib.ts), or bun is killed.
DriverDies ==
    /\ process = "running"
    /\ process' = "died"
    /\ at' = IF outcome = "running" THEN "write" ELSE at
    /\ UNCHANGED <<outcome, next, outputDir, script, claims, file>>
    /\ UNCHANGED <<callable, completes, todo, turn, sweep, completed>>

Writing == At("write") /\ next \in DOMAIN Targets

WriteResults ==
    Redirect(file[Targets[next]],
             Targets[next] = "/app/output/result.json" => outputDir)

\* Mutant of LandTarget: the exit status is not read.
LandUnread ==
    /\ Writing
    /\ \E w \in WriteResults : file' = [file EXCEPT ![Targets[next]] = w.content]
    /\ next' = next + 1
    /\ UNCHANGED <<outcome, at, outputDir, script, claims, driver>>

LandTarget ==
    /\ Writing
    /\ \E w \in WriteResults :
        w.rc = 0 /\ file' = [file EXCEPT ![Targets[next]] = w.content]
    /\ next' = next + 1
    /\ UNCHANGED <<outcome, at, outputDir, script, claims, driver>>

AbortOnFailedWrite ==
    /\ Writing
    /\ \E w \in WriteResults :
        w.rc # 0 /\ file' = [file EXCEPT ![Targets[next]] = w.content]
    /\ outcome' = "aborted"
    /\ UNCHANGED <<at, next, outputDir, script, claims, driver>>

\* Mutant of Report: driver_ok is set whatever the driver did.
ReportDriverOk ==
    /\ At("write") /\ next > Len(Targets)
    /\ outcome' = "reported"
    /\ claims' = {"driver"}
    /\ UNCHANGED <<at, next, outputDir, script, file, driver>>

\* driver_ok is whether the marker is in the driver's output.
Report ==
    /\ At("write") /\ next > Len(Targets)
    /\ outcome' = "reported"
    /\ claims' = IF process = "finished" THEN {"driver"} ELSE {}
    /\ UNCHANGED <<at, next, outputDir, script, file, driver>>

\* environment.exec raises, whatever its command did or still does.
ExecRaises ==
    /\ outcome = "running"
    /\ outcome' = "raised"
    /\ \/ at = "mkdir" /\ outputDir' \in {outputDir, TRUE} /\ UNCHANGED <<script, file>>
       \/ at = "script" /\ (\E w \in ScriptWrites(script) : script' = w.script)
             /\ UNCHANGED <<outputDir, file>>
       \/ at = "bun" /\ UNCHANGED <<outputDir, script, file>>
       \/ /\ Writing /\ UNCHANGED <<outputDir, script>>
          /\ \E w \in WriteResults : file' = [file EXCEPT ![Targets[next]] = w.content]
    /\ UNCHANGED <<at, next, claims, driver>>

Ended == outcome # "running" /\ UNCHANGED vars

Next ==
    \/ MakeOutputDir
    \/ StartDriver \/ DriverCannotRun
    \/ TakeFunction \/ CallAtRandom \/ Search
    \/ FinishDriver \/ DriverDies
    \/ LandTarget \/ AbortOnFailedWrite
    \/ Report \/ ExecRaises
    \/ Ended

Spec == Init /\ [][Next]_vars

\* The steps of a run nothing interferes with: the functions called return or
\* settle, each command ends of its own accord, and the coroutine is resumed.
Progress ==
    \/ MakeOutputDir
    \/ StartDriver \/ DriverCannotRun
    \/ TakeFunction \/ CallAtRandom \/ Search \/ FinishDriver
    \/ LandTarget \/ AbortOnFailedWrite
    \/ Report

FairSpec == Spec /\ WF_vars(Progress)
-----------------------------------------------------------------------------
TypeOK ==
    /\ outcome \in {"running", "reported", "aborted", "raised"}
    /\ at \in {"mkdir", "script", "bun", "write"}
    /\ next \in 1 .. Len(Targets) + 1
    /\ outputDir \in BOOLEAN
    /\ file \in [Paths -> Content]
    /\ script \in {"absent", "stale", "torn", "fresh"}
    /\ process \in {"none", "running", "finished", "died"}
    /\ callable \in Libraries
    /\ todo \subseteq Elements(callable)
    /\ turn \in [fn : Elements(callable) \cup {"none"}, times : 0 .. 2]
    /\ sweep \in 0 .. Pairs
    /\ completed \in 0 .. 2 * Len(callable) + 1
    /\ claims \subseteq {"driver"}

\* A driver that ran to its end has left activity for the host to see whenever
\* some function of the world accepts some argument of the bag: all the draws
\* of the loop may be 0 or rejected, the search still finds the pair
\* (random_agent.py:102-119).
ActivityWhenPossible ==
    process = "finished" /\ completed = 0 =>
        \A pair \in DOMAIN completes : completes[pair] # {TRUE}

\* A reported run is graded on its wrong state: all three files hold it, and no
\* tool of the driver has saved over them since (random_agent.py:40-43,191-202).
WrongStateStands ==
    outcome = "reported" => \A p \in Paths : file[p] = "payload"

\* Every run ends, whichever calls are drawn and however they are answered.
Termination == <>(outcome # "running")

\* A run of the contract: it owes the wrong state, and driver_ok is only claimed
\* of a driver that finished.
Contract == INSTANCE ProbeContract WITH
    Evidence <- Paths \cup {"driver"}, owed <- Paths,
    evidence <- {p \in Paths : file[p] = "payload"}
                   \cup {d \in {"driver"} : process = "finished"}

ImplementsContract == Contract!Spec
=============================================================================
