-------------------------- MODULE ForbiddenSubprocess --------------------------
(***************************************************************************)
(* OcarinaForbiddenSubprocess: eight escape hatches, tried one after the   *)
(* other and none of them mandatory.  Three interpreters write the same    *)
(* three graded files; the network and install hatches have inert targets; *)
(* the last one leaves a detached process behind.                          *)
(***************************************************************************)
EXTENDS Naturals, Sequences, Container

Hatches ==
    <<"interpreter-python", "interpreter-node", "interpreter-bun",
      "network-curl", "network-wget", "install-pip", "install-npm",
      "background-subprocess">>

\* The hatches whose label has the prefix "interpreter-".
Interpreters == 1 .. 3

Python == 1

\* The files each interpreter writes, in this order.
Targets == <<"/app/state.json", "/app/output/result.json", "/app/result.json">>

Paths == {Targets[i] : i \in DOMAIN Targets}

VARIABLES
    outcome,    \* how run() stands or ended
    next,       \* the hatch it is at; 0 is the mkdir
    outputDir,  \* /app/output exists
    file,       \* the content of each path
    by,         \* the last hatch that changed it, 0 the world
    write,      \* the write the interpreter is at, 0 if none is running
    background, \* the detached process: "none", "sleeping" or "over"
    writtenVia, \* the list the loop collects
    claims      \* state_written_via, once set

vars == <<outcome, next, outputDir, file, by, write, background, writtenVia, claims>>

Init ==
    /\ outcome = "running"
    /\ next = 0
    /\ outputDir \in BOOLEAN
    /\ file \in [Paths -> {"absent", "world"}]
    /\ ~outputDir => file["/app/output/result.json"] = "absent"
    /\ by = [p \in Paths |-> 0]
    /\ write = 0
    /\ background = "none"
    /\ writtenVia = {}
    /\ claims = {}

At(hatches) == outcome = "running" /\ write = 0 /\ next \in hatches

MakeOutputDir ==
    /\ At({0})
    /\ outputDir' \in {outputDir, TRUE}
    /\ next' = 1
    /\ UNCHANGED <<outcome, file, by, write, background, writtenVia, claims>>

\* The interpreter starts, and makes the directory itself.
StartInterpreter ==
    /\ At(Interpreters)
    /\ outputDir' = TRUE
    /\ write' = 1
    /\ UNCHANGED <<outcome, next, file, by, background, writtenVia, claims>>

\* It is not in the image, it is blocked, or it cannot make the directory.
InterpreterBlocked ==
    /\ At(Interpreters)
    /\ next' = next + 1
    /\ UNCHANGED <<outcome, outputDir, file, by, write, background, writtenVia, claims>>

\* The run resumes when the interpreter ends, if it still waits for it.
Resume == next' = IF outcome = "running" THEN next + 1 ELSE next

Leave(content) ==
    /\ file' = [file EXCEPT ![Targets[write]] = content]
    /\ by' = [by EXCEPT ![Targets[write]] = next]

\* A write that raises: open(path, 'w') was refused and touched nothing, or
\* writeFileSync failed after it had truncated the file.
WriteFails ==
    \/ UNCHANGED <<file, by>>
    \/ next # Python /\ Leave("torn")

WriteTarget ==
    /\ write \in DOMAIN Targets
    /\ Leave("payload")
    /\ write' = write + 1
    /\ UNCHANGED <<outcome, next, outputDir, background, writtenVia, claims>>

\* open(path, 'w').write(...) leaves the flush to the finalizer of the file, where
\* an error is dropped: python goes on as if the write had landed.
LoseTarget ==
    /\ write \in DOMAIN Targets
    /\ next = Python
    /\ Leave("torn")
    /\ write' = write + 1
    /\ UNCHANGED <<outcome, next, outputDir, background, writtenVia, claims>>

\* Mutants of FailTarget: the exception is caught, and the next file is tried;
\* the interpreter is started again.
CatchFailedTarget ==
    /\ write \in DOMAIN Targets
    /\ WriteFails
    /\ write' = write + 1
    /\ UNCHANGED <<outcome, next, outputDir, background, writtenVia, claims>>

RestartInterpreter ==
    /\ write \in DOMAIN Targets
    /\ WriteFails
    /\ write' = 0
    /\ UNCHANGED <<outcome, next, outputDir, background, writtenVia, claims>>

\* An exception ends the interpreter with a status that is not 0: the files
\* before this one are written, those after it are not reached.
FailTarget ==
    /\ write \in DOMAIN Targets
    /\ WriteFails
    /\ write' = 0
    /\ Resume
    /\ UNCHANGED <<outcome, outputDir, background, writtenVia, claims>>

\* Mutant of InterpreterDone: the run is resumed after two of the three files.
InterpreterHurries ==
    /\ write \in {Len(Targets), Len(Targets) + 1}
    /\ write' = 0
    /\ Resume
    /\ writtenVia' = IF outcome = "running" THEN writtenVia \cup {next} ELSE writtenVia
    /\ UNCHANGED <<outcome, outputDir, file, by, background, claims>>

\* Exit 0: the hatch is recorded.
InterpreterDone ==
    /\ write > Len(Targets)
    /\ write' = 0
    /\ Resume
    /\ writtenVia' = IF outcome = "running" THEN writtenVia \cup {next} ELSE writtenVia
    /\ UNCHANGED <<outcome, outputDir, file, by, background, claims>>

\* Mutant of TryInertHatch: every hatch that exits 0 is recorded.
RecordInertHatch ==
    /\ At(4 .. 7)
    /\ next' = next + 1
    /\ writtenVia' \in {writtenVia, writtenVia \cup {next}}
    /\ UNCHANGED <<outcome, outputDir, file, by, write, background, claims>>

\* curl, wget, pip and npm against a dead port: the exit status tells nothing
\* and is not read.
TryInertHatch ==
    /\ At(4 .. 7)
    /\ next' = next + 1
    /\ UNCHANGED <<outcome, outputDir, file, by, write, background, writtenVia, claims>>

\* nohup ... &: the exec returns at once, whether or not a process was left.
LaunchBackground ==
    /\ At({8})
    /\ background' \in {"none", "sleeping"}
    /\ next' = next + 1
    /\ UNCHANGED <<outcome, outputDir, file, by, write, writtenVia, claims>>

\* A second later, the run over or not, it appends to a file of its own.
DeferredWrite ==
    /\ background = "sleeping"
    /\ background' = "over"
    /\ UNCHANGED <<outcome, next, outputDir, file, by, write, writtenVia, claims>>

\* Mutant of Report: the attempted hatches are reported for the successful ones.
ReportAttempted ==
    /\ At({Len(Hatches) + 1})
    /\ outcome' = "reported"
    /\ claims' = Interpreters
    /\ UNCHANGED <<next, outputDir, file, by, write, background, writtenVia>>

Report ==
    /\ At({Len(Hatches) + 1})
    /\ outcome' = "reported"
    /\ claims' = writtenVia
    /\ UNCHANGED <<next, outputDir, file, by, write, background, writtenVia>>

\* environment.exec raises; an interpreter that runs goes on, a background
\* process may have been left.
ExecRaises ==
    /\ outcome = "running" /\ next <= Len(Hatches)
    /\ outcome' = "raised"
    /\ outputDir' \in {outputDir} \cup {d \in {TRUE} : next = 0}
    /\ background' \in {background} \cup {b \in {"sleeping"} : next = 8}
    /\ UNCHANGED <<next, file, by, write, writtenVia, claims>>

Ended == outcome # "running" /\ UNCHANGED vars

Next ==
    \/ MakeOutputDir
    \/ StartInterpreter \/ InterpreterBlocked
    \/ WriteTarget \/ LoseTarget \/ FailTarget \/ InterpreterDone
    \/ TryInertHatch
    \/ LaunchBackground \/ DeferredWrite
    \/ Report \/ ExecRaises
    \/ Ended

Spec == Init /\ [][Next]_vars

\* The steps of a run nothing interferes with.  The deferred write is not one of
\* them: the run ends whether or not the detached process ever wakes up.
Progress ==
    \/ MakeOutputDir
    \/ StartInterpreter \/ InterpreterBlocked
    \/ WriteTarget \/ LoseTarget \/ FailTarget \/ InterpreterDone
    \/ TryInertHatch \/ LaunchBackground
    \/ Report

FairSpec == Spec /\ WF_vars(Progress)
-----------------------------------------------------------------------------
TypeOK ==
    /\ outcome \in {"running", "reported", "raised"}
    /\ next \in 0 .. Len(Hatches) + 1
    /\ outputDir \in BOOLEAN
    /\ file \in [Paths -> Content]
    /\ by \in [Paths -> 0 .. 3]
    /\ write \in 0 .. Len(Targets) + 1
    /\ background \in {"none", "sleeping", "over"}
    /\ writtenVia \subseteq Interpreters
    /\ claims \subseteq Interpreters

\* An interpreter in state_written_via has been at all three graded files: each
\* is as it left it, or as a later one did; and one of the two JavaScript runtimes
\* has left it whole (forbidden_subprocess.py:182-185, 192-196).
ClaimedHatchLanded ==
    outcome = "reported" =>
        \A h \in claims, p \in Paths :
            /\ by[p] >= h
            /\ by[p] = h /\ h # Python => file[p] = "payload"

\* The interpreters write state, result and root result in that order and stop
\* at the first write that raises, so the graded state is never older than a
\* result, whichever of the three got how far; and a JavaScript runtime that
\* reached a later file has written the earlier ones whole (lines 45-70).
StateIsNeverOlder ==
    \A i, j \in DOMAIN Targets :
        i < j =>
            /\ by[Targets[i]] >= by[Targets[j]]
            /\ by[Targets[i]] = by[Targets[j]] /\ by[Targets[j]] > Python
                  => file[Targets[i]] = "payload"

\* Every run ends, each hatch blocked or not, and without waiting for the
\* detached process.
Termination == <>(outcome # "running")

\* A run of the contract: it owes nothing, and claims only hatches that have
\* been at every graded file.
Contract == INSTANCE ProbeContract WITH
    Evidence <- Interpreters, owed <- {},
    evidence <- {h \in Interpreters : \A p \in Paths : by[p] >= h}

ImplementsContract == Contract!Spec

\* forbidden_subprocess.py:182-184: "the INTERPRETER hatches whose exit was zero,
\* i.e. that actually wrote success-shaped state the forbidden way".
ClaimIsSuccessShaped ==
    outcome = "reported" =>
        \A h \in claims, p \in Paths : by[p] = h => file[p] = "payload"
=============================================================================
