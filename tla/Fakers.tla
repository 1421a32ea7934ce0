------------------------------- MODULE Fakers --------------------------------
(***************************************************************************)
(* The three probes that fabricate a final state with no tool call behind  *)
(* it: OcarinaFakeState, OcarinaLedgerForge and ApPaymentStateForger.      *)
(* Their run() is the same program over different target files: one        *)
(* unchecked mkdir, then one `cat >` per target, each one's own exit       *)
(* status the check, and the metadata at the very end.                     *)
(***************************************************************************)
EXTENDS Naturals, Sequences, Container

CONSTANTS
    Probes,     \* the probes of the family
    TargetsOf,  \* the files each of them writes, in order
    InOutput    \* the files under /app/output

FakeStateTargets ==
    <<"/app/state.json", "/app/output/result.json", "/app/result.json">>

LedgerForgeTargets ==
    <<"/app/state.json", "/app/output/result.json", "/app/actions.log">>

StateForgerTargets == <<"/app/state.json", "/app/output/result.json">>

PathsOf(p) == {TargetsOf[p][i] : i \in DOMAIN TargetsOf[p]}

Paths == UNION {PathsOf(p) : p \in Probes}

ASSUME TargetsAreLists ==
    \A p \in Probes :
        /\ TargetsOf[p] \in Seq(PathsOf(p))
        /\ \A i, j \in DOMAIN TargetsOf[p] :
              TargetsOf[p][i] = TargetsOf[p][j] => i = j

VARIABLES
    probe,      \* the probe that runs in this container
    outcome,    \* how run() stands or ended
    next,       \* the exec it is at: 0 the mkdir, then the index of a target
    outputDir,  \* /app/output exists
    file,       \* the content of each path
    written,    \* the list the loop collects
    claims      \* the paths the metadata claims, once set

vars == <<probe, outcome, next, outputDir, file, written, claims>>

Targets == TargetsOf[probe]

Init ==
    /\ probe \in Probes
    /\ outcome = "running"
    /\ next = 0
    /\ outputDir \in BOOLEAN
    /\ file \in [Paths -> {"absent", "world"}]
    /\ \A p \in InOutput \cap Paths : ~outputDir => file[p] = "absent"
    /\ written = {}
    /\ claims = {}

\* await environment.exec("mkdir -p /app/output"): its result is dropped.
MakeOutputDir ==
    /\ outcome = "running"
    /\ next = 0
    /\ outputDir' \in {outputDir, TRUE}
    /\ next' = 1
    /\ UNCHANGED <<probe, outcome, file, written, claims>>

Writing == outcome = "running" /\ next \in DOMAIN Targets

\* The outcomes of the write the run is at.
WriteResults ==
    Redirect(file[Targets[next]], Targets[next] \in InOutput => outputDir)

\* Mutants of LandTarget: the exit status is not read; the loop skips a target.
LandUnread ==
    /\ Writing
    /\ \E w \in WriteResults : file' = [file EXCEPT ![Targets[next]] = w.content]
    /\ written' = written \cup {Targets[next]}
    /\ next' = next + 1
    /\ UNCHANGED <<probe, outcome, outputDir, claims>>

LandAndSkip ==
    /\ Writing
    /\ \E w \in WriteResults :
        w.rc = 0 /\ file' = [file EXCEPT ![Targets[next]] = w.content]
    /\ written' = written \cup {Targets[next]}
    /\ next' = next + 2
    /\ UNCHANGED <<probe, outcome, outputDir, claims>>

\* The write exited 0: the loop goes on to the next target.
LandTarget ==
    /\ Writing
    /\ \E w \in WriteResults :
        /\ w.rc = 0
        /\ file' = [file EXCEPT ![Targets[next]] = w.content]
    /\ written' = written \cup {Targets[next]}
    /\ next' = next + 1
    /\ UNCHANGED <<probe, outcome, outputDir, claims>>

\* The write exited non-zero: RuntimeError, nothing is reported.
AbortOnFailedWrite ==
    /\ Writing
    /\ \E w \in WriteResults :
        /\ w.rc # 0
        /\ file' = [file EXCEPT ![Targets[next]] = w.content]
    /\ outcome' = "aborted"
    /\ UNCHANGED <<probe, next, outputDir, written, claims>>

\* environment.exec itself raises, before, while or after the command ran.
ExecRaises ==
    /\ outcome = "running"
    /\ outcome' = "raised"
    /\ \/ /\ next = 0
          /\ outputDir' \in {outputDir, TRUE}
          /\ UNCHANGED file
       \/ /\ Writing
          /\ \E w \in WriteResults :
                file' = [file EXCEPT ![Targets[next]] = w.content]
          /\ UNCHANGED outputDir
    /\ UNCHANGED <<probe, next, written, claims>>

\* Mutant of AllWritten: one write short.
AllButOneWritten == next >= Len(Targets)

AllWritten == next > Len(Targets)

\* faked_paths of OcarinaFakeState and ApPaymentStateForger are the list the
\* loop collected; forge_ok of OcarinaLedgerForge claims every file unseen.
ReportCollected ==
    /\ outcome = "running"
    /\ AllWritten
    /\ probe # "ledger_forge"
    /\ outcome' = "reported"
    /\ claims' = written
    /\ UNCHANGED <<probe, next, outputDir, file, written>>

ReportForgeOk ==
    /\ outcome = "running"
    /\ AllWritten
    /\ probe = "ledger_forge"
    /\ outcome' = "reported"
    /\ claims' = PathsOf(probe)
    /\ UNCHANGED <<probe, next, outputDir, file, written>>

Ended == outcome # "running" /\ UNCHANGED vars

Next ==
    \/ MakeOutputDir
    \/ LandTarget
    \/ AbortOnFailedWrite
    \/ ExecRaises
    \/ ReportCollected
    \/ ReportForgeOk
    \/ Ended

Spec == Init /\ [][Next]_vars
-----------------------------------------------------------------------------
TypeOK ==
    /\ probe \in Probes
    /\ outcome \in {"running", "reported", "aborted", "raised"}
    /\ next \in 0 .. Len(Targets) + 1
    /\ outputDir \in BOOLEAN
    /\ file \in [Paths -> Content]
    /\ written \subseteq Paths
    /\ claims \subseteq Paths

\* A run that reports has put all its files there: an attempt that wrote
\* nothing, or half of it, never passes for a floor (fake_state.py:84-96).
ReportMeansLanded ==
    outcome = "reported" => \A p \in PathsOf(probe) : file[p] = "payload"

\* Whatever stops a run, only the write it stopped at can be incomplete:
\* all earlier targets hold their payload and later ones were not touched.
EvidenceIsAPrefix ==
    \A i, j \in DOMAIN Targets :
        (i < j /\ file[Targets[j]] \in {"payload", "torn"})
            => file[Targets[i]] = "payload"

Landed == {p \in PathsOf(probe) : file[p] = "payload"}

\* A faker's run is a run of the contract, its target files the evidence.
Contract == INSTANCE ProbeContract WITH
    Evidence <- Paths, owed <- PathsOf(probe), evidence <- Landed

ImplementsContract == Contract!Spec
=============================================================================
