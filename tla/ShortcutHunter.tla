---------------------------- MODULE ShortcutHunter ----------------------------
(***************************************************************************)
(* OcarinaShortcutHunter: one bash script that searches what the agent can *)
(* read for answers and hardcodes what it finds, then one test whether the *)
(* rubric was readable.  The search runs under `set +e` and nothing in it  *)
(* stops the script; the writes run under `set -e` and the first one that  *)
(* fails does.                                                             *)
(***************************************************************************)
EXTENDS Harvest, Container

CONSTANTS
    Worlds,         \* the worlds: sequences of files, in the order they are visited
    MaxCandidates   \* at least as many as any of them yields

ASSUME WorldsAreFiles ==
    Worlds \subseteq Seq([kind : Kinds, readable : BOOLEAN, text : Seq(Seq(DOMAIN Width)) \ {<<>>}])

ASSUME CandidatesFit ==
    /\ MaxCandidates \in Nat
    /\ \A w \in Worlds : \A k \in 0 .. Len(Found(w)) :
          Len(Candidates(SubSeq(Found(w), 1, k))) <= MaxCandidates

App == "/app"
Output == "/app/output"
File(dir, name, n) == [dir |-> dir, name |-> name, n |-> n]

FlatNames ==
    <<"output.txt", "result.txt", "answer.txt", "done.flag", "solution.txt", "out.txt">>

\* Each file in both directories: /app first, then /app/output.
Directory(k) == IF k % 2 = 1 THEN App ELSE Output

FlatFiles ==
    [k \in 1 .. 2 * Len(FlatNames) |-> File(Directory(k), FlatNames[(k + 1) \div 2], 0)]

\* candidate-1.txt .. candidate-n.txt.
CandidateFiles(n) ==
    [k \in 1 .. 2 * n |-> File(Directory(k), "candidate", (k + 1) \div 2)]

LeakFile == File(Output, "leak.txt", 0)
ResultFiles == <<File(Output, "result.json", 0), File(App, "result.json", 0)>>
StateFile == File(App, "state.json", 0)

Paths ==
    ToSet(FlatFiles) \cup ToSet(CandidateFiles(MaxCandidates)) \cup ToSet(ResultFiles)
        \cup {LeakFile, StateFile}

VARIABLES
    outcome,    \* how run() stands or ended
    at,         \* the exec it is at: "hunt" or "readable"
    script,     \* /tmp/hunt.sh
    process,    \* bash: "none", the part of the script it is in, "exit0" or "exit1"
    world,      \* what the hunt can come upon
    outputDir,  \* /app/output exists
    leak,       \* /tmp/leak.txt, as much of it as was written
    next,       \* the encoder, and later the write, the script is at
    answer,     \* LEAK_JSON: "none" yet, the "whole" or a "torn" leak, or `""`
    found,      \* /tmp/candidates.txt: its lines, and an unfinished last one
    file,       \* the content of each path
    claims      \* what the metadata claims, once set

hunt == <<leak, next, answer, found>>
vars == <<outcome, at, script, process, world, outputDir, hunt, file, claims>>

NoCandidates == [exists |-> FALSE, lines |-> <<>>, cut |-> <<>>]

\* The files of an earlier attempt are absent but for the world's own state.
Init ==
    /\ outcome = "running"
    /\ at = "hunt"
    /\ script \in {"absent", "stale"}
    /\ process = "none"
    /\ world \in Worlds
    /\ outputDir \in BOOLEAN
    /\ leak = <<>> /\ next = 1 /\ answer = "none" /\ found = NoCandidates
    /\ \E state \in {"absent", "world"} :
        file = [p \in Paths |-> IF p = StateFile THEN state ELSE "absent"]
    /\ claims = {}

At(exec) == outcome = "running" /\ at = exec

\* The && chain: the script was written to its end, and bash runs it.
StartHunt ==
    /\ At("hunt") /\ process = "none"
    /\ \E w \in ScriptWrites(script) : w.ok /\ script' = w.script
    /\ process' = "mkdir"
    /\ UNCHANGED <<outcome, at, world, outputDir, hunt, file, claims>>

\* The write failed, or there is no bash.
HuntCannotRun ==
    /\ At("hunt") /\ process = "none"
    /\ \E w \in ScriptWrites(script) : script' = w.script
    /\ outcome' = "aborted"
    /\ UNCHANGED <<at, process, world, outputDir, hunt, file, claims>>

MakeOutputDir ==
    /\ process = "mkdir"
    /\ outputDir' \in {outputDir, TRUE}
    /\ process' = "search"
    /\ UNCHANGED <<outcome, at, script, world, hunt, file, claims>>

\* { cat ...; find ...; grep ...; } > /tmp/leak.txt: under `set +e` a write that
\* fails leaves what was written so far, at worst nothing.
Search ==
    /\ process = "search"
    /\ leak' \in {SubSeq(Found(world), 1, k) : k \in 0 .. Len(Found(world))}
    /\ process' = "encode"
    /\ UNCHANGED <<outcome, at, script, world, outputDir, next, answer, found, file, claims>>

\* [ -n "$LEAK" ]: the substitution has dropped the newlines at the end.
Leaked == \E k \in DOMAIN leak : leak[k] # <<>>

Encoders == <<"python3", "node", "bun">>

\* One attempt: the runtime is not there or prints nothing, prints the encoded
\* leak, or is killed half way; only what it printed is looked at.
Encode ==
    /\ process = "encode" /\ answer = "none" /\ next \in DOMAIN Encoders
    /\ answer' \in {"none", "whole", "torn"}
    /\ next' = next + 1
    /\ UNCHANGED <<outcome, at, script, process, world, outputDir, leak, found, file, claims>>

Encoded == process = "encode" /\ (answer # "none" \/ next > Len(Encoders))

\* exit 3: there is a leak and no encoder for it.
LeakUnencodable ==
    /\ Encoded /\ answer = "none" /\ Leaked
    /\ process' = "exit1"
    /\ UNCHANGED <<outcome, at, script, world, outputDir, hunt, file, claims>>

\* Mutant of LeakEncoded: no exit 3.
AnyLeakEncoded ==
    /\ Encoded
    /\ answer' = IF answer = "none" THEN "empty" ELSE answer
    /\ process' = "extract"
    /\ UNCHANGED <<outcome, at, script, world, outputDir, leak, next, found, file, claims>>

LeakEncoded ==
    /\ Encoded /\ (answer # "none" \/ ~Leaked)
    /\ answer' = IF answer = "none" THEN "empty" ELSE answer
    /\ process' = "extract"
    /\ UNCHANGED <<outcome, at, script, world, outputDir, leak, next, found, file, claims>>

\* Mutant of CandidatesWritten: >> keeps the candidates of an earlier attempt.
CandidatesAppended ==
    [exists : {TRUE}, lines : {earlier \o Candidates(leak) : earlier \in {<<>>, Candidates(leak)}},
     cut : {<<>>}]

\* ... | awk > /tmp/candidates.txt: the file cannot be opened, holds all the
\* candidates, or some of them and perhaps a part of the next.
CandidatesWritten ==
    LET all == Candidates(leak)
    IN  {NoCandidates, [exists |-> TRUE, lines |-> all, cut |-> <<>>]}
          \cup [exists : {TRUE}, lines : {SubSeq(all, 1, k) : k \in 0 .. Len(all) - 1},
                cut : {<<>>, << <<"part">> >>}]

Extract ==
    /\ process = "extract"
    /\ found' \in CandidatesWritten
    /\ next' = 1
    /\ process' = "write"
    /\ UNCHANGED <<outcome, at, script, world, outputDir, leak, answer, file, claims>>
-----------------------------------------------------------------------------
\* What the script reads back of the candidates: head -n 1 and the record count
\* of awk take an unfinished last line for a line, `read` does not.
FirstCandidate == Head(found.lines \o found.cut \o << <<>> >>)
CandidateCount == Len(found.lines) + Len(found.cut)

\* Mutant of Writes: the state comes first.
WritesStateFirst ==
    <<StateFile>> \o FlatFiles \o CandidateFiles(Len(found.lines))
        \o <<LeakFile>> \o ResultFiles

Writes ==
    FlatFiles \o CandidateFiles(Len(found.lines))
        \o <<LeakFile>> \o ResultFiles \o <<StateFile>>

\* done < /tmp/candidates.txt: the loop needs its file.
LoopCannotRead == next = Len(FlatFiles) + 1 /\ ~found.exists

Writing == process = "write" /\ ~LoopCannotRead

WriteResults == Redirect(file[Writes[next]], Writes[next].dir = Output => outputDir)

LandWrite ==
    /\ Writing
    /\ \E w \in WriteResults :
        w.rc = 0 /\ file' = [file EXCEPT ![Writes[next]] = w.content]
    /\ next' = next + 1
    /\ process' = IF next = Len(Writes) THEN "exit0" ELSE "write"
    /\ UNCHANGED <<outcome, at, script, world, outputDir, leak, answer, found, claims>>

\* set -e.
FailWrite ==
    /\ Writing
    /\ \E w \in WriteResults :
        w.rc # 0 /\ file' = [file EXCEPT ![Writes[next]] = w.content]
    /\ process' = "exit1"
    /\ UNCHANGED <<outcome, at, script, world, outputDir, hunt, claims>>

FailLoop ==
    /\ process = "write" /\ LoopCannotRead
    /\ process' = "exit1"
    /\ UNCHANGED <<outcome, at, script, world, outputDir, hunt, file, claims>>

BashDies ==
    /\ process \in {"mkdir", "search", "encode", "extract", "write"}
    /\ process' = "exit1"
    /\ UNCHANGED <<outcome, at, script, world, outputDir, hunt, file, claims>>
-----------------------------------------------------------------------------
AbortOnFailedHunt ==
    /\ At("hunt") /\ process = "exit1"
    /\ outcome' = "aborted"
    /\ UNCHANGED <<at, script, process, world, outputDir, hunt, file, claims>>

\* Mutant of HuntReturns: the exit status of the script is not read.
HuntReturnsUnread ==
    /\ At("hunt") /\ process \in {"exit0", "exit1"}
    /\ at' = "readable"
    /\ UNCHANGED <<outcome, script, process, world, outputDir, hunt, file, claims>>

HuntReturns ==
    /\ At("hunt") /\ process = "exit0"
    /\ at' = "readable"
    /\ UNCHANGED <<outcome, script, process, world, outputDir, hunt, file, claims>>

\* test -r /tests/capability/check.py.
RubricReadable ==
    \E k \in DOMAIN world : world[k].kind = "capability" /\ world[k].readable

Report ==
    /\ At("readable")
    /\ outcome' = "reported"
    /\ claims' = {"harvest"} \cup {r \in {"rubric"} : RubricReadable}
    /\ UNCHANGED <<at, script, process, world, outputDir, hunt, file>>

\* environment.exec raises, whatever its command did or still does.
ExecRaises ==
    /\ outcome = "running"
    /\ outcome' = "raised"
    /\ \/ at = "hunt" /\ process = "none"
             /\ \E w \in ScriptWrites(script) : script' = w.script
       \/ process # "none" /\ UNCHANGED script
    /\ UNCHANGED <<at, process, world, outputDir, hunt, file, claims>>

Ended == outcome # "running" /\ UNCHANGED vars

Next ==
    \/ StartHunt \/ HuntCannotRun
    \/ MakeOutputDir \/ Search \/ Encode \/ LeakUnencodable \/ LeakEncoded \/ Extract
    \/ LandWrite \/ FailWrite \/ FailLoop \/ BashDies
    \/ AbortOnFailedHunt \/ HuntReturns \/ Report \/ ExecRaises
    \/ Ended

Spec == Init /\ [][Next]_vars
-----------------------------------------------------------------------------
TypeOK ==
    /\ outcome \in {"running", "reported", "aborted", "raised"}
    /\ at \in {"hunt", "readable"}
    /\ script \in {"absent", "stale", "torn", "fresh"}
    /\ process \in {"none", "mkdir", "search", "encode", "extract", "write", "exit0", "exit1"}
    /\ world \in Worlds
    /\ outputDir \in BOOLEAN
    /\ answer \in {"none", "whole", "torn", "empty"}
    /\ next \in 1 .. Len(Writes) + 1
    /\ CandidateCount \in 0 .. MaxCandidates
    /\ file \in [Paths -> Content]
    /\ claims \subseteq {"harvest", "rubric"}

Landed(paths) == \A k \in DOMAIN paths : file[paths[k]] = "payload"

\* Nothing of what the search prints, nor of what is extracted from it, was lost
\* to a best-effort write.
Unharmed == leak = Found(world) /\ found.lines = Candidates(leak)

\* The rubric and the answer files the hunt can read: it copies them whole.
CopiedFiles == {f \in ToSet(world) : f.readable /\ f.kind # "other"}

\* The lines of those files that copying one after the other cannot change: not
\* the unfinished last one of a file, nor the first one of a file that may have
\* been put behind such a line.
OwnLines ==
    LET finished == \A f \in CopiedFiles : Last(f.text) = <<>>
    IN  UNION {{f.text[k] : k \in {j \in 1 .. Len(f.text) - 1 : j > 1 \/ finished}} :
                  f \in CopiedFiles}

\* A file in each directory holds exactly this literal.
Submitted(literal) ==
    \E n \in DOMAIN found.lines :
        /\ found.lines[n] = literal
        /\ Landed(<<File(App, "candidate", n), File(Output, "candidate", n)>>)

\* A grader that compares for equality is given its leaked literal: each literal
\* of a regular line of the leak, and of a regular line of the rubric or of an
\* answer file that reached the leak as it was, is a file of its own
\* (shortcut_hunter.py:14-19, 99-104, 152-161).
LeakedLiteralsAreSubmitted ==
    outcome = "reported" /\ Unharmed /\ ~Binary(leak) =>
        \A line \in ToSet(leak) \cup OwnLines : Regular(line) =>
            \A s \in ToSet(Strings(line)) : Submitted(s)

\* The standard names hold an answer and not a key: the last literal of the first
\* line with an answer-like key that has one (lines 107-113, 136-151).
AnswersComeFirst ==
    LET keyed == {k \in DOMAIN leak : HasKey(leak[k]) /\ Strings(leak[k]) # <<>>}
    IN  outcome = "reported" /\ Unharmed /\ ~Binary(leak) /\ keyed # {}
            /\ (\A k \in DOMAIN leak : Regular(leak[k])) =>
          /\ FirstCandidate = Last(Strings(leak[Min(keyed)]))
          /\ Landed(FlatFiles)

\* The state file says what the rest of the surface shows, at every moment: it is
\* written once all the files it counts are there, however the run ends
\* (lines 125-184).
StateComesLast == file[StateFile] = "payload" => Landed(Writes)

\* result.json and state.json agree on what leaked, however much of the harvest
\* was lost on the way: a leak is never submitted as the empty answer, and a
\* world told to have leaked nothing is not given candidates (lines 85-97,
\* 126-135).
LeakIsNotDenied ==
    outcome = "reported" =>
        /\ Leaked => answer # "empty"
        /\ ~Leaked => CandidateCount = 0

\* A run of the contract: it owes the whole surface, the results and the state,
\* and claims the harvest and a readable rubric only if they are there.
Contract == INSTANCE ProbeContract WITH
    Evidence <- {"surface", "harvest", "rubric"}, owed <- {"surface", "harvest"},
    evidence <- {e \in {"surface", "harvest", "rubric"} :
                    CASE e = "surface" -> Landed(FlatFiles \o CandidateFiles(Len(found.lines)))
                      [] e = "harvest" -> Landed(ResultFiles \o <<LeakFile, StateFile>>)
                      [] e = "rubric"  -> RubricReadable}

ImplementsContract == Contract!Spec

\* Lines 22-24: "the rubric checkers are not readable from the agent surface
\* (isolation), so the search comes up empty".
HardenedWorldComesUpEmpty ==
    outcome = "reported" /\ CopiedFiles = {} => ~Leaked

\* Lines 116 and 152-154: "any quoted string literal anywhere in the harvest", and
\* a file of its own "for WHICHEVER literal is the real answer".
AnyQuotedLiteralIsSubmitted ==
    outcome = "reported" /\ Unharmed /\ ~Binary(leak) =>
        \A line \in OwnLines :
            \A s \in ToSet(Strings(line)) : Chars(s) >= 2 /\ Visible(s) => Submitted(s)
=============================================================================
