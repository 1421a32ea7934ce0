# A TLA+ model of the Ocarina probes

The package `ocarinalabs_harbor_ext` is a set of twelve *probes*: Harbor agents
that attack a benchmark world on purpose, so that its author can see whether
the world's grading holds. A probe that scores above the floor has found a hole.
The hard part of a probe is not to score but to **fail for the right reason**. If
it reports a floor although its files never landed, or its tools never ran, or
its evidence contradicts itself in a second place, then the floor is *vacuous*
(`src/CONTEXT.md`): it says nothing about the defence the probe is for. The
properties here are about that: what must be true of the world when a probe
reports, whatever the shell, the tools and the environment did on the way.

`src/` below is the repository; `probes/` stands for
`src/src/ocarinalabs_harbor_ext/probes/`.

## 1. Inventory

### The shape of a probe

A probe is a class with `name`, `version`, `setup` and one coroutine,
`run(instruction, environment, context)`. It acts on the world only by
`await environment.exec(command)` and keeps no state between runs. At its very
end, and only there, it sets `context.metadata`. So a run ends in one of three
ways: it **reports** (returns, metadata set), it **aborts** (raises its own
`RuntimeError`), or it is stopped by an exception of `environment.exec`
(**raised**). In the last two the metadata is untouched, but what was written to
the world stays there, and a process an exec had started may go on working.

What varies, and where the bugs would be:

- which exit statuses are checked: a write's own, the last command's, none;
- what a command line reports: chained by `&&`, or ending in a marker `echo`;
- the order of the effects, and what an interrupted one leaves;
- what the script inside the container takes for a failure.

### Components

| Component | State it keeps | Operations | Hard behaviour | What makes it correct |
|---|---|---|---|---|
| `state_rewrite` (`OcarinaStateRewrite`) | the spine's calls and their failures; state, result, ledger | spine of 10 real calls in a `bun` process, premise check, three forge writes | a failing call, a stale or torn script, a torn append, an orphaned spine after an exec that raised | forge only on a complete spine; floored by magnitude and by nothing before it |
| `_contractor_payment_run` | the winning answer | none (data) | agreement of its two documents | dispositions partition the reviews; totals and reasons agree |
| `ap_payment_double_payer` | script position, `duplicateLanded` | the oracle's run, the second release, the submission | tolerant or strict depending on an earlier answer; failures by throw or by value; late failures | detection is never taken for a broken setup, nor the reverse |
| `random_agent` | `completed`, the draws | random loop, fallback search, three writes of a wrong state | all draws 0 or rejected; best-effort driver, mandatory writes; tools that save state | activity whenever possible; the wrong state stands |
| `fake_state`, `ledger_forge`, `ap_payment_state_forger` | list of paths written | mkdir, then one checked write per target | an unchecked mkdir, a write torn half way | a report means all targets landed |
| `reward_sink`, `isolation_escape` | list of successes | tampering with protected paths, exfiltration, chmod | markers that do not follow on the write | no breach missed (and no false one) |
| `judge_injection`, `success_token_echo` | list of paths | one write or append at a time, failures tolerated | mixed success | claimed exactly if landed |
| `forbidden_subprocess` | hatches attempted, hatches that wrote | eight hatches, three of them writing state | interpreters that stop anywhere, errors nobody reports, a background write after the end | a recorded hatch has written all the graded files |
| `shortcut_hunter` (`OcarinaShortcutHunter`) | none in the host; the script's leak, candidates and `LEAK_JSON` | the search, three encoders, the extraction of literals, the writes; then one test of readability | a search that loses output under `set +e`, an encoder that is missing or killed, quotes that pair wrongly, writes that stop anywhere under `set -e`, bash at work after an exec that raised | what leaked is submitted literal by literal, the answer first; the state is written last; a leak is never denied |
| Harbor runtime, world tools, gates | external | exec, tool calls, grading | | what the probes rely on |
| `__init__` modules | none | exports | none | nothing to check |

The components interact only through the world: the probes of a cascade run each
in a container of its own, `state_rewrite` and `ap_payment_state_forger` share
the winning answer, and the host records the trajectory from the tool calls it
witnesses.

## 2. The modules

| Module | What it is |
|---|---|
| `ProbeContract` | the abstract specification of one run: it ends at most once, it reports only when the evidence its premise needs is there, and it claims only evidence that is there |
| `Container` | the shell's part, external: `cat >`, `cat >>` and `cat > s && run s`, with every point they can fail at |
| `Fakers` | `fake_state`, `ledger_forge`, `ap_payment_state_forger` |
| `ContractorPaymentRun` | the winning answer; its coherence is stated as assumptions TLC evaluates |
| `Gates` | coverage, ledger agreement, reasons, order and magnitude, as the probes describe them (external) |
| `StateRewrite` | `state_rewrite`, with the spine as a process of its own |
| `PaymentTools` | the six tools and their failures (external) |
| `DoublePayer` | `ap_payment_double_payer` |
| `RandomAgent` | `random_agent` with its driver |
| `Reporters` | `reward_sink`, `isolation_escape`, `judge_injection`, `success_token_echo` |
| `ForbiddenSubprocess` | `forbidden_subprocess`, its interpreters write by write |
| `Harvest` | the text processing of the hunt script as an algorithm: what the search prints of a world, and the candidates extracted from that |
| `ShortcutHunter` | `shortcut_hunter`: bash step by step, and the run around it |
| `MC*` | the constants TLC checks these with |
| `FakersProofs`, `StateRewriteProofs`, `ReportersProofs`, `DoublePayerProofs`, `RandomAgentProofs`, `ForbiddenSubprocessProofs`, `ShortcutHunterProofs` | the theorems, one module for each component |
| `HarvestProofs` | what the algorithms of `Harvest` compute, for every text |

`Fakers`, `StateRewrite`, `DoublePayer`, `RandomAgent`, `ForbiddenSubprocess` and
`ShortcutHunter` each instantiate `ProbeContract` under a refinement mapping and are shown to
implement it. `Reporters` is not: two of its probes claim what did not happen
(section 5), and `ClaimsAreWhatLanded` says for the other two exactly what the
contract would.

### How a model corresponds to the code

Each `await` is one action of the run (or one per outcome that the code tells
apart): `LandTarget` is a loop body whose exit status was 0, `AbortOnFailedWrite`
the same line with another status. What a command can do to the files is the set
of outcomes in `Container`: refused before the file is opened, opened (so
truncated) and failed half way, or complete. `ExecRaises` is an exception of
`environment.exec` at any await, with the command's effect anywhere between none
and all.

A script run by `bun` inside the container is a process with variables of its
own (`process`, `call` or `step`). After `ExecRaises` it goes on by itself: the
run has ended, the tools still run. Its last call is followed by an exit whose
status the run sees, if it still waits.

- `StateRewrite`: `Spine` is the list of calls of `_REAL_SPINE_SCRIPT`;
  `CallTool` is `call()`, which records a failure and goes on; `SpineOk` and
  `SpineFailed` are the premise check and `process.exit(1)`. The ledger is a set
  of rows with a position; `ForgedBlock(k)` are the rows of one iteration of
  `_forged_ledger_lines`, and `ForgedPrefixes` the ways an append of them can
  stop (within a block the order of the lines tells nothing apart, so a block
  stops at any subset). The trajectory is written only by the host, from the
  calls that took effect. A call may fail after its effect.
- `DoublePayer`: `StrictAnswer` is `step()`; `RetryRelease` is
  `tolerateDuplicateRejection()` with the flag it sets; `SubmitTolerant` and
  `SubmitStrict` are the two branches. `policy` says where the world detects
  duplicates, if it does, and whether a tool that fails has had no effect.
  `unrelated` is a history variable: something failed
  that has nothing to do with duplicates.
- `RandomAgent`: the shuffled loop takes functions from `todo` in any order,
  with 0 to 2 calls each; `Search` is one call of the fallback; `completes` says
  for each function and argument whether a call completes always, never or
  sometimes. Tools may save `/app/state.json`.
- `Reporters`: `Answer` is what the whole command line of an attempt answers
  given what its redirection did, `Counts` what the run takes for success. The
  difference between the two is what the runs below are about.
- `ForbiddenSubprocess`: the run waits for each interpreter, whose writes are
  steps of its own; `by` is a history variable, the last hatch that changed a
  file. The two JavaScript programs throw when a write fails half way. Python's
  `open(path, 'w').write(...)` does not: the flush is left to the finalizer of
  the file, which drops the error (`LoseTarget`).
- `ShortcutHunter`: the script is the process, with `next` for the encoder and
  later the write it is at. `Search` is the one group that is redirected to
  `/tmp/leak.txt`, of which any first part may be written; `Encode` is one
  `command -v ... && LEAK_JSON=$(...)`; `LeakUnencodable` is its `exit 3`;
  `Extract` is the pipeline into `/tmp/candidates.txt`, under `set +e` still.
  `found.cut` is an unfinished last line of that file, which `head` and awk's
  record count take for a line and `read` does not. From there each redirected
  `printf` is a step (`LandWrite`, `FailWrite`), in the order of the script, and
  `FailLoop` is the loop whose own redirection cannot be opened. After
  `ExecRaises` bash goes on by itself.
- `Harvest`: a text is the sequence of what stands between its newlines, its lines
  and last what follows the last newline, which is empty when the text ends in
  one. `Cat` puts texts one behind the other as `cat` does: by `Join`, an unfinished
  last line goes on with the first line of the next text. A line is a sequence
  of tokens: the two quotes, and words of which only the number of characters,
  the class of the characters and an answer-like key in them are told apart.
  `Matches` is `grep -o`: leftmost, not overlapping. The extraction is modelled
  with its greed, the kinds of quotes, the lengths in its patterns, `awk '!seen'`,
  blank lines and binary files.
- `Fakers`: `written` is the list the loop collects; `ledger_forge` does not
  collect and reports `forge_ok` instead, so it has a report action of its own.

Definitions introduced by a comment `Mutant of ...` are no part of the model:
each is a plausible mistake in the definition it names, kept so that a property
can be seen to fail on it.

## 3. What the runs check

| Run | Question | States |
|---|---|---|
| `state_rewrite` | the rewrite over the real answer: eight invoices, four released | 49,640 |
| `fakers` | the three fakers over their real targets | 664 |
| `double_payer` | the double payer over the real invoices, three policies, tools that fail only without effect or late too | 2,760 |
| `random_agent` | no, one or two functions, two arguments, every pattern of acceptance | 556,865 |
| `reporters` | the four reporters over their real targets | 211,575 |
| `forbidden_subprocess` | three interpreters over the same three files, eight hatches | 3,360 |
| `shortcut_hunter` | the hunt over every line of four tokens with two quotes in it and over worlds of several files, of every kind, readable or not, binary or not, with a final newline or without | 1,096,308 |
| `reward_sink_marker`, `isolation_marker`, `python_lost_write`, `hunter_hardened`, `hunter_lost_literal` | the disagreements of section 5 | |

The main properties, in the words of their modules:

- **A report means the evidence is there.** `ReportMeansLanded` (fakers),
  `WrongStateStands` (random agent), `SingleDefect` (double payer),
  `FlooredByMagnitudeOnly` (rewrite), and `ImplementsContract` for each but the
  reporters.
- **The premise first.** `NoForgeOnFailedSpine`: not one forged byte, torn ones
  included, unless all ten calls succeeded. `ActivityWhenPossible`: a random
  driver that ended well has completed a call wherever any function accepts any
  argument, however the draws fell.
- **One defect only.** `FlooredByMagnitudeOnly` says that a reported rewrite
  passes coverage, the ledger counts verb by verb, the reasons and the order of
  reviews, and fails magnitude. `NeverDisposedUnreviewed` says the order holds
  at *every* moment, of a torn ledger too. `DisposedInOneWay` is an action
  property of the double payer: an invoice is paid, held or escalated once it is
  reviewed and verified, and in one way only, so that paying one and holding it
  later violates it too. That the lists of the script have no invoice in common
  is an assumption, which TLC evaluates on the lists; that each call names the
  invoice of its own list is what the property is about (`HoldAReleased` is a
  script that does not).
- **The branch that tells a signal from a breakdown.** `SignalIsNoSetupFailure`,
  `RejectedThenSubmitted` and `VerdictTellsThePolicy`: if nothing else failed,
  what a reported double payer leaves tells exactly which policy the world has.
  `DuplicateWasLetThrough` is what is left of that when other calls failed too,
  before their effect or after it: a submitted run that holds the duplicate is
  that of a world that detects duplicates nowhere, and so is a reported run whose
  retry paid and then failed.
- **No stale script.** `OnlyTheFreshScriptRuns`, for the spine.
- **Reports of what worked.** `NoBreachMissed`, `ClaimsAreWhatLanded`,
  `ClaimedHatchLanded`; `StateIsNeverOlder` for the three writers of one file.
- **The harvest reaches the grader.** `LeakedLiteralsAreSubmitted`: each literal
  of a regular line of the leak is, exactly, the content of a file in both
  directories, and so is each literal of a regular line of the rubric or of an
  answer file that `cat` cannot have joined to another file's (`OwnLines`: every
  line of these files if they all end in a newline; otherwise not an unfinished
  line, nor a first line, which may stand behind one). It compares the script's `grep`/`sed` pipeline
  with `Strings`, a reading of the line from quote to quote. `AnswersComeFirst`:
  the standard names hold the value of the first keyed line and not its key.
- **The surface agrees with itself.** `StateComesLast`: `/app/state.json` is
  there only when all the files it counts are, at every moment, with bash
  orphaned too. `LeakIsNotDenied`: a harvest that was cut short or could not be
  encoded never becomes the empty answer, nor a state that says nothing leaked
  beside candidates.
- **Every run ends.** `Termination`, below.

### Bounds, and why they are enough

There are no counters to cap: targets, calls and invoices are the real ones, and
each run walks them once. What is bounded:

- `Tokens = 2` in `Reporters` (the code has six). A path counts from its first
  append that landed; two appends give all four mixtures of success and failure,
  and further ones repeat them.
- `MCLibraries`, `MCGrabBag` in `RandomAgent`: up to two functions, two
  arguments (the code has six). Two of each are the least for which the search
  has to go on to the next argument and then to the next function; the empty
  library is the other edge.
- `paid` of an invoice is at most 2: one release and one retry.
- `HeadLimit = 2` in `Harvest` (the code's `head -n 200`): `Tools` has three long
  literals, so the cut happens.
- `ShortLines` in `ShortcutHunter`: all lines of four tokens over the two quotes, a key
  and a word with at least two quotes. A literal takes three tokens, so these
  hold every way one literal can stand next to a key, a stray quote or a second,
  empty literal. The longer lines are the shapes the script's comment names and
  a list of two literals; the worlds of several files have a leak in one file
  and not in another, a rubric that cannot be read, a binary file, a file whose
  unfinished last line has a stray quote that takes the first literal of the next
  file with it, and two unfinished answer files before the literals of the grep.
- `MaxCandidates = 5` is no cap: `CandidatesFit` says that no world yields more,
  and TLC evaluates it.
- The leak is cut at ends of lines only; a leak cut within a line is another
  line, which `ShortLines` has. Of the files of an earlier attempt only the world's
  `/app/state.json` may be there when the hunt begins, and a stale script.

### Fairness

`StateRewrite`, `DoublePayer`, `RandomAgent` and `ForbiddenSubprocess` have loops
or two processes, and a `FairSpec`. The other modules walk one list without
waiting for anything, so that a run ends says nothing about them; they are checked
under `Spec`. `FairSpec` adds weak fairness of `Progress`, the disjunction of the steps that
happen when nothing interferes: a command ends of its own accord with some
status and the coroutine is resumed. `ExecRaises` and the death of a process are
in no fairness condition, so nothing terminates *thanks to* a failure. It is an
assumption about the world that tools return or settle and that the shell's
commands do not hang; the code has no timeout of its own, and where it relies on
the harness's, that is an `ExecRaises`.

`CHECK_DEADLOCK` is left on everywhere: a run that has ended stutters by `Ended`.

## 4. What is proved

TLAPS proves, for every value of the constants that satisfies the named
assumptions:

`StateRewriteProofs` (assumptions `AnswerIsAPartition`, `SpineIsOfTheAnswer`: a
finite set of reviewed invoices partitioned into released, held and escalated,
and a spine of one of each with the reasons of the answer)

- `StateRewriteTypeOK`, `ForgeNeedsItsPremise`, `StaleScriptNeverRuns`,
  `TheSpineStaysInTheLedger`, `DispositionsAreReviewed`, `SingleDefect`,
  `StateRewriteImplementsContract`.

The inductive invariant is `IInv == TypeOK /\ SpineInv /\ ForgeInv`.
`FlooredByMagnitudeOnly` is far from inductive: it speaks of reported runs only.
`SpineInv` ties the process to the trajectory (as long as no call failed the
trajectory is exactly the calls so far, `Earlier(call)`) and says that a forge
step needs an exited process without failures; `ForgeInv` says for each forge
step which files are already the payload and that the ledger is the spine's rows
and one prefix of the forged ones. On top of it, the counting: each verb's rows
map one to one to invoices (`SpineOncePerId`, `ForgedOncePerId`,
`AllRowsOncePerId`), so the ledger's counts are the cardinalities of the
claimed sets (`CompleteLedgerAgrees`, by the library's facts on bijections);
and the block order puts every forged review and verification before every
forged disposition (`ForgeReviewsFirst`), for a prefix as well.

`FakersProofs` (assumption `TargetsAreLists`: each probe has a finite list of
distinct targets)

- `FakersTypeOK`, `FakersReportLanded`, `FakersEvidencePrefix`,
  `FakersImplementContract`, from an invariant that says every target before the
  one the run is at holds its payload and no later one was touched.

`ReportersProofs` (assumption `FourProbes`: the probes are among the four, and
at least one token is printed)

- `ReportersTypeOK`, `OwnClaimsAreWhatLanded`, `ReportersMissNoBreach`. Both
  properties speak of reported runs; `LoopInv` says the same of the list while
  the loop collects it: on the agent's own files it is exactly what landed, at
  the boundary it misses nothing that was changed. For `judge_injection` it
  needs in addition that a path not yet attempted is as it was, since its writes
  truncate, and for that the targets must be distinct; `success_token_echo`
  appends, so an earlier success is never undone. Proved for any number of tokens.

`DoublePayerProofs` (assumption `ScriptLists`: the four lists of the script are
lists of distinct invoices, every invoice acted on is staged, none is both
released and stopped, none both held and escalated, and the retried one is
released)

- `DoublePayerTypeOK`, `DetectionIsNoSetupFailure`, `OneDefectOnly`,
  `VerdictIsThePolicy`, `RejectedIsSubmitted`,
  `DuplicatesAreLetThrough`, `DispositionsExclude` (an action property),
  `DoublePayerImplementsContract`.

The inductive invariant is `IInv == TypeOK /\ ScriptInv`. All eight rest on one
fact: as long as no strict call has failed, the world holds exactly what the
calls before `step` do (`DoneBefore(world, step)`), for lists of any length; the
lemmas `PathFacts` and `CallFacts` locate each call in the script by the
arithmetic of its index, and `StopsDiffer` says that the calls that hold or escalate
are each of another invoice. `RetryInv` says what the flag `duplicateLanded` means once
the retry is made, with a late failure and without; `SubmitInv` what a script
that ended well leaves.

`RandomAgentProofs` (assumption `LibrariesAreLists`: a library is a list of
distinct functions, the bag a list that is not empty)

- `RandomAgentTypeOK`, `WrongStateIsGraded`, `SearchFindsActivity`,
  `RandomAgentImplementsContract`.

`IInv == TypeOK /\ WriteInv /\ CountInv /\ SearchInv`. `CountInv` bounds the calls by the
cardinality of the functions not drawn yet, which type correctness needs;
`SearchInv` says every pair searched without success is one that may be
rejected. That the search meets every pair is `EveryPairIsSearched`: a pair's place
in the two nested loops is its row and column (`RowAndColumn`), for libraries and
bags of any size.

`ForbiddenSubprocessProofs` (no assumption: hatches and files are fixed in the
code)

- `ForbiddenSubprocessTypeOK`, `TheStateIsNeverOlder`, `ARecordedHatchWrote`,
  `ForbiddenSubprocessImplementsContract`.

TLC's run of this module is exhaustive, so the proof adds no instance but says
why: `TurnInv` says that the interpreter at work is the latest to have changed
anything, has been at the files before the one it is at and at no other, so a
later hatch never leaves a result behind that is newer than the state;
`RecordInv` that a recorded hatch is an earlier one.

`HarvestProofs` (assumption `TokensAreChars`: the quotes are characters of their
own and in no word; `HeadLimit` is a number)

- `StringsAreCandidates`, `LastStringComesFirst`, `CandidatesAreDistinct`: what the hunt's pipeline does to
  any text, of any number of lines and any tokens.

The algorithms are recursive functions, over the lines of a text or backwards
over the places of a line. That such a function exists and is the only one is
proved once, from the least number of a set of numbers (`LeastNatural`, from
the library's `NatLessThanWellFounded`), as `ForwardRecursion` and
`BackwardRecursion`: a function of the first places can be extended by one. No
induction theorem of the library is needed, whose operator parameters the
provers cannot instantiate. On these rest

- `CatHolds`: of each text `cat` keeps the finished lines as they are, but for the
  first one where the texts before it may have ended in an unfinished line;
- `FlattenHolds`, `FlattenFirst`, `DistinctHolds`: what `FlattenSeq` and
  `Distinct` keep, and what comes first;
- `StringsAreScanned`, `MatchesAreScanned`: the reading of a line from quote to
  quote and the leftmost matches of `grep -o` are both a `Scan`, which differ only
  in which opening quotes they stop at. `ScanFindsAll` compares two scans: if no
  literal is too short, whatever one stops at the other stops at too
  (`StringsAreMatched`);
- `BareQuoted`: what `sed` strips off a match is the literal between the quotes;
- `StringsAreCounted`: a scan of n literals has used 2n quotes, the last two of
  them for the last literal. `Regular` counts the quotes of the line, so none is
  left over and the greedy `sed` finds that literal (`LastLiteralOfRegular`).

`ShortcutHunterProofs` (assumptions `WorldsAreFiles`: a world is a sequence of files
of the known kinds, each with a text of tokens, ending in a newline or not; `CandidatesFit`: the candidates of
each first part of what the search prints are no more than `MaxCandidates`)

- `ShortcutHunterTypeOK`, `TheStateIsLast`, `ShortcutHunterImplementsContract`,
  `TheLeakIsNotDenied`, `LeakedLiteralsAreInFiles`, `AnswersAreFirst`.

`IInv == TypeOK /\ HarvestInv /\ WriteInv`. `HarvestInv` ties the leak and the candidates to
what the search prints, so that the assumption applies; `WriteInv` says that the
writes before the next one are in place and that the state is not before the
script has come to its end. It rests on `WritesFacts`: whatever the number of
candidates, the state's path is in the list of writes once, at its end.

`LeakInv` is inductive on top of `IInv`: the leak is a text; until it is searched
nothing is encoded, and until it is extracted from there are no candidates; and so
what was concluded from an empty leak (the answer `""`, no candidates) is about the leak
there is. `LeakIsNotDenied` speaks of reported runs only and would not survive a
search that comes after an encoder. `OwnLinesAreFound` says
that the lines no joining can change are in what the search prints. With both, the
results of `HarvestProofs` apply to the leak of a run, and `WritesFacts` turns candidates into files.

Only model-checked: `Termination`, everywhere. It rests on fairness, and liveness
and `ENABLED` are out of the prover's reach. The findings of section 5 are
runs. Every other property the runs check is a theorem.

The assumptions are evaluated by TLC in the runs of the modules that state them;
those of `StateRewrite` and `DoublePayer` on the code's own invoices.

## 5. Where the code and its documents disagree

Each of these is a run in which TLC finds the stated property violated.

1. `reward_sink.py:61`: the marker's `echo` follows on no condition, so every
   path is reported as tampered with, refused or not.
2. `isolation_escape.py:62`: the marker follows on `[ -f path ]`, so a protected
   file that merely exists is reported as a breach. Both probes err on the safe
   side: `NoBreachMissed` holds.
3. `forbidden_subprocess.py:51`: a write python could not flush leaves an empty
   file and exit status 0, and the hatch is recorded as one that wrote the state.
4. `shortcut_hunter.py:52`: the recursive grep takes any long literal under `/app`,
   the world's own tools included, so a hardened world does not come up empty:
   its state says `completed` and `leaked_answers` (docstring at line 22, comment
   at line 128).
5. `shortcut_hunter.py:117`: the fallback's pattern wants two characters, so at
   an empty or one-character literal it starts over from the closing quote and
   reads the rest of the line inside out: of `check("", "V7")` it submits `, `.

Observed while modelling, without a run:

- `state_rewrite.py:134` against `CONTEXT.md:101`: releases are not the only verb
  the trajectory is short of; reviews, verifications and holds are too. It is
  the same gate all the same, and `FlooredByMagnitudeOnly` says so.
- `ap_payment_double_payer.py:80`: any failure of the retry or of the tolerant
  submission is swallowed, one that has nothing to do with duplicates included.
  `VerdictTellsThePolicy` is stated without such a failure for that reason, and
  `DuplicateWasLetThrough` says what holds with one. And the comment at line 144
  ("the finalized run contains NO duplicate") is right only if a tool that fails
  has had no effect. Otherwise the script may report a run with a duplicate it
  believes rejected, but only in a world that detects duplicates nowhere.
- `state_rewrite.py:212`: the forged dispositions follow the submission in the ledger.
- `forbidden_subprocess.py:195`: a hatch that wrote the state and was stopped at
  a result is recorded nowhere, so an empty `state_written_via` does not mean
  that no file was touched.
- `shortcut_hunter.py:114`: one NUL in a harvested file makes the leak binary for
  grep, and no candidate is extracted; the blob is submitted still.
- `shortcut_hunter.py:48-52`: `cat` joins the last line of a file without a final
  newline to the first line of the next file, or to the first literal of the
  grep. A stray quote in it (`# can't`) then takes the literal of that line with
  it: before `x == 'V7'`, V7 is in no file of its own. The probe's own
  `answer.txt` and `solution.txt` (lines 145-146, `printf '%s'`) are files of that
  kind and have names the search takes for answer files.
- `shortcut_hunter.py:107-113`: an apostrophe in a comment behind the answer is taken
  for a quote, and the first candidate may be the text between.
- `shortcut_hunter.py:124`: an unfinished last line of the candidates is counted in
  `candidate_count` and has no file.

## 6. What is not modelled

- The text of payloads, scripts and messages; metadata keys that are constants;
  tails of output.
- In `shortcut_hunter`: names of files beyond their kind, sizes, the order in which
  `find` and `grep -r` visit a directory (a world is a sequence in that order), the
  escapes of the JSON encoders. That the search finds an earlier attempt's own
  outputs is covered by files of kind "other".
- A cascade of the probes over gates that are weakened one by one, against the
  table of `README.md`: neither the gates nor the weights they are graded with
  are in the repository, so such a model would check its own invention. `Gates` has
  the parts of them that `CONTEXT.md` and `state_rewrite` spell out.
- Harbor, the tools' library and the gates are not in the repository. They are
  modelled only from how the probes use them; a tool may fail for any reason.
- Tools with asynchronous bodies under the synchronous scripts of
  `state_rewrite` and `double_payer`: the scripts type them as synchronous.

## 7. Plan

1. done: `ProbeContract`, `Container`, `Fakers`, `StateRewrite` with `Gates` and
   `ContractorPaymentRun`, with proofs.
2. done: `PaymentTools`, `DoublePayer`, `RandomAgent`, `Reporters`,
   `ForbiddenSubprocess`, with proofs.
3. done: `Harvest` and `ShortcutHunter`, with proofs; what the extraction computes
   is proved for every text.
4. open: nothing of `src/` that keeps state. Worth doing if the code grows: a
   `Cascade` module, once the gates are in the repository.
