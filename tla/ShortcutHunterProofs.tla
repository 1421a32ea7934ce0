------------------------- MODULE ShortcutHunterProofs -------------------------
(***************************************************************************)
(* The order of the writes of the hunt, and what its files say of the leak,*)
(* for every family of worlds and every number of candidates.              *)
(***************************************************************************)
EXTENDS ShortcutHunter, HarvestProofs

\* The files but the state.
Surface == Paths \ {StateFile}

LEMMA FlatFacts == FlatFiles \in Seq(Surface) /\ Len(FlatFiles) = 12
  <1>1. Len(FlatNames) = 6
    BY DEF FlatNames
  <1>2. DOMAIN FlatFiles = 1 .. 12 /\ Len(FlatFiles) = 12
    BY <1>1 DEF FlatFiles
  <1>3. \A k \in 1 .. 12 : FlatFiles[k] \in Surface
    <2> TAKE k \in 1 .. 12
    <2>1. FlatFiles[k] \in Paths
      BY <1>2 DEF Paths, ToSet
    <2>2. FlatFiles[k].name = FlatNames[(k + 1) \div 2] /\ (k + 1) \div 2 \in 1 .. 6
      BY <1>1 DEF FlatFiles, File
    <2>3. \A j \in 1 .. 6 : FlatNames[j] # "state.json"
      BY DEF FlatNames
    <2>4. StateFile.name = "state.json"
      BY DEF StateFile, File
    <2> QED
      BY <2>1, <2>2, <2>3, <2>4 DEF Surface
  <1>4. FlatFiles = [k \in 1 .. 12 |-> FlatFiles[k]]
    BY <1>1 DEF FlatFiles
  <1> QED
    BY <1>2, <1>3, <1>4

LEMMA CandidateFilesFacts ==
    ASSUME NEW n \in 0 .. MaxCandidates
    PROVE  CandidateFiles(n) \in Seq(Surface) /\ Len(CandidateFiles(n)) = 2 * n
  <1>0. MaxCandidates \in Nat /\ n \in Nat
    BY CandidatesFit
  <1>1. DOMAIN CandidateFiles(n) = 1 .. 2 * n /\ Len(CandidateFiles(n)) = 2 * n
    BY <1>0 DEF CandidateFiles
  <1>2. \A k \in 1 .. 2 * n : CandidateFiles(n)[k] \in Surface
    <2> TAKE k \in 1 .. 2 * n
    <2>1. k \in 1 .. 2 * MaxCandidates
      BY <1>0
    <2>2. CandidateFiles(n)[k] = CandidateFiles(MaxCandidates)[k]
      BY <2>1 DEF CandidateFiles
    <2>3. k \in DOMAIN CandidateFiles(MaxCandidates)
      BY <2>1 DEF CandidateFiles
    <2>4. CandidateFiles(MaxCandidates)[k] \in Paths
      BY <2>3 DEF Paths, ToSet
    <2>5. CandidateFiles(n)[k].name = "candidate" /\ StateFile.name = "state.json"
      BY DEF CandidateFiles, File, StateFile
    <2> QED
      BY <2>2, <2>4, <2>5 DEF Surface
  <1>3. CandidateFiles(n) = [k \in 1 .. 2 * n |-> CandidateFiles(n)[k]]
    BY DEF CandidateFiles
  <1> QED
    BY <1>0, <1>1, <1>2, <1>3

LEMMA LastFacts ==
    /\ <<LeakFile>> \in Seq(Surface) /\ ResultFiles \in Seq(Surface)
    /\ Len(<<LeakFile>>) = 1 /\ Len(ResultFiles) = 2
    /\ StateFile \in Paths /\ <<StateFile>> \in Seq(Paths) /\ Len(<<StateFile>>) = 1
  <1>1. LeakFile.name = "leak.txt" /\ StateFile.name = "state.json"
    BY DEF LeakFile, StateFile, File
  <1>2. LeakFile \in Surface /\ StateFile \in Paths
    BY <1>1 DEF Surface, Paths
  <1>3. Len(ResultFiles) = 2 /\ DOMAIN ResultFiles = 1 .. 2
    BY DEF ResultFiles
  <1>4. ResultFiles[1] \in Surface /\ ResultFiles[2] \in Surface
    <2>1. ResultFiles[1] \in Paths /\ ResultFiles[2] \in Paths
      BY <1>3 DEF Paths, ToSet
    <2>2. ResultFiles[1].name = "result.json" /\ ResultFiles[2].name = "result.json"
      BY DEF ResultFiles, File
    <2> QED
      BY <1>1, <2>1, <2>2 DEF Surface
  <1>5. ResultFiles \in Seq(Surface)
    BY <1>4 DEF ResultFiles
  <1> QED
    BY <1>2, <1>3, <1>5

\* What a concatenation holds, and what its files hold.
LEMMA Concat ==
    ASSUME NEW S, NEW s \in Seq(S), NEW t \in Seq(S)
    PROVE  /\ s \o t \in Seq(S)
           /\ Len(s) \in Nat /\ Len(t) \in Nat /\ Len(s \o t) = Len(s) + Len(t)
           /\ \A k \in 1 .. Len(s) : (s \o t)[k] = s[k]
           /\ \A k \in 1 .. Len(t) : (s \o t)[Len(s) + k] = t[k]
           /\ Landed(s \o t) => Landed(s) /\ Landed(t)
  <1> DEFINE u == s \o t
  <1>1. /\ u \in Seq(S) /\ Len(u) = Len(s) + Len(t)
        /\ \A k \in 1 .. Len(s) + Len(t) : u[k] = IF k <= Len(s) THEN s[k] ELSE t[k - Len(s)]
    BY ConcatProperties, Zenon
  <1> HIDE DEF u
  <1>2. /\ Len(s) \in Nat /\ DOMAIN s = 1 .. Len(s)
        /\ Len(t) \in Nat /\ DOMAIN t = 1 .. Len(t) /\ DOMAIN u = 1 .. Len(s) + Len(t)
    BY <1>1
  <1>3. \A k \in 1 .. Len(s) : k \in 1 .. Len(s) + Len(t) /\ u[k] = s[k]
    BY <1>1, <1>2
  <1>4. \A k \in 1 .. Len(t) : Len(s) + k \in 1 .. Len(s) + Len(t) /\ u[Len(s) + k] = t[k]
    <2> TAKE k \in 1 .. Len(t)
    <2>1. /\ Len(s) + k \in 1 .. Len(s) + Len(t) /\ ~(Len(s) + k <= Len(s))
          /\ (Len(s) + k) - Len(s) = k
      BY <1>2
    <2> QED
      BY <1>1, <2>1
  <1>5. Landed(u) => Landed(s) /\ Landed(t)
    BY <1>2, <1>3, <1>4, Zenon DEF Landed
  <1> QED
    BY <1>1, <1>2, <1>3, <1>4, <1>5 DEF u

LEMMA LandedLists ==
    /\ \A x : Landed(<<x>>) => file[x] = "payload"
    /\ \A x, y : Landed(<<x, y>>) => file[x] = "payload" /\ file[y] = "payload"
  <1>1. ASSUME NEW x, Landed(<<x>>) PROVE file[x] = "payload"
    <2>1. 1 \in DOMAIN <<x>> /\ <<x>>[1] = x
      OBVIOUS
    <2> QED
      BY <1>1, <2>1, Zenon DEF Landed
  <1>2. ASSUME NEW x, NEW y, Landed(<<x, y>>) PROVE file[x] = "payload" /\ file[y] = "payload"
    <2>1. /\ 1 \in DOMAIN <<x, y>> /\ 2 \in DOMAIN <<x, y>>
          /\ <<x, y>>[1] = x /\ <<x, y>>[2] = y
      OBVIOUS
    <2> QED
      BY <1>2, <2>1, Zenon DEF Landed
  <1> QED
    BY <1>1, <1>2

\* The writes: the state is the last of them and no other.
LEMMA WritesFacts ==
    ASSUME Len(found.lines) \in 0 .. MaxCandidates
    PROVE  /\ Len(Writes) \in Nat /\ Len(Writes) >= 12 /\ DOMAIN Writes = 1 .. Len(Writes)
           /\ \A k \in 1 .. Len(Writes) : Writes[k] \in Paths
           /\ \A k \in 1 .. Len(Writes) : Writes[k] = StateFile <=> k = Len(Writes)
           /\ Landed(Writes) =>
                 /\ Landed(FlatFiles \o CandidateFiles(Len(found.lines)))
                 /\ Landed(ResultFiles \o <<LeakFile, StateFile>>)
  <1> DEFINE candidates == CandidateFiles(Len(found.lines))
             files == FlatFiles \o candidates
             upToLeak == files \o <<LeakFile>>
             body == upToLeak \o ResultFiles
             writes == body \o <<StateFile>>
  <1>1. candidates \in Seq(Surface)
    BY CandidateFilesFacts
  <1> HIDE DEF candidates
  <1>2. files \in Seq(Surface) /\ Len(files) \in Nat /\ Len(files) >= 12
    <2>1. /\ files \in Seq(Surface) /\ Len(files) = Len(FlatFiles) + Len(candidates)
          /\ Len(candidates) \in Nat
      BY <1>1, FlatFacts, Concat, Zenon
    <2> HIDE DEF files
    <2> QED
      BY <2>1, FlatFacts
  <1> HIDE DEF files
  <1>3. /\ upToLeak \in Seq(Surface) /\ Len(upToLeak) \in Nat /\ Len(upToLeak) >= 12
        /\ Landed(upToLeak) => Landed(files) /\ Landed(<<LeakFile>>)
    <2>1. /\ upToLeak \in Seq(Surface) /\ Len(upToLeak) = Len(files) + Len(<<LeakFile>>)
          /\ Landed(upToLeak) => Landed(files) /\ Landed(<<LeakFile>>)
      BY <1>2, LastFacts, Concat, Zenon
    <2> HIDE DEF upToLeak
    <2> QED
      BY <1>2, <2>1, LastFacts
  <1> HIDE DEF upToLeak
  <1>4. /\ body \in Seq(Surface) /\ Len(body) \in Nat /\ Len(body) >= 12
        /\ Landed(body) => Landed(upToLeak) /\ Landed(ResultFiles)
    <2>1. /\ body \in Seq(Surface) /\ Len(body) = Len(upToLeak) + Len(ResultFiles)
          /\ Landed(body) => Landed(upToLeak) /\ Landed(ResultFiles)
      BY <1>3, LastFacts, Concat, Zenon
    <2> HIDE DEF body
    <2> QED
      BY <1>3, <2>1, LastFacts
  <1> HIDE DEF body
  <1>5. body \in Seq(Paths)
    BY <1>4 DEF Surface
  <1>6. /\ writes \in Seq(Paths) /\ Len(writes) = Len(body) + 1
        /\ \A k \in 1 .. Len(body) : writes[k] = body[k]
        /\ writes[Len(body) + 1] = StateFile
        /\ Landed(writes) => Landed(body) /\ Landed(<<StateFile>>)
    <2>1. /\ writes \in Seq(Paths) /\ Len(writes) = Len(body) + Len(<<StateFile>>)
          /\ \A k \in 1 .. Len(body) : writes[k] = body[k]
          /\ \A k \in 1 .. Len(<<StateFile>>) : writes[Len(body) + k] = <<StateFile>>[k]
          /\ Landed(writes) => Landed(body) /\ Landed(<<StateFile>>)
      <3> DEFINE last == <<StateFile>>
      <3>1. last \in Seq(Paths)
        BY LastFacts
      <3> HIDE DEF last
      <3>2. /\ body \o last \in Seq(Paths) /\ Len(body \o last) = Len(body) + Len(last)
            /\ \A k \in 1 .. Len(body) : (body \o last)[k] = body[k]
            /\ \A k \in 1 .. Len(last) : (body \o last)[Len(body) + k] = last[k]
            /\ Landed(body \o last) => Landed(body) /\ Landed(last)
        BY <1>5, <3>1, Concat
      <3> QED
        BY <3>2 DEF last
    <2>2. 1 \in 1 .. Len(<<StateFile>>) /\ <<StateFile>>[1] = StateFile
      BY LastFacts
    <2> HIDE DEF writes
    <2> QED
      BY <2>1, <2>2, LastFacts
  <1>7. writes = Writes
    BY DEF Writes, body, upToLeak, files, candidates
  <1> HIDE DEF writes
  <1>8. \A k \in 1 .. Len(writes) : writes[k] = StateFile <=> k = Len(writes)
    <2> TAKE k \in 1 .. Len(writes)
    <2>1. CASE k \in 1 .. Len(body)
      <3>1. writes[k] \in Surface /\ k # Len(writes)
        BY <1>4, <1>6, <2>1
      <3> QED
        BY <3>1 DEF Surface
    <2>2. CASE k = Len(body) + 1
      BY <1>6, <2>2
    <2> QED
      BY <1>4, <1>6, <2>1, <2>2
  <1>9. ASSUME Landed(writes)
        PROVE  Landed(files) /\ Landed(ResultFiles \o <<LeakFile, StateFile>>)
    <2>1. Landed(files) /\ Landed(<<LeakFile>>) /\ Landed(ResultFiles) /\ Landed(<<StateFile>>)
      BY <1>3, <1>4, <1>6, <1>9
    <2>2. /\ file[LeakFile] = "payload" /\ file[StateFile] = "payload"
          /\ file[File(Output, "result.json", 0)] = "payload"
          /\ file[File(App, "result.json", 0)] = "payload"
      BY <2>1, LandedLists DEF ResultFiles
    <2> QED
      BY <2>1, <2>2 DEF Landed, ResultFiles
  <1>10. Len(writes) \in Nat /\ Len(writes) >= 12 /\ DOMAIN writes = 1 .. Len(writes)
         /\ \A k \in 1 .. Len(writes) : writes[k] \in Paths
    BY <1>4, <1>6
  <1> QED
    BY <1>7, <1>8, <1>9, <1>10 DEF files, candidates

\* The leak is a first part of what the search prints, and what was extracted
\* from it fits the files.
HarvestInv ==
    /\ process = "none" => next = 1
    /\ process \in {"encode", "extract"} =>
          \E k \in 0 .. Len(Found(world)) : leak = SubSeq(Found(world), 1, k)
    /\ Len(found.lines) \in Nat /\ Len(found.cut) \in Nat
    /\ Len(found.lines) + Len(found.cut) <= MaxCandidates

\* The writes before the next one are in place, and the state is not until the
\* script has come to its end.
WriteInv ==
    /\ process = "write" =>
          next \in DOMAIN Writes /\ \A k \in 1 .. next - 1 : file[Writes[k]] = "payload"
    /\ process = "exit0" => Landed(Writes)
    /\ process # "exit0" => file[StateFile] # "payload"
    /\ at = "readable" => process = "exit0"
    /\ outcome = "reported" => at = "readable"

IInv == TypeOK /\ HarvestInv /\ WriteInv

\* Two lengths that fit together fit apart.
LEMMA SharedBound ==
    ASSUME NEW max \in Nat, NEW l \in Nat, NEW c \in Nat, l + c <= max
    PROVE  l \in 0 .. max /\ l + c \in 0 .. max
  OBVIOUS

\* The places up to one of a list are places of the list, and so is the place
\* after one that is not the last.
LEMMA PlacesBefore ==
    ASSUME NEW n \in Nat, NEW i \in 1 .. n
    PROVE  /\ \A k \in 1 .. i : k \in 1 .. n
           /\ i # n => i + 1 \in 1 .. n
           /\ (i + 1) - 1 = i
  OBVIOUS

LEMMA FoundFacts ==
    ASSUME HarvestInv
    PROVE  Len(found.lines) \in 0 .. MaxCandidates /\ CandidateCount \in 0 .. MaxCandidates
  <1>1. MaxCandidates \in Nat
    BY CandidatesFit
  <1>2. /\ Len(found.lines) \in Nat /\ Len(found.cut) \in Nat
        /\ Len(found.lines) + Len(found.cut) <= MaxCandidates
    BY DEF HarvestInv
  <1> DEFINE l == Len(found.lines)
             c == Len(found.cut)
  <1>3. l \in Nat /\ c \in Nat /\ l + c <= MaxCandidates
    BY <1>2
  <1> HIDE DEF l, c
  <1>4. l \in 0 .. MaxCandidates /\ l + c \in 0 .. MaxCandidates
    BY <1>1, <1>3, SharedBound
  <1> QED
    BY <1>4 DEF l, c, CandidateCount

\* What the search leaves of its output is a text.
LEMMA SearchedTyped ==
    ASSUME NEW w \in Worlds
    PROVE  /\ Found(w) \in Seq(Seq(DOMAIN Width))
           /\ \A k \in 0 .. Len(Found(w)) : SubSeq(Found(w), 1, k) \in Seq(Seq(DOMAIN Width))
  <1> DEFINE L == Seq(DOMAIN Width)
             text == Found(w)
  <1>1. w \in Files(DOMAIN Width)
    BY WorldsAreFiles DEF Files, Texts
  <1>2. text \in Seq(L)
    BY <1>1, LeakFacts
  <1> HIDE DEF text, L
  <1>3. \A k \in 0 .. Len(text) : SubSeq(text, 1, k) \in Seq(L)
    <2> TAKE k \in 0 .. Len(text)
    <2>1. Len(text) \in Nat
      BY <1>2, Elements
    <2>2. 1 \in 1 .. Len(text) + 1
      BY <2>1
    <2> QED
      BY <1>2, <2>2, Slice
  <1> QED
    BY <1>2, <1>3 DEF text, L

LEMMA InitEstablishesIInv == Init => IInv
  <1> SUFFICES ASSUME Init PROVE IInv
    OBVIOUS
  <1>1. found.lines = <<>> /\ found.cut = <<>>
    BY DEF Init, NoCandidates
  <1>2. HarvestInv
    <2>1. Len(found.lines) = 0 /\ Len(found.cut) = 0 /\ MaxCandidates \in Nat
      BY <1>1, CandidatesFit
    <2> QED
      BY <2>1 DEF Init, HarvestInv
  <1>3. TypeOK
    <2>1. next \in 1 .. Len(Writes) + 1
      BY <1>2, FoundFacts, WritesFacts DEF Init
    <2>2. file \in [Paths -> Content]
      BY DEF Init, Content
    <2>3. CandidateCount \in 0 .. MaxCandidates
      BY <1>2, FoundFacts
    <2> QED
      BY <2>1, <2>2, <2>3 DEF Init, TypeOK
  <1>4. WriteInv
    BY LastFacts DEF Init, WriteInv
  <1> QED
    BY <1>2, <1>3, <1>4 DEF IInv

\* A step that leaves the files, the found candidates and the script's end alone.
LEMMA BesideTheFiles ==
    ASSUME IInv, UNCHANGED <<world, found, file>>, process # "write", process # "exit0",
           process' \notin {"write", "exit0"},
           process' \in {"none", "mkdir", "search", "encode", "extract", "exit1"},
           process' = "none" => next' = 1,
           next' \in 1 .. 4 \cup {next}, outputDir' \in BOOLEAN,
           script' \in {"absent", "stale", "torn", "fresh"},
           answer' \in {"none", "whole", "torn", "empty"},
           process' \in {"encode", "extract"} =>
              \E k \in 0 .. Len(Found(world)) : leak' = SubSeq(Found(world), 1, k),
           at' = at, claims' = claims, outcome' \in {outcome, "aborted", "raised"}
    PROVE  IInv'
  <1>1. TypeOK /\ HarvestInv /\ WriteInv
    BY DEF IInv
  <1>2. Writes' = Writes /\ Len(Writes) \in Nat /\ Len(Writes) >= 12
    BY <1>1, FoundFacts, WritesFacts DEF Writes
  <1>3. HarvestInv'
    BY <1>1 DEF HarvestInv
  <1>4. TypeOK'
    <2>1. next' \in 1 .. Len(Writes) + 1
      BY <1>1, <1>2 DEF TypeOK
    <2> QED
      BY <1>1, <1>2, <2>1 DEF TypeOK, CandidateCount
  <1>5. WriteInv'
    BY <1>1 DEF WriteInv
  <1> QED
    BY <1>3, <1>4, <1>5 DEF IInv

\* A step of the run, or of a script that dies, that writes nothing.
LEMMA BesideTheScript ==
    ASSUME IInv, UNCHANGED <<world, outputDir, hunt, file>>,
           \/ process' = process
           \/ process # "exit0" /\ process' = "exit1",
           script' \in {"absent", "stale", "torn", "fresh"},
           claims' \subseteq {"harvest", "rubric"},
           at' \in {at, "readable"}, at' = "readable" => process = "exit0",
           outcome' \in {outcome, "aborted", "raised", "reported"},
           outcome' = "reported" => at' = "readable"
    PROVE  IInv'
  <1>1. TypeOK /\ HarvestInv /\ WriteInv
    BY DEF IInv
  <1>2. Writes' = Writes
    BY DEF Writes, hunt
  <1>3. HarvestInv'
    BY <1>1 DEF HarvestInv, hunt
  <1>4. TypeOK'
    BY <1>1, <1>2 DEF TypeOK, CandidateCount, hunt
  <1>5. WriteInv'
    BY <1>1, <1>2 DEF WriteInv, Landed, hunt
  <1> QED
    BY <1>3, <1>4, <1>5 DEF IInv

\* Whatever was lost on the way, the candidates fit their files.
LEMMA ExtractPreserves == IInv /\ Extract => IInv'
  <1> SUFFICES ASSUME IInv, Extract PROVE IInv'
    OBVIOUS
  <1>1. TypeOK /\ HarvestInv /\ WriteInv
    BY DEF IInv
  <1>2. /\ process = "extract" /\ process' = "write" /\ next' = 1 /\ found' \in CandidatesWritten
        /\ UNCHANGED <<outcome, at, script, world, outputDir, leak, answer, file, claims>>
    BY DEF Extract
  <1> DEFINE all == Candidates(leak)
  <1>3. all \in Seq(Seq(DOMAIN Width)) /\ Len(all) \in Nat /\ Len(all) <= MaxCandidates
        /\ MaxCandidates \in Nat
    <2>1. PICK k \in 0 .. Len(Found(world)) : leak = SubSeq(Found(world), 1, k)
      BY <1>1, <1>2 DEF HarvestInv
    <2>2. world \in Worlds
      BY <1>1 DEF TypeOK
    <2>3. Len(all) <= MaxCandidates /\ MaxCandidates \in Nat
      BY <2>1, <2>2, CandidatesFit
    <2>4. leak \in Seq(Seq(DOMAIN Width))
      BY <2>1, <2>2, SearchedTyped
    <2>5. all \in Seq(Seq(DOMAIN Width))
      BY <2>4, CandidatesTyped
    <2> HIDE DEF all
    <2> QED
      BY <2>3, <2>5, Elements
  <1>4. /\ Len(found'.lines) \in Nat /\ Len(found'.cut) \in Nat
        /\ Len(found'.lines) + Len(found'.cut) <= MaxCandidates
    <2>1. \/ found' = NoCandidates
          \/ found' = [exists |-> TRUE, lines |-> all, cut |-> <<>>]
          \/ /\ \E k \in 0 .. Len(all) - 1 : found'.lines = SubSeq(all, 1, k)
             /\ found'.cut \in {<<>>, << <<"part">> >>}
      BY <1>2 DEF CandidatesWritten
    <2> HIDE DEF all
    <2>2. CASE found' = NoCandidates
      BY <1>3, <2>2 DEF NoCandidates
    <2>3. CASE found' = [exists |-> TRUE, lines |-> all, cut |-> <<>>]
      BY <1>3, <2>3
    <2>4. ASSUME NEW k \in 0 .. Len(all) - 1, found'.lines = SubSeq(all, 1, k),
                 found'.cut \in {<<>>, << <<"part">> >>}
          PROVE  /\ Len(found'.lines) \in Nat /\ Len(found'.cut) \in Nat
                 /\ Len(found'.lines) + Len(found'.cut) <= MaxCandidates
      <3>1. Len(found'.lines) = k
        BY <1>3, <2>4
      <3>2. Len(found'.cut) = 0 \/ Len(found'.cut) = 1
        BY <2>4
      <3> DEFINE a == Len(all)
                 l == Len(found'.lines)
                 c == Len(found'.cut)
      <3>3. a \in Nat /\ a <= MaxCandidates /\ MaxCandidates \in Nat
            /\ l = k /\ (c = 0 \/ c = 1) /\ k \in 0 .. a - 1
        BY <1>3, <3>1, <3>2
      <3> HIDE DEF a, l, c
      <3>4. l \in Nat /\ c \in Nat /\ l + c <= MaxCandidates
        BY <3>3
      <3> QED
        BY <3>4 DEF l, c
    <2> QED
      BY <2>1, <2>2, <2>3, <2>4
  <1>5. HarvestInv'
    BY <1>2, <1>4 DEF HarvestInv
  <1>6. /\ Len(found'.lines) \in 0 .. MaxCandidates /\ CandidateCount' \in 0 .. MaxCandidates
    <2> DEFINE l == Len(found'.lines)
               c == Len(found'.cut)
    <2>1. MaxCandidates \in Nat /\ l \in Nat /\ c \in Nat /\ l + c <= MaxCandidates
      BY <1>3, <1>4
    <2> HIDE DEF l, c
    <2>2. l \in 0 .. MaxCandidates /\ l + c \in 0 .. MaxCandidates
      BY <2>1, SharedBound
    <2> QED
      BY <2>2 DEF l, c, CandidateCount
  <1>7. Len(Writes') \in Nat /\ Len(Writes') >= 12 /\ DOMAIN Writes' = 1 .. Len(Writes')
    <2>1. (Len(found.lines) \in 0 .. MaxCandidates)'
      BY <1>6
    <2>2. (/\ Len(Writes) \in Nat /\ Len(Writes) >= 12 /\ DOMAIN Writes = 1 .. Len(Writes))'
      BY <2>1, WritesFacts, PTL
    <2> QED
      BY <2>2
  <1>8. TypeOK'
    BY <1>1, <1>2, <1>6, <1>7 DEF TypeOK
  <1>9. WriteInv'
    <2>1. \A k \in 1 .. next' - 1 : FALSE
      BY <1>2
    <2> QED
      BY <1>1, <1>2, <1>7, <2>1 DEF WriteInv
  <1> QED
    BY <1>5, <1>8, <1>9 DEF IInv

LEMMA RedirectFacts ==
    ASSUME IInv, process = "write", NEW w \in WriteResults
    PROVE  /\ w.content \in Content /\ (w.rc = 0 => w.content = "payload")
           /\ w.rc # 0 => w.content = "torn" \/ w.content = file[Writes[next]]
           /\ Writes[next] \in Paths /\ next \in 1 .. Len(Writes) /\ Len(Writes) \in Nat
  <1>1. next \in DOMAIN Writes /\ file \in [Paths -> Content]
    BY DEF IInv, TypeOK, WriteInv
  <1>2. Writes[next] \in Paths /\ next \in 1 .. Len(Writes) /\ Len(Writes) \in Nat
    BY <1>1, FoundFacts, WritesFacts DEF IInv
  <1>3. file[Writes[next]] \in Content
    BY <1>1, <1>2
  <1> QED
    BY <1>2, <1>3 DEF WriteResults, Redirect, Content

LEMMA LandWritePreserves == IInv /\ LandWrite => IInv'
  <1> SUFFICES ASSUME IInv, LandWrite PROVE IInv'
    OBVIOUS
  <1>1. PICK w \in WriteResults : w.rc = 0 /\ file' = [file EXCEPT ![Writes[next]] = w.content]
    BY DEF LandWrite
  <1>2. /\ process = "write" /\ next' = next + 1
        /\ process' = IF next = Len(Writes) THEN "exit0" ELSE "write"
        /\ UNCHANGED <<outcome, at, script, world, outputDir, leak, answer, found, claims>>
    BY DEF LandWrite, Writing
  <1>3. TypeOK /\ HarvestInv /\ WriteInv
    BY DEF IInv
  <1>4. /\ w.content = "payload" /\ Writes[next] \in Paths
        /\ next \in 1 .. Len(Writes) /\ Len(Writes) \in Nat
    BY <1>1, <1>2, RedirectFacts
  <1>5. Writes' = Writes
    BY <1>2 DEF Writes
  <1>6. /\ DOMAIN Writes = 1 .. Len(Writes) /\ \A k \in 1 .. Len(Writes) : Writes[k] \in Paths
        /\ \A k \in 1 .. Len(Writes) : Writes[k] = StateFile <=> k = Len(Writes)
    BY <1>3, FoundFacts, WritesFacts
  <1>7. file' = [file EXCEPT ![Writes[next]] = "payload"] /\ file \in [Paths -> Content]
    BY <1>1, <1>3, <1>4 DEF TypeOK
  <1> HIDE DEF IInv
  <1>8. TypeOK'
    <2>1. file' \in [Paths -> Content]
      BY <1>7 DEF Content
    <2>2. next' \in 1 .. Len(Writes) + 1
      BY <1>2, <1>4
    <2> QED
      BY <1>2, <1>3, <1>5, <2>1, <2>2 DEF TypeOK, CandidateCount
  <1>9. \A k \in 1 .. next : file'[Writes[k]] = "payload"
    <2> TAKE k \in 1 .. next
    <2>0. k \in 1 .. Len(Writes) /\ Writes[k] \in Paths
      <3> DEFINE n == Len(Writes)
      <3>1. n \in Nat /\ next \in 1 .. n
        BY <1>4
      <3> HIDE DEF n
      <3>2. k \in 1 .. n
        BY <3>1, PlacesBefore
      <3> QED
        BY <1>6, <3>2 DEF n
    <2>1. CASE Writes[k] = Writes[next]
      BY <1>4, <1>7, <2>0, <2>1
    <2>2. CASE Writes[k] # Writes[next]
      <3>1. k \in 1 .. next - 1
        BY <1>4, <2>2
      <3>2. file[Writes[k]] = "payload"
        BY <1>2, <1>3, <3>1 DEF WriteInv
      <3> QED
        BY <1>7, <2>0, <2>2, <3>2
    <2> QED
      BY <2>1, <2>2
  <1>10. WriteInv'
    <2>1. CASE next = Len(Writes)
      <3>1. process' = "exit0" /\ Landed(Writes)'
        BY <1>2, <1>5, <1>6, <1>9, <2>1 DEF Landed
      <3> QED
        BY <1>2, <1>3, <3>1 DEF WriteInv
    <2>2. CASE next # Len(Writes)
      <3>1. process' = "write" /\ next' \in DOMAIN Writes' /\ next' - 1 = next
        <4> DEFINE n == Len(Writes)
        <4>1. n \in Nat /\ next \in 1 .. n /\ next # n
          BY <1>4, <2>2
        <4> HIDE DEF n
        <4>2. next + 1 \in 1 .. n /\ (next + 1) - 1 = next
          BY <4>1, PlacesBefore
        <4> QED
          BY <1>2, <1>5, <1>6, <2>2, <4>2 DEF n
      <3>2. file'[StateFile] # "payload"
        <4>1. Writes[next] # StateFile
          BY <1>4, <1>6, <2>2
        <4>2. file[StateFile] # "payload"
          BY <1>2, <1>3 DEF WriteInv
        <4> QED
          BY <1>7, <4>1, <4>2
      <3>3. \A k \in 1 .. next' - 1 : file'[Writes'[k]] = "payload"
        BY <1>5, <1>9, <3>1
      <3> QED
        BY <1>2, <1>3, <3>1, <3>2, <3>3 DEF WriteInv
    <2> QED
      BY <2>1, <2>2
  <1>11. HarvestInv'
    BY <1>2, <1>3 DEF HarvestInv
  <1> QED
    BY <1>8, <1>10, <1>11 DEF IInv

LEMMA FailWritePreserves == IInv /\ FailWrite => IInv'
  <1> SUFFICES ASSUME IInv, FailWrite PROVE IInv'
    OBVIOUS
  <1>1. PICK w \in WriteResults : w.rc # 0 /\ file' = [file EXCEPT ![Writes[next]] = w.content]
    BY DEF FailWrite
  <1>2. /\ process = "write" /\ process' = "exit1"
        /\ UNCHANGED <<outcome, at, script, world, outputDir, leak, next, answer, found, claims>>
    BY DEF FailWrite, Writing, hunt
  <1>3. TypeOK /\ HarvestInv /\ WriteInv
    BY DEF IInv
  <1>4. /\ w.content \in Content /\ Writes[next] \in Paths
        /\ w.content = "torn" \/ w.content = file[Writes[next]]
    BY <1>1, <1>2, RedirectFacts
  <1>5. Writes' = Writes
    BY <1>2 DEF Writes
  <1>6. TypeOK'
    <2>1. file' \in [Paths -> Content]
      BY <1>1, <1>3, <1>4 DEF TypeOK
    <2> QED
      BY <1>2, <1>3, <1>5, <2>1 DEF TypeOK, CandidateCount
  <1>7. file'[StateFile] # "payload"
    <2>1. file[StateFile] # "payload" /\ file \in [Paths -> Content] /\ StateFile \in Paths
      BY <1>2, <1>3, LastFacts DEF WriteInv, TypeOK
    <2> QED
      BY <1>1, <1>4, <2>1
  <1>8. WriteInv' /\ HarvestInv'
    BY <1>2, <1>3, <1>7 DEF WriteInv, HarvestInv
  <1> QED
    BY <1>6, <1>8 DEF IInv

LEMMA NextPreservesIInv == IInv /\ [Next]_vars => IInv'
  <1> SUFFICES ASSUME IInv, [Next]_vars PROVE IInv'
    OBVIOUS
  <1>0. /\ outputDir \in BOOLEAN /\ script \in {"absent", "stale", "torn", "fresh"}
        /\ answer \in {"none", "whole", "torn", "empty"} /\ claims \subseteq {"harvest", "rubric"}
        /\ process \in {"encode", "extract"} =>
              \E k \in 0 .. Len(Found(world)) : leak = SubSeq(Found(world), 1, k)
        /\ process = "none" => next = 1
        /\ at = "readable" => process = "exit0"
        /\ outcome = "reported" => at = "readable"
        /\ \A w \in ScriptWrites(script) : w.script \in {"absent", "stale", "torn", "fresh"}
    BY DEF IInv, TypeOK, HarvestInv, WriteInv, ScriptWrites
  <1>1. CASE StartHunt
    <2>1. script' \in {"absent", "stale", "torn", "fresh"}
      BY <1>0, <1>1 DEF StartHunt
    <2> QED
      BY <1>0, <1>1, <2>1, BesideTheFiles DEF StartHunt, hunt
  <1>2. CASE HuntCannotRun
    <2>1. script' \in {"absent", "stale", "torn", "fresh"}
      BY <1>0, <1>2 DEF HuntCannotRun
    <2> QED
      BY <1>0, <1>2, <2>1, BesideTheFiles DEF HuntCannotRun, hunt
  <1>3. CASE MakeOutputDir
    BY <1>0, <1>3, BesideTheFiles DEF MakeOutputDir, hunt
  <1>4. CASE Search
    BY <1>0, <1>4, BesideTheFiles DEF Search
  <1>5. CASE Encode
    <2>1. next' \in 1 .. 4
      BY <1>5 DEF Encode, Encoders
    <2> QED
      BY <1>0, <1>5, <2>1, BesideTheFiles DEF Encode
  <1>6. CASE LeakUnencodable
    BY <1>0, <1>6, BesideTheFiles DEF LeakUnencodable, Encoded, hunt
  <1>7. CASE LeakEncoded
    BY <1>0, <1>7, BesideTheFiles DEF LeakEncoded, Encoded
  <1>8. CASE Extract
    BY <1>8, ExtractPreserves
  <1>9. CASE LandWrite
    BY <1>9, LandWritePreserves
  <1>10. CASE FailWrite
    BY <1>10, FailWritePreserves
  <1>11. CASE FailLoop
    BY <1>0, <1>11, BesideTheScript DEF FailLoop
  <1>12. CASE BashDies
    BY <1>0, <1>12, BesideTheScript DEF BashDies
  <1>13. CASE AbortOnFailedHunt
    BY <1>0, <1>13, BesideTheScript DEF AbortOnFailedHunt
  <1>14. CASE HuntReturns
    BY <1>0, <1>14, BesideTheScript DEF HuntReturns
  <1>15. CASE Report
    BY <1>0, <1>15, BesideTheScript DEF Report, At
  <1>16. CASE ExecRaises
    <2>1. script' \in {"absent", "stale", "torn", "fresh"}
      BY <1>0, <1>16 DEF ExecRaises
    <2> QED
      BY <1>0, <1>16, <2>1, BesideTheScript DEF ExecRaises
  <1>17. CASE UNCHANGED vars
    BY <1>0, <1>17, BesideTheScript DEF vars
  <1> QED
    BY <1>1, <1>2, <1>3, <1>4, <1>5, <1>6, <1>7, <1>8, <1>9, <1>10, <1>11, <1>12, <1>13,
       <1>14, <1>15, <1>16, <1>17 DEF Next, Ended

THEOREM IInvIsInvariant == Spec => []IInv
  BY InitEstablishesIInv, NextPreservesIInv, PTL DEF Spec

\* The state of the hunt, for every family of worlds; in particular no candidate
\* is left without its two files.
THEOREM ShortcutHunterTypeOK == Spec => []TypeOK
  <1>1. IInv => TypeOK
    BY DEF IInv
  <1> QED
    BY <1>1, IInvIsInvariant, PTL

\* However the script is interrupted, its state is only there when all the files
\* it counts are.
THEOREM TheStateIsLast == Spec => []StateComesLast
  <1>1. IInv => StateComesLast
    BY DEF IInv, WriteInv, StateComesLast
  <1> QED
    BY <1>1, IInvIsInvariant, PTL

LEMMA InitImplementsContract == Init => Contract!Init
  BY DEF Init, Contract!Init

\* Every step of the hunt is a step of the contract or none at all.
LEMMA StepImplementsContract == IInv /\ [Next]_vars => [Contract!Next]_(Contract!vars)
  <1> SUFFICES ASSUME IInv, [Next]_vars PROVE [Contract!Next]_(Contract!vars)
    OBVIOUS
  <1> USE DEF Contract!Next, Contract!vars, Contract!Work, Contract!Report, Contract!Fail
  <1>0. outcome = "reported" => process = "exit0"
    BY DEF IInv, WriteInv
  <1>1. CASE outcome = "reported"
    <2>1. UNCHANGED <<outcome, claims, world, found, file>>
      BY <1>0, <1>1 DEF Next, vars, StartHunt, HuntCannotRun, MakeOutputDir, Search, Encode,
         LeakUnencodable, LeakEncoded, Encoded, Extract, LandWrite, FailWrite, FailLoop, Writing,
         BashDies, AbortOnFailedHunt, HuntReturns, Report, ExecRaises, Ended, At, hunt
    <2> QED
      BY <2>1 DEF Landed, RubricReadable
  <1>2. CASE outcome # "reported" /\ ~Report
    <2>1. /\ claims' = claims
          /\ outcome' = outcome \/ (outcome = "running" /\ outcome' \in {"aborted", "raised"})
      BY <1>2 DEF Next, vars, StartHunt, HuntCannotRun, MakeOutputDir, Search, Encode,
         LeakUnencodable, LeakEncoded, Extract, LandWrite, FailWrite, FailLoop,
         BashDies, AbortOnFailedHunt, HuntReturns, ExecRaises, Ended, At, hunt
    <2> QED
      BY <1>2, <2>1
  <1>3. CASE Report
    <2>1. /\ outcome = "running" /\ outcome' = "reported" /\ at = "readable"
          /\ claims' = {"harvest"} \cup {r \in {"rubric"} : RubricReadable}
          /\ UNCHANGED <<world, found, file>>
      BY <1>3 DEF Report, At, hunt
    <2>2. Landed(Writes)
      BY <2>1 DEF IInv, WriteInv
    <2>3. /\ Landed(FlatFiles \o CandidateFiles(Len(found.lines)))
          /\ Landed(ResultFiles \o <<LeakFile, StateFile>>)
      BY <2>2, FoundFacts, WritesFacts DEF IInv
    <2> QED
      BY <2>1, <2>3 DEF Landed, RubricReadable
  <1> QED
    BY <1>1, <1>2, <1>3

\* A hunt that reports has its whole surface in the world, a file for every
\* candidate of its list, and claims the rubric only where it could be read.
THEOREM ShortcutHunterImplementsContract == Spec => ImplementsContract
  <1>1. Spec => Contract!Init /\ [][Contract!Next]_(Contract!vars)
    BY InitImplementsContract, StepImplementsContract, IInvIsInvariant, PTL DEF Spec
  <1> QED
    BY <1>1 DEF ImplementsContract, Contract!Spec

-----------------------------------------------------------------------------
\* The leak is a text.  It is fixed before the encoders and the extraction see it,
\* so what they say of it goes on being true of it.
LeakInv ==
    /\ leak \in Seq(Seq(DOMAIN Width))
    /\ process \in {"none", "mkdir", "search"} => answer = "none"
    /\ process \in {"none", "mkdir", "search", "encode", "extract"} => found = NoCandidates
    /\ found.cut \in {<<>>, << <<"part">> >>}
    /\ answer = "empty" => ~Leaked
    /\ ~Leaked => CandidateCount = 0

\* No candidates are no lines.
LEMMA NoneAreCounted == found = NoCandidates => CandidateCount = 0 /\ found.cut = <<>>
  BY DEF NoCandidates, CandidateCount

LEMMA InitEstablishesLeakInv == Init => LeakInv
  <1> SUFFICES ASSUME Init PROVE LeakInv
    OBVIOUS
  <1>1. leak = <<>> /\ answer = "none" /\ found = NoCandidates
    BY DEF Init
  <1>2. leak \in Seq(Seq(DOMAIN Width))
    BY <1>1
  <1> QED
    BY <1>1, <1>2, NoneAreCounted DEF LeakInv

\* A step that leaves the leak and what is made of it alone.
LEMMA BesideTheLeak ==
    ASSUME LeakInv, UNCHANGED <<leak, answer, found>>,
           \/ process' = process
           \/ process = "none" /\ process' = "mkdir"
           \/ process = "mkdir" /\ process' = "search"
           \/ process' \in {"write", "exit0", "exit1"}
    PROVE  LeakInv'
  BY DEF LeakInv, Leaked, CandidateCount

\* A text of which nothing is left has no candidates.
LEMMA ExtractPreservesLeakInv == IInv /\ LeakInv /\ Extract => LeakInv'
  <1> SUFFICES ASSUME IInv, LeakInv, Extract PROVE LeakInv'
    OBVIOUS
  <1>1. /\ process' = "write" /\ found' \in CandidatesWritten
        /\ UNCHANGED <<leak, answer>>
    BY DEF Extract
  <1> DEFINE all == Candidates(leak)
  <1>2. leak \in Seq(Seq(DOMAIN Width))
    BY DEF LeakInv
  <1>3. /\ all \in Seq(Seq(DOMAIN Width))
        /\ ~Leaked => all = <<>>
    <2>1. DOMAIN leak = 1 .. Len(leak)
      BY <1>2, Elements
    <2>2. ~Leaked => \A k \in 1 .. Len(leak) : leak[k] = <<>>
      BY <2>1 DEF Leaked
    <2> QED
      BY <1>2, <2>2, CandidatesTyped
  <1>4. \/ found' = NoCandidates
        \/ found' = [exists |-> TRUE, lines |-> all, cut |-> <<>>]
        \/ /\ \E k \in 0 .. Len(all) - 1 : found'.lines = SubSeq(all, 1, k)
           /\ found'.cut \in {<<>>, << <<"part">> >>}
    BY <1>1 DEF CandidatesWritten
  <1> HIDE DEF all
  <1>5. found'.cut \in {<<>>, << <<"part">> >>}
    BY <1>4 DEF NoCandidates
  <1>6. ASSUME ~Leaked PROVE Len(found'.lines) = 0 /\ Len(found'.cut) = 0
    <2>1. all = <<>>
      BY <1>3, <1>6
    <2>2. ~(\E k \in 0 .. Len(all) - 1 : TRUE)
      BY <2>1
    <2>3. found' = NoCandidates \/ found' = [exists |-> TRUE, lines |-> <<>>, cut |-> <<>>]
      BY <1>4, <2>1, <2>2
    <2> QED
      BY <2>3 DEF NoCandidates
  <1>7. Leaked' = Leaked
    BY <1>1 DEF Leaked
  <1>8. ~Leaked => CandidateCount' = 0
    <2> DEFINE l == Len(found'.lines)
               c == Len(found'.cut)
    <2>1. ~Leaked => l = 0 /\ c = 0
      BY <1>6
    <2>2. CandidateCount' = l + c
      BY DEF CandidateCount
    <2> HIDE DEF l, c
    <2> QED
      BY <2>1, <2>2
  <1> QED
    BY <1>1, <1>2, <1>5, <1>7, <1>8 DEF LeakInv

LEMMA NextPreservesLeakInv == IInv /\ LeakInv /\ [Next]_vars => LeakInv'
  <1> SUFFICES ASSUME IInv, LeakInv, [Next]_vars PROVE LeakInv'
    OBVIOUS
  <1>1. CASE StartHunt
    BY <1>1, BesideTheLeak DEF StartHunt, hunt
  <1>2. CASE HuntCannotRun
    BY <1>2, BesideTheLeak DEF HuntCannotRun, hunt
  <1>3. CASE MakeOutputDir
    BY <1>3, BesideTheLeak DEF MakeOutputDir, hunt
  <1>4. CASE Search
    <2>1. world \in Worlds
      BY DEF IInv, TypeOK
    <2>2. leak' \in Seq(Seq(DOMAIN Width))
      BY <1>4, <2>1, SearchedTyped DEF Search
    <2>3. /\ process = "search" /\ process' = "encode"
          /\ UNCHANGED <<answer, found>>
      BY <1>4 DEF Search
    <2>4. answer' = "none" /\ found' = NoCandidates
      BY <2>3 DEF LeakInv
    <2>5. CandidateCount' = 0 /\ found'.cut = <<>>
      BY <2>3, <2>4, NoneAreCounted DEF CandidateCount
    <2> QED
      BY <2>2, <2>3, <2>4, <2>5 DEF LeakInv
  <1>5. CASE Encode
    BY <1>5 DEF Encode, LeakInv, Leaked, CandidateCount
  <1>6. CASE LeakUnencodable
    BY <1>6, BesideTheLeak DEF LeakUnencodable, hunt
  <1>7. CASE LeakEncoded
    BY <1>7 DEF LeakEncoded, Encoded, LeakInv, Leaked, CandidateCount
  <1>8. CASE Extract
    BY <1>8, ExtractPreservesLeakInv
  <1>9. CASE LandWrite
    BY <1>9, BesideTheLeak DEF LandWrite
  <1>10. CASE FailWrite
    BY <1>10, BesideTheLeak DEF FailWrite, hunt
  <1>11. CASE FailLoop
    BY <1>11, BesideTheLeak DEF FailLoop, hunt
  <1>12. CASE BashDies
    BY <1>12, BesideTheLeak DEF BashDies, hunt
  <1>13. CASE AbortOnFailedHunt
    BY <1>13, BesideTheLeak DEF AbortOnFailedHunt, hunt
  <1>14. CASE HuntReturns
    BY <1>14, BesideTheLeak DEF HuntReturns, hunt
  <1>15. CASE Report
    BY <1>15, BesideTheLeak DEF Report, hunt
  <1>16. CASE ExecRaises
    BY <1>16, BesideTheLeak DEF ExecRaises, hunt
  <1>17. CASE UNCHANGED vars
    BY <1>17, BesideTheLeak DEF vars, hunt
  <1> QED
    BY <1>1, <1>2, <1>3, <1>4, <1>5, <1>6, <1>7, <1>8, <1>9, <1>10, <1>11, <1>12, <1>13,
       <1>14, <1>15, <1>16, <1>17 DEF Next, Ended

\* What is said of the leak stays true of it, wherever the hunt is interrupted.
THEOREM LeakInvIsInvariant == Spec => []LeakInv
  <1>1. Init => IInv /\ LeakInv
    BY InitEstablishesIInv, InitEstablishesLeakInv
  <1>2. IInv /\ LeakInv /\ [Next]_vars => IInv' /\ LeakInv'
    BY NextPreservesIInv, NextPreservesLeakInv
  <1> QED
    BY <1>1, <1>2, PTL DEF Spec

\* However much of the harvest is lost, a leak is never submitted as the empty
\* answer, and a world that leaked nothing gets no candidates.
THEOREM TheLeakIsNotDenied == Spec => []LeakIsNotDenied
  <1>1. LeakInv => LeakIsNotDenied
    BY DEF LeakInv, LeakIsNotDenied
  <1> QED
    BY <1>1, LeakInvIsInvariant, PTL

-----------------------------------------------------------------------------
\* What the script has written of each part when it has come to its end.
LEMMA PartsLanded ==
    ASSUME IInv, Landed(Writes)
    PROVE  Landed(FlatFiles) /\ Landed(CandidateFiles(Len(found.lines)))
  <1> DEFINE candidates == CandidateFiles(Len(found.lines))
  <1>1. Len(found.lines) \in 0 .. MaxCandidates
    BY FoundFacts DEF IInv
  <1>2. Landed(FlatFiles \o candidates)
    BY <1>1, WritesFacts
  <1>3. candidates \in Seq(Surface) /\ FlatFiles \in Seq(Surface)
    BY <1>1, CandidateFilesFacts, FlatFacts
  <1> HIDE DEF candidates
  <1>4. Landed(FlatFiles) /\ Landed(candidates)
    BY <1>2, <1>3, Concat
  <1> QED
    BY <1>4 DEF candidates

\* The two files of each candidate.
LEMMA CandidateIsSubmitted ==
    ASSUME IInv, Landed(Writes), NEW n \in 1 .. Len(found.lines)
    PROVE  Landed(<<File(App, "candidate", n), File(Output, "candidate", n)>>)
  <1> DEFINE max == Len(found.lines)
  <1>1. max \in Nat /\ max \in 0 .. MaxCandidates /\ n \in 1 .. max
    BY FoundFacts, CandidatesFit DEF IInv
  <1>2. Landed(CandidateFiles(max))
    BY PartsLanded
  <1> HIDE DEF max
  <1>3. /\ 2 * n - 1 \in 1 .. 2 * max /\ 2 * n \in 1 .. 2 * max
        /\ (2 * n - 1) % 2 = 1 /\ ((2 * n - 1) + 1) \div 2 = n
        /\ (2 * n) % 2 = 0 /\ (2 * n + 1) \div 2 = n
    BY <1>1
  <1>4. /\ 2 * n - 1 \in DOMAIN CandidateFiles(max) /\ 2 * n \in DOMAIN CandidateFiles(max)
        /\ CandidateFiles(max)[2 * n - 1] = File(App, "candidate", n)
        /\ CandidateFiles(max)[2 * n] = File(Output, "candidate", n)
    BY <1>3 DEF CandidateFiles, Directory
  <1>5. /\ file[File(App, "candidate", n)] = "payload"
        /\ file[File(Output, "candidate", n)] = "payload"
    BY <1>2, <1>4 DEF Landed
  <1> DEFINE x == File(App, "candidate", n)
             y == File(Output, "candidate", n)
  <1> HIDE DEF x, y
  <1>6. \A k \in DOMAIN <<x, y>> : <<x, y>>[k] = x \/ <<x, y>>[k] = y
    OBVIOUS
  <1> QED
    BY <1>5, <1>6 DEF Landed, x, y

\* What copying one file after the other cannot change is a line of the leak.
LEMMA OwnLinesAreFound ==
    ASSUME world \in Files(DOMAIN Width)
    PROVE  OwnLines \subseteq ToSet(Found(world))
  <1> DEFINE finished == \A f \in CopiedFiles : Last(f.text) = <<>>
             text == Found(world)
  <1>1. \A f \in ToSet(world) : Whole(f) <=> f \in CopiedFiles
    BY DEF Whole, CopiedFiles
  <1>2. finished => \A f \in ToSet(world) : Whole(f) => Last(f.text) = <<>>
    BY <1>1
  <1>3. /\ text \in Seq(Seq(DOMAIN Width))
        /\ \A f \in CopiedFiles : Holds(text, f.text, finished)
    <2> HIDE DEF finished
    <2>1. /\ text \in Seq(Seq(DOMAIN Width))
          /\ \A f \in ToSet(world) : Whole(f) => Holds(text, f.text, finished)
      BY <1>2, LeakFacts
    <2> QED
      BY <1>1, <2>1 DEF CopiedFiles
  <1>4. SUFFICES ASSUME NEW x \in OwnLines PROVE x \in ToSet(text)
    OBVIOUS
  <1>5. PICK f \in CopiedFiles : \E k \in 1 .. Len(f.text) - 1 :
           (k > 1 \/ finished) /\ x = f.text[k]
    BY DEF OwnLines
  <1> HIDE DEF finished, text
  <1>6. Finished(text, x)
    BY <1>3, <1>5 DEF Holds
  <1>7. PICK k \in 1 .. Len(text) - 1 : text[k] = x
    BY <1>6 DEF Finished
  <1>8. Len(text) \in Nat /\ \A i \in 1 .. Len(text) : text[i] \in ToSet(text)
    <2> DEFINE L == Seq(DOMAIN Width)
    <2>1. text \in Seq(L)
      BY <1>3
    <2> HIDE DEF L
    <2> QED
      BY <2>1, Elements
  <1>9. k \in 1 .. Len(text)
    BY <1>7, <1>8
  <1> QED
    BY <1>7, <1>8, <1>9

\* Every world and every text, of files that end in a newline or not: a run that
\* reports, and lost nothing of the leak on the way, has submitted each literal of
\* the regular lines of the leak, and of those lines of the rubric and of the
\* answer files that reached it as they were, whatever the literals and however many.
THEOREM LeakedLiteralsAreInFiles == Spec => []LeakedLiteralsAreSubmitted
  <1>1. IInv /\ LeakInv => LeakedLiteralsAreSubmitted
    <2> SUFFICES ASSUME IInv, LeakInv, outcome = "reported", Unharmed, ~Binary(leak),
                        NEW line \in ToSet(leak) \cup OwnLines, Regular(line),
                        NEW s \in ToSet(Strings(line))
                 PROVE  Submitted(s)
      BY DEF LeakedLiteralsAreSubmitted
    <2>1. world \in Files(DOMAIN Width) /\ leak = Found(world)
      BY WorldsAreFiles DEF IInv, TypeOK, Files, Texts, Unharmed
    <2>2. line \in ToSet(leak)
      BY <2>1, OwnLinesAreFound
    <2>3. leak \in Seq(Seq(DOMAIN Width))
      BY DEF LeakInv
    <2>4. PICK k \in 1 .. Len(leak) : leak[k] = line
      BY <2>2, <2>3, Elements
    <2>5. s \in ToSet(Candidates(leak))
      BY <2>3, <2>4, StringsAreCandidates
    <2>6. found.lines = Candidates(leak) /\ found.lines \in Seq(Seq(DOMAIN Width))
      BY <2>3, CandidatesTyped DEF Unharmed
    <2>7. PICK n \in 1 .. Len(found.lines) : found.lines[n] = s
      BY <2>5, <2>6, Elements
    <2>8. n \in DOMAIN found.lines
      BY <2>6, Elements
    <2>9. Landed(Writes)
      BY DEF IInv, WriteInv
    <2>10. Landed(<<File(App, "candidate", n), File(Output, "candidate", n)>>)
      BY <2>9, CandidateIsSubmitted
    <2> QED
      BY <2>7, <2>8, <2>10 DEF Submitted
  <1> QED
    BY <1>1, IInvIsInvariant, LeakInvIsInvariant, PTL

\* The head of a list that has lines.
LEMMA HeadOfLines ==
    ASSUME LeakInv, found.lines \in Seq(Seq(DOMAIN Width)), found.lines # <<>>
    PROVE  FirstCandidate = found.lines[1]
  <1> DEFINE W == DOMAIN Width \cup {"part"}
             V == Seq(W)
             a == found.lines
             b == found.cut
             c == << <<>> >>
             ab == a \o b
  <1>1. a \in Seq(V)
    <2>1. \A k \in 1 .. Len(a) : a[k] \in V
      BY Elements
    <2> QED
      BY <2>1
  <1>2. b \in Seq(V)
    <2>1. <<"part">> \in V
      OBVIOUS
    <2>2. b = <<>> \/ b = << <<"part">> >>
      BY DEF LeakInv
    <2> HIDE DEF V, b
    <2>3. <<>> \in Seq(V) /\ << <<"part">> >> \in Seq(V)
      BY <2>1
    <2> QED
      BY <2>2, <2>3
  <1>3. c \in Seq(V)
    OBVIOUS
  <1>4. FirstCandidate = Head(ab \o c)
    BY DEF FirstCandidate
  <1> HIDE DEF V, a, b, c
  <1>5. ab \in Seq(V) /\ ab # <<>> /\ ab[1] = a[1]
    BY <1>1, <1>2, ConcatHolds DEF a
  <1> HIDE DEF ab
  <1>6. ab \o c \in Seq(V) /\ ab \o c # <<>> /\ (ab \o c)[1] = ab[1]
    BY <1>3, <1>5, ConcatHolds
  <1> DEFINE abc == ab \o c
  <1> HIDE DEF abc
  <1>7. Head(abc) = abc[1]
    BY <1>6 DEF abc
  <1> QED
    BY <1>4, <1>5, <1>6, <1>7 DEF abc, a

\* Every world and every text: the standard names of a run that reports hold the
\* last literal of the first line with a key that has one.
THEOREM AnswersAreFirst == Spec => []AnswersComeFirst
  <1>1. IInv /\ LeakInv => AnswersComeFirst
    <2> DEFINE keyed == {k \in DOMAIN leak : HasKey(leak[k]) /\ Strings(leak[k]) # <<>>}
    <2> SUFFICES ASSUME IInv, LeakInv, outcome = "reported", Unharmed, ~Binary(leak),
                        keyed # {}, \A k \in DOMAIN leak : Regular(leak[k])
                 PROVE  /\ FirstCandidate = Last(Strings(leak[Min(keyed)]))
                        /\ Landed(FlatFiles)
      BY DEF AnswersComeFirst
    <2>1. leak \in Seq(Seq(DOMAIN Width))
      BY DEF LeakInv
    <2>2. DOMAIN leak = 1 .. Len(leak) /\ Len(leak) \in Nat
      BY <2>1, Elements
    <2>3. keyed \in SUBSET Nat
      BY <2>2
    <2> DEFINE k == Min(keyed)
    <2>4. k \in keyed /\ \A j \in keyed : k <= j
      BY <2>3, MinIsLeast
    <2>5. k \in 1 .. Len(leak) /\ HasKey(leak[k]) /\ Strings(leak[k]) # <<>>
      BY <2>2, <2>4
    <2>6. \A j \in 1 .. k - 1 : ~(HasKey(leak[j]) /\ Strings(leak[j]) # <<>>)
      <3> SUFFICES ASSUME NEW j \in 1 .. k - 1, HasKey(leak[j]), Strings(leak[j]) # <<>>
                   PROVE  FALSE
        OBVIOUS
      <3>1. j \in keyed => k <= j
        BY <2>4
      <3>2. j \in DOMAIN leak => j \in keyed
        OBVIOUS
      <3> HIDE DEF k, keyed
      <3>3. j \in DOMAIN leak /\ ~(k <= j)
        BY <2>2, <2>5
      <3> QED
        BY <3>1, <3>2, <3>3
    <2>7. \A j \in 1 .. Len(leak) : Regular(leak[j])
      BY <2>2
    <2> HIDE DEF k, keyed
    <2>8. Candidates(leak) # <<>> /\ Candidates(leak)[1] = Last(Strings(leak[k]))
      BY <2>1, <2>5, <2>6, <2>7, LastStringComesFirst
    <2>9. found.lines = Candidates(leak) /\ found.lines \in Seq(Seq(DOMAIN Width))
      BY <2>1, CandidatesTyped DEF Unharmed
    <2>10. FirstCandidate = Last(Strings(leak[k]))
      BY <2>8, <2>9, HeadOfLines
    <2>11. Landed(FlatFiles)
      BY PartsLanded DEF IInv, WriteInv
    <2> QED
      BY <2>10, <2>11 DEF k
  <1> QED
    BY <1>1, IInvIsInvariant, LeakInvIsInvariant, PTL
=============================================================================
