-------------------------- MODULE RandomAgentProofs ---------------------------
(***************************************************************************)
(* The safety of the random agent for every library of the world and every *)
(* grab bag of arguments.                                                  *)
(***************************************************************************)
EXTENDS RandomAgent, FiniteSetTheorems, TLAPS

\* The state the wrong final state rests on: the driver is over when the writes
\* begin, and the writes before the next one are in place.
WriteInv ==
    /\ process = "running" => at = "bun"
    /\ at # "write" => next = 1
    /\ \A i \in DOMAIN Targets : i < next => file[Targets[i]] = "payload"
    /\ outcome = "reported" => at = "write" /\ next = Len(Targets) + 1

\* The draws are at most two a function; a call of the search comes after them
\* and only as long as none has completed.
CountInv ==
    \/ completed + turn.times + 2 * Cardinality(todo) <= 2 * Len(callable)
    \/ completed <= 1 /\ turn.times = 0 /\ todo = {}

\* A pair the search has been at without success is one that may be rejected.
SearchInv ==
    /\ completed = 0 =>
          \A k \in 1 .. sweep : completes[<<PairFunction(k), PairArgument(k)>>] # {TRUE}
    /\ process = "finished" => completed > 0 \/ sweep = Pairs

IInv == TypeOK /\ WriteInv /\ CountInv /\ SearchInv

\* The three targets.
LEMMA TargetFacts ==
    /\ Len(Targets) = 3 /\ DOMAIN Targets = 1 .. 3
    /\ \A i \in 1 .. 3 : Targets[i] \in Paths
    /\ \A i, j \in 1 .. 3 : Targets[i] = Targets[j] => i = j
    /\ \A p \in Paths : \E i \in 1 .. 3 : Targets[i] = p
    /\ "/app/state.json" \in Paths
  <1>1. Len(Targets) = 3 /\ DOMAIN Targets = 1 .. 3
    BY DEF Targets
  <1>2. /\ Targets[1] = "/app/state.json" /\ Targets[2] = "/app/output/result.json"
        /\ Targets[3] = "/app/result.json"
    BY DEF Targets
  <1>3. \A i \in 1 .. 3 : i = 1 \/ i = 2 \/ i = 3
    OBVIOUS
  <1>4. \A i, j \in 1 .. 3 : Targets[i] = Targets[j] => i = j
    BY <1>2, <1>3
  <1> QED
    BY <1>1, <1>2, <1>4 DEF Paths, Elements

\* A library and the grab bag are lists.
LEMMA ListFacts ==
    ASSUME NEW lib \in Libraries
    PROVE  /\ Len(lib) \in Nat /\ DOMAIN lib = 1 .. Len(lib)
           /\ Len(GrabBag) \in Nat /\ Len(GrabBag) > 0 /\ DOMAIN GrabBag = 1 .. Len(GrabBag)
           /\ IsFiniteSet(Elements(lib)) /\ Cardinality(Elements(lib)) <= Len(lib)
  <1>1. lib \in Seq(Elements(lib)) /\ GrabBag \in Seq(Elements(GrabBag)) /\ GrabBag # <<>>
    BY LibrariesAreLists
  <1>2. /\ Len(lib) \in Nat /\ DOMAIN lib = 1 .. Len(lib)
        /\ Len(GrabBag) \in Nat /\ Len(GrabBag) > 0 /\ DOMAIN GrabBag = 1 .. Len(GrabBag)
    BY <1>1
  <1>3. lib \in Surjection(1 .. Len(lib), Elements(lib))
    BY <1>1, <1>2 DEF Surjection, Elements
  <1>4. IsFiniteSet(1 .. Len(lib)) /\ Cardinality(1 .. Len(lib)) = Len(lib)
    <2> DEFINE n == Len(lib)
    <2>1. n \in Nat /\ 1 \in Int /\ n \in Int
      BY <1>2
    <2> HIDE DEF n
    <2>2. IsFiniteSet(1 .. n) /\ Cardinality(1 .. n) = IF 1 > n THEN 0 ELSE n - 1 + 1
      BY <2>1, FS_Interval, Zenon
    <2>3. Cardinality(1 .. n) = n
      BY <2>1, <2>2
    <2> QED
      BY <2>2, <2>3 DEF n
  <1>5. IsFiniteSet(Elements(lib)) /\ Cardinality(Elements(lib)) <= Cardinality(1 .. Len(lib))
    BY <1>3, <1>4, FS_Surjection
  <1> QED
    BY <1>2, <1>4, <1>5

\* The position of a pair in a table of rows of n.
LEMMA RowAndColumn ==
    ASSUME NEW n \in Nat \ {0}, NEW a \in Nat, NEW b \in 0 .. n - 1
    PROVE  (a * n + b) \div n = a /\ (a * n + b) % n = b
  <1> DEFINE x == a * n + b
             q == x \div n
             r == x % n
  <1>1. x \in Nat /\ a * n \in Nat
    OBVIOUS
  <1>2. q \in Nat /\ r \in 0 .. n - 1 /\ x = q * n + r
    BY <1>1
  <1> HIDE DEF q, r
  <1>3. a * n + b = q * n + r
    BY <1>2
  <1>4. (a - q) * n = r - b
    BY <1>2, <1>3
  <1>5. ~(a - q >= 1)
    <2> SUFFICES ASSUME a - q >= 1 PROVE FALSE
      OBVIOUS
    <2>1. (a - q) * n >= n
      BY <1>2
    <2> QED
      BY <1>2, <1>4, <2>1
  <1>6. ~(q - a >= 1)
    <2> SUFFICES ASSUME q - a >= 1 PROVE FALSE
      OBVIOUS
    <2>1. (q - a) * n >= n
      BY <1>2
    <2>2. (q - a) * n = b - r
      BY <1>2, <1>3
    <2> QED
      BY <1>2, <2>1, <2>2
  <1>7. q = a
    BY <1>2, <1>5, <1>6
  <1>8. r = b
    BY <1>2, <1>3, <1>7
  <1> QED
    BY <1>7, <1>8 DEF q, r

\* The search is at every pair of a function and an argument.
LEMMA EveryPairIsSearched ==
    ASSUME callable \in Libraries, NEW f \in Elements(callable), NEW g \in Elements(GrabBag)
    PROVE  \E k \in 1 .. Pairs : PairFunction(k) = f /\ PairArgument(k) = g
  <1>0. /\ Len(callable) \in Nat /\ DOMAIN callable = 1 .. Len(callable)
        /\ Len(GrabBag) \in Nat \ {0} /\ DOMAIN GrabBag = 1 .. Len(GrabBag)
    BY ListFacts
  <1>1. PICK i \in 1 .. Len(callable) : callable[i] = f
    BY <1>0 DEF Elements
  <1>2. PICK j \in 1 .. Len(GrabBag) : GrabBag[j] = g
    BY <1>0 DEF Elements
  <1> DEFINE n == Len(GrabBag)
             a == i - 1
             b == j - 1
             k == a * n + b + 1
  <1>3. n \in Nat \ {0} /\ a \in Nat /\ b \in 0 .. n - 1
    BY <1>0
  <1>4. (a * n + b) \div n = a /\ (a * n + b) % n = b
    <2> HIDE DEF n, a, b
    <2> QED
      BY <1>3, RowAndColumn
  <1>5. a * n + b \in Nat /\ k - 1 = a * n + b
    BY <1>3
  <1>6. k <= Pairs
    <2>1. a + 1 <= Len(callable)
      BY <1>0
    <2>2. (a + 1) * n <= Len(callable) * n
      BY <1>0, <1>3, <2>1
    <2>3. (a + 1) * n = a * n + n
      BY <1>3
    <2>4. a * n \in Nat /\ Len(callable) * n \in Nat
      BY <1>0, <1>3
    <2>5. Pairs = Len(callable) * n
      BY DEF Pairs
    <2> HIDE DEF n, a, b
    <2> QED
      BY <1>3, <2>2, <2>3, <2>4, <2>5
  <1>7. PairFunction(k) = callable[a + 1] /\ PairArgument(k) = GrabBag[b + 1]
    BY <1>4, <1>5 DEF PairFunction, PairArgument
  <1>8. a + 1 = i /\ b + 1 = j /\ k \in Nat /\ k >= 1 /\ Pairs \in Nat
    BY <1>0, <1>5 DEF Pairs
  <1> QED
    BY <1>1, <1>2, <1>6, <1>7, <1>8

LEMMA InitEstablishesIInv == Init => IInv
  <1> SUFFICES ASSUME Init PROVE IInv
    OBVIOUS
  <1>0. /\ Len(callable) \in Nat /\ IsFiniteSet(Elements(callable))
        /\ Cardinality(Elements(callable)) <= Len(callable) /\ Len(GrabBag) \in Nat
        /\ Pairs \in Nat
    BY ListFacts DEF Init, Pairs
  <1>1. TypeOK
    <2>1. next \in 1 .. Len(Targets) + 1
      BY TargetFacts DEF Init
    <2>2. file \in [Paths -> Content]
      BY DEF Init, Content
    <2>3. turn \in [fn : Elements(callable) \cup {"none"}, times : 0 .. 2]
      BY DEF Init, Idle
    <2>4. sweep \in 0 .. Pairs /\ completed \in 0 .. 2 * Len(callable) + 1
      BY <1>0 DEF Init
    <2> QED
      BY <2>1, <2>2, <2>3, <2>4 DEF Init, TypeOK
  <1>2. WriteInv
    BY TargetFacts DEF Init, WriteInv
  <1>3. CountInv
    <2>1. Cardinality(Elements(callable)) \in Nat
      BY <1>0, FS_CardinalityType
    <2> QED
      BY <1>0, <2>1 DEF Init, CountInv, Idle
  <1>4. SearchInv
    BY DEF Init, SearchInv
  <1> QED
    BY <1>1, <1>2, <1>3, <1>4 DEF IInv

\* The numbers of the type invariant.
LEMMA TypeFacts ==
    ASSUME TypeOK
    PROVE  /\ callable \in Libraries /\ Len(callable) \in Nat /\ Pairs \in Nat
           /\ completed \in Nat /\ sweep \in Nat /\ sweep <= Pairs
           /\ turn.times \in 0 .. 2 /\ next \in 1 .. 4 /\ Len(Targets) = 3
           /\ IsFiniteSet(todo) /\ Cardinality(todo) \in Nat
           /\ todo \subseteq Elements(callable)
  <1>1. /\ callable \in Libraries /\ Len(callable) \in Nat /\ Len(GrabBag) \in Nat
        /\ IsFiniteSet(Elements(callable))
    BY ListFacts DEF TypeOK
  <1>2. Pairs \in Nat
    BY <1>1 DEF Pairs
  <1>3. IsFiniteSet(todo) /\ Cardinality(todo) \in Nat
    BY <1>1, FS_Subset, FS_CardinalityType DEF TypeOK
  <1> QED
    BY <1>1, <1>2, <1>3, TargetFacts DEF TypeOK

\* A call: one more completed call or none, a file of the same type, and a call
\* that did not complete was one that may be rejected.
LEMMA CallFacts ==
    ASSUME TypeOK, NEW fn, NEW arg, CallOnce(fn, arg)
    PROVE  /\ completed' \in {completed, completed + 1} /\ completed' \in Nat
           /\ completed' = completed => completes[<<fn, arg>>] # {TRUE}
           /\ file' \in [Paths -> Content]
  <1>1. completed \in Nat /\ file \in [Paths -> Content]
    BY TypeFacts DEF TypeOK
  <1>2. PICK ok \in completes[<<fn, arg>>] :
           /\ completed' = IF ok THEN completed + 1 ELSE completed
           /\ file' \in {file, [file EXCEPT !["/app/state.json"] = "world"]}
    BY DEF CallOnce
  <1>3. file' \in [Paths -> Content]
    BY <1>1, <1>2, TargetFacts DEF Content
  <1>4. CASE ok
    <2>1. completed' = completed + 1
      BY <1>2, <1>4
    <2>2. completed' \in Nat /\ completed' # completed
      BY <1>1, <2>1
    <2> QED
      BY <1>3, <2>1, <2>2
  <1>5. CASE ~ok
    <2>1. completed' = completed
      BY <1>2, <1>5
    <2>2. completes[<<fn, arg>>] # {TRUE}
      <3> SUFFICES ASSUME completes[<<fn, arg>>] = {TRUE} PROVE FALSE
        OBVIOUS
      <3>1. ok \in {TRUE}
        OBVIOUS
      <3>2. ok = TRUE
        BY <3>1, Zenon
      <3> QED
        BY <1>5, <3>2
    <2> QED
      BY <1>1, <1>3, <2>1, <2>2
  <1> QED
    BY <1>4, <1>5

\* A step that leaves the driver alone, and its writes in place.
LEMMA BesideTheDriver ==
    ASSUME IInv, UNCHANGED <<callable, completes, todo, turn, sweep, completed>>,
           process' \in {process, "running", "finished", "died"},
           process' = "finished" => process = "finished" \/ completed > 0 \/ sweep = Pairs
    PROVE  CountInv' /\ SearchInv'
  <1>1. CountInv'
    BY DEF IInv, CountInv
  <1>2. SearchInv'
    BY DEF IInv, SearchInv, Pairs, PairFunction, PairArgument
  <1> QED
    BY <1>1, <1>2

LEMMA TakeFunctionPreserves == IInv /\ TakeFunction => IInv'
  <1> SUFFICES ASSUME IInv, TakeFunction PROVE IInv'
    OBVIOUS
  <1>1. PICK fn \in todo, times \in 0 .. 2 :
           todo' = todo \ {fn} /\ turn' = [fn |-> fn, times |-> times]
    BY DEF TakeFunction
  <1>2. /\ turn.times = 0
        /\ UNCHANGED <<outcome, at, next, outputDir, script, claims, file, process, callable,
                       completes, sweep, completed>>
    BY DEF TakeFunction, shell
  <1>3. TypeOK /\ WriteInv /\ CountInv /\ SearchInv
    BY DEF IInv
  <1>4. TypeOK'
    BY <1>1, <1>2, <1>3 DEF TypeOK, Pairs
  <1>5. WriteInv'
    BY <1>2, <1>3 DEF WriteInv
  <1>6. CountInv'
    <2>1. Cardinality(todo') = Cardinality(todo) - 1
      BY <1>1, <1>3, TypeFacts, FS_RemoveElement
    <2>2. todo # {}
      BY <1>1
    <2>3. completed + 2 * Cardinality(todo) <= 2 * Len(callable)
      BY <1>2, <1>3, <2>2, TypeFacts DEF CountInv
    <2>4. turn'.times \in 0 .. 2
      BY <1>1
    <2> QED
      BY <1>2, <1>3, <2>1, <2>3, <2>4, TypeFacts DEF CountInv
  <1>7. SearchInv'
    BY <1>2, <1>3 DEF SearchInv, Pairs, PairFunction, PairArgument
  <1> QED
    BY <1>4, <1>5, <1>6, <1>7 DEF IInv

LEMMA CallAtRandomPreserves == IInv /\ CallAtRandom => IInv'
  <1> SUFFICES ASSUME IInv, CallAtRandom PROVE IInv'
    OBVIOUS
  <1>1. PICK arg \in Elements(GrabBag) : CallOnce(turn.fn, arg)
    BY DEF CallAtRandom
  <1>2. /\ process = "running" /\ turn.times > 0 /\ turn' = [turn EXCEPT !.times = @ - 1]
        /\ UNCHANGED <<outcome, at, next, outputDir, script, claims, process, callable,
                       completes, todo, sweep>>
    BY DEF CallAtRandom, shell
  <1>3. TypeOK /\ WriteInv /\ CountInv /\ SearchInv
    BY DEF IInv
  <1>4. /\ completed' \in {completed, completed + 1} /\ completed' \in Nat
        /\ file' \in [Paths -> Content]
    BY <1>1, <1>3, CallFacts
  <1>5. turn.times \in 1 .. 2 /\ turn'.times = turn.times - 1 /\ turn'.fn = turn.fn
    BY <1>2, <1>3, TypeFacts DEF TypeOK
  <1>6. /\ completed + turn.times + 2 * Cardinality(todo) <= 2 * Len(callable)
    BY <1>3, <1>5 DEF CountInv
  <1>7. CountInv'
    BY <1>2, <1>3, <1>4, <1>5, <1>6, TypeFacts DEF CountInv
  <1>8. TypeOK'
    <2>1. completed' \in 0 .. 2 * Len(callable) + 1
      BY <1>3, <1>4, <1>5, <1>6, TypeFacts
    <2>2. turn' \in [fn : Elements(callable) \cup {"none"}, times : 0 .. 2]
      BY <1>2, <1>3, <1>5 DEF TypeOK
    <2> QED
      BY <1>2, <1>3, <1>4, <2>1, <2>2 DEF TypeOK, Pairs
  <1>9. WriteInv'
    <2>1. at = "bun" /\ next = 1
      BY <1>2, <1>3 DEF WriteInv
    <2> QED
      BY <1>2, <1>3, <2>1, TargetFacts DEF WriteInv
  <1>10. SearchInv'
    <2>1. completed' = 0 => completed = 0
      BY <1>3, <1>4, TypeFacts
    <2> QED
      BY <1>2, <1>3, <2>1 DEF SearchInv, Pairs, PairFunction, PairArgument
  <1> QED
    BY <1>7, <1>8, <1>9, <1>10 DEF IInv

LEMMA SearchPreserves == IInv /\ Search => IInv'
  <1> SUFFICES ASSUME IInv, Search PROVE IInv'
    OBVIOUS
  <1>1. CallOnce(PairFunction(sweep + 1), PairArgument(sweep + 1))
    BY DEF Search
  <1>2. /\ process = "running" /\ todo = {} /\ turn.times = 0 /\ completed = 0
        /\ sweep < Pairs /\ sweep' = sweep + 1
        /\ UNCHANGED <<outcome, at, next, outputDir, script, claims, process, callable,
                       completes, todo, turn>>
    BY DEF Search, LoopDone, shell
  <1>3. TypeOK /\ WriteInv /\ CountInv /\ SearchInv
    BY DEF IInv
  <1>4. /\ completed' \in {0, 1} /\ file' \in [Paths -> Content]
        /\ completed' = 0 =>
              completes[<<PairFunction(sweep + 1), PairArgument(sweep + 1)>>] # {TRUE}
    <2>1. /\ completed' \in {completed, completed + 1} /\ file' \in [Paths -> Content]
          /\ completed' = completed =>
                completes[<<PairFunction(sweep + 1), PairArgument(sweep + 1)>>] # {TRUE}
      BY <1>1, <1>3, CallFacts, Zenon
    <2>2. completed' \in {0, 1} /\ (completed' = 0 => completed' = completed)
      BY <1>2, <2>1
    <2> QED
      BY <2>1, <2>2, Zenon
  <1>5. CountInv'
    BY <1>2, <1>4 DEF CountInv
  <1>6. TypeOK'
    <2>1. completed' \in 0 .. 2 * Len(callable) + 1 /\ sweep' \in 0 .. Pairs
      BY <1>2, <1>3, <1>4, TypeFacts
    <2> QED
      BY <1>2, <1>3, <1>4, <2>1 DEF TypeOK, Pairs
  <1>7. WriteInv'
    <2>1. at = "bun" /\ next = 1
      BY <1>2, <1>3 DEF WriteInv
    <2> QED
      BY <1>2, <1>3, <2>1, TargetFacts DEF WriteInv
  <1>8. SearchInv'
    <2>1. ASSUME completed' = 0, NEW k \in 1 .. sweep'
          PROVE  completes[<<PairFunction(k), PairArgument(k)>>] # {TRUE}
      <3>1. k \in 1 .. sweep \/ k = sweep + 1
        BY <1>2, <1>3, TypeFacts
      <3> QED
        BY <1>2, <1>3, <1>4, <2>1, <3>1 DEF SearchInv
    <2> QED
      BY <1>2, <2>1 DEF SearchInv, PairFunction, PairArgument
  <1> QED
    BY <1>5, <1>6, <1>7, <1>8 DEF IInv

LEMMA RedirectFacts ==
    ASSUME TypeOK, next \in DOMAIN Targets, NEW w \in WriteResults
    PROVE  w.content \in Content /\ (w.rc = 0 => w.content = "payload")
  <1>1. file[Targets[next]] \in Content
    BY TargetFacts DEF TypeOK
  <1> QED
    BY <1>1 DEF WriteResults, Redirect, Content

LEMMA LandTargetPreserves == IInv /\ LandTarget => IInv'
  <1> SUFFICES ASSUME IInv, LandTarget PROVE IInv'
    OBVIOUS
  <1>1. PICK w \in WriteResults : w.rc = 0 /\ file' = [file EXCEPT ![Targets[next]] = w.content]
    BY DEF LandTarget
  <1>2. /\ at = "write" /\ outcome = "running" /\ next \in DOMAIN Targets /\ next' = next + 1
        /\ UNCHANGED <<outcome, at, outputDir, script, claims, process, callable, completes,
                       todo, turn, sweep, completed>>
    BY DEF LandTarget, Writing, At, driver
  <1>3. w.content = "payload" /\ TypeOK /\ WriteInv
    BY <1>1, <1>2, RedirectFacts DEF IInv
  <1>4. TypeOK'
    <2>1. file' \in [Paths -> Content]
      BY <1>1, <1>3 DEF TypeOK, Content
    <2>2. next' \in 1 .. Len(Targets) + 1
      BY <1>2, TargetFacts
    <2> QED
      BY <1>2, <1>3, <2>1, <2>2 DEF TypeOK, Pairs
  <1>5. WriteInv'
    <2>1. \A i \in DOMAIN Targets : i < next' => file'[Targets[i]] = "payload"
      <3> SUFFICES ASSUME NEW i \in DOMAIN Targets, i < next'
                   PROVE  file'[Targets[i]] = "payload"
        OBVIOUS
      <3>1. CASE i = next
        BY <1>1, <1>2, <1>3, <3>1, TargetFacts DEF TypeOK
      <3>2. CASE i # next
        <4>1. i < next /\ Targets[i] # Targets[next]
          BY <1>2, <3>2, TargetFacts
        <4> QED
          BY <1>1, <1>3, <4>1, TargetFacts DEF TypeOK, WriteInv
      <3> QED
        BY <3>1, <3>2
    <2> QED
      BY <1>2, <1>3, <2>1 DEF WriteInv
  <1>6. CountInv' /\ SearchInv'
    <2>1. process' = "finished" => process = "finished"
      BY <1>2
    <2> QED
      BY <1>2, <2>1, BesideTheDriver
  <1> QED
    BY <1>4, <1>5, <1>6 DEF IInv

\* A run that ends with a write that failed or was cut off by an exception.
LEMMA EndingPreserves ==
    ASSUME IInv, outcome = "running", outcome' \in {"aborted", "raised"},
           UNCHANGED <<at, next, claims, driver>>, outputDir' \in BOOLEAN,
           script' \in {"absent", "stale", "torn", "fresh"},
           \/ file' = file
           \/ /\ at = "write" /\ next \in DOMAIN Targets
              /\ \E w \in WriteResults : file' = [file EXCEPT ![Targets[next]] = w.content]
    PROVE  IInv'
  <1>1. TypeOK /\ WriteInv
    BY DEF IInv
  <1>2. /\ file' \in [Paths -> Content]
        /\ \A i \in DOMAIN Targets : i < next => file'[Targets[i]] = file[Targets[i]]
    <2>1. CASE file' = file
      BY <1>1, <2>1 DEF TypeOK
    <2>2. ASSUME next \in DOMAIN Targets, NEW w \in WriteResults,
                 file' = [file EXCEPT ![Targets[next]] = w.content]
          PROVE  /\ file' \in [Paths -> Content]
                 /\ \A i \in DOMAIN Targets : i < next => file'[Targets[i]] = file[Targets[i]]
      <3>1. w.content \in Content
        BY <1>1, <2>2, RedirectFacts
      <3>2. \A i \in DOMAIN Targets : i < next => Targets[i] # Targets[next]
        BY <2>2, TargetFacts
      <3> QED
        BY <1>1, <2>2, <3>1, <3>2, TargetFacts DEF TypeOK
    <2> QED
      BY <2>1, <2>2
  <1>3. TypeOK'
    BY <1>1, <1>2 DEF TypeOK, driver, Pairs
  <1>4. WriteInv'
    BY <1>1, <1>2 DEF WriteInv, driver
  <1>5. CountInv' /\ SearchInv'
    BY BesideTheDriver DEF driver
  <1> QED
    BY <1>3, <1>4, <1>5 DEF IInv

\* The driver ends, by itself or killed.
LEMMA DriverEndPreserves == IInv /\ (FinishDriver \/ DriverDies) => IInv'
  <1> SUFFICES ASSUME IInv, FinishDriver \/ DriverDies PROVE IInv'
    OBVIOUS
  <1>1. /\ process = "running" /\ process' \in {"finished", "died"}
        /\ process' = "finished" => completed > 0 \/ sweep = Pairs
        /\ at' = IF outcome = "running" THEN "write" ELSE at
        /\ UNCHANGED <<outcome, next, outputDir, script, claims, file, callable, completes,
                       todo, turn, sweep, completed>>
    BY DEF FinishDriver, DriverDies, LoopDone
  <1>2. TypeOK /\ WriteInv
    BY DEF IInv
  <1>3. TypeOK'
    BY <1>1, <1>2 DEF TypeOK, Pairs
  <1>4. WriteInv'
    <2>1. at = "bun" /\ next = 1 /\ outcome # "reported"
      BY <1>1, <1>2 DEF WriteInv
    <2> QED
      BY <1>1, <1>2, <2>1 DEF WriteInv
  <1>5. CountInv' /\ SearchInv'
    BY <1>1, BesideTheDriver
  <1> QED
    BY <1>3, <1>4, <1>5 DEF IInv

\* The driver starts, or run() goes on without it.
LEMMA DriverStartPreserves == IInv /\ (StartDriver \/ DriverCannotRun) => IInv'
  <1> SUFFICES ASSUME IInv, StartDriver \/ DriverCannotRun PROVE IInv'
    OBVIOUS
  <1>1. /\ outcome = "running" /\ at = "script"
        /\ \/ process' = "running" /\ at' = "bun"
           \/ process' = process /\ at' = "write"
        /\ \E w \in ScriptWrites(script) : script' = w.script
        /\ UNCHANGED <<outcome, next, outputDir, claims, file, callable, completes, todo, turn,
                       sweep, completed>>
    BY DEF StartDriver, DriverCannotRun, At, driver
  <1>2. TypeOK /\ WriteInv
    BY DEF IInv
  <1>3. TypeOK'
    <2>1. \A w \in ScriptWrites(script) : w.script \in {"absent", "stale", "torn", "fresh"}
      BY <1>2 DEF ScriptWrites, TypeOK
    <2> QED
      BY <1>1, <1>2, <2>1 DEF TypeOK, Pairs
  <1>4. WriteInv'
    <2>1. next = 1 /\ process # "running"
      BY <1>1, <1>2 DEF WriteInv
    <2> QED
      BY <1>1, <1>2, <2>1 DEF WriteInv
  <1>5. CountInv' /\ SearchInv'
    BY <1>1, BesideTheDriver
  <1> QED
    BY <1>3, <1>4, <1>5 DEF IInv

LEMMA NextPreservesIInv == IInv /\ [Next]_vars => IInv'
  <1> SUFFICES ASSUME IInv, [Next]_vars PROVE IInv'
    OBVIOUS
  <1>0. TypeOK /\ WriteInv
    BY DEF IInv
  <1>1. CASE MakeOutputDir
    <2>1. TypeOK'
      BY <1>0, <1>1 DEF MakeOutputDir, driver, TypeOK, Pairs
    <2>2. WriteInv'
      BY <1>0, <1>1 DEF MakeOutputDir, driver, At, WriteInv
    <2>3. CountInv' /\ SearchInv'
      BY <1>1, BesideTheDriver DEF MakeOutputDir, driver
    <2> QED
      BY <2>1, <2>2, <2>3 DEF IInv
  <1>2. CASE StartDriver \/ DriverCannotRun
    BY <1>2, DriverStartPreserves
  <1>3. CASE TakeFunction
    BY <1>3, TakeFunctionPreserves
  <1>4. CASE CallAtRandom
    BY <1>4, CallAtRandomPreserves
  <1>5. CASE Search
    BY <1>5, SearchPreserves
  <1>6. CASE FinishDriver \/ DriverDies
    BY <1>6, DriverEndPreserves
  <1>7. CASE LandTarget
    BY <1>7, LandTargetPreserves
  <1>8. CASE AbortOnFailedWrite
    <2>1. outputDir \in BOOLEAN /\ script \in {"absent", "stale", "torn", "fresh"}
      BY <1>0 DEF TypeOK
    <2> QED
      BY <1>8, <2>1, EndingPreserves DEF AbortOnFailedWrite, Writing, At
  <1>9. CASE Report
    <2>1. at = "write" /\ next = Len(Targets) + 1
      BY <1>0, <1>9, TargetFacts DEF Report, At, TypeOK
    <2>2. TypeOK'
      BY <1>0, <1>9 DEF Report, driver, TypeOK, Pairs
    <2>3. WriteInv'
      BY <1>0, <1>9, <2>1 DEF Report, driver, WriteInv
    <2>4. CountInv' /\ SearchInv'
      BY <1>9, BesideTheDriver DEF Report, driver
    <2> QED
      BY <2>2, <2>3, <2>4 DEF IInv
  <1>10. CASE ExecRaises
    <2>1. \A w \in ScriptWrites(script) : w.script \in {"absent", "stale", "torn", "fresh"}
      BY <1>0 DEF ScriptWrites, TypeOK
    <2>2. outputDir' \in BOOLEAN /\ script' \in {"absent", "stale", "torn", "fresh"}
      BY <1>0, <1>10, <2>1 DEF ExecRaises, TypeOK
    <2> QED
      BY <1>10, <2>2, EndingPreserves DEF ExecRaises, Writing, At
  <1>11. CASE UNCHANGED vars
    <2>1. TypeOK'
      BY <1>0, <1>11 DEF vars, shell, driver, TypeOK, Pairs
    <2>2. WriteInv'
      BY <1>0, <1>11 DEF vars, shell, driver, WriteInv
    <2>3. CountInv' /\ SearchInv'
      BY <1>11, BesideTheDriver DEF vars, shell, driver
    <2> QED
      BY <2>1, <2>2, <2>3 DEF IInv
  <1> QED
    BY <1>1, <1>2, <1>3, <1>4, <1>5, <1>6, <1>7, <1>8, <1>9, <1>10, <1>11 DEF Next, Ended

THEOREM IInvIsInvariant == Spec => []IInv
  BY InitEstablishesIInv, NextPreservesIInv, PTL DEF Spec

\* The state of the run, for every library and every grab bag.
THEOREM RandomAgentTypeOK == Spec => []TypeOK
  <1>1. IInv => TypeOK
    BY DEF IInv
  <1> QED
    BY <1>1, IInvIsInvariant, PTL

LEMMA ReportedStateStands == IInv => WrongStateStands
  BY TargetFacts DEF IInv, WriteInv, WrongStateStands

\* Whatever the functions of the world do to state.json, a reported run is
\* graded on the wrong state.
THEOREM WrongStateIsGraded == Spec => []WrongStateStands
  BY ReportedStateStands, IInvIsInvariant, PTL

\* A library with a function that accepts some argument of the bag shows some
\* activity, however the draws of the loop fall.
THEOREM SearchFindsActivity == Spec => []ActivityWhenPossible
  <1>0. DOMAIN completes = Elements(callable) \X Elements(GrabBag)
           /\ IInv /\ process = "finished" /\ completed = 0
        => \A pair \in DOMAIN completes : completes[pair] # {TRUE}
    <2> SUFFICES ASSUME DOMAIN completes = Elements(callable) \X Elements(GrabBag), IInv,
                        process = "finished", completed = 0,
                        NEW pair \in Elements(callable) \X Elements(GrabBag)
                 PROVE  completes[pair] # {TRUE}
      OBVIOUS
    <2>0. PICK f \in Elements(callable), g \in Elements(GrabBag) : pair = <<f, g>>
      OBVIOUS
    <2>1. callable \in Libraries /\ sweep = Pairs
      BY DEF IInv, TypeOK, SearchInv
    <2>2. PICK k \in 1 .. Pairs : PairFunction(k) = f /\ PairArgument(k) = g
      BY <2>1, EveryPairIsSearched
    <2>3. completes[<<PairFunction(k), PairArgument(k)>>] # {TRUE}
      BY <2>1, <2>2 DEF IInv, SearchInv
    <2> QED
      BY <2>0, <2>2, <2>3
  <1>1. Init => DOMAIN completes = Elements(callable) \X Elements(GrabBag)
    BY DEF Init
  <1>2. [Next]_vars /\ DOMAIN completes = Elements(callable) \X Elements(GrabBag)
           => (DOMAIN completes = Elements(callable) \X Elements(GrabBag))'
    BY DEF Next, vars, shell, driver, MakeOutputDir, StartDriver, DriverCannotRun,
           TakeFunction, CallAtRandom, Search, FinishDriver, DriverDies, LandTarget,
           AbortOnFailedWrite, Report, ExecRaises, Ended
  <1>3. Spec => [](DOMAIN completes = Elements(callable) \X Elements(GrabBag))
    BY <1>1, <1>2, PTL DEF Spec
  <1>4. IInv /\ DOMAIN completes = Elements(callable) \X Elements(GrabBag)
           => ActivityWhenPossible
    BY <1>0 DEF ActivityWhenPossible
  <1> QED
    BY <1>3, <1>4, IInvIsInvariant, PTL

LEMMA InitImplementsContract == Init => Contract!Init
  BY DEF Init, Contract!Init, Content

\* Every step of the run is a step of the contract or none at all.
LEMMA StepImplementsContract == IInv /\ [Next]_vars => [Contract!Next]_(Contract!vars)
  <1> SUFFICES ASSUME IInv, [Next]_vars PROVE [Contract!Next]_(Contract!vars)
    OBVIOUS
  <1> USE DEF Contract!Next, Contract!vars, Contract!Work, Contract!Report, Contract!Fail
  <1>1. CASE outcome' = outcome
    <2>1. claims' = claims
      BY <1>1 DEF Next, vars, shell, driver, MakeOutputDir, StartDriver, DriverCannotRun,
         TakeFunction, CallAtRandom, Search, FinishDriver, DriverDies, LandTarget,
         AbortOnFailedWrite, Report, ExecRaises, Ended, At, Writing
    <2>2. CASE outcome = "reported"
      <3>1. process # "running"
        BY <2>2 DEF IInv, WriteInv
      <3>2. file' = file /\ process' = process
        BY <2>2, <3>1 DEF Next, vars, shell, driver, MakeOutputDir, StartDriver,
           DriverCannotRun, TakeFunction, CallAtRandom, Search, FinishDriver, DriverDies,
           LandTarget, AbortOnFailedWrite, Report, ExecRaises, Ended, At, Writing, LoopDone
      <3> QED
        BY <1>1, <2>1, <3>2
    <2>3. CASE outcome # "reported"
      BY <1>1, <2>1, <2>3
    <2> QED
      BY <2>2, <2>3
  <1>2. CASE outcome' # outcome
    <2>1. AbortOnFailedWrite \/ Report \/ ExecRaises
      BY <1>2 DEF Next, vars, shell, driver, MakeOutputDir, StartDriver, DriverCannotRun,
         TakeFunction, CallAtRandom, Search, FinishDriver, DriverDies, LandTarget, Ended
    <2>2. CASE AbortOnFailedWrite \/ ExecRaises
      BY <2>2 DEF AbortOnFailedWrite, ExecRaises, Writing, At
    <2>3. CASE Report
      <3>1. /\ outcome = "running" /\ outcome' = "reported" /\ file' = file /\ process' = process
            /\ claims' = IF process = "finished" THEN {"driver"} ELSE {}
        BY <2>3 DEF Report, At, driver
      <3>2. \A p \in Paths : file[p] = "payload"
        <4>1. at = "write" /\ next = Len(Targets) + 1
          BY <2>3, TargetFacts DEF Report, At, IInv, TypeOK
        <4> QED
          BY <4>1, TargetFacts DEF IInv, WriteInv
      <3> QED
        BY <3>1, <3>2
    <2> QED
      BY <2>1, <2>2, <2>3
  <1> QED
    BY <1>1, <1>2

\* A run that reports has its wrong state in the world, and claims a driver only
\* if that driver came to its end.
THEOREM RandomAgentImplementsContract == Spec => ImplementsContract
  <1>1. Spec => Contract!Init /\ [][Contract!Next]_(Contract!vars)
    BY InitImplementsContract, StepImplementsContract, IInvIsInvariant, PTL DEF Spec
  <1> QED
    BY <1>1 DEF ImplementsContract, Contract!Spec
=============================================================================
