-------------------------- MODULE DoublePayerProofs ---------------------------
(***************************************************************************)
(* The safety of the double payer for every list of staged, released, held *)
(* and escalated invoices.                                                 *)
(***************************************************************************)
EXTENDS DoublePayer, SequenceTheorems, TLAPS

\* The last review or verification, and the last payment, of the oracle's path.
LastReview == 2 * Len(Staged)
LastPayment == LastReview + Len(Released)

LEMMA StopFacts ==
    /\ StopCalls \in Seq(Elements(StopCalls))
    /\ Len(StopCalls) = Len(Held) + Len(Escalated) /\ Len(StopCalls) \in Nat
    /\ DOMAIN StopCalls = 1 .. Len(StopCalls)
    /\ \A k \in DOMAIN StopCalls : \E v \in {"hold_payment", "escalate_invoice"} :
          StopCalls[k].verb = v /\ StopCalls[k].inv \in Elements(Held) \cup Elements(Escalated)
  <1> DEFINE holds == [k \in DOMAIN Held |-> Call("hold_payment", Held[k], Reason[Held[k]])]
             escalations == [k \in DOMAIN Escalated |->
                 Call("escalate_invoice", Escalated[k], Reason[Escalated[k]])]
             Any == {holds[k] : k \in DOMAIN Held} \cup {escalations[k] : k \in DOMAIN Escalated}
  <1>1. Held \in Seq(Ids) /\ Escalated \in Seq(Ids)
    BY ScriptLists
  <1>2. /\ holds \in Seq(Any) /\ Len(holds) = Len(Held)
        /\ escalations \in Seq(Any) /\ Len(escalations) = Len(Escalated)
    <2>1. DOMAIN Held = 1 .. Len(Held) /\ DOMAIN Escalated = 1 .. Len(Escalated)
          /\ Len(Held) \in Nat /\ Len(Escalated) \in Nat
      BY <1>1
    <2> QED
      BY <2>1
  <1>3. StopCalls = holds \o escalations
    BY DEF StopCalls
  <1> HIDE DEF holds, escalations, Any
  <1>4. StopCalls \in Seq(Any) /\ Len(StopCalls) = Len(Held) + Len(Escalated)
    <2>1. holds \o escalations \in Seq(Any)
          /\ Len(holds \o escalations) = Len(holds) + Len(escalations)
      BY <1>2, ConcatProperties, Zenon
    <2> QED
      BY <1>2, <1>3, <2>1
  <1>5. \A c \in Any : \E v \in {"hold_payment", "escalate_invoice"} :
           c.verb = v /\ c.inv \in Elements(Held) \cup Elements(Escalated)
    BY DEF Any, holds, escalations, Call, Elements
  <1>6. \A k \in 1 .. Len(StopCalls) : StopCalls[k] \in Any
    BY <1>4
  <1>7. StopCalls \in Seq(Elements(StopCalls))
    <2>1. DOMAIN StopCalls = 1 .. Len(StopCalls) /\ Len(StopCalls) \in Nat
      BY <1>4
    <2>2. StopCalls = [k \in 1 .. Len(StopCalls) |-> StopCalls[k]]
      BY <1>4
    <2> QED
      BY <2>1, <2>2 DEF Elements
  <1> QED
    BY <1>1, <1>4, <1>5, <1>6, <1>7

\* No invoice is held or escalated twice.
LEMMA StopsDiffer ==
    \A h, k \in DOMAIN StopCalls : StopCalls[h].inv = StopCalls[k].inv => h = k
  <1> DEFINE m == Len(Held)
             n == Len(Escalated)
             holds == [k \in DOMAIN Held |-> Call("hold_payment", Held[k], Reason[Held[k]])]
             escalations == [k \in DOMAIN Escalated |->
                 Call("escalate_invoice", Escalated[k], Reason[Escalated[k]])]
             Any == {holds[k] : k \in DOMAIN Held} \cup {escalations[k] : k \in DOMAIN Escalated}
  <1>1. /\ m \in Nat /\ n \in Nat /\ DOMAIN Held = 1 .. m /\ DOMAIN Escalated = 1 .. n
        /\ \A i, j \in 1 .. m : Held[i] = Held[j] => i = j
        /\ \A i, j \in 1 .. n : Escalated[i] = Escalated[j] => i = j
        /\ \A i \in 1 .. m : \A j \in 1 .. n : Held[i] # Escalated[j]
    <2>1. Held \in Seq(Ids) /\ Escalated \in Seq(Ids)
      BY ScriptLists
    <2>2. m \in Nat /\ n \in Nat /\ DOMAIN Held = 1 .. m /\ DOMAIN Escalated = 1 .. n
      BY <2>1
    <2>3. /\ \A s \in {Held, Escalated} : \A i, j \in DOMAIN s : s[i] = s[j] => i = j
          /\ Elements(Held) \cap Elements(Escalated) = {}
      BY ScriptLists
    <2>4. \A i, j \in 1 .. m : Held[i] = Held[j] => i = j
      BY <2>2, <2>3
    <2>5. \A i, j \in 1 .. n : Escalated[i] = Escalated[j] => i = j
      BY <2>2, <2>3
    <2>6. \A i \in 1 .. m : \A j \in 1 .. n : Held[i] # Escalated[j]
      BY <2>2, <2>3 DEF Elements
    <2> QED
      BY <2>2, <2>4, <2>5, <2>6
  <1>2. /\ holds \in Seq(Any) /\ Len(holds) = m
        /\ escalations \in Seq(Any) /\ Len(escalations) = n
        /\ \A k \in 1 .. m : holds[k].inv = Held[k]
        /\ \A k \in 1 .. n : escalations[k].inv = Escalated[k]
    BY <1>1 DEF Call
  <1>3. StopCalls = holds \o escalations
    BY DEF StopCalls
  <1>4. DOMAIN StopCalls = 1 .. m + n
    BY <1>1, StopFacts
  <1> HIDE DEF holds, escalations, Any, m, n
  <1>5. \A k \in 1 .. m + n :
           StopCalls[k] = IF k <= m THEN holds[k] ELSE escalations[k - m]
    <2>1. \A k \in 1 .. Len(holds) + Len(escalations) :
             (holds \o escalations)[k] =
                 IF k <= Len(holds) THEN holds[k] ELSE escalations[k - Len(holds)]
      BY <1>2, ConcatProperties
    <2> QED
      BY <1>2, <1>3, <2>1
  <1>6. ASSUME NEW h \in 1 .. m + n
        PROVE  \/ h \in 1 .. m /\ StopCalls[h].inv = Held[h]
               \/ /\ h - m \in 1 .. n /\ h = (h - m) + m
                  /\ StopCalls[h].inv = Escalated[h - m]
    <2>1. CASE h <= m
      <3>1. h \in 1 .. m
        BY <1>1, <2>1
      <3> QED
        BY <1>2, <1>5, <2>1, <3>1
    <2>2. CASE ~(h <= m)
      <3>1. h - m \in 1 .. n /\ h = (h - m) + m
        BY <1>1, <2>2
      <3> QED
        BY <1>2, <1>5, <2>2, <3>1
    <2> QED
      BY <2>1, <2>2
  <1>7. ASSUME NEW h \in 1 .. m + n, NEW k \in 1 .. m + n,
               StopCalls[h].inv = StopCalls[k].inv
        PROVE  h = k
    <2> DEFINE x == StopCalls[h].inv
               y == StopCalls[k].inv
    <2>0. x = y
      BY <1>7
    <2>1. \/ h \in 1 .. m /\ x = Held[h]
          \/ h - m \in 1 .. n /\ h = (h - m) + m /\ x = Escalated[h - m]
      BY <1>6
    <2>2. \/ k \in 1 .. m /\ y = Held[k]
          \/ k - m \in 1 .. n /\ k = (k - m) + m /\ y = Escalated[k - m]
      BY <1>6
    <2> HIDE DEF x, y
    <2>3. CASE h \in 1 .. m /\ x = Held[h]
      BY <1>1, <2>0, <2>2, <2>3
    <2>4. CASE h - m \in 1 .. n /\ h = (h - m) + m /\ x = Escalated[h - m]
      <3>1. CASE k \in 1 .. m /\ y = Held[k]
        BY <1>1, <2>0, <2>4, <3>1
      <3>2. CASE k - m \in 1 .. n /\ k = (k - m) + m /\ y = Escalated[k - m]
        <4>1. h - m = k - m
          BY <1>1, <2>0, <2>4, <3>2
        <4> QED
          BY <2>4, <3>2, <4>1
      <3> QED
        BY <2>2, <3>1, <3>2
    <2> QED
      BY <2>1, <2>3, <2>4
  <1> QED
    BY <1>4, <1>7

\* Where each call of the oracle stands on its path.
LEMMA PathFacts ==
    /\ Len(Staged) \in Nat /\ Len(Released) \in Nat /\ Len(StopCalls) \in Nat
    /\ DOMAIN Staged = 1 .. Len(Staged) /\ DOMAIN Released = 1 .. Len(Released)
    /\ Len(OraclePath) = LastPayment + Len(StopCalls)
    /\ DOMAIN OraclePath = 1 .. Len(OraclePath)
    /\ \A k \in 1 .. LastReview : OraclePath[k] = StagedCalls[k]
    /\ \A k \in 1 .. Len(Released) : OraclePath[LastReview + k] = ReleaseCalls[k]
    /\ \A k \in 1 .. Len(StopCalls) : OraclePath[LastPayment + k] = StopCalls[k]
  <1>1. /\ Staged \in Seq(Ids) /\ Released \in Seq(Ids)
        /\ Len(Staged) \in Nat /\ Len(Released) \in Nat
        /\ DOMAIN Staged = 1 .. Len(Staged) /\ DOMAIN Released = 1 .. Len(Released)
    BY ScriptLists
  <1> DEFINE Any == Elements(StagedCalls) \cup Elements(ReleaseCalls) \cup Elements(StopCalls)
  <1>2. /\ StagedCalls \in Seq(Any) /\ Len(StagedCalls) = LastReview
    <2>1. /\ DOMAIN StagedCalls = 1 .. LastReview /\ LastReview \in Nat
          /\ Len(StagedCalls) = LastReview
      BY <1>1 DEF StagedCalls, LastReview
    <2>2. StagedCalls = [k \in 1 .. LastReview |-> StagedCalls[k]]
      BY <2>1 DEF StagedCalls, LastReview
    <2> QED
      BY <2>1, <2>2 DEF Elements
  <1>3. /\ ReleaseCalls \in Seq(Any) /\ Len(ReleaseCalls) = Len(Released)
    <2>1. /\ DOMAIN ReleaseCalls = 1 .. Len(Released)
          /\ Len(ReleaseCalls) = Len(Released)
      BY <1>1 DEF ReleaseCalls
    <2>2. ReleaseCalls = [k \in 1 .. Len(Released) |-> ReleaseCalls[k]]
      BY <1>1, <2>1 DEF ReleaseCalls
    <2> QED
      BY <1>1, <2>1, <2>2 DEF Elements
  <1>4. StopCalls \in Seq(Any) /\ Len(StopCalls) \in Nat
    <2>1. DOMAIN StopCalls = 1 .. Len(StopCalls) /\ Len(StopCalls) \in Nat
          /\ StopCalls \in Seq(Elements(StopCalls))
      BY StopFacts
    <2>2. \A k \in 1 .. Len(StopCalls) : StopCalls[k] \in Any
      BY <2>1 DEF Elements
    <2>3. StopCalls = [k \in 1 .. Len(StopCalls) |-> StopCalls[k]]
      BY <2>1
    <2> QED
      BY <2>1, <2>2, <2>3
  <1> DEFINE payments == StagedCalls \o ReleaseCalls
  <1>5. OraclePath = payments \o StopCalls
    <2>1. OraclePath = StagedCalls \o ReleaseCalls \o StopCalls
      BY DEF OraclePath
    <2> QED
      BY <2>1
  <1> HIDE DEF Any
  <1>6. /\ payments \in Seq(Any) /\ Len(payments) = LastPayment
        /\ \A k \in 1 .. LastPayment :
              payments[k] = IF k <= LastReview THEN StagedCalls[k] ELSE ReleaseCalls[k - LastReview]
    <2>1. /\ payments \in Seq(Any)
          /\ Len(payments) = Len(StagedCalls) + Len(ReleaseCalls)
          /\ \A k \in 1 .. Len(StagedCalls) + Len(ReleaseCalls) :
                payments[k] = IF k <= Len(StagedCalls)
                              THEN StagedCalls[k] ELSE ReleaseCalls[k - Len(StagedCalls)]
      BY <1>2, <1>3, ConcatProperties, Zenon
    <2> QED
      BY <1>2, <1>3, <2>1 DEF LastPayment
  <1> HIDE DEF payments
  <1>7. /\ OraclePath \in Seq(Any) /\ Len(OraclePath) = LastPayment + Len(StopCalls)
        /\ \A k \in 1 .. LastPayment + Len(StopCalls) :
              OraclePath[k] = IF k <= LastPayment THEN payments[k] ELSE StopCalls[k - LastPayment]
    <2>1. /\ payments \o StopCalls \in Seq(Any)
          /\ Len(payments \o StopCalls) = Len(payments) + Len(StopCalls)
          /\ \A k \in 1 .. Len(payments) + Len(StopCalls) :
                (payments \o StopCalls)[k] =
                    IF k <= Len(payments) THEN payments[k] ELSE StopCalls[k - Len(payments)]
      BY <1>4, <1>6, ConcatProperties, Zenon
    <2> QED
      BY <1>5, <1>6, <2>1
  <1>8. DOMAIN OraclePath = 1 .. Len(OraclePath)
    BY <1>7
  <1>9. \A k \in 1 .. LastReview : OraclePath[k] = StagedCalls[k]
    BY <1>1, <1>4, <1>6, <1>7 DEF LastReview, LastPayment
  <1>10. \A k \in 1 .. Len(Released) : OraclePath[LastReview + k] = ReleaseCalls[k]
    BY <1>1, <1>4, <1>6, <1>7 DEF LastReview, LastPayment
  <1>11. \A k \in 1 .. Len(StopCalls) : OraclePath[LastPayment + k] = StopCalls[k]
    <2> DEFINE n == Len(StopCalls)
               p == LastPayment
    <2>1. n \in Nat /\ p \in Nat
      BY <1>1, <1>4 DEF LastReview, LastPayment
    <2>2. \A k \in 1 .. p + n : OraclePath[k] = IF k <= p THEN payments[k] ELSE StopCalls[k - p]
      BY <1>7
    <2> HIDE DEF n, p
    <2>3. \A k \in 1 .. n : p + k \in 1 .. p + n /\ ~(p + k <= p) /\ (p + k) - p = k
      BY <2>1
    <2>4. \A k \in 1 .. n : OraclePath[p + k] = StopCalls[k]
      BY <2>2, <2>3
    <2> QED
      BY <2>4 DEF n, p
  <1> QED
    BY <1>1, <1>4, <1>7, <1>8, <1>9, <1>10, <1>11

World == [reviewed : SUBSET Ids, verified : SUBSET Ids, paid : [Ids -> 0 .. 2],
          stopped : SUBSET Elements(StopCalls), submitted : BOOLEAN]

\* The calls of the path before the n-th one, and no others, are in the world w.
DoneBefore(w, n) ==
    /\ \A i \in Ids : i \in w.reviewed <=> \E j \in DOMAIN Staged : Staged[j] = i /\ 2 * j - 1 < n
    /\ \A i \in Ids : i \in w.verified <=> \E j \in DOMAIN Staged : Staged[j] = i /\ 2 * j < n
    /\ \A i \in Ids :
          w.paid[i] > 0 <=> \E j \in DOMAIN Released : Released[j] = i /\ LastReview + j < n
    /\ \A c \in Elements(StopCalls) :
          c \in w.stopped <=> \E j \in DOMAIN StopCalls : StopCalls[j] = c /\ LastPayment + j < n

\* A position is the first or the second one of a pair.
LEMMA PairFacts ==
    ASSUME NEW n \in Nat, NEW k \in 1 .. 2 * n
    PROVE  /\ k % 2 = 1 => (k + 1) \div 2 \in 1 .. n /\ k = 2 * ((k + 1) \div 2) - 1
           /\ k % 2 # 1 => k \div 2 \in 1 .. n /\ k = 2 * (k \div 2)
  <1>1. PICK m \in Nat : k = 2 * m \/ k = 2 * m + 1
    <2>1. k = 2 * (k \div 2) \/ k = 2 * (k \div 2) + 1
      OBVIOUS
    <2> QED
      BY <2>1
  <1>2. CASE k = 2 * m
    <2>1. k % 2 = 0 /\ k \div 2 = m
      BY <1>2
    <2> QED
      BY <1>2, <2>1
  <1>3. CASE k = 2 * m + 1
    <2>1. k % 2 = 1 /\ (k + 1) \div 2 = m + 1
      BY <1>3
    <2> QED
      BY <1>3, <2>1
  <1> QED
    BY <1>1, <1>2, <1>3

\* Which call stands at a position of the path.
LEMMA CallFacts ==
    ASSUME NEW k \in DOMAIN OraclePath
    PROVE  \/ \E j \in DOMAIN Staged :
                 k = 2 * j - 1 /\ OraclePath[k] = Call("review_invoice", Staged[j], None)
           \/ \E j \in DOMAIN Staged :
                 k = 2 * j /\ OraclePath[k] = Call("verify_vendor_account", Staged[j], None)
           \/ \E j \in DOMAIN Released :
                 /\ k = LastReview + j
                 /\ OraclePath[k] = Call("release_payment", Released[j], None)
           \/ \E j \in DOMAIN StopCalls : k = LastPayment + j /\ OraclePath[k] = StopCalls[j]
  <1>1. k \in 1 .. LastPayment + Len(StopCalls) /\ LastReview \in Nat /\ LastPayment \in Nat
    BY PathFacts DEF LastReview, LastPayment
  <1>2. CASE k <= LastReview
    <2>1. OraclePath[k] = StagedCalls[k] /\ k \in 1 .. 2 * Len(Staged)
      BY <1>1, <1>2, PathFacts DEF LastReview
    <2>2. CASE k % 2 = 1
      <3>1. k = 2 * ((k + 1) \div 2) - 1 /\ (k + 1) \div 2 \in 1 .. Len(Staged)
        BY <2>1, <2>2, PairFacts, PathFacts
      <3>2. OraclePath[k] = Call("review_invoice", Staged[(k + 1) \div 2], None)
        BY <2>1, <2>2 DEF StagedCalls
      <3> QED
        BY <3>1, <3>2, PathFacts
    <2>3. CASE k % 2 # 1
      <3>1. k = 2 * (k \div 2) /\ k \div 2 \in 1 .. Len(Staged)
        BY <2>1, <2>3, PairFacts, PathFacts
      <3>2. OraclePath[k] = Call("verify_vendor_account", Staged[k \div 2], None)
        BY <2>1, <2>3 DEF StagedCalls
      <3> QED
        BY <3>1, <3>2, PathFacts
    <2> QED
      BY <2>1, <2>2, <2>3
  <1>3. CASE k > LastReview /\ k <= LastPayment
    <2>1. k - LastReview \in 1 .. Len(Released)
      BY <1>1, <1>3, PathFacts DEF LastPayment
    <2>2. OraclePath[LastReview + (k - LastReview)] = ReleaseCalls[k - LastReview]
      BY <2>1, PathFacts
    <2>3. LastReview + (k - LastReview) = k
      BY <1>1
    <2> QED
      BY <2>1, <2>2, <2>3, PathFacts DEF ReleaseCalls
  <1>4. CASE k > LastPayment
    <2>1. k - LastPayment \in 1 .. Len(StopCalls)
      BY <1>1, <1>4, PathFacts
    <2>2. OraclePath[LastPayment + (k - LastPayment)] = StopCalls[k - LastPayment]
      BY <2>1, PathFacts
    <2>3. LastPayment + (k - LastPayment) = k
      BY <1>1
    <2> QED
      BY <2>1, <2>2, <2>3, StopFacts
  <1> QED
    BY <1>1, <1>2, <1>3, <1>4

\* The three kinds of answer to a call.
LEMMA AnswerCases ==
    ASSUME NEW w, NEW c, NEW p \in Policies, NEW a \in Answers(w, c, p)
    PROVE  \/ /\ DetectsDuplicate(w, c, p)
              /\ a.reply # "ok" /\ a.world = w /\ a.unrelated = FALSE
           \/ /\ ~DetectsDuplicate(w, c, p)
              /\ a.reply = "ok" /\ a.world = Effect(w, c) /\ a.unrelated = FALSE
           \/ /\ ~DetectsDuplicate(w, c, p)
              /\ a.reply # "ok" /\ a.unrelated = TRUE
              /\ a.world = w \/ (~p.atomic /\ a.world = Effect(w, c))
  <1>1. CASE DetectsDuplicate(w, c, p)
    BY <1>1 DEF Answers, Failures
  <1>2. CASE ~DetectsDuplicate(w, c, p)
    BY <1>2 DEF Answers, Failures
  <1> QED
    BY <1>1, <1>2

\* From the world w to the world v, the invoice is disposed of in no second way,
\* and only if it was reviewed and verified.
OneWay(w, v, i) ==
    LET paid == v.paid[i] > w.paid[i]
        stopped == StopsOf(v, i) # StopsOf(w, i)
    IN  /\ paid \/ stopped => i \in w.reviewed \cap w.verified /\ StopsOf(w, i) = {}
        /\ stopped => v.paid[i] = 0

LEMMA NothingDisposed ==
    ASSUME NEW w \in World, NEW v \in World, NEW i \in Ids,
           v.paid[i] = w.paid[i], v.stopped = w.stopped
    PROVE  OneWay(w, v, i)
  <1>1. w.paid[i] \in 0 .. 2
    BY Zenon DEF World
  <1>2. ~(v.paid[i] > w.paid[i])
    BY <1>1
  <1> QED
    BY <1>2 DEF OneWay, StopsOf

\* A call of the path, made when exactly those before it are in the world: it is
\* no duplicate, it disposes of an invoice that is reviewed, verified and not
\* disposed of yet, and then exactly those up to it are in the world.
LEMMA OracleCallFacts ==
    ASSUME NEW w \in World, NEW k \in DOMAIN OraclePath, DoneBefore(w, k),
           \A i \in Ids : w.paid[i] <= 1
    PROVE  LET v == Effect(w, OraclePath[k])
           IN  /\ ~DetectsDuplicate(w, OraclePath[k], policy)
               /\ v \in World /\ DoneBefore(v, k + 1)
               /\ \A i \in Ids : v.paid[i] <= 1
               /\ v.submitted = w.submitted
               /\ \A i \in Ids : OneWay(w, v, i)
  <1> DEFINE v == Effect(w, OraclePath[k])
  <1> HIDE DEF v
  <1>0. /\ DOMAIN Staged = 1 .. Len(Staged) /\ DOMAIN Released = 1 .. Len(Released)
        /\ DOMAIN StopCalls = 1 .. Len(StopCalls)
        /\ Len(Staged) \in Nat /\ Len(Released) \in Nat /\ Len(StopCalls) \in Nat
        /\ LastReview = 2 * Len(Staged) /\ LastPayment = LastReview + Len(Released)
        /\ \A j \in DOMAIN Staged : Staged[j] \in Ids
        /\ \A j \in DOMAIN Released : Released[j] \in Ids
        /\ k \in Nat
    BY PathFacts, StopFacts, ScriptLists DEF LastReview, LastPayment
  <1>1. ASSUME NEW j \in DOMAIN Staged, k = 2 * j - 1,
               OraclePath[k] = Call("review_invoice", Staged[j], None)
        PROVE  /\ ~DetectsDuplicate(w, OraclePath[k], policy)
               /\ v \in World /\ DoneBefore(v, k + 1) /\ v.submitted = w.submitted
               /\ v.paid = w.paid /\ v.stopped = w.stopped
    <2>1. v = [w EXCEPT !.reviewed = @ \cup {Staged[j]}]
      BY <1>1 DEF v, Effect, Call
    <2>2. ~DetectsDuplicate(w, OraclePath[k], policy)
      BY <1>1 DEF DetectsDuplicate, Call
    <2>3. v \in World /\ v.submitted = w.submitted /\ v.paid = w.paid
          /\ v.verified = w.verified /\ v.stopped = w.stopped
          /\ v.reviewed = w.reviewed \cup {Staged[j]}
      BY <1>0, <2>1 DEF World
    <2>4. \A i \in Ids : i \in v.reviewed <=>
             \E h \in DOMAIN Staged : Staged[h] = i /\ 2 * h - 1 < k + 1
      <3>1. \A h \in DOMAIN Staged : 2 * h - 1 < k + 1 <=> (2 * h - 1 < k \/ h = j)
        BY <1>0, <1>1
      <3> QED
        BY <2>3, <3>1 DEF DoneBefore
    <2>5. \A i \in Ids : i \in v.verified <=>
             \E h \in DOMAIN Staged : Staged[h] = i /\ 2 * h < k + 1
      <3>1. \A h \in DOMAIN Staged : 2 * h < k + 1 <=> 2 * h < k
        BY <1>0, <1>1
      <3> QED
        BY <2>3, <3>1 DEF DoneBefore
    <2>6. \A h \in DOMAIN Released : LastReview + h < k + 1 <=> LastReview + h < k
      BY <1>0, <1>1
    <2>7. \A h \in DOMAIN StopCalls : LastPayment + h < k + 1 <=> LastPayment + h < k
      BY <1>0, <1>1
    <2>8. DoneBefore(v, k + 1)
      BY <2>3, <2>4, <2>5, <2>6, <2>7 DEF DoneBefore
    <2> QED
      BY <2>2, <2>3, <2>8
  <1>2. ASSUME NEW j \in DOMAIN Staged, k = 2 * j,
               OraclePath[k] = Call("verify_vendor_account", Staged[j], None)
        PROVE  /\ ~DetectsDuplicate(w, OraclePath[k], policy)
               /\ v \in World /\ DoneBefore(v, k + 1) /\ v.submitted = w.submitted
               /\ v.paid = w.paid /\ v.stopped = w.stopped
    <2>1. v = [w EXCEPT !.verified = @ \cup {Staged[j]}]
      BY <1>2 DEF v, Effect, Call
    <2>2. ~DetectsDuplicate(w, OraclePath[k], policy)
      BY <1>2 DEF DetectsDuplicate, Call
    <2>3. v \in World /\ v.submitted = w.submitted /\ v.paid = w.paid
          /\ v.reviewed = w.reviewed /\ v.stopped = w.stopped
          /\ v.verified = w.verified \cup {Staged[j]}
      BY <1>0, <2>1 DEF World
    <2>4. \A h \in DOMAIN Staged : 2 * h - 1 < k + 1 <=> 2 * h - 1 < k
      BY <1>0, <1>2
    <2>5. \A i \in Ids : i \in v.verified <=>
             \E h \in DOMAIN Staged : Staged[h] = i /\ 2 * h < k + 1
      <3>1. \A h \in DOMAIN Staged : 2 * h < k + 1 <=> (2 * h < k \/ h = j)
        BY <1>0, <1>2
      <3> QED
        BY <2>3, <3>1 DEF DoneBefore
    <2>6. \A h \in DOMAIN Released : LastReview + h < k + 1 <=> LastReview + h < k
      BY <1>0, <1>2
    <2>7. \A h \in DOMAIN StopCalls : LastPayment + h < k + 1 <=> LastPayment + h < k
      BY <1>0, <1>2
    <2>8. DoneBefore(v, k + 1)
      BY <2>3, <2>4, <2>5, <2>6, <2>7 DEF DoneBefore
    <2> QED
      BY <2>2, <2>3, <2>8
  <1>3. ASSUME NEW j \in DOMAIN Released, k = LastReview + j,
               OraclePath[k] = Call("release_payment", Released[j], None)
        PROVE  /\ ~DetectsDuplicate(w, OraclePath[k], policy)
               /\ v \in World /\ DoneBefore(v, k + 1) /\ v.submitted = w.submitted
               /\ \A i \in Ids : v.paid[i] <= 1
               /\ \A i \in Ids : OneWay(w, v, i)
    <2>1. v = [w EXCEPT !.paid[Released[j]] = @ + 1]
      BY <1>3 DEF v, Effect, Call
    <2>2. Released[j] \in Ids /\ w.paid \in [Ids -> 0 .. 2]
      BY <1>0 DEF World
    <2>3. w.paid[Released[j]] = 0
      <3>1. ~ \E h \in DOMAIN Released : Released[h] = Released[j] /\ LastReview + h < k
        BY <1>0, <1>3, ScriptLists
      <3>2. ~(w.paid[Released[j]] > 0)
        BY <2>2, <3>1 DEF DoneBefore
      <3> QED
        BY <2>2, <3>2
    <2>4. ~DetectsDuplicate(w, OraclePath[k], policy)
      BY <1>3, <2>3 DEF DetectsDuplicate, Call
    <2>5. /\ v.reviewed = w.reviewed /\ v.verified = w.verified /\ v.stopped = w.stopped
          /\ v.submitted = w.submitted
          /\ v.paid = [w.paid EXCEPT ![Released[j]] = 1]
      BY <2>1, <2>2, <2>3 DEF World
    <2>6. v \in World
      BY <2>1, <2>2, <2>5 DEF World
    <2>7. \A i \in Ids : v.paid[i] = IF i = Released[j] THEN 1 ELSE w.paid[i]
      BY <2>2, <2>5
    <2>8. \A h \in DOMAIN Staged :
             (2 * h - 1 < k + 1 <=> 2 * h - 1 < k) /\ (2 * h < k + 1 <=> 2 * h < k)
      BY <1>0, <1>3
    <2>9. \A i \in Ids : v.paid[i] > 0 <=>
             \E h \in DOMAIN Released : Released[h] = i /\ LastReview + h < k + 1
      <3>1. \A h \in DOMAIN Released : LastReview + h < k + 1 <=> (LastReview + h < k \/ h = j)
        BY <1>0, <1>3
      <3> SUFFICES ASSUME NEW i \in Ids
                   PROVE  v.paid[i] > 0 <=>
                            \E h \in DOMAIN Released : Released[h] = i /\ LastReview + h < k + 1
        OBVIOUS
      <3>2. w.paid[i] > 0 <=> \E h \in DOMAIN Released : Released[h] = i /\ LastReview + h < k
        BY DEF DoneBefore
      <3>3. CASE i = Released[j]
        BY <2>7, <3>1, <3>3
      <3>4. CASE i # Released[j]
        BY <2>7, <3>1, <3>2, <3>4
      <3> QED
        BY <3>3, <3>4
    <2>10. \A h \in DOMAIN StopCalls :
              ~(LastPayment + h < k + 1) /\ ~(LastPayment + h < k)
      BY <1>0, <1>3
    <2>11. DoneBefore(v, k + 1)
      BY <2>5, <2>8, <2>9, <2>10 DEF DoneBefore
    <2>12. v.stopped = {}
      BY <2>5, <2>10 DEF DoneBefore, World
    <2>13. Released[j] \in w.reviewed \cap w.verified
      <3>0. Elements(Released) \subseteq Elements(Staged)
        BY ScriptLists
      <3>1. PICK h \in DOMAIN Staged : Staged[h] = Released[j]
        BY <3>0 DEF Elements
      <3>2. 2 * h - 1 < k /\ 2 * h < k
        BY <1>0, <1>3
      <3> QED
        BY <2>2, <3>1, <3>2 DEF DoneBefore
    <2>14. \A i \in Ids : v.paid[i] <= 1
      <3> TAKE i \in Ids
      <3>1. CASE i = Released[j]
        BY <2>7, <3>1
      <3>2. CASE i # Released[j]
        BY <2>7, <3>2
      <3> QED
        BY <3>1, <3>2
    <2>15. ASSUME NEW i \in Ids PROVE OneWay(w, v, i)
      <3>1. StopsOf(w, i) = {} /\ StopsOf(v, i) = {}
        BY <2>5, <2>12 DEF StopsOf
      <3>2. CASE i = Released[j]
        BY <2>13, <3>1, <3>2 DEF OneWay
      <3>3. CASE i # Released[j]
        BY <2>5, <2>6, <2>7, <3>3, NothingDisposed
      <3> QED
        BY <3>2, <3>3
    <2> QED
      BY <2>4, <2>5, <2>6, <2>11, <2>14, <2>15
  <1>4. ASSUME NEW j \in DOMAIN StopCalls, k = LastPayment + j, OraclePath[k] = StopCalls[j]
        PROVE  /\ ~DetectsDuplicate(w, OraclePath[k], policy)
               /\ v \in World /\ DoneBefore(v, k + 1) /\ v.submitted = w.submitted
               /\ v.paid = w.paid /\ \A i \in Ids : OneWay(w, v, i)
    <2>0. StopCalls[j].verb \in {"hold_payment", "escalate_invoice"}
      BY StopFacts
    <2>1. v = [w EXCEPT !.stopped = @ \cup {StopCalls[j]}]
      BY <1>4, <2>0 DEF v, Effect
    <2>2. ~DetectsDuplicate(w, OraclePath[k], policy)
      BY <1>4, <2>0 DEF DetectsDuplicate
    <2>3. StopCalls[j] \in Elements(StopCalls)
      BY DEF Elements
    <2>4. v \in World /\ v.submitted = w.submitted /\ v.paid = w.paid
          /\ v.reviewed = w.reviewed /\ v.verified = w.verified
          /\ v.stopped = w.stopped \cup {StopCalls[j]}
      BY <2>1, <2>3 DEF World
    <2>5. \A h \in DOMAIN Staged :
             (2 * h - 1 < k + 1 <=> 2 * h - 1 < k) /\ (2 * h < k + 1 <=> 2 * h < k)
      BY <1>0, <1>4
    <2>6. \A h \in DOMAIN Released : LastReview + h < k + 1 <=> LastReview + h < k
      BY <1>0, <1>4
    <2>7. \A c \in Elements(StopCalls) : c \in v.stopped <=>
             \E h \in DOMAIN StopCalls : StopCalls[h] = c /\ LastPayment + h < k + 1
      <3>1. \A h \in DOMAIN StopCalls :
               LastPayment + h < k + 1 <=> (LastPayment + h < k \/ h = j)
        BY <1>0, <1>4
      <3> QED
        BY <2>4, <3>1 DEF DoneBefore
    <2>8. DoneBefore(v, k + 1)
      BY <2>4, <2>5, <2>6, <2>7 DEF DoneBefore
    <2> DEFINE stop == StopCalls[j].inv
    <2>9. stop \in Elements(Held) \cup Elements(Escalated)
      BY StopFacts
    <2>10. stop \in Ids => stop \in w.reviewed \cap w.verified
      <3>1. stop \in Elements(Staged)
        BY <2>9, ScriptLists
      <3>2. PICK h \in DOMAIN Staged : Staged[h] = stop
        BY <3>1 DEF Elements
      <3>3. 2 * h - 1 < k /\ 2 * h < k
        BY <1>0, <1>4
      <3> QED
        BY <3>2, <3>3 DEF DoneBefore
    <2>11. stop \in Ids => w.paid[stop] = 0
      <3>1. \A h \in DOMAIN Released : Released[h] # stop
        BY <2>9, ScriptLists DEF Elements
      <3>2. stop \in Ids => ~(w.paid[stop] > 0)
        BY <3>1 DEF DoneBefore
      <3>3. stop \in Ids => w.paid[stop] \in 0 .. 2
        BY Zenon DEF World
      <3> QED
        BY <3>2, <3>3
    <2>12. StopsOf(w, stop) = {}
      <3> SUFFICES ASSUME NEW c \in w.stopped, c.inv = stop PROVE FALSE
        BY DEF StopsOf
      <3>1. c \in Elements(StopCalls)
        BY DEF World
      <3>2. PICK h \in DOMAIN StopCalls : StopCalls[h] = c /\ LastPayment + h < k
        BY <3>1 DEF DoneBefore
      <3>3. h # j
        BY <1>0, <1>4, <3>2
      <3>4. StopCalls[h].inv = StopCalls[j].inv
        BY <3>2
      <3> QED
        BY <3>3, <3>4, StopsDiffer
    <2> HIDE DEF stop
    <2>13. ASSUME NEW i \in Ids PROVE OneWay(w, v, i)
      <3>1. CASE i = stop
        BY <2>4, <2>10, <2>11, <2>12, <3>1 DEF OneWay
      <3>2. CASE i # stop
        <4>1. StopsOf(v, i) = StopsOf(w, i)
          BY <2>4, <3>2 DEF StopsOf, stop
        <4>2. w.paid[i] \in 0 .. 2
          BY Zenon DEF World
        <4>3. ~(v.paid[i] > w.paid[i])
          BY <2>4, <4>2
        <4> QED
          BY <4>1, <4>3 DEF OneWay
      <3> QED
        BY <3>1, <3>2
    <2> QED
      BY <2>2, <2>4, <2>8, <2>13
  <1>5. \A i \in Ids : w.paid[i] \in 0 .. 2
    <2>1. w.paid \in [Ids -> 0 .. 2]
      BY DEF World
    <2> QED
      BY <2>1, Zenon
  <1>6. v \in World /\ v.paid = w.paid /\ v.stopped = w.stopped => \A i \in Ids : OneWay(w, v, i)
    BY NothingDisposed
  <1> QED
    BY <1>1, <1>2, <1>3, <1>4, <1>5, <1>6, CallFacts DEF v

\* The second release, when the whole path is in the world.
LEMMA RetryFacts ==
    ASSUME NEW w \in World, DoneBefore(w, Len(OraclePath) + 1), \A i \in Ids : w.paid[i] <= 1
    PROVE  LET v == Effect(w, Retry)
           IN  /\ DetectsDuplicate(w, Retry, policy) <=> policy.detects = "release"
               /\ v \in World /\ v.submitted = w.submitted /\ v.stopped = w.stopped
               /\ w.paid[Retried] = 1 /\ v.paid[Retried] = 2
               /\ \A i \in Ids : i # Retried => v.paid[i] = w.paid[i]
               /\ DoneBefore(w, Len(OraclePath) + 2) /\ DoneBefore(v, Len(OraclePath) + 2)
               /\ Retried \in w.reviewed \cap w.verified
  <1> DEFINE v == Effect(w, Retry)
             End == Len(OraclePath) + 1
  <1> HIDE DEF v
  <1>0. /\ DOMAIN Staged = 1 .. Len(Staged) /\ DOMAIN Released = 1 .. Len(Released)
        /\ DOMAIN StopCalls = 1 .. Len(StopCalls)
        /\ Len(Staged) \in Nat /\ Len(Released) \in Nat /\ Len(StopCalls) \in Nat
        /\ LastReview = 2 * Len(Staged) /\ LastPayment = LastReview + Len(Released)
        /\ Len(OraclePath) = LastPayment + Len(StopCalls)
    BY PathFacts, StopFacts DEF LastReview, LastPayment
  <1>1. PICK r \in DOMAIN Released : Released[r] = Retried
    BY ScriptLists DEF Elements
  <1>2. PICK s \in DOMAIN Staged : Staged[s] = Retried
    <2>1. Elements(Released) \subseteq Elements(Staged)
      BY ScriptLists
    <2> QED
      BY <1>1, <2>1 DEF Elements
  <1>3. Retried \in Ids /\ w.paid \in [Ids -> 0 .. 2]
    <2>1. Released \in Seq(Ids)
      BY ScriptLists
    <2> QED
      BY <1>1, <2>1 DEF World
  <1>4. w.paid[Retried] \in 0 .. 2
    BY <1>3, Zenon
  <1>5. w.paid[Retried] = 1
    <2>1. LastReview + r < Len(OraclePath) + 1
      BY <1>0
    <2>2. w.paid[Retried] > 0
      BY <1>1, <1>3, <2>1 DEF DoneBefore
    <2>3. w.paid[Retried] <= 1
      BY <1>3
    <2> QED
      BY <1>4, <2>2, <2>3
  <1>6. v = [w EXCEPT !.paid[Retried] = @ + 1]
    BY DEF v, Effect, Retry, Call
  <1>7. /\ v.reviewed = w.reviewed /\ v.verified = w.verified /\ v.stopped = w.stopped
        /\ v.submitted = w.submitted /\ v.paid = [w.paid EXCEPT ![Retried] = 2]
    BY <1>3, <1>5, <1>6 DEF World
  <1>8. v \in World
    BY <1>3, <1>6, <1>7 DEF World
  <1>9. v.paid[Retried] = 2 /\ \A i \in Ids : i # Retried => v.paid[i] = w.paid[i]
    BY <1>3, <1>7
  <1>10. DetectsDuplicate(w, Retry, policy) <=> policy.detects = "release"
    BY <1>5 DEF DetectsDuplicate, Retry, Call
  <1>11. /\ \A j \in DOMAIN Staged : /\ 2 * j - 1 < Len(OraclePath) + 1
                                     /\ 2 * j < Len(OraclePath) + 1
                                     /\ 2 * j - 1 < Len(OraclePath) + 2
                                     /\ 2 * j < Len(OraclePath) + 2
         /\ \A j \in DOMAIN Released : /\ LastReview + j < Len(OraclePath) + 1
                                       /\ LastReview + j < Len(OraclePath) + 2
         /\ \A j \in DOMAIN StopCalls : /\ LastPayment + j < Len(OraclePath) + 1
                                        /\ LastPayment + j < Len(OraclePath) + 2
    BY <1>0
  <1>12. DoneBefore(w, Len(OraclePath) + 2)
    BY <1>11 DEF DoneBefore
  <1>13. \A i \in Ids : v.paid[i] > 0 <=> w.paid[i] > 0
    <2> TAKE i \in Ids
    <2>1. CASE i = Retried
      BY <1>5, <1>9, <2>1
    <2>2. CASE i # Retried
      BY <1>9, <2>2
    <2> QED
      BY <2>1, <2>2
  <1>14. DoneBefore(v, Len(OraclePath) + 2)
    BY <1>7, <1>12, <1>13 DEF DoneBefore
  <1>15. Retried \in w.reviewed \cap w.verified
    BY <1>2, <1>3, <1>11 DEF DoneBefore
  <1> QED
    BY <1>5, <1>7, <1>8, <1>9, <1>10, <1>12, <1>14, <1>15 DEF v

LEMMA SubmitFacts ==
    ASSUME NEW w \in World
    PROVE  LET v == Effect(w, Submit)
           IN  /\ v \in World /\ v.submitted /\ v.paid = w.paid /\ v.stopped = w.stopped
               /\ \A n : DoneBefore(w, n) => DoneBefore(v, n)
               /\ DetectsDuplicate(w, Submit, policy) <=>
                     policy.detects = "submit" /\ \E i \in Ids : w.paid[i] > 1
  <1> DEFINE v == Effect(w, Submit)
  <1> HIDE DEF v
  <1>1. v = [w EXCEPT !.submitted = TRUE]
    BY DEF v, Effect, Submit, Call
  <1>2. /\ v \in World /\ v.submitted /\ v.paid = w.paid /\ v.reviewed = w.reviewed
        /\ v.verified = w.verified /\ v.stopped = w.stopped
    BY <1>1 DEF World
  <1>3. \A n : DoneBefore(w, n) => DoneBefore(v, n)
    BY <1>2 DEF DoneBefore
  <1>4. DetectsDuplicate(w, Submit, policy) <=>
            policy.detects = "submit" /\ \E i \in Ids : w.paid[i] > 1
    BY DEF DetectsDuplicate, Submit, Call
  <1> QED
    BY <1>2, <1>3, <1>4 DEF v

\* When the path and the retry are behind it, what the script's flag says.
RetryInv ==
    /\ ~duplicateLanded /\ policy.atomic => world.paid[Retried] = 1
    /\ duplicateLanded => world.paid[Retried] = 2
    /\ ~unrelated => (world.paid[Retried] = 1 <=> ~duplicateLanded)
    /\ ~unrelated => (duplicateLanded <=> policy.detects # "release")
    /\ policy.detects = "release" => world.paid[Retried] = 1

\* When the script has ended well.
SubmitInv ==
    /\ ~duplicateLanded => world.submitted
    /\ ~unrelated => (~world.submitted <=> policy.detects = "submit")
    /\ policy.detects = "submit" /\ world.paid[Retried] > 1 => ~world.submitted

\* As long as no strict call has failed, the world holds exactly the calls made
\* so far; and a strict call fails for reasons of its own only.
ScriptInv ==
    /\ at = "bun" <=> process # "none"
    /\ process = "none" => step = 1
    /\ process # "none" => cwd = "/app"
    /\ process = "exit1" => unrelated
    /\ process # "exit1" =>
          /\ DoneBefore(world, step)
          /\ \A i \in Ids : world.paid[i] > 1 => i = Retried /\ step = Len(OraclePath) + 2
    /\ process \in {"none", "running"} => ~world.submitted
    /\ process \in {"running", "exit0"} /\ step = Len(OraclePath) + 2 => RetryInv
    /\ process = "exit0" => step = Len(OraclePath) + 2 /\ SubmitInv
    /\ outcome = "reported" => process = "exit0"
    /\ outcome = "aborted" => unrelated

IInv == TypeOK /\ ScriptInv

LEMMA InitEstablishesIInv == Init => IInv
  <1> SUFFICES ASSUME Init PROVE IInv
    OBVIOUS
  <1>0. /\ DOMAIN Staged = 1 .. Len(Staged) /\ DOMAIN Released = 1 .. Len(Released)
        /\ DOMAIN StopCalls = 1 .. Len(StopCalls)
        /\ Len(Staged) \in Nat /\ Len(Released) \in Nat /\ Len(StopCalls) \in Nat
        /\ LastReview = 2 * Len(Staged) /\ LastPayment = LastReview + Len(Released)
        /\ Len(OraclePath) = LastPayment + Len(StopCalls)
    BY PathFacts, StopFacts DEF LastReview, LastPayment
  <1>1. world \in World /\ world = EmptyWorld
    BY DEF Init, EmptyWorld, World
  <1>2. TypeOK
    <2>1. step \in 1 .. Len(OraclePath) + 2
      BY <1>0 DEF Init
    <2>2. world \in World
      BY <1>1
    <2> QED
      BY <2>1, <2>2, Zenon DEF Init, TypeOK, World
  <1>3. DoneBefore(world, 1)
    BY <1>0, <1>1 DEF DoneBefore, EmptyWorld
  <1>4. \A i \in Ids : ~(world.paid[i] > 1)
    <2> TAKE i \in Ids
    <2>1. world.paid[i] = 0
      BY <1>1, Zenon DEF EmptyWorld
    <2> QED
      BY <2>1
  <1>5. ~world.submitted
    BY <1>1 DEF EmptyWorld
  <1>6. ScriptInv
    BY <1>3, <1>4, <1>5 DEF Init, ScriptInv
  <1> QED
    BY <1>2, <1>6 DEF IInv

\* What every step of the running script starts from.
LEMMA RunningFacts ==
    ASSUME IInv, process = "running"
    PROVE  /\ world \in World /\ DoneBefore(world, step) /\ ~world.submitted
           /\ cwd = "/app" /\ at = "bun" /\ policy \in Policies
           /\ step \in Nat /\ Len(OraclePath) \in Nat /\ step \in 1 .. Len(OraclePath) + 2
           /\ step # Len(OraclePath) + 2 => \A i \in Ids : world.paid[i] <= 1
           /\ step = Len(OraclePath) + 2 => RetryInv
           /\ outcome \notin {"reported"}
           /\ \A i \in Ids : world.paid[i] > 1 => i = Retried
  <1>1. world \in World /\ policy \in Policies /\ step \in 1 .. Len(OraclePath) + 2
    BY DEF IInv, TypeOK, World
  <1>2. Len(OraclePath) \in Nat
    BY PathFacts DEF LastPayment, LastReview
  <1>3. \A i \in Ids : world.paid[i] \in 0 .. 2
    <2>1. world.paid \in [Ids -> 0 .. 2]
      BY <1>1 DEF World
    <2> QED
      BY <2>1, Zenon
  <1>4. /\ DoneBefore(world, step) /\ ~world.submitted /\ cwd = "/app" /\ at = "bun"
        /\ \A i \in Ids : world.paid[i] > 1 => i = Retried /\ step = Len(OraclePath) + 2
        /\ step = Len(OraclePath) + 2 => RetryInv
        /\ outcome # "reported"
    BY DEF IInv, ScriptInv
  <1>5. ASSUME step # Len(OraclePath) + 2, NEW i \in Ids
        PROVE  world.paid[i] <= 1
    <2>1. world.paid[i] \in 0 .. 2 /\ ~(world.paid[i] > 1)
      BY <1>3, <1>4, <1>5, Zenon
    <2> QED
      BY <2>1
  <1> QED
    BY <1>1, <1>2, <1>4, <1>5

\* A step that leaves the script and its world alone.
LEMMA BesideTheScript ==
    ASSUME IInv, UNCHANGED <<step, duplicateLanded, policy, world>>, at' = at,
           process' = process, cwd' = cwd, outputDir' \in BOOLEAN,
           script' \in {"absent", "stale", "torn", "fresh"},
           unrelated' \in BOOLEAN, unrelated' = unrelated,
           outcome' \in {"running", "reported", "aborted", "raised"},
           outcome' = "reported" => process = "exit0", outcome' = "aborted" => unrelated
    PROVE  IInv'
  <1>1. TypeOK'
    BY DEF IInv, TypeOK
  <1>2. ScriptInv'
    BY DEF IInv, ScriptInv, RetryInv, SubmitInv, DoneBefore
  <1> QED
    BY <1>1, <1>2 DEF IInv

LEMMA CallOraclePreserves == IInv /\ CallOracle => IInv'
  <1> SUFFICES ASSUME IInv, CallOracle PROVE IInv'
    OBVIOUS
  <1>0. process = "running" /\ step \in DOMAIN OraclePath
    BY DEF CallOracle
  <1>1. /\ world \in World /\ DoneBefore(world, step) /\ ~world.submitted
        /\ cwd = "/app" /\ at = "bun" /\ policy \in Policies
        /\ step \in Nat /\ Len(OraclePath) \in Nat /\ outcome # "reported"
    BY <1>0, RunningFacts
  <1>2. step \in 1 .. Len(OraclePath)
    BY <1>0, PathFacts
  <1>3. \A i \in Ids : world.paid[i] <= 1
    <2>1. step # Len(OraclePath) + 2
      BY <1>1, <1>2
    <2> QED
      BY <1>0, <2>1, RunningFacts, Zenon
  <1> DEFINE c == OraclePath[step]
             v == Effect(world, c)
  <1>4. /\ ~DetectsDuplicate(world, c, policy)
        /\ v \in World /\ DoneBefore(v, step + 1) /\ v.submitted = world.submitted
        /\ \A i \in Ids : v.paid[i] <= 1
    BY <1>0, <1>1, <1>3, OracleCallFacts
  <1>5. PICK a \in Answers(world, c, policy) : StrictAnswer(a, c, "running")
    BY DEF CallOracle
  <1> HIDE DEF c, v
  <1>6. /\ world' = a.world /\ unrelated' = (unrelated \/ a.unrelated)
        /\ process' = IF a.reply = "ok" THEN "running" ELSE "exit1"
    BY <1>1, <1>5 DEF StrictAnswer, Answer
  <1>7. /\ step' = step + 1 /\ step' \in 1 .. Len(OraclePath) + 2 /\ step' # Len(OraclePath) + 2
        /\ UNCHANGED <<outcome, at, outputDir, script, cwd, duplicateLanded, policy>>
    BY <1>1, <1>2 DEF CallOracle, shell
  <1>8. unrelated \in BOOLEAN /\ (outcome = "aborted" => unrelated)
    BY DEF IInv, TypeOK, ScriptInv
  <1>9. CASE a.reply = "ok" /\ a.world = v /\ a.unrelated = FALSE
    <2>1. /\ world' = v /\ unrelated' = unrelated /\ process' = "running"
      BY <1>6, <1>8, <1>9
    <2>2. TypeOK'
      BY <1>4, <1>7, <2>1 DEF IInv, TypeOK, World
    <2>3. \A i \in Ids : ~(world'.paid[i] > 1)
      <3>1. \A i \in Ids : v.paid[i] \in 0 .. 2
        <4>1. v.paid \in [Ids -> 0 .. 2]
          BY <1>4 DEF World
        <4> QED
          BY <4>1, Zenon
      <3> QED
        BY <1>4, <2>1, <3>1
    <2>4. DoneBefore(world', step')
      BY <1>4, <1>7, <2>1
    <2>5. DoneBefore(world, step)'
      BY <2>4 DEF DoneBefore
    <2>6. ScriptInv'
      BY <1>1, <1>4, <1>7, <1>8, <2>1, <2>3, <2>5 DEF ScriptInv
    <2> QED
      BY <2>2, <2>6 DEF IInv
  <1>10. CASE a.reply # "ok" /\ a.unrelated = TRUE /\ a.world \in {world, v}
    <2>1. /\ world' \in World /\ unrelated' = TRUE /\ process' = "exit1"
      BY <1>1, <1>4, <1>6, <1>10
    <2>2. TypeOK'
      BY <1>7, <2>1 DEF IInv, TypeOK, World
    <2>3. ScriptInv'
      BY <1>1, <1>7, <1>8, <2>1 DEF ScriptInv
    <2> QED
      BY <2>2, <2>3 DEF IInv
  <1> QED
    BY <1>1, <1>4, <1>9, <1>10, AnswerCases DEF v

LEMMA RetryReleasePreserves == IInv /\ RetryRelease => IInv'
  <1> SUFFICES ASSUME IInv, RetryRelease PROVE IInv'
    OBVIOUS
  <1>0. process = "running" /\ step = Len(OraclePath) + 1
    BY DEF RetryRelease, OracleDone
  <1>1. /\ world \in World /\ DoneBefore(world, step) /\ ~world.submitted
        /\ cwd = "/app" /\ at = "bun" /\ policy \in Policies
        /\ step \in Nat /\ Len(OraclePath) \in Nat /\ outcome # "reported"
    BY <1>0, RunningFacts
  <1>2. DoneBefore(world, Len(OraclePath) + 1)
    BY <1>0, <1>1 DEF DoneBefore
  <1>3. \A i \in Ids : world.paid[i] <= 1
    <2>1. step # Len(OraclePath) + 2
      BY <1>0, <1>1
    <2> QED
      BY <1>0, <2>1, RunningFacts, Zenon
  <1> DEFINE v == Effect(world, Retry)
  <1>4. /\ DetectsDuplicate(world, Retry, policy) <=> policy.detects = "release"
        /\ v \in World /\ v.submitted = world.submitted
        /\ world.paid[Retried] = 1 /\ v.paid[Retried] = 2
        /\ \A i \in Ids : i # Retried => v.paid[i] = world.paid[i]
        /\ DoneBefore(world, Len(OraclePath) + 2) /\ DoneBefore(v, Len(OraclePath) + 2)
    BY <1>1, <1>2, <1>3, RetryFacts
  <1>5. PICK a \in Answers(world, Retry, policy) :
           Answer(a, Retry) /\ duplicateLanded' = (a.reply = "ok")
    BY DEF RetryRelease
  <1> HIDE DEF v
  <1>6. /\ world' = a.world /\ unrelated' = (unrelated \/ a.unrelated)
        /\ duplicateLanded' = (a.reply = "ok")
    BY <1>1, <1>5 DEF Answer
  <1>7. /\ step' = Len(OraclePath) + 2 /\ step' \in 1 .. Len(OraclePath) + 2
        /\ UNCHANGED <<outcome, at, outputDir, script, cwd, process, policy>>
    BY <1>0, <1>1 DEF RetryRelease, shell
  <1>8. unrelated \in BOOLEAN /\ (outcome = "aborted" => unrelated)
    BY DEF IInv, TypeOK, ScriptInv
  <1>9. /\ a.world \in {world, v} /\ a.unrelated \in BOOLEAN
        /\ a.reply = "ok" => a.world = v /\ a.unrelated = FALSE /\ policy.detects # "release"
        /\ a.reply # "ok" => (policy.atomic => a.world = world)
        /\ policy.detects = "release" => a.world = world
        /\ a.reply # "ok" /\ ~a.unrelated => a.world = world /\ policy.detects = "release"
    <2>1. CASE DetectsDuplicate(world, Retry, policy)
      BY <1>1, <1>4, <2>1, AnswerCases, Zenon DEF v
    <2>2. CASE ~DetectsDuplicate(world, Retry, policy)
      <3>1. \/ a.reply = "ok" /\ a.world = v /\ a.unrelated = FALSE
            \/ a.reply # "ok" /\ a.world \in {world, v} /\ a.unrelated = TRUE
                 /\ (policy.atomic => a.world = world)
        BY <1>1, <2>2, AnswerCases, Zenon DEF v
      <3> QED
        BY <1>4, <2>2, <3>1, Zenon
    <2> QED
      BY <2>1, <2>2
  <1>10. TypeOK'
    <2>1. duplicateLanded' \in BOOLEAN /\ unrelated' \in BOOLEAN
      BY <1>6, <1>8, <1>9
    <2>2. world' \in World
      BY <1>1, <1>4, <1>6, <1>9
    <2> QED
      BY <1>7, <2>1, <2>2 DEF IInv, TypeOK, World
  <1>11. \A i \in Ids : world'.paid[i] > 1 => i = Retried
    <2> TAKE i \in Ids
    <2>1. i # Retried => ~(world'.paid[i] > 1)
      <3> SUFFICES ASSUME i # Retried PROVE ~(world'.paid[i] > 1)
        OBVIOUS
      <3>1. world'.paid[i] = world.paid[i]
        BY <1>4, <1>6, <1>9
      <3>2. world.paid[i] <= 1 /\ world.paid[i] \in 0 .. 2
        BY <1>1, <1>3, Zenon DEF World
      <3> QED
        BY <3>1, <3>2
    <2> QED
      BY <2>1
  <1>12. RetryInv'
    <2>0. policy' = policy
      BY <1>7
    <2>1. CASE a.reply = "ok"
      <3>1. duplicateLanded' = TRUE /\ world'.paid[Retried] = 2 /\ policy.detects # "release"
        BY <1>4, <1>6, <1>9, <2>1
      <3> QED
        BY <2>0, <3>1 DEF RetryInv
    <2>2. CASE a.reply # "ok"
      <3>1. /\ duplicateLanded' = FALSE
            /\ policy.atomic => world'.paid[Retried] = 1
            /\ policy.detects = "release" => world'.paid[Retried] = 1
            /\ ~unrelated' => world'.paid[Retried] = 1 /\ policy.detects = "release"
        BY <1>4, <1>6, <1>9, <2>2
      <3> QED
        BY <2>0, <3>1 DEF RetryInv
    <2> QED
      BY <2>1, <2>2
  <1>13. DoneBefore(world, step)' /\ ~world'.submitted
    <2>1. DoneBefore(world', step')
      BY <1>4, <1>6, <1>7, <1>9
    <2> QED
      BY <1>1, <1>4, <1>6, <1>9, <2>1 DEF DoneBefore
  <1>14. OraclePath' = OraclePath
    OBVIOUS
  <1>15. ScriptInv'
    BY <1>0, <1>1, <1>7, <1>8, <1>6, <1>11, <1>12, <1>13 DEF ScriptInv
  <1> QED
    BY <1>10, <1>15 DEF IInv

\* The submission, tolerant or strict: what the two have in common.
LEMMA SubmissionFacts ==
    ASSUME IInv, RetryDone, NEW a \in Answers(world, Submit, policy), Answer(a, Submit),
           UNCHANGED <<outcome, at, shell, step, duplicateLanded, policy>>,
           process' \in {"exit0", "exit1"}
    PROVE  /\ TypeOK' /\ RetryInv' /\ (outcome = "aborted" => unrelated)
           /\ outcome # "reported" /\ at = "bun" /\ cwd = "/app"
           /\ step = Len(OraclePath) + 2 /\ step' = step /\ Len(OraclePath) \in Nat
           /\ DoneBefore(world, step)' /\ \A i \in Ids : world'.paid[i] > 1 => i = Retried
           /\ unrelated \in BOOLEAN /\ unrelated' = (unrelated \/ a.unrelated)
           /\ a.unrelated \in BOOLEAN
           /\ a.reply = "ok" =>
                 /\ world'.submitted /\ a.unrelated = FALSE
                 /\ duplicateLanded => policy.detects # "submit"
           /\ a.reply # "ok" /\ ~a.unrelated =>
                 ~world'.submitted /\ policy.detects = "submit" /\ (duplicateLanded \/ unrelated)
           /\ policy.detects = "submit" /\ world'.paid[Retried] > 1 => ~world'.submitted
  <1>0. process = "running" /\ step = Len(OraclePath) + 2
    BY DEF RetryDone
  <1>1. /\ world \in World /\ DoneBefore(world, step) /\ ~world.submitted
        /\ cwd = "/app" /\ at = "bun" /\ policy \in Policies /\ RetryInv
        /\ Len(OraclePath) \in Nat /\ outcome # "reported"
        /\ \A i \in Ids : world.paid[i] > 1 => i = Retried
    BY <1>0, RunningFacts
  <1> DEFINE v == Effect(world, Submit)
  <1>2. /\ v \in World /\ v.submitted /\ v.paid = world.paid
        /\ \A n : DoneBefore(world, n) => DoneBefore(v, n)
        /\ DetectsDuplicate(world, Submit, policy) <=>
              policy.detects = "submit" /\ \E i \in Ids : world.paid[i] > 1
    BY <1>1, SubmitFacts
  <1>3. unrelated \in BOOLEAN /\ duplicateLanded \in BOOLEAN /\ (outcome = "aborted" => unrelated)
    BY DEF IInv, TypeOK, ScriptInv
  <1> HIDE DEF v
  <1>4. world' = a.world /\ unrelated' = (unrelated \/ a.unrelated)
    BY <1>1 DEF Answer
  <1>5. Retried \in Ids
    BY ScriptLists DEF Elements
  <1>6. /\ a.world \in {world, v} /\ a.unrelated \in BOOLEAN
        /\ a.reply = "ok" =>
              a.world = v /\ a.unrelated = FALSE /\ ~DetectsDuplicate(world, Submit, policy)
        /\ a.reply # "ok" /\ ~a.unrelated =>
              a.world = world /\ DetectsDuplicate(world, Submit, policy)
    BY <1>1, AnswerCases DEF v
  <1>7. world' \in World /\ world'.paid = world.paid
    BY <1>1, <1>2, <1>4, <1>6
  <1>8. TypeOK'
    BY <1>3, <1>4, <1>6, <1>7 DEF IInv, TypeOK, World, shell
  <1>9. RetryInv'
    <2>1. (~unrelated') => ~unrelated
      BY <1>4
    <2> QED
      BY <1>1, <1>7, <2>1 DEF RetryInv
  <1>10. DoneBefore(world, step)'
    <2>1. DoneBefore(world', step)
      BY <1>1, <1>2, <1>4, <1>6
    <2> QED
      BY <2>1 DEF DoneBefore
  <1>11. \A i \in Ids : world'.paid[i] > 1 => i = Retried
    BY <1>1, <1>7
  <1>12. duplicateLanded => \E i \in Ids : world.paid[i] > 1
    <2>1. duplicateLanded => world.paid[Retried] = 2
      BY <1>1 DEF RetryInv
    <2>2. duplicateLanded => world.paid[Retried] > 1
      BY <2>1
    <2> QED
      BY <1>5, <2>2
  <1>13. (\E i \in Ids : world.paid[i] > 1) => duplicateLanded \/ unrelated
    <2>1. (\E i \in Ids : world.paid[i] > 1) => world.paid[Retried] > 1
      BY <1>1, Zenon
    <2>2. ~duplicateLanded /\ ~unrelated => world.paid[Retried] = 1
      BY <1>1 DEF RetryInv
    <2>3. world.paid[Retried] > 1 => world.paid[Retried] # 1
      OBVIOUS
    <2> QED
      BY <2>1, <2>2, <2>3, Zenon
  <1>14. policy.detects = "submit" /\ world'.paid[Retried] > 1 => ~world'.submitted
    <2> SUFFICES ASSUME policy.detects = "submit", world'.paid[Retried] > 1
                 PROVE  ~world'.submitted
      OBVIOUS
    <2>1. DetectsDuplicate(world, Submit, policy)
      BY <1>2, <1>5, <1>7
    <2>2. a.world = world
      BY <1>1, <2>1, AnswerCases, Zenon
    <2> QED
      BY <1>1, <1>4, <2>2
  <1> QED
    BY <1>0, <1>1, <1>2, <1>3, <1>4, <1>6, <1>8, <1>9, <1>10, <1>11, <1>12, <1>13, <1>14

LEMMA SubmitTolerantPreserves == IInv /\ SubmitTolerant => IInv'
  <1> SUFFICES ASSUME IInv, SubmitTolerant PROVE IInv'
    OBVIOUS
  <1>1. PICK a \in Answers(world, Submit, policy) : Answer(a, Submit)
    BY DEF SubmitTolerant
  <1>2. /\ RetryDone /\ duplicateLanded /\ process' = "exit0"
        /\ UNCHANGED <<outcome, at, shell, step, duplicateLanded, policy>>
    BY DEF SubmitTolerant
  <1>3. /\ TypeOK' /\ RetryInv' /\ (outcome = "aborted" => unrelated)
        /\ outcome # "reported" /\ at = "bun" /\ cwd = "/app"
        /\ step = Len(OraclePath) + 2 /\ Len(OraclePath) \in Nat
        /\ DoneBefore(world, step)' /\ \A i \in Ids : world'.paid[i] > 1 => i = Retried
        /\ unrelated \in BOOLEAN /\ unrelated' = (unrelated \/ a.unrelated)
        /\ a.unrelated \in BOOLEAN
        /\ a.reply = "ok" => world'.submitted /\ policy.detects # "submit"
        /\ a.reply # "ok" /\ ~a.unrelated => ~world'.submitted /\ policy.detects = "submit"
        /\ policy.detects = "submit" /\ world'.paid[Retried] > 1 => ~world'.submitted
    BY <1>1, <1>2, SubmissionFacts
  <1>4. SubmitInv'
    BY <1>2, <1>3 DEF SubmitInv
  <1>5. ScriptInv'
    BY <1>2, <1>3, <1>4 DEF ScriptInv, shell
  <1> QED
    BY <1>3, <1>5 DEF IInv

LEMMA SubmitStrictPreserves == IInv /\ SubmitStrict => IInv'
  <1> SUFFICES ASSUME IInv, SubmitStrict PROVE IInv'
    OBVIOUS
  <1>1. PICK a \in Answers(world, Submit, policy) : StrictAnswer(a, Submit, "exit0")
    BY DEF SubmitStrict
  <1>2. /\ RetryDone /\ ~duplicateLanded /\ Answer(a, Submit)
        /\ process' = IF a.reply = "ok" THEN "exit0" ELSE "exit1"
        /\ UNCHANGED <<outcome, at, shell, step, duplicateLanded, policy>>
    BY <1>1 DEF SubmitStrict, StrictAnswer
  <1>3. /\ TypeOK' /\ RetryInv' /\ (outcome = "aborted" => unrelated)
        /\ outcome # "reported" /\ at = "bun" /\ cwd = "/app"
        /\ step = Len(OraclePath) + 2 /\ Len(OraclePath) \in Nat
        /\ DoneBefore(world, step)' /\ \A i \in Ids : world'.paid[i] > 1 => i = Retried
        /\ unrelated \in BOOLEAN /\ unrelated' = (unrelated \/ a.unrelated)
        /\ a.unrelated \in BOOLEAN
        /\ a.reply = "ok" => world'.submitted /\ a.unrelated = FALSE
        /\ a.reply # "ok" /\ ~a.unrelated => unrelated
        /\ policy.detects = "submit" /\ world'.paid[Retried] > 1 => ~world'.submitted
    BY <1>1, <1>2, SubmissionFacts
  <1>4. CASE a.reply = "ok"
    <2>1. process' = "exit0" /\ unrelated' = unrelated
      BY <1>2, <1>3, <1>4
    <2>2. SubmitInv'
      BY <1>2, <1>3, <1>4, <2>1 DEF SubmitInv, RetryInv
    <2>3. ScriptInv'
      BY <1>2, <1>3, <2>1, <2>2 DEF ScriptInv, shell
    <2> QED
      BY <1>3, <2>3 DEF IInv
  <1>5. CASE a.reply # "ok"
    <2>1. process' = "exit1" /\ unrelated' = TRUE
      BY <1>2, <1>3, <1>5
    <2>2. ScriptInv'
      BY <1>2, <1>3, <2>1 DEF ScriptInv, shell
    <2> QED
      BY <1>3, <2>2 DEF IInv
  <1> QED
    BY <1>4, <1>5

LEMMA NextPreservesIInv == IInv /\ [Next]_vars => IInv'
  <1> SUFFICES ASSUME IInv, [Next]_vars PROVE IInv'
    OBVIOUS
  <1>0. /\ at = "bun" <=> process # "none"
        /\ process = "none" => step = 1
        /\ outcome = "reported" => process = "exit0"
        /\ outcome = "aborted" => unrelated
        /\ process = "exit1" => unrelated
        /\ outputDir \in BOOLEAN /\ script \in {"absent", "stale", "torn", "fresh"}
        /\ unrelated \in BOOLEAN
    BY DEF IInv, TypeOK, ScriptInv
  <1>1. CASE MakeOutputDir
    <2>1. TypeOK'
      BY <1>0, <1>1 DEF MakeOutputDir, IInv, TypeOK
    <2>2. DoneBefore(world, step)' <=> DoneBefore(world, step)
      BY <1>1 DEF MakeOutputDir, DoneBefore
    <2>3. ScriptInv'
      BY <1>0, <1>1, <2>2 DEF MakeOutputDir, At, IInv, ScriptInv, RetryInv, SubmitInv
    <2> QED
      BY <2>1, <2>3 DEF IInv
  <1>2. CASE StartScript
    <2>0. process = "none" /\ process' = "running" /\ outcome = "running"
      BY <1>0, <1>2 DEF StartScript, At
    <2>1. TypeOK'
      BY <1>2 DEF StartScript, ScriptWrites, IInv, TypeOK
    <2>2. DoneBefore(world, step)' <=> DoneBefore(world, step)
      BY <1>2 DEF StartScript, DoneBefore
    <2>3. step # Len(OraclePath) + 2
      <3>1. Len(OraclePath) \in Nat
        BY PathFacts DEF LastPayment, LastReview
      <3> QED
        BY <1>0, <2>0, <3>1
    <2>4. ScriptInv'
      BY <1>2, <2>0, <2>2, <2>3 DEF StartScript, At, IInv, ScriptInv
    <2> QED
      BY <2>1, <2>4 DEF IInv
  <1>3. CASE ScriptCannotRun
    <2>1. TypeOK'
      BY <1>3 DEF ScriptCannotRun, ScriptWrites, IInv, TypeOK
    <2>2. DoneBefore(world, step)' <=> DoneBefore(world, step)
      BY <1>3 DEF ScriptCannotRun, DoneBefore
    <2>3. process = "none"
      BY <1>0, <1>3 DEF ScriptCannotRun, At
    <2>4. ScriptInv'
      BY <1>3, <2>2, <2>3 DEF ScriptCannotRun, At, IInv, ScriptInv
    <2> QED
      BY <2>1, <2>4 DEF IInv
  <1>4. CASE CallOracle
    BY <1>4, CallOraclePreserves
  <1>5. CASE RetryRelease
    BY <1>5, RetryReleasePreserves
  <1>6. CASE SubmitTolerant
    BY <1>6, SubmitTolerantPreserves
  <1>7. CASE SubmitStrict
    BY <1>7, SubmitStrictPreserves
  <1>8. CASE ScriptDies
    <2>1. TypeOK'
      BY <1>8 DEF ScriptDies, shell, IInv, TypeOK
    <2>2. ScriptInv'
      BY <1>0, <1>8 DEF ScriptDies, shell, IInv, ScriptInv
    <2> QED
      BY <2>1, <2>2 DEF IInv
  <1>9. CASE AbortOnFailedScript
    BY <1>0, <1>9, BesideTheScript DEF AbortOnFailedScript, shell
  <1>10. CASE Report
    BY <1>0, <1>10, BesideTheScript DEF Report, shell
  <1>11. CASE ExecRaises
    <2>1. \A w \in ScriptWrites(script) : w.script \in {"absent", "stale", "torn", "fresh"}
      BY <1>0 DEF ScriptWrites
    <2>2. outputDir' \in BOOLEAN /\ script' \in {"absent", "stale", "torn", "fresh"}
      BY <1>0, <1>11, <2>1 DEF ExecRaises
    <2> QED
      BY <1>0, <1>11, <2>2, BesideTheScript DEF ExecRaises
  <1>12. CASE UNCHANGED vars
    <2>1. outcome' \in {"running", "reported", "aborted", "raised"}
      BY <1>12 DEF vars, IInv, TypeOK
    <2> QED
      BY <1>0, <1>12, <2>1, BesideTheScript DEF vars, shell
  <1> QED
    BY <1>1, <1>2, <1>3, <1>4, <1>5, <1>6, <1>7, <1>8, <1>9, <1>10, <1>11, <1>12
       DEF Next, Ended

THEOREM IInvIsInvariant == Spec => []IInv
  BY InitEstablishesIInv, NextPreservesIInv, PTL DEF Spec

\* The state of the run, for every list of invoices.
THEOREM DoublePayerTypeOK == Spec => []TypeOK
  <1>1. IInv => TypeOK
    BY DEF IInv
  <1> QED
    BY <1>1, IInvIsInvariant, PTL

\* A world that detects the duplicate is never taken for a broken setup,
\* wherever it detects it and however many calls the oracle makes.
THEOREM DetectionIsNoSetupFailure == Spec => []SignalIsNoSetupFailure
  <1>1. IInv => SignalIsNoSetupFailure
    BY DEF IInv, ScriptInv, SignalIsNoSetupFailure
  <1> QED
    BY <1>1, IInvIsInvariant, PTL

\* With the script behind it, the world holds the oracle's run.
LEMMA DoneIsOracleRun ==
    ASSUME IInv, process = "exit0"
    PROVE  OracleRunDone(world) /\ \A i \in Ids : world.paid[i] > 1 => i = Retried
  <1>0. /\ DOMAIN Staged = 1 .. Len(Staged) /\ DOMAIN Released = 1 .. Len(Released)
        /\ DOMAIN StopCalls = 1 .. Len(StopCalls)
        /\ Len(Staged) \in Nat /\ Len(Released) \in Nat /\ Len(StopCalls) \in Nat
        /\ LastReview = 2 * Len(Staged) /\ LastPayment = LastReview + Len(Released)
        /\ Len(OraclePath) = LastPayment + Len(StopCalls)
    BY PathFacts, StopFacts DEF LastReview, LastPayment
  <1>1. /\ world \in World /\ DoneBefore(world, step) /\ step = Len(OraclePath) + 2
        /\ \A i \in Ids : world.paid[i] > 1 => i = Retried
    BY DEF IInv, TypeOK, ScriptInv, World
  <1>2. /\ \A j \in DOMAIN Staged : 2 * j - 1 < step /\ 2 * j < step
        /\ \A j \in DOMAIN Released : LastReview + j < step
        /\ \A j \in DOMAIN StopCalls : LastPayment + j < step
    BY <1>0, <1>1
  <1>3. Elements(Staged) \subseteq Ids /\ Elements(Released) \subseteq Ids
    BY ScriptLists DEF Elements
  <1>4. world.reviewed = Elements(Staged) /\ world.verified = Elements(Staged)
    BY <1>1, <1>2, <1>3 DEF DoneBefore, World, Elements
  <1>5. \A i \in Ids : world.paid[i] > 0 <=> i \in Elements(Released)
    BY <1>1, <1>2 DEF DoneBefore, Elements
  <1>6. world.stopped = Elements(StopCalls)
    BY <1>1, <1>2 DEF DoneBefore, World, Elements
  <1> QED
    BY <1>1, <1>4, <1>5, <1>6 DEF OracleRunDone

\* A reported run is the oracle's run but for the one duplicate.
THEOREM OneDefectOnly == Spec => []SingleDefect
  <1>1. IInv => SingleDefect
    BY DoneIsOracleRun DEF IInv, ScriptInv, SingleDefect
  <1> QED
    BY <1>1, IInvIsInvariant, PTL

\* What a reported run leaves tells where the world detects duplicates.
THEOREM VerdictIsThePolicy == Spec => []VerdictTellsThePolicy
  <1>1. IInv => VerdictTellsThePolicy
    <2> SUFFICES ASSUME IInv, outcome = "reported", ~unrelated
                 PROVE  /\ world.paid[Retried] = 1 <=> policy.detects = "release"
                        /\ ~world.submitted <=> policy.detects = "submit"
      BY DEF VerdictTellsThePolicy
    <2>1. RetryInv /\ SubmitInv /\ policy \in Policies
      BY DEF IInv, ScriptInv, TypeOK
    <2> QED
      BY <2>1 DEF RetryInv, SubmitInv
  <1> QED
    BY <1>1, IInvIsInvariant, PTL

\* Once the duplicate was rejected, a reported run is a submitted run.
THEOREM RejectedIsSubmitted == Spec => []RejectedThenSubmitted
  <1>1. IInv => RejectedThenSubmitted
    BY DEF IInv, ScriptInv, SubmitInv, RejectedThenSubmitted
  <1> QED
    BY <1>1, IInvIsInvariant, PTL

\* Whatever failed at the retry or at the submission, a duplicate in a reported
\* run is one that the world let through.
THEOREM DuplicatesAreLetThrough == Spec => []DuplicateWasLetThrough
  <1>1. IInv => DuplicateWasLetThrough
    <2> SUFFICES ASSUME IInv, outcome = "reported", world.paid[Retried] > 1
                 PROVE  /\ world.submitted => policy.detects = "never"
                        /\ ~duplicateLanded => policy.detects = "never" /\ ~policy.atomic
      BY DEF DuplicateWasLetThrough
    <2>1. RetryInv /\ SubmitInv /\ policy \in Policies
      BY DEF IInv, ScriptInv, TypeOK
    <2>2. world.paid[Retried] # 1
      OBVIOUS
    <2>3. policy.detects \in {"never", "release", "submit"}
      BY <2>1 DEF Policies
    <2> QED
      BY <2>1, <2>2, <2>3 DEF RetryInv, SubmitInv
  <1> QED
    BY <1>1, IInvIsInvariant, PTL

\* No step disposes of an invoice in a second way, or unreviewed.
LEMMA StepDisposesInOneWay ==
    ASSUME IInv, [Next]_vars, NEW i \in Ids
    PROVE  OneWay(world, world', i)
  <1>0. world \in World
    BY DEF IInv, TypeOK, World
  <1>1. OneWay(world, world, i)
    BY <1>0, NothingDisposed
  <1>2. SUFFICES ASSUME world' # world PROVE OneWay(world, world', i)
    BY <1>1
  <1>3. CASE CallOracle
    <2>0. process = "running" /\ step \in DOMAIN OraclePath
      BY <1>3 DEF CallOracle
    <2>1. /\ world \in World /\ DoneBefore(world, step) /\ cwd = "/app" /\ policy \in Policies
          /\ step \in 1 .. Len(OraclePath) /\ Len(OraclePath) \in Nat
      BY <2>0, RunningFacts, PathFacts
    <2>2. \A h \in Ids : world.paid[h] <= 1
      <3>1. step # Len(OraclePath) + 2
        BY <2>1
      <3> QED
        BY <2>0, <3>1, RunningFacts, Zenon
    <2>3. PICK a \in Answers(world, OraclePath[step], policy) :
             StrictAnswer(a, OraclePath[step], "running")
      BY <1>3 DEF CallOracle
    <2> DEFINE v == Effect(world, OraclePath[step])
    <2>4. OneWay(world, v, i)
      BY <2>0, <2>1, <2>2, OracleCallFacts
    <2> HIDE DEF v
    <2>5. world' = v
      BY <1>2, <2>1, <2>3, AnswerCases DEF StrictAnswer, Answer, v
    <2> QED
      BY <2>4, <2>5
  <1>4. CASE RetryRelease
    <2>0. process = "running" /\ step = Len(OraclePath) + 1
      BY <1>4 DEF RetryRelease, OracleDone
    <2>1. /\ DoneBefore(world, step) /\ cwd = "/app" /\ policy \in Policies
          /\ Len(OraclePath) \in Nat
      BY <2>0, RunningFacts
    <2>2. \A h \in Ids : world.paid[h] <= 1
      <3>1. step # Len(OraclePath) + 2
        BY <2>0, <2>1
      <3> QED
        BY <2>0, <3>1, RunningFacts, Zenon
    <2>3. PICK a \in Answers(world, Retry, policy) : Answer(a, Retry)
      BY <1>4 DEF RetryRelease
    <2>4. DoneBefore(world, Len(OraclePath) + 1)
      BY <2>0, <2>1 DEF DoneBefore
    <2> DEFINE v == Effect(world, Retry)
    <2>5. /\ v \in World /\ v.stopped = world.stopped
          /\ Retried \in world.reviewed \cap world.verified
          /\ \A h \in Ids : h # Retried => v.paid[h] = world.paid[h]
      BY <1>0, <2>2, <2>4, RetryFacts
    <2> HIDE DEF v
    <2>6. world' = v
      BY <1>2, <2>1, <2>3, AnswerCases DEF Answer, v
    <2>7. CASE i # Retried
      BY <1>0, <2>5, <2>6, <2>7, NothingDisposed
    <2>8. CASE i = Retried
      <3>1. \A c \in Elements(StopCalls) : c.inv # Retried
        BY StopFacts, ScriptLists DEF Elements
      <3>2. StopsOf(world, Retried) = {}
        BY <1>0, <3>1 DEF World, StopsOf
      <3>3. StopsOf(v, Retried) = {}
        BY <2>5, <3>2 DEF StopsOf
      <3> QED
        BY <2>5, <2>6, <2>8, <3>2, <3>3 DEF OneWay
    <2> QED
      BY <2>7, <2>8
  <1>5. CASE SubmitTolerant \/ SubmitStrict
    <2>0. process = "running"
      BY <1>5 DEF SubmitTolerant, SubmitStrict, RetryDone
    <2>1. cwd = "/app" /\ policy \in Policies
      BY <2>0, RunningFacts
    <2>2. PICK a \in Answers(world, Submit, policy) : Answer(a, Submit)
      BY <1>5 DEF SubmitTolerant, SubmitStrict, StrictAnswer
    <2> DEFINE v == Effect(world, Submit)
    <2>3. v \in World /\ v.paid = world.paid /\ v.stopped = world.stopped
      BY <1>0, SubmitFacts
    <2> HIDE DEF v
    <2>4. world' = v
      BY <1>2, <2>1, <2>2, AnswerCases DEF Answer, v
    <2> QED
      BY <1>0, <2>3, <2>4, NothingDisposed
  <1>6. ASSUME MakeOutputDir \/ StartScript \/ ScriptCannotRun \/ ScriptDies
                 \/ AbortOnFailedScript \/ Report \/ ExecRaises \/ UNCHANGED vars
        PROVE  FALSE
    BY <1>2, <1>6 DEF MakeOutputDir, StartScript, ScriptCannotRun, ScriptDies,
       AbortOnFailedScript, Report, ExecRaises, vars
  <1> QED
    BY <1>3, <1>4, <1>5, <1>6 DEF Next, Ended

\* Every invoice that is paid, held or escalated is reviewed and verified, and what
\* is disposed of in one of these ways is never disposed of in another.
THEOREM DispositionsExclude == Spec => DisposedInOneWay
  <1> DEFINE Step == \A i \in Ids : OneWay(world, world', i)
  <1>1. IInv /\ [Next]_vars => [Step]_vars
    BY StepDisposesInOneWay
  <1>2. Spec => [][Step]_vars
    <2> HIDE DEF Step
    <2> QED
      BY <1>1, IInvIsInvariant, PTL DEF Spec
  <1>3. Step <=> \A i \in Ids :
           LET paid == world'.paid[i] > world.paid[i]
               stopped == StopsOf(world', i) # StopsOf(world, i)
           IN  /\ paid \/ stopped => /\ i \in world.reviewed \cap world.verified
                                    /\ StopsOf(world, i) = {}
               /\ stopped => world'.paid[i] = 0
    BY DEF OneWay
  <1> QED
    BY <1>2, <1>3, PTL DEF DisposedInOneWay

LEMMA InitImplementsContract == Init => Contract!Init
  BY DEF Init, Contract!Init

\* Every step of the run is a step of the contract or none at all.
LEMMA StepImplementsContract == IInv /\ [Next]_vars => [Contract!Next]_(Contract!vars)
  <1> SUFFICES ASSUME IInv, [Next]_vars PROVE [Contract!Next]_(Contract!vars)
    OBVIOUS
  <1> USE DEF Contract!Next, Contract!vars, Contract!Work, Contract!Report, Contract!Fail
  <1>0. process # "running" => world' = world
    BY DEF Next, vars, MakeOutputDir, StartScript, ScriptCannotRun, CallOracle, RetryRelease,
           SubmitTolerant, SubmitStrict, ScriptDies, AbortOnFailedScript, Report, ExecRaises,
           Ended, OracleDone, RetryDone
  <1>1. outcome = "reported" => process = "exit0"
    BY DEF IInv, ScriptInv
  <1>2. CASE outcome' = outcome
    <2>1. world' = world \/ outcome # "reported"
      BY <1>0, <1>1
    <2> QED
      BY <1>2, <2>1 DEF OracleRunDone
  <1>3. CASE outcome' # outcome
    <2>1. ScriptCannotRun \/ AbortOnFailedScript \/ Report \/ ExecRaises
      BY <1>3 DEF Next, vars, MakeOutputDir, StartScript, CallOracle, RetryRelease,
           SubmitTolerant, SubmitStrict, ScriptDies, Ended
    <2>2. CASE ScriptCannotRun \/ AbortOnFailedScript \/ ExecRaises
      BY <2>2 DEF ScriptCannotRun, AbortOnFailedScript, ExecRaises, At
    <2>3. CASE Report
      <3>1. process = "exit0" /\ outcome = "running" /\ outcome' = "reported" /\ world' = world
        BY <2>3 DEF Report, At
      <3>2. OracleRunDone(world)
        BY <3>1, DoneIsOracleRun
      <3> QED
        BY <3>1, <3>2 DEF OracleRunDone
    <2> QED
      BY <2>1, <2>2, <2>3
  <1> QED
    BY <1>2, <1>3

\* A run that reports has the oracle's run in its world: its floor is not vacuous.
THEOREM DoublePayerImplementsContract == Spec => ImplementsContract
  <1>1. Spec => Contract!Init /\ [][Contract!Next]_(Contract!vars)
    BY InitImplementsContract, StepImplementsContract, IInvIsInvariant, PTL DEF Spec
  <1> QED
    BY <1>1 DEF ImplementsContract, Contract!Spec
=============================================================================
