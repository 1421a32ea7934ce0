-------------------------- MODULE StateRewriteProofs --------------------------
(***************************************************************************)
(* OcarinaStateRewrite for every winning answer: whatever invoices it      *)
(* releases, holds and escalates, the run never forges on a failed spine,  *)
(* and a run that reports is floored by the magnitude gate and by no gate  *)
(* before it.                                                              *)
(***************************************************************************)
EXTENDS StateRewrite, FiniteSetTheorems, FunctionTheorems, TLAPS

-----------------------------------------------------------------------------
(* The rows, verb by verb.                                                 *)

Verbs == DOMAIN Claimed

\* The calls of the spine, one by one.
LEMMA SpineCalls ==
    /\ Len(Spine) = 10 /\ DOMAIN Spine = 1 .. 10
    /\ Spine[1] = Call("review_invoice", SpineReleased, None)
    /\ Spine[2] = Call("verify_vendor_account", SpineReleased, None)
    /\ Spine[3] = Call("release_payment", SpineReleased, None)
    /\ Spine[4] = Call("review_invoice", SpineHeld, None)
    /\ Spine[5] = Call("verify_vendor_account", SpineHeld, None)
    /\ Spine[6] = Call("hold_payment", SpineHeld, SpineHoldReason)
    /\ Spine[7] = Call("review_invoice", SpineEscalated, None)
    /\ Spine[8] = Call("verify_vendor_account", SpineEscalated, None)
    /\ Spine[9] = Call("escalate_invoice", SpineEscalated, SpineEscalationReason)
    /\ Spine[10] = Call("submit_payment_run", None, None)
  BY DEF Spine

LEMMA SpineIdsAreDistinct ==
    /\ SpineReleased # SpineHeld
    /\ SpineReleased # SpineEscalated
    /\ SpineHeld # SpineEscalated
    /\ SpineReviewed \subseteq Reviewed
  BY AnswerIsAPartition, SpineIsOfTheAnswer DEF SpineReviewed

\* What each row of the spine is.
LEMMA SpineRowFields ==
    \A i \in 1 .. 10 :
        /\ SpineRow(i).at = i
        /\ SpineRow(i).verb = Spine[i].verb
        /\ SpineRow(i).inv = Spine[i].inv
        /\ SpineRow(i).reason = Spine[i].reason
        /\ SpineRow(i).verb \in Verbs
  <1>1. \A i \in 1 .. 10 :
            /\ SpineRow(i).at = i
            /\ SpineRow(i).verb = Spine[i].verb
            /\ SpineRow(i).inv = Spine[i].inv
            /\ SpineRow(i).reason = Spine[i].reason
    BY DEF SpineRow, Row
  <1>2. \A i \in 1 .. 10 : Spine[i].verb \in Verbs
    BY SpineCalls DEF Call, Verbs, Claimed
  <1> QED
    BY <1>1, <1>2

\* A verb's rows in the spine name its spine ids, each once.
LEMMA SpineOncePerId ==
    /\ \A v \in Verbs, r \in SpineRows :
          r.verb = v => r.inv \in IF v = "submit_payment_run" THEN {None} ELSE SpineIds(v)
    /\ \A v \in Verbs \ {"submit_payment_run"} : \A i \in SpineIds(v) :
          \E r \in SpineRows : r.verb = v /\ r.inv = i
    /\ \E r \in SpineRows : r.verb = "submit_payment_run"
    /\ \A r, q \in SpineRows : r.verb = q.verb /\ r.inv = q.inv => r = q
  <1>1. \A v \in Verbs, r \in SpineRows :
          r.verb = v => r.inv \in IF v = "submit_payment_run" THEN {None} ELSE SpineIds(v)
    BY SpineCalls, SpineRowFields DEF SpineRows, Call, SpineIds, SpineReviewed
  <1>2. \A v \in Verbs \ {"submit_payment_run"} : \A i \in SpineIds(v) :
          \E k \in 1 .. 10 : Spine[k].verb = v /\ Spine[k].inv = i
    BY SpineCalls DEF Verbs, Claimed, Call, SpineIds, SpineReviewed
  <1>3. \A k, l \in 1 .. 10 :
          Spine[k].verb = Spine[l].verb /\ Spine[k].inv = Spine[l].inv => k = l
    BY SpineCalls, SpineIdsAreDistinct DEF Call
  <1>4. Spine[10].verb = "submit_payment_run"
    BY SpineCalls DEF Call
  <1> QED
    BY <1>1, <1>2, <1>3, <1>4, SpineRowFields DEF SpineRows

ForgedVerbs == Verbs \ {"submit_payment_run"}

LEMMA ForgeOrderFacts ==
    /\ \A k \in 1 .. 5 : ForgeOrder[k] \in ForgedVerbs
    /\ \A v \in ForgedVerbs : \E k \in 1 .. 5 : ForgeOrder[k] = v
    /\ \A k, l \in 1 .. 5 : ForgeOrder[k] = ForgeOrder[l] => k = l
  BY DEF ForgeOrder, ForgedVerbs, Verbs, Claimed

LEMMA ForgedRowFields ==
    \A k \in 1 .. 5 : \A r \in ForgedBlock(k) :
        /\ r.verb = ForgeOrder[k]
        /\ r.at = 10 + k
        /\ r.inv \in Claimed[ForgeOrder[k]] \ SpineIds(ForgeOrder[k])
        /\ r.reason = LedgerArgs(r.verb, r.inv)
        /\ r = Row(Call(r.verb, r.inv, r.reason), r.at)
  BY DEF ForgedBlock, Row, Call

\* A verb's forged rows name the claimed ids the spine left, each once.
LEMMA ForgedOncePerId ==
    /\ \A r \in ForgedRows :
          r.verb \in ForgedVerbs /\ r.inv \in Claimed[r.verb] \ SpineIds(r.verb)
    /\ \A v \in ForgedVerbs : \A i \in Claimed[v] \ SpineIds(v) :
          \E r \in ForgedRows : r.verb = v /\ r.inv = i
    /\ \A r, q \in ForgedRows : r.verb = q.verb /\ r.inv = q.inv => r = q
  <1>1. \A r \in ForgedRows :
          r.verb \in ForgedVerbs /\ r.inv \in Claimed[r.verb] \ SpineIds(r.verb)
    BY ForgeOrderFacts, ForgedRowFields DEF ForgedRows
  <1>2. ASSUME NEW v \in ForgedVerbs, NEW i \in Claimed[v] \ SpineIds(v)
        PROVE  \E r \in ForgedRows : r.verb = v /\ r.inv = i
    <2>1. PICK k \in 1 .. 5 : ForgeOrder[k] = v
      BY ForgeOrderFacts
    <2> DEFINE r == Row(Call(ForgeOrder[k], i, LedgerArgs(ForgeOrder[k], i)), 10 + k)
    <2>2. r \in ForgedBlock(k)
      BY <2>1 DEF ForgedBlock
    <2>3. r.verb = v /\ r.inv = i
      BY <2>1 DEF Row, Call
    <2> QED
      BY <2>2, <2>3 DEF ForgedRows
  <1>3. ASSUME NEW r \in ForgedRows, NEW q \in ForgedRows, r.verb = q.verb, r.inv = q.inv
        PROVE  r = q
    <2>1. PICK k \in 1 .. 5 : r \in ForgedBlock(k)
      BY DEF ForgedRows
    <2>2. PICK l \in 1 .. 5 : q \in ForgedBlock(l)
      BY DEF ForgedRows
    <2>3. k = l
      BY <1>3, <2>1, <2>2, ForgedRowFields, ForgeOrderFacts
    <2> QED
      BY <1>3, <2>1, <2>2, <2>3, ForgedRowFields
  <1> QED
    BY <1>1, <1>2, <1>3

-----------------------------------------------------------------------------
(* The complete evidence against the gates.                                *)

\* Rows that name each element of S exactly once are as many as S.
LEMMA OncePerIdCounts ==
    ASSUME NEW S, IsFiniteSet(S), NEW R,
           \A r \in R : r.inv \in S,
           \A i \in S : \E r \in R : r.inv = i,
           \A r, q \in R : r.inv = q.inv => r = q
    PROVE  IsFiniteSet(R) /\ Cardinality(R) = Cardinality(S)
  <1> DEFINE rowOf == [i \in S |-> CHOOSE r \in R : r.inv = i]
  <1>1. \A i \in S : rowOf[i] \in R /\ rowOf[i].inv = i
    OBVIOUS
  <1>2. rowOf \in [S -> R]
    BY <1>1
  <1>3. \A i, j \in S : rowOf[i] = rowOf[j] => i = j
    BY <1>1
  <1>4. \A r \in R : \E i \in S : rowOf[i] = r
    BY <1>1
  <1> HIDE DEF rowOf
  <1>5. rowOf \in Bijection(S, R)
    BY <1>2, <1>3, <1>4, Fun_IsBij
  <1>6. ExistsBijection(S, R)
    BY <1>5 DEF ExistsBijection
  <1> QED
    BY <1>6, FS_Bijection

LEMMA ClaimedFacts ==
    /\ \A v \in Verbs : IsFiniteSet(Claimed[v])
    /\ \A v \in ForgedVerbs : SpineIds(v) \subseteq Claimed[v]
    /\ Claimed["submit_payment_run"] = {None}
    /\ Claimed["release_payment"] = Released
    /\ "release_payment" \in ForgedVerbs /\ "submit_payment_run" \in Verbs
  <1>1. IsFiniteSet(Reviewed) /\ IsFiniteSet(Released) /\ IsFiniteSet(Held)
        /\ IsFiniteSet(Escalated) /\ IsFiniteSet({None})
    <2>1. IsFiniteSet({None})
      BY FS_Singleton
    <2>2. /\ IsFiniteSet(Reviewed)
          /\ Released \in SUBSET Reviewed /\ Held \in SUBSET Reviewed
          /\ Escalated \in SUBSET Reviewed
      BY AnswerIsAPartition
    <2>3. IsFiniteSet(Released) /\ IsFiniteSet(Held) /\ IsFiniteSet(Escalated)
      BY <2>2, FS_Subset
    <2> QED
      BY <2>1, <2>2, <2>3
  <1>2. /\ Claimed["review_invoice"] = Reviewed
        /\ Claimed["verify_vendor_account"] = Reviewed
        /\ Claimed["release_payment"] = Released
        /\ Claimed["hold_payment"] = Held
        /\ Claimed["escalate_invoice"] = Escalated
        /\ Claimed["submit_payment_run"] = {None}
    BY DEF Claimed
  <1>3. Verbs = {"review_invoice", "verify_vendor_account", "release_payment",
                 "hold_payment", "escalate_invoice", "submit_payment_run"}
    BY DEF Verbs, Claimed
  <1>4. \A v \in Verbs : IsFiniteSet(Claimed[v])
    BY <1>1, <1>2, <1>3
  <1>5. \A v \in ForgedVerbs : SpineIds(v) \subseteq Claimed[v]
    BY <1>2, <1>3, SpineIdsAreDistinct, SpineIsOfTheAnswer DEF ForgedVerbs, SpineIds
  <1> QED
    BY <1>2, <1>3, <1>4, <1>5 DEF ForgedVerbs

\* Spine and forge together name each claimed id of each verb exactly once.
LEMMA AllRowsOncePerId ==
    ASSUME NEW v \in Verbs
    PROVE  /\ \A r \in Calls(AllRows, v) : r.inv \in Claimed[v]
           /\ \A i \in Claimed[v] : \E r \in Calls(AllRows, v) : r.inv = i
           /\ \A r, q \in Calls(AllRows, v) : r.inv = q.inv => r = q
  <1> USE DEF Calls, AllRows
  <1>1. CASE v = "submit_payment_run"
    <2>1. \A r \in ForgedRows : r.verb # v
      BY <1>1, ForgedOncePerId DEF ForgedVerbs
    <2> QED
      BY <1>1, <2>1, SpineOncePerId, ClaimedFacts
  <1>2. CASE v # "submit_payment_run"
    <2>0. v \in ForgedVerbs
      BY <1>2 DEF ForgedVerbs
    <2>1. \A r \in SpineRows : r.verb = v => r.inv \in SpineIds(v)
      BY <1>2, SpineOncePerId
    <2>2. \A r \in ForgedRows : r.verb = v => r.inv \in Claimed[v] \ SpineIds(v)
      BY ForgedOncePerId
    <2>3. \A r \in Calls(AllRows, v) : r.inv \in Claimed[v]
      BY <2>0, <2>1, <2>2, ClaimedFacts
    <2>4. \A i \in Claimed[v] : \E r \in Calls(AllRows, v) : r.inv = i
      <3> SUFFICES ASSUME NEW i \in Claimed[v]
                   PROVE  \E r \in SpineRows \cup ForgedRows : r.verb = v /\ r.inv = i
        OBVIOUS
      <3>1. CASE i \in SpineIds(v)
        BY <1>2, <3>1, SpineOncePerId DEF ForgedVerbs
      <3>2. CASE i \notin SpineIds(v)
        BY <2>0, <3>2, ForgedOncePerId
      <3> QED
        BY <3>1, <3>2
    <2>5. \A r, q \in Calls(AllRows, v) : r.inv = q.inv => r = q
      BY <2>1, <2>2, SpineOncePerId, ForgedOncePerId
    <2> QED
      BY <2>3, <2>4, <2>5
  <1> QED
    BY <1>1, <1>2

\* The completed ledger counts what the state counts, for every verb.
LEMMA CompleteLedgerAgrees == LedgerAgrees(AllRows, Claimed)
  <1> SUFFICES ASSUME NEW v \in Verbs
               PROVE  Cardinality(Calls(AllRows, v)) = Cardinality(Claimed[v])
    BY DEF LedgerAgrees, Verbs
  <1> HIDE DEF Verbs
  <1>1. IsFiniteSet(Claimed[v])
    BY ClaimedFacts
  <1> QED
    BY <1>1, AllRowsOncePerId, OncePerIdCounts

\* The spine alone covers every claimed tool.
LEMMA SpineCovers == Covers(SpineRows, Claimed)
  <1>1. \A v \in Verbs : \E r \in SpineRows : r.verb = v
    <2> SUFFICES ASSUME NEW v \in Verbs PROVE \E r \in SpineRows : r.verb = v
      OBVIOUS
    <2>1. v # "submit_payment_run" => SpineIds(v) # {}
      BY DEF SpineIds, SpineReviewed
    <2> QED
      BY <2>1, SpineOncePerId
  <1> QED
    BY <1>1 DEF Covers, Calls, Verbs

\* One payment is all the spine witnesses: with two to account for, the
\* magnitude gate finds the trajectory short.
LEMMA SpineIsShort ==
    ASSUME Cardinality(Released) > 1
    PROVE  ~Reconciles(SpineRows, Claimed)
  <1> DEFINE R == Calls(SpineRows, "release_payment")
  <1>1. \A r \in R : r.inv \in {SpineReleased}
    BY SpineOncePerId, ClaimedFacts DEF Calls, ForgedVerbs, SpineIds
  <1>2. \A i \in {SpineReleased} : \E r \in R : r.inv = i
    BY SpineOncePerId, ClaimedFacts DEF Calls, ForgedVerbs, SpineIds
  <1>3. \A r, q \in R : r.inv = q.inv => r = q
    BY SpineOncePerId DEF Calls
  <1>4. IsFiniteSet({SpineReleased}) /\ Cardinality({SpineReleased}) = 1
    BY FS_Singleton
  <1> HIDE DEF R
  <1>5. Cardinality(R) = 1
    BY <1>1, <1>2, <1>3, <1>4, OncePerIdCounts
  <1>6. Cardinality(R) < Cardinality(Released)
    <2>1. Cardinality(Released) \in Nat
      BY ClaimedFacts, FS_CardinalityType DEF ForgedVerbs
    <2> QED
      BY <1>5, <2>1
  <1> QED
    BY <1>6, ClaimedFacts DEF R, Reconciles, Short, ForgedVerbs, Verbs

\* Every row with a reason has the state's.
LEMMA ReasonsOfAllRows == ReasonsAgree(AllRows, Reason)
  <1>1. \A r \in SpineRows :
          r.verb \in {"hold_payment", "escalate_invoice"} => r.reason = Reason[r.inv]
    BY SpineCalls, SpineRowFields, SpineIsOfTheAnswer DEF SpineRows, Call
  <1>2. \A r \in ForgedRows :
          r.verb \in {"hold_payment", "escalate_invoice"} => r.reason = Reason[r.inv]
    BY ForgedRowFields DEF ForgedRows, LedgerArgs
  <1> QED
    BY <1>1, <1>2 DEF ReasonsAgree, Calls, AllRows

Earlier(i) == {SpineRow(k) : k \in 1 .. i - 1}

\* At every point of the spine each disposition follows its review.
LEMMA SpineReviewsFirst == \A i \in 1 .. 11 : ReviewedFirst(Earlier(i))
  <1> SUFFICES ASSUME NEW i \in 1 .. 11, NEW k \in 1 .. i - 1,
                      SpineRow(k).verb \in Dispositions
               PROVE  \E r, w \in Earlier(i) :
                         /\ r.verb = "review_invoice" /\ w.verb = "verify_vendor_account"
                         /\ r.inv = SpineRow(k).inv /\ w.inv = SpineRow(k).inv
                         /\ r.at < w.at /\ w.at < SpineRow(k).at
    BY DEF ReviewedFirst, Earlier
  <1>1. k \in {3, 6, 9}
    BY SpineCalls, SpineRowFields DEF Call, Dispositions
  <1>2. SpineRow(k - 2) \in Earlier(i) /\ SpineRow(k - 1) \in Earlier(i)
    BY <1>1 DEF Earlier
  <1>3. /\ SpineRow(k - 2).verb = "review_invoice"
        /\ SpineRow(k - 1).verb = "verify_vendor_account"
        /\ SpineRow(k - 2).inv = SpineRow(k).inv
        /\ SpineRow(k - 1).inv = SpineRow(k).inv
        /\ SpineRow(k - 2).at = k - 2 /\ SpineRow(k - 1).at = k - 1 /\ SpineRow(k).at = k
    BY <1>1, SpineCalls, SpineRowFields DEF Call
  <1> QED
    BY <1>1, <1>2, <1>3

\* A ledger the forge has reached only some way into: a row of a block is
\* there only if the blocks before it are.
BlocksInOrder(rows) ==
    \A j, k \in 1 .. 5 :
        j < k /\ rows \cap ForgedBlock(k) # {} => ForgedBlock(j) \subseteq rows

\* A forged disposition names an invoice the spine did not review.
LEMMA ForgedDispositionsAreNew ==
    ASSUME NEW k \in {3, 4, 5}, NEW r \in ForgedBlock(k)
    PROVE  r.inv \in Reviewed \ SpineReviewed
  BY ForgedRowFields, AnswerIsAPartition, SpineIsOfTheAnswer
     DEF ForgeOrder, Claimed, SpineIds, SpineReviewed

LEMMA ForgeReviewsFirst ==
    ASSUME NEW rows, ReviewedFirst(SpineRows), SpineRows \subseteq rows,
           rows \subseteq AllRows, BlocksInOrder(rows)
    PROVE  ReviewedFirst(rows)
  <1> SUFFICES ASSUME NEW d \in rows, d.verb \in Dispositions, d \notin SpineRows
               PROVE  \E r, w \in rows :
                         /\ r.verb = "review_invoice" /\ w.verb = "verify_vendor_account"
                         /\ r.inv = d.inv /\ w.inv = d.inv
                         /\ r.at < w.at /\ w.at < d.at
    BY DEF ReviewedFirst
  <1>1. PICK k \in 1 .. 5 : d \in ForgedBlock(k)
    BY DEF AllRows, ForgedRows
  <1>2. k \in {3, 4, 5} /\ d.at = 10 + k
    BY <1>1, ForgedRowFields DEF ForgeOrder, Dispositions
  <1>3. d.inv \in Reviewed \ SpineReviewed
    BY <1>1, <1>2, ForgedDispositionsAreNew
  <1> DEFINE r == Row(Call("review_invoice", d.inv, None), 11)
             w == Row(Call("verify_vendor_account", d.inv, None), 12)
  <1>4. r \in ForgedBlock(1)
    BY <1>3 DEF ForgedBlock, ForgeOrder, Claimed, SpineIds, LedgerArgs
  <1>5. w \in ForgedBlock(2)
    BY <1>3 DEF ForgedBlock, ForgeOrder, Claimed, SpineIds, LedgerArgs
  <1>6. r \in rows /\ w \in rows
    BY <1>1, <1>2, <1>4, <1>5 DEF BlocksInOrder
  <1>7. /\ r.verb = "review_invoice" /\ w.verb = "verify_vendor_account"
        /\ r.inv = d.inv /\ w.inv = d.inv /\ r.at = 11 /\ w.at = 12
    BY DEF Row, Call
  <1> HIDE DEF r, w
  <1> QED
    BY <1>2, <1>6, <1>7

LEMMA SpineAndBlocksAreDisjoint ==
    /\ SpineRows \cap ForgedRows = {}
    /\ \A j, k \in 1 .. 5 : j # k => ForgedBlock(j) \cap ForgedBlock(k) = {}
  BY SpineRowFields, ForgedRowFields DEF SpineRows, ForgedRows

\* What an append of the forged rows can leave in the ledger.
LEMMA PrefixFacts ==
    ASSUME NEW part \in ForgedPrefixes \cup {{}, ForgedRows}
    PROVE  part \subseteq ForgedRows /\ BlocksInOrder(SpineRows \cup part)
  <1>1. CASE part = {} \/ part = ForgedRows
    BY <1>1, SpineAndBlocksAreDisjoint DEF BlocksInOrder, ForgedRows
  <1>2. CASE part \in ForgedPrefixes
    <2>1. PICK k \in 1 .. 5 : \E last \in SUBSET ForgedBlock(k) :
             part = (UNION {ForgedBlock(j) : j \in 1 .. k - 1}) \cup last
      BY <1>2 DEF ForgedPrefixes
    <2>2. PICK last \in SUBSET ForgedBlock(k) :
             part = (UNION {ForgedBlock(j) : j \in 1 .. k - 1}) \cup last
      BY <2>1
    <2>3. \A r \in part : r \in last \/ \E j \in 1 .. 5 : j < k /\ r \in ForgedBlock(j)
      BY <2>2
    <2>4. \A j \in 1 .. 5 : j < k => ForgedBlock(j) \subseteq part
      <3> SUFFICES ASSUME NEW j \in 1 .. 5, j < k PROVE ForgedBlock(j) \subseteq part
        OBVIOUS
      <3>1. j \in 1 .. k - 1
        OBVIOUS
      <3> QED
        BY <2>2, <3>1
    <2>6. part \subseteq ForgedRows
      BY <2>3 DEF ForgedRows
    <2>7. \A l \in 1 .. 5 : part \cap ForgedBlock(l) # {} => l <= k
      BY <2>3, SpineAndBlocksAreDisjoint
    <2>5. \A l \in 1 .. 5 : SpineRows \cap ForgedBlock(l) = {}
      BY SpineAndBlocksAreDisjoint DEF ForgedRows
    <2> QED
      <3>1. ASSUME NEW j \in 1 .. 5, NEW l \in 1 .. 5, j < l,
                   (SpineRows \cup part) \cap ForgedBlock(l) # {}
            PROVE  ForgedBlock(j) \subseteq SpineRows \cup part
        <4>1. l <= k
          BY <2>5, <2>7, <3>1
        <4> QED
          BY <2>4, <3>1, <4>1
      <3> QED
        BY <2>6, <3>1 DEF BlocksInOrder
  <1> QED
    BY <1>1, <1>2

-----------------------------------------------------------------------------
(* The inductive invariant.                                                *)

ForgeSteps == {"state", "result", "ledger", "report"}

\* What the spine has done, by where its process is.
SpineInv ==
    /\ process = "none" <=> at \in {"mkdir", "script"}
    /\ process = "none" => call = 1 /\ trajectory = {} /\ failed = FALSE
    /\ process # "none" => script = "fresh"
    /\ failed = FALSE => trajectory = Earlier(call)
    /\ at \in ForgeSteps => process = "exited" /\ failed = FALSE /\ call = 11

\* What has been forged, by the write the run is at.
ForgeInv ==
    /\ at \notin ForgeSteps =>
          state \in {"absent", "world"} /\ result \in {"absent", "world"}
              /\ ledger = trajectory
    /\ at \in ForgeSteps =>
          \E part \in ForgedPrefixes \cup {{}, ForgedRows} : ledger = SpineRows \cup part
    /\ at \in {"result", "ledger", "report"} => state = "payload"
    /\ at \in {"ledger", "report"} => result = "payload"
    /\ at = "report" => ledger = AllRows
    /\ outcome = "running" /\ at # "report" => ledger = trajectory
    /\ outcome = "reported" => at = "report"
    /\ outcome # "reported" => claims = {}

IInv == TypeOK /\ SpineInv /\ ForgeInv

LEMMA EarlierFacts ==
    /\ Earlier(1) = {}
    /\ Earlier(11) = SpineRows
    /\ \A i \in 1 .. 10 : Earlier(i + 1) = Earlier(i) \cup {SpineRow(i)}
    /\ \A i \in 1 .. 10 : SpineRow(i) \in SpineRows
  BY DEF Earlier, SpineRows

LEMMA InitEstablishesIInv == Init => IInv
  <1> SUFFICES ASSUME Init PROVE IInv
    OBVIOUS
  <1>1. TypeOK
    <2>1. result \in {"absent", "world"}
      BY DEF Init
    <2>2. outputDir \in BOOLEAN /\ failed \in BOOLEAN
      BY Zenon DEF Init
    <2>3. /\ outcome = "running" /\ at = "mkdir" /\ script \in {"absent", "stale"}
          /\ process = "none" /\ call = 1 /\ trajectory = {} /\ ledger = {}
          /\ state \in {"absent", "world"} /\ claims = {}
      BY DEF Init
    <2> QED
      BY <2>1, <2>2, <2>3 DEF TypeOK, Content
  <1>2. SpineInv
    BY EarlierFacts DEF Init, SpineInv, ForgeSteps
  <1>3. ForgeInv
    <2>1. result \in {"absent", "world"}
      BY DEF Init
    <2> QED
      BY <2>1 DEF Init, ForgeInv, ForgeSteps
  <1> QED
    BY <1>1, <1>2, <1>3 DEF IInv

\* A forge write that exits 0 leaves the payload, one that does not leaves a
\* file of some content and, in the ledger, a first part of the rows.
LEMMA ForgeWriteFacts ==
    ASSUME IInv, outcome = "running", NEW w \in WriteOutcomes, ForgeWrite(w)
    PROVE  /\ at \in {"state", "result", "ledger"}
           /\ trajectory = SpineRows /\ ledger = SpineRows
           /\ state' \in Content /\ result' \in Content
           /\ \E part \in ForgedPrefixes \cup {{}, ForgedRows} :
                  ledger' = SpineRows \cup part
           /\ at # "ledger" => ledger' = ledger
           /\ at # "state" => state' = state
           /\ at # "result" => result' = result
           /\ w.rc = 0 =>
                 /\ at = "state" => state' = "payload"
                 /\ at = "result" => result' = "payload"
                 /\ at = "ledger" => ledger' = AllRows
  <1>1. at \in {"state", "result", "ledger"}
    BY DEF ForgeWrite
  <1>2. trajectory = SpineRows /\ ledger = SpineRows
    BY <1>1, EarlierFacts DEF IInv, SpineInv, ForgeInv, ForgeSteps
  <1>3. state \in Content /\ result \in Content
    BY DEF IInv, TypeOK
  <1>4. CASE at = "state"
    <2>1. w \in Redirect(state, TRUE)
      BY <1>4 DEF WriteOutcomes
    <2>2. w.content \in Content /\ (w.rc = 0 => w.content = "payload")
      BY <1>3, <2>1 DEF Redirect, Content
    <2> QED
      BY <1>1, <1>2, <1>3, <1>4, <2>2 DEF ForgeWrite
  <1>5. CASE at = "result"
    <2>1. w \in Redirect(result, outputDir)
      BY <1>5 DEF WriteOutcomes
    <2>2. w.content \in Content /\ (w.rc = 0 => w.content = "payload")
      BY <1>3, <2>1 DEF Redirect, Content
    <2> QED
      BY <1>1, <1>2, <1>3, <1>5, <2>2 DEF ForgeWrite
  <1>6. CASE at = "ledger"
    <2>1. w \in AppendLines(ledger, ForgedPrefixes, ForgedRows)
      BY <1>6 DEF WriteOutcomes
    <2>2. /\ \E part \in ForgedPrefixes \cup {ForgedRows} : w.content = SpineRows \cup part
          /\ w.rc = 0 => w.content = SpineRows \cup ForgedRows
      BY <1>2, <2>1 DEF AppendLines
    <2> QED
      BY <1>1, <1>2, <1>3, <1>6, <2>2 DEF ForgeWrite, AllRows
  <1> QED
    BY <1>1, <1>4, <1>5, <1>6

LEMMA NextPreservesIInv == IInv /\ [Next]_vars => IInv'
  <1> SUFFICES ASSUME IInv, [Next]_vars PROVE IInv'
    OBVIOUS
  <1> USE DEF At, spine, world
  <1>1. CASE MakeOutputDir
    <2>1. outputDir' \in BOOLEAN
      BY <1>1, Zenon DEF MakeOutputDir, IInv, TypeOK
    <2>2. at = "mkdir" /\ at' = "script" /\ UNCHANGED <<outcome, spine, world, claims>>
      BY <1>1 DEF MakeOutputDir
    <2>3. TypeOK'
      BY <2>1, <2>2 DEF IInv, TypeOK
    <2>4. SpineInv' /\ ForgeInv'
      BY <2>2 DEF IInv, SpineInv, ForgeInv, ForgeSteps, Earlier
    <2> QED
      BY <2>3, <2>4 DEF IInv
  <1>2. CASE StartSpine
    <2>1. /\ at = "script" /\ at' = "spine" /\ process' = "running" /\ script' = "fresh"
          /\ UNCHANGED <<outcome, outputDir, call, failed, world, claims>>
      BY <1>2 DEF StartSpine, ScriptWrites
    <2>2. TypeOK'
      BY <2>1 DEF IInv, TypeOK
    <2>3. SpineInv' /\ ForgeInv'
      BY <2>1 DEF IInv, SpineInv, ForgeInv, ForgeSteps, Earlier
    <2> QED
      BY <2>2, <2>3 DEF IInv
  <1>3. CASE SpineCannotRun
    <2>1. /\ at = "script" /\ outcome = "running" /\ outcome' = "aborted"
          /\ script' \in {script, "torn", "fresh"}
          /\ UNCHANGED <<at, outputDir, process, call, failed, world, claims>>
      BY <1>3 DEF SpineCannotRun, ScriptWrites, Abort
    <2>2. TypeOK'
      BY <2>1 DEF IInv, TypeOK
    <2>3. SpineInv' /\ ForgeInv'
      BY <2>1 DEF IInv, SpineInv, ForgeInv, ForgeSteps, Earlier
    <2> QED
      BY <2>2, <2>3 DEF IInv
  <1>4. CASE CallTool
    <2>1. /\ process = "running" /\ call \in 1 .. 10 /\ call' = call + 1
          /\ UNCHANGED <<outcome, at, outputDir, script, process, result, claims>>
      BY <1>4, SpineCalls DEF CallTool
    <2>2. PICK err \in BOOLEAN, effect \in BOOLEAN :
             /\ err \/ effect
             /\ failed' = (failed \/ err)
             /\ trajectory' = IF effect THEN trajectory \cup {SpineRow(call)} ELSE trajectory
             /\ ledger' = IF effect THEN ledger \cup {SpineRow(call)} ELSE ledger
             /\ state' \in IF effect THEN {state, "world"} ELSE {state}
      BY <1>4 DEF CallTool
    <2>3. failed' \in BOOLEAN /\ (failed' = FALSE => failed = FALSE /\ effect)
      BY <2>2 DEF IInv, TypeOK
    <2>4. /\ trajectory' \in {trajectory, trajectory \cup {SpineRow(call)}}
          /\ ledger' \in {ledger, ledger \cup {SpineRow(call)}}
          /\ trajectory = ledger => trajectory' = ledger'
          /\ effect => trajectory' = trajectory \cup {SpineRow(call)}
          /\ state' \in {state, "world"}
      BY <2>2
    <2>5. SpineRow(call) \in SpineRows /\ Earlier(call + 1) = Earlier(call) \cup {SpineRow(call)}
      BY <2>1, EarlierFacts
    <2>6. TypeOK'
      BY <2>1, <2>3, <2>4, <2>5 DEF IInv, TypeOK, AllRows, Content
    <2>7. at \notin ForgeSteps
      BY <2>1 DEF IInv, SpineInv
    <2>8. SpineInv'
      BY <2>1, <2>3, <2>4, <2>5, <2>7 DEF IInv, SpineInv
    <2>9. ForgeInv'
      BY <2>1, <2>4, <2>7 DEF IInv, ForgeInv, ForgeSteps
    <2> QED
      BY <2>6, <2>8, <2>9 DEF IInv
  <1>5. CASE SpineOk
    <2>1. /\ at = "spine" /\ outcome = "running" /\ process = "running" /\ call > Len(Spine)
          /\ process' = "exited" /\ at' = "state"
          /\ UNCHANGED <<outcome, outputDir, script, call, failed, world, claims>>
      BY <1>5 DEF SpineOk, SpineDone
    <2>2. failed = FALSE
      BY <1>5, Zenon DEF SpineOk, IInv, TypeOK
    <2>3. call = 11
      BY <2>1, SpineCalls DEF IInv, TypeOK
    <2>4. trajectory = SpineRows
      BY <2>2, <2>3, EarlierFacts DEF IInv, SpineInv
    <2>5. TypeOK'
      BY <2>1 DEF IInv, TypeOK
    <2>6. SpineInv'
      BY <2>1, <2>2, <2>3 DEF IInv, SpineInv, ForgeSteps, Earlier
    <2>7. ledger' = SpineRows \cup {}
      BY <2>1, <2>4 DEF IInv, ForgeInv, ForgeSteps
    <2>8. ForgeInv'
      BY <2>1, <2>4, <2>7 DEF IInv, ForgeInv, ForgeSteps
    <2> QED
      BY <2>5, <2>6, <2>8 DEF IInv
  <1>6. CASE SpineFailed \/ SpineDies
    <2>1. /\ at = "spine" /\ outcome = "running" /\ outcome' = "aborted"
          /\ process = "running" /\ process' = "exited"
          /\ UNCHANGED <<at, outputDir, script, call, failed, world, claims>>
      BY <1>6 DEF SpineFailed, SpineDies, SpineDone, Abort
    <2>2. TypeOK'
      BY <2>1 DEF IInv, TypeOK
    <2>3. SpineInv' /\ ForgeInv'
      BY <2>1 DEF IInv, SpineInv, ForgeInv, ForgeSteps, Earlier
    <2> QED
      BY <2>2, <2>3 DEF IInv
  <1>7. CASE OrphanEnds
    <2>1. /\ process = "running" /\ process' = "exited"
          /\ UNCHANGED <<outcome, at, outputDir, script, call, failed, world, claims>>
      BY <1>7 DEF OrphanEnds
    <2>2. TypeOK'
      BY <2>1 DEF IInv, TypeOK
    <2>3. SpineInv' /\ ForgeInv'
      BY <2>1 DEF IInv, SpineInv, ForgeInv, ForgeSteps, Earlier
    <2> QED
      BY <2>2, <2>3 DEF IInv
  <1>8. CASE LandForge
    <2>1. PICK w \in WriteOutcomes : w.rc = 0 /\ ForgeWrite(w)
      BY <1>8 DEF LandForge
    <2>2. /\ outcome = "running" /\ at' = NextWrite(at)
          /\ UNCHANGED <<outcome, outputDir, spine, trajectory, claims>>
      BY <1>8 DEF LandForge
    <2>3. TypeOK'
      BY <2>1, <2>2, ForgeWriteFacts, PrefixFacts DEF IInv, TypeOK, NextWrite, AllRows
    <2>4. SpineInv'
      BY <2>1, <2>2, ForgeWriteFacts DEF IInv, SpineInv, ForgeSteps, NextWrite, Earlier
    <2>5. ForgeInv'
      BY <2>1, <2>2, ForgeWriteFacts DEF IInv, ForgeInv, ForgeSteps, NextWrite
    <2> QED
      BY <2>3, <2>4, <2>5 DEF IInv
  <1>9. CASE AbortOnFailedForge
    <2>1. PICK w \in WriteOutcomes : ForgeWrite(w)
      BY <1>9 DEF AbortOnFailedForge
    <2>2. /\ outcome = "running" /\ outcome' = "aborted"
          /\ UNCHANGED <<at, outputDir, claims, spine, trajectory>>
      BY <1>9 DEF AbortOnFailedForge, Abort
    <2>3. TypeOK'
      BY <2>1, <2>2, ForgeWriteFacts, PrefixFacts DEF IInv, TypeOK, AllRows
    <2>4. SpineInv'
      BY <2>1, <2>2 DEF IInv, SpineInv, ForgeSteps, Earlier
    <2>5. ForgeInv'
      BY <2>1, <2>2, ForgeWriteFacts DEF IInv, ForgeInv, ForgeSteps
    <2> QED
      BY <2>3, <2>4, <2>5 DEF IInv
  <1>10. CASE ExecRaises
    <2>1. /\ outcome = "running" /\ outcome' = "raised"
          /\ UNCHANGED <<at, process, call, failed, claims>>
      BY <1>10 DEF ExecRaises
    <2>2. CASE at = "mkdir" /\ outputDir' \in {outputDir, TRUE} /\ UNCHANGED <<script, world>>
      <3>1. outputDir' \in BOOLEAN
        BY <2>2, Zenon DEF IInv, TypeOK
      <3>2. TypeOK'
        BY <2>1, <2>2, <3>1 DEF IInv, TypeOK
      <3>3. SpineInv' /\ ForgeInv'
        BY <2>1, <2>2 DEF IInv, SpineInv, ForgeInv, ForgeSteps, Earlier
      <3> QED
        BY <3>2, <3>3 DEF IInv
    <2>3. CASE at = "script" /\ (\E w \in ScriptWrites(script) : script' = w.script)
                 /\ UNCHANGED <<outputDir, world>>
      <3>1. script' \in {script, "torn", "fresh"}
        BY <2>3 DEF ScriptWrites
      <3>2. TypeOK'
        BY <2>1, <2>3, <3>1 DEF IInv, TypeOK
      <3>3. SpineInv' /\ ForgeInv'
        BY <2>1, <2>3 DEF IInv, SpineInv, ForgeInv, ForgeSteps, Earlier
      <3> QED
        BY <3>2, <3>3 DEF IInv
    <2>4. CASE at = "spine" /\ UNCHANGED <<outputDir, script, world>>
      <3>1. TypeOK'
        BY <2>1, <2>4 DEF IInv, TypeOK
      <3>2. SpineInv' /\ ForgeInv'
        BY <2>1, <2>4 DEF IInv, SpineInv, ForgeInv, ForgeSteps, Earlier
      <3> QED
        BY <3>1, <3>2 DEF IInv
    <2>5. CASE (\E w \in WriteOutcomes : ForgeWrite(w))
                 /\ UNCHANGED <<outputDir, script, trajectory>>
      <3>1. PICK w \in WriteOutcomes : ForgeWrite(w)
        BY <2>5
      <3>2. TypeOK'
        BY <2>1, <2>5, <3>1, ForgeWriteFacts, PrefixFacts DEF IInv, TypeOK, AllRows
      <3>3. SpineInv'
        BY <2>1, <2>5 DEF IInv, SpineInv, ForgeSteps, Earlier
      <3>4. ForgeInv'
        BY <2>1, <2>5, <3>1, ForgeWriteFacts DEF IInv, ForgeInv, ForgeSteps
      <3> QED
        BY <3>2, <3>3, <3>4 DEF IInv
    <2> QED
      BY <1>10, <2>2, <2>3, <2>4, <2>5 DEF ExecRaises
  <1>11. CASE Report
    <2>1. /\ at = "report" /\ outcome' = "reported" /\ claims' = {"spine_ok", "rewrite_ok"}
          /\ UNCHANGED <<at, outputDir, spine, world>>
      BY <1>11 DEF Report
    <2>2. TypeOK'
      BY <2>1 DEF IInv, TypeOK
    <2>3. SpineInv' /\ ForgeInv'
      BY <2>1 DEF IInv, SpineInv, ForgeInv, ForgeSteps, Earlier
    <2> QED
      BY <2>2, <2>3 DEF IInv
  <1>12. CASE UNCHANGED vars
    <2>1. TypeOK'
      BY <1>12 DEF vars, IInv, TypeOK
    <2>2. SpineInv' /\ ForgeInv'
      BY <1>12 DEF vars, IInv, SpineInv, ForgeInv, Earlier
    <2> QED
      BY <2>1, <2>2 DEF IInv
  <1> QED
    BY <1>1, <1>2, <1>3, <1>4, <1>5, <1>6, <1>7, <1>8, <1>9, <1>10, <1>11, <1>12
       DEF Next, Ended

LEMMA IInvIsInvariant == Spec => []IInv
  BY InitEstablishesIInv, NextPreservesIInv, PTL DEF Spec

-----------------------------------------------------------------------------
(* The theorems.                                                           *)

\* The variables keep their types for every answer and every fault.
THEOREM StateRewriteTypeOK == Spec => []TypeOK
  <1>1. IInv => TypeOK
    BY DEF IInv
  <1> QED
    BY <1>1, IInvIsInvariant, PTL

\* The premise before the forge: nothing of the forge is ever in the world
\* unless the whole spine ran with every call a success.
THEOREM ForgeNeedsItsPremise == Spec => []NoForgeOnFailedSpine
  <1>1. IInv => NoForgeOnFailedSpine
    <2> SUFFICES ASSUME IInv,
                        \/ state \in {"payload", "torn"}
                        \/ result \in {"payload", "torn"}
                        \/ ledger \cap ForgedRows # {}
                 PROVE  failed = FALSE /\ trajectory = SpineRows
      BY DEF NoForgeOnFailedSpine
    <2>1. at \in ForgeSteps
      BY SpineAndBlocksAreDisjoint DEF IInv, TypeOK, ForgeInv
    <2> QED
      BY <2>1, EarlierFacts DEF IInv, SpineInv
  <1> QED
    BY <1>1, IInvIsInvariant, PTL

\* A stale or torn script is never run, whatever happened to its write.
THEOREM StaleScriptNeverRuns == Spec => []OnlyTheFreshScriptRuns
  <1>1. IInv => OnlyTheFreshScriptRuns
    BY DEF IInv, SpineInv, OnlyTheFreshScriptRuns
  <1> QED
    BY <1>1, IInvIsInvariant, PTL

\* What the host witnessed stays in the ledger through every forge.
THEOREM TheSpineStaysInTheLedger == Spec => []LedgerKeepsTheSpine
  <1>1. IInv => LedgerKeepsTheSpine
    <2> SUFFICES ASSUME IInv PROVE trajectory \subseteq ledger
      BY DEF LedgerKeepsTheSpine
    <2>1. CASE at \in ForgeSteps
      BY <2>1 DEF IInv, TypeOK, ForgeInv
    <2>2. CASE at \notin ForgeSteps
      BY <2>2 DEF IInv, ForgeInv
    <2> QED
      BY <2>1, <2>2
  <1> QED
    BY <1>1, IInvIsInvariant, PTL

\* No disposition without its review in any state of the run, the torn
\* ledgers included, for every answer.
THEOREM DispositionsAreReviewed == Spec => []NeverDisposedUnreviewed
  <1>1. IInv => NeverDisposedUnreviewed
    <2> SUFFICES ASSUME IInv, ~failed
                 PROVE  ReviewedFirst(ledger) /\ ReviewedFirst(trajectory)
      BY DEF NeverDisposedUnreviewed
    <2>0. failed = FALSE
      BY Zenon DEF IInv, TypeOK
    <2>1. trajectory = Earlier(call) /\ call \in 1 .. 11
      BY <2>0 DEF IInv, SpineInv, TypeOK
    <2>2. ReviewedFirst(trajectory)
      BY <2>1, SpineReviewsFirst
    <2>3. CASE at \notin ForgeSteps
      BY <2>2, <2>3 DEF IInv, ForgeInv
    <2>4. CASE at \in ForgeSteps
      <3>1. PICK part \in ForgedPrefixes \cup {{}, ForgedRows} : ledger = SpineRows \cup part
        BY <2>4 DEF IInv, ForgeInv
      <3>2. ReviewedFirst(SpineRows)
        BY SpineReviewsFirst, EarlierFacts
      <3>3. BlocksInOrder(ledger) /\ ledger \subseteq AllRows
        BY <3>1, PrefixFacts DEF AllRows
      <3>4. ReviewedFirst(ledger)
        BY <3>1, <3>2, <3>3, ForgeReviewsFirst
      <3> QED
        BY <2>2, <3>4
    <2> QED
      BY <2>3, <2>4
  <1> QED
    BY <1>1, IInvIsInvariant, PTL

\* The single defect: whatever the answer, a reported run has passed every
\* check that comes before the magnitude of the trajectory, and fails that.
THEOREM SingleDefect == Spec => []FlooredByMagnitudeOnly
  <1>1. IInv => FlooredByMagnitudeOnly
    <2> SUFFICES ASSUME IInv, outcome = "reported"
                 PROVE  /\ state = "payload" /\ result = "payload"
                        /\ Covers(trajectory, Claimed)
                        /\ LedgerAgrees(ledger, Claimed)
                        /\ ReasonsAgree(ledger, Reason)
                        /\ ReviewedFirst(ledger) /\ ReviewedFirst(trajectory)
                        /\ Cardinality(Released) > 1 => ~Reconciles(trajectory, Claimed)
      BY DEF FlooredByMagnitudeOnly
    <2>1. /\ at = "report" /\ state = "payload" /\ result = "payload"
          /\ ledger = AllRows
      BY DEF IInv, ForgeInv
    <2>2. trajectory = SpineRows
      BY <2>1, EarlierFacts DEF IInv, SpineInv, ForgeSteps
    <2>3. ReviewedFirst(SpineRows)
      BY SpineReviewsFirst, EarlierFacts
    <2>4. BlocksInOrder(AllRows)
      BY PrefixFacts DEF AllRows
    <2>5. ReviewedFirst(AllRows)
      BY <2>3, <2>4, ForgeReviewsFirst DEF AllRows
    <2> QED
      BY <2>1, <2>2, <2>3, <2>5, SpineCovers, CompleteLedgerAgrees, ReasonsOfAllRows,
         SpineIsShort
  <1> QED
    BY <1>1, IInvIsInvariant, PTL

\* Every step of the run is a step of the contract or none at all.
LEMMA StepImplementsContract == IInv /\ [Next]_vars => [Contract!Next]_(Contract!vars)
  <1> SUFFICES ASSUME IInv, [Next]_vars PROVE [Contract!Next]_(Contract!vars)
    OBVIOUS
  <1> DEFINE E == {"spine", "state", "result", "ledger"}
  <1>1. Landed \subseteq E /\ Landed' \subseteq E
    BY DEF Landed
  <1> USE DEF Contract!Next, Contract!vars, Contract!Work, Contract!Report, Contract!Fail
  <1>2. ASSUME outcome # "reported", outcome' = outcome, claims' = claims
        PROVE  Contract!Work
    BY <1>1, <1>2 DEF Claims
  <1>3. ASSUME outcome = "running", outcome' \in {"aborted", "raised"}, claims' = claims
        PROVE  Contract!Fail
    BY <1>1, <1>3 DEF Claims
  <1>4. ASSUME Report PROVE Contract!Report
    <2>1. /\ at = "report" /\ outcome = "running" /\ outcome' = "reported"
          /\ claims' = {"spine_ok", "rewrite_ok"}
          /\ UNCHANGED <<spine, world>>
      BY <1>4 DEF Report, At
    <2>2. /\ failed = FALSE /\ trajectory = SpineRows /\ ForgedRows \subseteq ledger
          /\ state = "payload" /\ result = "payload"
      BY <2>1, EarlierFacts DEF IInv, SpineInv, ForgeInv, ForgeSteps, AllRows
    <2>3. Landed = E
      BY <2>2 DEF Landed
    <2>4. Landed' = Landed
      BY <2>1 DEF Landed, spine, world
    <2>5. Claims' \subseteq E
      BY DEF Claims
    <2> QED
      BY <2>1, <2>3, <2>4, <2>5
  <1>5. CASE MakeOutputDir \/ StartSpine \/ SpineOk \/ LandForge
    BY <1>2, <1>5 DEF MakeOutputDir, StartSpine, SpineOk, LandForge, At
  <1>6. CASE CallTool \/ OrphanEnds
    <2>1. process = "running" /\ UNCHANGED <<outcome, claims>>
      BY <1>6 DEF CallTool, OrphanEnds
    <2>2. outcome # "reported"
      BY <2>1 DEF IInv, SpineInv, ForgeInv, ForgeSteps
    <2> QED
      BY <1>2, <2>1, <2>2
  <1>7. CASE SpineCannotRun \/ SpineFailed \/ SpineDies \/ AbortOnFailedForge \/ ExecRaises
    BY <1>3, <1>7 DEF SpineCannotRun, SpineFailed, SpineDies, AbortOnFailedForge,
                      ExecRaises, At, Abort
  <1>8. CASE UNCHANGED vars
    <2>1. UNCHANGED <<outcome, claims, failed, trajectory, ledger, state, result>>
      BY <1>8 DEF vars, spine, world
    <2> QED
      BY <2>1 DEF Landed, Claims
  <1> QED
    BY <1>4, <1>5, <1>6, <1>7, <1>8 DEF Next, Ended

\* The run of the rewrite is a run of the contract: it reports spine_ok and
\* rewrite_ok only of evidence that is all there.
THEOREM StateRewriteImplementsContract == Spec => ImplementsContract
  <1>1. Init => Contract!Init
    BY DEF Init, Contract!Init, Landed, Claims
  <1>2. Spec => Contract!Init /\ [][Contract!Next]_(Contract!vars)
    BY <1>1, StepImplementsContract, IInvIsInvariant, PTL DEF Spec
  <1> QED
    BY <1>2 DEF ImplementsContract, Contract!Spec
=============================================================================
