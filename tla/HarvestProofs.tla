----------------------------- MODULE HarvestProofs -----------------------------
(***************************************************************************)
(* What the text processing of the hunt computes, for every text: the      *)
(* literals of a regular line are among the candidates, and the last one   *)
(* of a line with a key is the first of them.                              *)
(***************************************************************************)
EXTENDS Harvest, SequenceTheorems, FiniteSetTheorems, WellFoundedInduction, TLAPS

LEMMA LeastNatural ==
    ASSUME NEW T \in SUBSET Nat, T # {}
    PROVE  \E x \in T : \A y \in T : x <= y
  <1>1. IsWellFoundedOn(OpToRel(<, Nat), Nat)
    BY NatLessThanWellFounded
  <1>2. PICK x \in T : \A y \in T : ~(<<y, x>> \in OpToRel(<, Nat))
    BY <1>1, WFMin, Zenon
  <1>3. \A y \in T : ~(y < x)
    BY <1>2 DEF OpToRel
  <1> QED
    BY <1>3

LEMMA GreatestNatural ==
    ASSUME NEW n \in Nat, NEW T \in SUBSET (0 .. n), T # {}
    PROVE  \E x \in T : \A y \in T : y <= x
  <1> DEFINE U == {n - x : x \in T}
  <1>0. \A x \in T : x \in 0 .. n /\ n - x \in Nat
    OBVIOUS
  <1>1. U \in SUBSET Nat /\ U # {}
    BY <1>0
  <1>2. PICK u \in U : \A y \in U : u <= y
    BY <1>1, LeastNatural, Zenon
  <1>3. PICK x \in T : u = n - x
    OBVIOUS
  <1>4. \A y \in T : n - x <= n - y
    BY <1>2, <1>3
  <1> QED
    BY <1>4

LEMMA MinIsLeast ==
    ASSUME NEW T \in SUBSET Nat, T # {}
    PROVE  Min(T) \in T /\ \A y \in T : Min(T) <= y
  BY LeastNatural, Zenon DEF Min

LEMMA MaxIsGreatest ==
    ASSUME NEW n \in Nat, NEW T \in SUBSET (0 .. n), T # {}
    PROVE  Max(T) \in T /\ \A y \in T : Max(T) >= y
  <1>1. PICK x \in T : \A y \in T : x >= y
    BY GreatestNatural
  <1> QED
    BY <1>1, Zenon DEF Max

LEMMA Upwards ==
    ASSUME NEW n \in Nat, NEW T, 0 \in T,
           \A i \in 0 .. n : i # n /\ i \in T => i + 1 \in T
    PROVE  0 .. n \subseteq T
  <1> SUFFICES ASSUME ~(0 .. n \subseteq T) PROVE FALSE
    OBVIOUS
  <1> DEFINE U == {i \in 0 .. n : i \notin T}
  <1>1. U \in SUBSET Nat /\ U # {}
    OBVIOUS
  <1>2. PICK x \in U : \A y \in U : x <= y
    BY <1>1, LeastNatural, Zenon
  <1>3. x # 0 /\ x - 1 \in 0 .. n /\ x - 1 # n /\ ~(x <= x - 1)
    BY <1>1
  <1>4. x - 1 \in T
    BY <1>2, <1>3
  <1>5. (x - 1) + 1 \in T /\ (x - 1) + 1 = x
    BY <1>1, <1>3, <1>4
  <1> QED
    BY <1>5

LEMMA Downwards ==
    ASSUME NEW n \in Nat, NEW T, n + 1 \in T,
           \A i \in 1 .. n : (\A j \in i + 1 .. n + 1 : j \in T) => i \in T
    PROVE  1 .. n + 1 \subseteq T
  <1> SUFFICES ASSUME ~(1 .. n + 1 \subseteq T) PROVE FALSE
    OBVIOUS
  <1> DEFINE U == {i \in 1 .. n + 1 : i \notin T}
  <1>1. U \in SUBSET (0 .. n + 1) /\ U # {} /\ n + 1 \in Nat
    OBVIOUS
  <1>2. PICK x \in U : \A y \in U : y <= x
    BY <1>1, GreatestNatural
  <1>3. x \in 1 .. n
    OBVIOUS
  <1>4. \A j \in x + 1 .. n + 1 : j \in T
    BY <1>2, <1>3
  <1> QED
    BY <1>3, <1>4

Forward(f, n, V, base, G) ==
    f \in [0 .. n -> V] /\ f[0] = base /\ \A i \in 1 .. n : f[i] = G[i][f[i - 1]]

LEMMA ForwardRecursion ==
    ASSUME NEW n \in Nat, NEW V, NEW base \in V, NEW G \in [1 .. n -> [V -> V]]
    PROVE  \E f : Forward(f, n, V, base, G)
  <1> DEFINE T == {m \in 0 .. n : \E f \in [0 .. m -> V] :
                      f[0] = base /\ \A i \in 1 .. m : f[i] = G[i][f[i - 1]]}
  <1>1. 0 \in T
    <2> DEFINE f == [i \in 0 .. 0 |-> base]
    <2>1. f \in [0 .. 0 -> V] /\ f[0] = base /\ \A i \in 1 .. 0 : f[i] = G[i][f[i - 1]]
      OBVIOUS
    <2> HIDE DEF f
    <2> QED
      BY <2>1
  <1>2. ASSUME NEW m \in 0 .. n, m # n, m \in T PROVE m + 1 \in T
    <2>1. PICK f \in [0 .. m -> V] : f[0] = base /\ \A i \in 1 .. m : f[i] = G[i][f[i - 1]]
      BY <1>2
    <2> DEFINE g == [i \in 0 .. m + 1 |-> IF i = m + 1 THEN G[m + 1][f[m]] ELSE f[i]]
    <2>2. m + 1 \in 1 .. n /\ f[m] \in V
      BY <1>2
    <2>3. G[m + 1][f[m]] \in V
      BY <2>2
    <2>4. g \in [0 .. m + 1 -> V] /\ g[0] = base
      BY <2>1, <2>3
    <2>5. ASSUME NEW i \in 1 .. m + 1 PROVE g[i] = G[i][g[i - 1]]
      <3>1. CASE i = m + 1
        BY <3>1
      <3>2. CASE i \in 1 .. m
        BY <2>1, <3>2
      <3> QED
        BY <3>1, <3>2
    <2> HIDE DEF g
    <2> QED
      BY <2>2, <2>4, <2>5
  <1> HIDE DEF T
  <1>3. 0 .. n \subseteq T
    BY <1>1, <1>2, Upwards
  <1>4. n \in T
    BY <1>3
  <1> QED
    BY <1>4, Zenon DEF T, Forward

Backward(f, n, V, base, G, nxt) ==
    f \in [1 .. n + 1 -> V] /\ f[n + 1] = base /\ \A i \in 1 .. n : f[i] = G[i][f[nxt[i]]]

LEMMA BackwardRecursion ==
    ASSUME NEW n \in Nat, NEW V, NEW base \in V, NEW G \in [1 .. n -> [V -> V]],
           NEW nxt \in [1 .. n -> 1 .. n + 1], \A i \in 1 .. n : nxt[i] > i
    PROVE  \E f : Backward(f, n, V, base, G, nxt)
  <1> DEFINE T == {m \in 1 .. n + 1 : \E f \in [m .. n + 1 -> V] :
                      f[n + 1] = base /\ \A i \in m .. n : f[i] = G[i][f[nxt[i]]]}
  <1>1. n + 1 \in T
    <2> DEFINE f == [i \in n + 1 .. n + 1 |-> base]
    <2>1. f \in [n + 1 .. n + 1 -> V] /\ f[n + 1] = base
          /\ \A i \in n + 1 .. n : f[i] = G[i][f[nxt[i]]]
      OBVIOUS
    <2> HIDE DEF f
    <2> QED
      BY <2>1
  <1>2. ASSUME NEW m \in 1 .. n, \A j \in m + 1 .. n + 1 : j \in T PROVE m \in T
    <2> HIDE DEF T
    <2>0. m + 1 \in m + 1 .. n + 1
      OBVIOUS
    <2>1. PICK f \in [m + 1 .. n + 1 -> V] :
             f[n + 1] = base /\ \A i \in m + 1 .. n : f[i] = G[i][f[nxt[i]]]
      <3>1. m + 1 \in T
        BY <1>2, <2>0, Zenon
      <3> QED
        BY <3>1, Zenon DEF T
    <2> DEFINE g == [i \in m .. n + 1 |-> IF i = m THEN G[m][f[nxt[m]]] ELSE f[i]]
    <2>2. nxt[m] \in m + 1 .. n + 1
      OBVIOUS
    <2>3. G[m][f[nxt[m]]] \in V
      BY <2>2
    <2>4. g \in [m .. n + 1 -> V] /\ g[n + 1] = base
      BY <2>1, <2>3
    <2>5. ASSUME NEW i \in m .. n PROVE g[i] = G[i][g[nxt[i]]]
      <3>0. nxt[i] \in i + 1 .. n + 1 /\ nxt[i] # m
        OBVIOUS
      <3>1. CASE i = m
        BY <3>0, <3>1
      <3>2. CASE i # m
        BY <2>1, <3>0, <3>2
      <3> QED
        BY <3>1, <3>2
    <2> HIDE DEF g
    <2>6. m \in 1 .. n + 1
      OBVIOUS
    <2> QED
      BY <2>4, <2>5, <2>6, Zenon DEF T
  <1> HIDE DEF T
  <1>3. 1 .. n + 1 \subseteq T
    BY <1>1, <1>2, Downwards
  <1>4. 1 \in T
    BY <1>3
  <1> QED
    BY <1>4, Zenon DEF T, Backward
-----------------------------------------------------------------------------
LEMMA ConcatHolds ==
    ASSUME NEW S, NEW s \in Seq(S), NEW t \in Seq(S)
    PROVE  /\ s \o t \in Seq(S)
           /\ ToSet(s \o t) = ToSet(s) \cup ToSet(t)
           /\ s # <<>> => s \o t # <<>> /\ (s \o t)[1] = s[1]
           /\ s = <<>> => s \o t = t
           /\ t = <<>> => s \o t = s
  <1> DEFINE u == s \o t
             m == Len(s)
             n == Len(t)
  <1>1. /\ u \in Seq(S) /\ Len(u) = m + n /\ m \in Nat /\ n \in Nat
        /\ \A k \in 1 .. m + n : u[k] = IF k <= m THEN s[k] ELSE t[k - m]
        /\ DOMAIN s = 1 .. m /\ DOMAIN t = 1 .. n /\ DOMAIN u = 1 .. m + n
    BY ConcatProperties, LenProperties
  <1>2. s # <<>> => m # 0
    BY EmptySeq
  <1>3. (s = <<>> => u = t) /\ (t = <<>> => u = s)
    BY ConcatEmptySeq
  <1> HIDE DEF u, m, n
  <1>4. \A k \in 1 .. m : k \in 1 .. m + n /\ u[k] = s[k]
    BY <1>1
  <1>5. \A k \in 1 .. n : m + k \in 1 .. m + n /\ u[m + k] = t[k]
    <2> TAKE k \in 1 .. n
    <2>1. m + k \in 1 .. m + n /\ ~(m + k <= m) /\ (m + k) - m = k
      BY <1>1
    <2> QED
      BY <1>1, <2>1
  <1>6. \A k \in 1 .. m + n : k \in 1 .. m \/ (k - m \in 1 .. n /\ u[k] = t[k - m])
    BY <1>1
  <1>7. ToSet(u) = ToSet(s) \cup ToSet(t)
    <2>1. \A x \in ToSet(u) : x \in ToSet(s) \cup ToSet(t)
      BY <1>1, <1>4, <1>6 DEF ToSet
    <2>2. \A x \in ToSet(s) : x \in ToSet(u)
      BY <1>1, <1>4 DEF ToSet
    <2>3. \A x \in ToSet(t) : x \in ToSet(u)
      BY <1>1, <1>5 DEF ToSet
    <2> QED
      BY <2>1, <2>2, <2>3
  <1>8. s # <<>> => u # <<>> /\ u[1] = s[1]
    <2> SUFFICES ASSUME s # <<>> PROVE u # <<>> /\ u[1] = s[1]
      OBVIOUS
    <2>1. 1 \in 1 .. m /\ 1 \in DOMAIN u
      BY <1>1, <1>2
    <2>2. u[1] = s[1]
      BY <1>4, <2>1
    <2> QED
      BY <2>1, <2>2
  <1> QED
    BY <1>1, <1>3, <1>7, <1>8 DEF u

\* FlattenSeq as the last of its partial results.
LEMMA FlattenIsFold ==
    ASSUME NEW S, NEW ss \in Seq(Seq(S))
    PROVE  \E f \in [0 .. Len(ss) -> Seq(S)] :
              /\ f[0] = <<>>
              /\ \A i \in 1 .. Len(ss) : f[i] = f[i - 1] \o ss[i]
              /\ FlattenSeq(ss) = f[Len(ss)]
  <1> DEFINE n == Len(ss)
  <1>1. n \in Nat /\ DOMAIN ss = 1 .. n /\ (\A i \in 1 .. n : ss[i] \in Seq(S))
        /\ (n = 0 => ss = <<>>)
    BY LenProperties, EmptySeq
  <1> HIDE DEF n
  <1> DEFINE G == [i \in 1 .. n |-> [v \in Seq(S) |-> v \o ss[i]]]
  <1>2. PICK f \in [0 .. n -> Seq(S)] :
           f[0] = <<>> /\ \A i \in 1 .. n : f[i] = f[i - 1] \o ss[i]
    <2>1. G \in [1 .. n -> [Seq(S) -> Seq(S)]]
      <3>1. \A i \in 1 .. n : \A v \in Seq(S) : v \o ss[i] \in Seq(S)
        BY <1>1, ConcatHolds
      <3> QED
        BY <3>1
    <2>2. <<>> \in Seq(S)
      OBVIOUS
    <2>3. \A i \in 1 .. n : \A v \in Seq(S) : G[i][v] = v \o ss[i]
      OBVIOUS
    <2> HIDE DEF G
    <2>4. PICK f : Forward(f, n, Seq(S), <<>>, G)
      BY <1>1, <2>1, <2>2, ForwardRecursion
    <2>5. /\ f \in [0 .. n -> Seq(S)] /\ f[0] = <<>>
          /\ \A i \in 1 .. n : f[i] = G[i][f[i - 1]]
      BY <2>4 DEF Forward
    <2>6. \A i \in 1 .. n : f[i - 1] \in Seq(S)
      BY <1>1, <2>5
    <2>7. \A i \in 1 .. n : f[i] = f[i - 1] \o ss[i]
      BY <2>3, <2>5, <2>6, Zenon
    <2> QED
      BY <2>5, <2>7, Zenon
  <1> HIDE DEF G
  <1>3. CASE n = 0
    BY <1>1, <1>2, <1>3 DEF FlattenSeq, n
  <1>4. CASE n # 0
    <2> DEFINE Def(g) == [i \in 1 .. n |-> IF i = 1 THEN ss[i] ELSE g[i - 1] \o ss[i]]
               h == [i \in 1 .. n |-> f[i]]
               flatten == CHOOSE g : g = Def(g)
    <2>1. f[1] = ss[1]
      <3>1. 1 \in 1 .. n /\ 1 - 1 = 0
        BY <1>1, <1>4
      <3>2. f[1] = <<>> \o ss[1] /\ ss[1] \in Seq(S)
        BY <1>1, <1>2, <3>1
      <3> QED
        BY <3>2, ConcatEmptySeq
    <2>2. h = Def(h)
      <3> SUFFICES ASSUME NEW i \in 1 .. n
                   PROVE  f[i] = IF i = 1 THEN ss[i] ELSE h[i - 1] \o ss[i]
        OBVIOUS
      <3>1. CASE i = 1
        BY <2>1, <3>1
      <3>2. CASE i # 1
        <4>1. i - 1 \in 1 .. n
          BY <1>1, <3>2
        <4> QED
          BY <1>2, <3>2, <4>1
      <3> QED
        BY <3>1, <3>2
    <2>3. flatten = Def(flatten)
      <3> HIDE DEF h, Def
      <3> QED
        BY <2>2, Zenon
    <2> HIDE DEF h, flatten
    <2>4. \A i \in 1 .. n : flatten[i] = IF i = 1 THEN ss[i] ELSE flatten[i - 1] \o ss[i]
      BY <2>3
    <2>5. flatten[n] = f[n]
      <3> DEFINE T == {i \in 0 .. n : i # 0 => flatten[i] = f[i]}
      <3>1. 0 \in T
        BY <1>1
      <3>2. ASSUME NEW i \in 0 .. n, i # n, i \in T PROVE i + 1 \in T
        <4>1. i + 1 \in 1 .. n /\ (i + 1) - 1 = i
          BY <1>1, <3>2
        <4>2. flatten[i + 1] = f[i + 1]
          <5>1. CASE i = 0
            BY <2>1, <2>4, <4>1, <5>1
          <5>2. CASE i # 0
            <6>1. flatten[i] = f[i] /\ i + 1 # 1
              BY <3>2, <5>2
            <6>2. f[i + 1] = f[i] \o ss[i + 1]
              BY <1>2, <4>1
            <6>3. flatten[i + 1] = flatten[i] \o ss[i + 1]
              BY <2>4, <4>1, <6>1
            <6> QED
              BY <6>1, <6>2, <6>3, Zenon
          <5> QED
            BY <5>1, <5>2
        <4> QED
          BY <1>1, <4>1, <4>2
      <3> HIDE DEF T
      <3>3. 0 .. n \subseteq T
        BY <1>1, <3>1, <3>2, Upwards
      <3> QED
        BY <1>1, <1>4, <3>3 DEF T
    <2>6. FlattenSeq(ss) = flatten[n]
      BY <1>4 DEF FlattenSeq, flatten, n
    <2> QED
      BY <1>2, <2>5, <2>6 DEF n
  <1> QED
    BY <1>3, <1>4

LEMMA Elements ==
    ASSUME NEW S, NEW s \in Seq(S)
    PROVE  /\ \A k \in 1 .. Len(s) : s[k] \in ToSet(s) /\ s[k] \in S
           /\ \A x \in ToSet(s) : x \in S /\ \E k \in 1 .. Len(s) : s[k] = x
           /\ Len(s) \in Nat /\ DOMAIN s = 1 .. Len(s)
           /\ ToSet(s) = {} => s = <<>>
           /\ s # <<>> => 1 \in 1 .. Len(s)
           /\ ToSet(<<>>) = {}
  <1> DEFINE n == Len(s)
  <1>1. n \in Nat /\ DOMAIN s = 1 .. n /\ (\A k \in 1 .. n : s[k] \in S) /\ (s # <<>> => n # 0)
    BY LenProperties, EmptySeq
  <1> HIDE DEF n
  <1>2. s # <<>> => 1 \in 1 .. n
    BY <1>1
  <1>3. \A k \in 1 .. n : s[k] \in ToSet(s)
    BY <1>1 DEF ToSet
  <1>4. \A x \in ToSet(s) : x \in S /\ \E k \in 1 .. n : s[k] = x
    BY <1>1 DEF ToSet
  <1>5. ToSet(<<>>) = {}
    BY DEF ToSet
  <1> QED
    BY <1>1, <1>2, <1>3, <1>4, <1>5 DEF n

LEMMA FlattenHolds ==
    ASSUME NEW S, NEW ss \in Seq(Seq(S))
    PROVE  /\ FlattenSeq(ss) \in Seq(S)
           /\ \A k \in 1 .. Len(ss) : \A x \in ToSet(ss[k]) : x \in ToSet(FlattenSeq(ss))
           /\ \A x \in ToSet(FlattenSeq(ss)) : \E k \in 1 .. Len(ss) : x \in ToSet(ss[k])
  <1> DEFINE n == Len(ss)
  <1>1. n \in Nat /\ \A i \in 1 .. n : ss[i] \in Seq(S)
    BY LenProperties
  <1>2. PICK f \in [0 .. n -> Seq(S)] :
           /\ f[0] = <<>>
           /\ \A i \in 1 .. n : f[i] = f[i - 1] \o ss[i]
           /\ FlattenSeq(ss) = f[n]
    BY FlattenIsFold
  <1> HIDE DEF n
  <1> DEFINE Done(i) == /\ \A k \in 1 .. i : \A x \in ToSet(ss[k]) : x \in ToSet(f[i])
                        /\ \A x \in ToSet(f[i]) : \E k \in 1 .. i : x \in ToSet(ss[k])
             T == {i \in 0 .. n : Done(i)}
  <1>3. 0 \in T
    BY <1>1, <1>2 DEF ToSet
  <1>4. ASSUME NEW i \in 0 .. n, i # n, i \in T PROVE i + 1 \in T
    <2>1. i + 1 \in 1 .. n /\ (i + 1) - 1 = i /\ i + 1 \in 0 .. n
      BY <1>1, <1>4
    <2>2. f[i + 1] = f[i] \o ss[i + 1] /\ f[i] \in Seq(S) /\ ss[i + 1] \in Seq(S)
      BY <1>1, <1>2, <2>1
    <2>3. ToSet(f[i + 1]) = ToSet(f[i]) \cup ToSet(ss[i + 1])
      BY <2>2, ConcatHolds
    <2>4. \A k \in 1 .. i + 1 : k \in 1 .. i \/ k = i + 1
      OBVIOUS
    <2>5. \A k \in 1 .. i : k \in 1 .. i + 1
      OBVIOUS
    <2>6. i + 1 \in 1 .. i + 1
      OBVIOUS
    <2>7. Done(i)
      BY <1>4
    <2>8. Done(i + 1)
      BY <2>3, <2>4, <2>5, <2>6, <2>7, Zenon
    <2> QED
      BY <2>1, <2>8
  <1> HIDE DEF T
  <1>5. 0 .. n \subseteq T
    BY <1>1, <1>3, <1>4, Upwards
  <1>6. Done(n)
    BY <1>1, <1>5 DEF T
  <1>7. f[n] \in Seq(S)
    BY <1>1, <1>2
  <1> QED
    BY <1>2, <1>6, <1>7 DEF n

LEMMA FlattenFirst ==
    ASSUME NEW S, NEW ss \in Seq(Seq(S)), NEW k \in 1 .. Len(ss),
           ss[k] # <<>>, \A j \in 1 .. k - 1 : ss[j] = <<>>
    PROVE  FlattenSeq(ss) # <<>> /\ FlattenSeq(ss)[1] = ss[k][1]
  <1> DEFINE n == Len(ss)
  <1>1. n \in Nat /\ (\A i \in 1 .. n : ss[i] \in Seq(S)) /\ k \in 1 .. n
    BY LenProperties
  <1>2. PICK f \in [0 .. n -> Seq(S)] :
           /\ f[0] = <<>>
           /\ \A i \in 1 .. n : f[i] = f[i - 1] \o ss[i]
           /\ FlattenSeq(ss) = f[n]
    BY FlattenIsFold
  <1> HIDE DEF n
  <1> DEFINE T == {i \in 0 .. n : /\ i < k => f[i] = <<>>
                                  /\ i >= k => f[i] # <<>> /\ f[i][1] = ss[k][1]}
  <1>3. 0 \in T
    BY <1>1, <1>2
  <1>4. ASSUME NEW i \in 0 .. n, i # n, i \in T PROVE i + 1 \in T
    <2>1. i + 1 \in 1 .. n /\ (i + 1) - 1 = i /\ i + 1 \in 0 .. n
      BY <1>1, <1>4
    <2>2. f[i + 1] = f[i] \o ss[i + 1] /\ f[i] \in Seq(S) /\ ss[i + 1] \in Seq(S)
      BY <1>1, <1>2, <2>1
    <2>3. /\ f[i] # <<>> => f[i + 1] # <<>> /\ f[i + 1][1] = f[i][1]
          /\ f[i] = <<>> => f[i + 1] = ss[i + 1]
      <3> DEFINE u == f[i]
                 v == ss[i + 1]
      <3>1. u \in Seq(S) /\ v \in Seq(S) /\ f[i + 1] = u \o v
        BY <2>2
      <3> HIDE DEF u, v
      <3>2. u # <<>> => u \o v # <<>>
        BY <3>1, ConcatHolds
      <3>3. u # <<>> => (u \o v)[1] = u[1]
        BY <3>1, ConcatHolds
      <3>4. u = <<>> => u \o v = v
        BY <3>1, ConcatHolds
      <3> QED
        BY <3>1, <3>2, <3>3, <3>4 DEF u, v
    <2>4. /\ i < k => f[i] = <<>>
          /\ i >= k => f[i] # <<>> /\ f[i][1] = ss[k][1]
      BY <1>4
    <2>5. i + 1 < k => f[i + 1] = <<>>
      <3> SUFFICES ASSUME i + 1 < k PROVE f[i + 1] = <<>>
        OBVIOUS
      <3>1. i + 1 \in 1 .. k - 1 /\ i < k
        BY <1>1
      <3> QED
        BY <2>3, <2>4, <3>1
    <2>6. i + 1 >= k => f[i + 1] # <<>> /\ f[i + 1][1] = ss[k][1]
      <3>1. CASE i >= k
        BY <2>3, <2>4, <3>1
      <3>2. CASE i + 1 = k
        <4>1. i < k
          BY <1>1, <3>2
        <4> QED
          BY <2>3, <2>4, <3>2, <4>1
      <3> QED
        BY <1>1, <3>1, <3>2
    <2> QED
      BY <2>1, <2>5, <2>6
  <1> HIDE DEF T
  <1>5. 0 .. n \subseteq T
    BY <1>1, <1>3, <1>4, Upwards
  <1>6. n \in T /\ n >= k
    BY <1>1, <1>5
  <1> QED
    BY <1>2, <1>6 DEF T

LEMMA FlattenNothing ==
    ASSUME NEW S, NEW ss \in Seq(Seq(S)), \A k \in 1 .. Len(ss) : ss[k] = <<>>
    PROVE  FlattenSeq(ss) = <<>>
  <1>1. \A k \in 1 .. Len(ss) : ToSet(ss[k]) = {}
    BY DEF ToSet
  <1>2. ToSet(FlattenSeq(ss)) = {}
    BY <1>1, FlattenHolds, Zenon
  <1> QED
    BY <1>2, FlattenHolds, Elements, Zenon

\* Distinct as the last of its partial results.
LEMMA DistinctIsFold ==
    ASSUME NEW S, NEW s \in Seq(S)
    PROVE  \E f \in [0 .. Len(s) -> Seq(S)] :
              /\ f[0] = <<>>
              /\ \A i \in 1 .. Len(s) :
                    f[i] = IF s[i] \in ToSet(f[i - 1]) THEN f[i - 1] ELSE Append(f[i - 1], s[i])
              /\ Distinct(s) = f[Len(s)]
  <1> DEFINE n == Len(s)
  <1>1. n \in Nat /\ \A i \in 1 .. n : s[i] \in S
    BY Elements
  <1> HIDE DEF n
  <1> DEFINE Add(v, x) == IF x \in ToSet(v) THEN v ELSE Append(v, x)
             G == [i \in 1 .. n |-> [v \in Seq(S) |-> Add(v, s[i])]]
             Def(g) == [i \in 0 .. n |-> IF i = 0 THEN <<>> ELSE Add(g[i - 1], s[i])]
             seen == CHOOSE g : g = Def(g)
  <1>2. \A v \in Seq(S) : \A x \in S : Add(v, x) \in Seq(S)
    BY AppendProperties
  <1>3. \E f : f \in [0 .. n -> Seq(S)] /\ f = Def(f)
    <2>1. G \in [1 .. n -> [Seq(S) -> Seq(S)]]
      <3> HIDE DEF Add
      <3>1. \A i \in 1 .. n : \A v \in Seq(S) : Add(v, s[i]) \in Seq(S)
        BY <1>1, <1>2
      <3> QED
        BY <3>1
    <2>2. <<>> \in Seq(S)
      OBVIOUS
    <2> HIDE DEF Add
    <2>3. \A i \in 1 .. n : \A v \in Seq(S) : G[i][v] = Add(v, s[i])
      OBVIOUS
    <2> HIDE DEF G
    <2>4. PICK f : Forward(f, n, Seq(S), <<>>, G)
      BY <1>1, <2>1, <2>2, ForwardRecursion
    <2>5. /\ f \in [0 .. n -> Seq(S)] /\ f[0] = <<>>
          /\ \A i \in 1 .. n : f[i] = G[i][f[i - 1]]
      BY <2>4 DEF Forward
    <2>6. ASSUME NEW i \in 0 .. n
          PROVE  f[i] = IF i = 0 THEN <<>> ELSE Add(f[i - 1], s[i])
      <3>1. CASE i = 0
        BY <2>5, <3>1
      <3>2. CASE i # 0
        <4>1. i \in 1 .. n /\ i - 1 \in 0 .. n
          BY <1>1, <3>2
        <4>2. f[i] = G[i][f[i - 1]] /\ f[i - 1] \in Seq(S)
          BY <2>5, <4>1
        <4> QED
          BY <2>3, <3>2, <4>1, <4>2
      <3> QED
        BY <3>1, <3>2
    <2>7. f = Def(f)
      BY <2>5, <2>6
    <2> QED
      BY <2>5, <2>7
  <1>4. seen = Def(seen)
    <2> HIDE DEF Def
    <2> QED
      BY <1>3, Zenon
  <1>5. Distinct(s) = seen[n]
    BY DEF Distinct, seen, n
  <1> HIDE DEF G, seen
  <1>6. \A i \in 0 .. n : seen[i] = IF i = 0 THEN <<>> ELSE Add(seen[i - 1], s[i])
    BY <1>4
  <1> HIDE DEF Add, Def
  <1>7. 0 .. n \subseteq {i \in 0 .. n : seen[i] \in Seq(S)}
    <2> DEFINE T == {i \in 0 .. n : seen[i] \in Seq(S)}
    <2>1. 0 \in T
      <3>1. 0 \in 0 .. n /\ <<>> \in Seq(S)
        BY <1>1
      <3> QED
        BY <1>6, <3>1
    <2>2. ASSUME NEW i \in 0 .. n, i # n, i \in T PROVE i + 1 \in T
      <3>1. i + 1 \in 1 .. n /\ (i + 1) - 1 = i /\ i + 1 \in 0 .. n /\ i + 1 # 0
        BY <1>1, <2>2
      <3>2. seen[i + 1] = Add(seen[i], s[i + 1])
        BY <1>6, <3>1
      <3>3. seen[i + 1] \in Seq(S)
        BY <1>1, <1>2, <2>2, <3>1, <3>2
      <3> QED
        BY <3>1, <3>3
    <2> HIDE DEF T
    <2>3. 0 .. n \subseteq T
      BY <1>1, <2>1, <2>2, Upwards
    <2> QED
      BY <2>3 DEF T
  <1>8. seen = Def(seen) /\ DOMAIN seen = 0 .. n
    BY <1>4 DEF Def
  <1>9. seen \in [0 .. n -> Seq(S)] /\ seen[0] = <<>>
    BY <1>1, <1>4, <1>6, <1>7 DEF Def
  <1>10. \A i \in 1 .. n : seen[i] = Add(seen[i - 1], s[i])
    BY <1>1, <1>6
  <1> QED
    BY <1>5, <1>9, <1>10 DEF Add, n

\* Distinct loses no element, adds none, and keeps the first one first.
\* What is not in a list can follow it.
LEMMA AppendNew ==
    ASSUME NEW S, NEW v \in Seq(S), NEW x \in S, IsInjective(v), x \notin ToSet(v)
    PROVE  IsInjective(Append(v, x))
  <1> DEFINE n == Len(v)
             w == Append(v, x)
  <1>1. /\ n \in Nat /\ DOMAIN v = 1 .. n
        /\ \A k \in 1 .. n : v[k] # x
    BY Elements
  <1>2. /\ DOMAIN w = 1 .. n + 1 /\ w[n + 1] = x
        /\ \A k \in 1 .. n : w[k] = v[k]
    BY AppendProperties
  <1> HIDE DEF n, w
  <1>3. \A k \in 1 .. n + 1 : k \in 1 .. n \/ k = n + 1
    BY <1>1
  <1>4. ASSUME NEW a \in 1 .. n + 1, NEW b \in 1 .. n + 1, w[a] = w[b] PROVE a = b
    <2>1. CASE a \in 1 .. n /\ b \in 1 .. n
      BY <1>1, <1>2, <1>4, <2>1 DEF IsInjective
    <2>2. CASE a = n + 1 \/ b = n + 1
      BY <1>1, <1>2, <1>3, <1>4, <2>2
    <2> QED
      BY <1>3, <2>1, <2>2
  <1>5. IsInjective(w)
    BY <1>2, <1>4, Zenon DEF IsInjective
  <1> QED
    BY <1>5 DEF w

LEMMA DistinctHolds ==
    ASSUME NEW S, NEW s \in Seq(S)
    PROVE  /\ Distinct(s) \in Seq(S) /\ IsInjective(Distinct(s))
           /\ ToSet(Distinct(s)) = ToSet(s)
           /\ s # <<>> => Distinct(s) # <<>> /\ Distinct(s)[1] = s[1]
  <1> DEFINE n == Len(s)
  <1>1. n \in Nat /\ (\A i \in 1 .. n : s[i] \in S /\ s[i] \in ToSet(s))
        /\ (s # <<>> => n # 0)
        /\ (\A x \in ToSet(s) : \E k \in 1 .. n : s[k] = x)
    BY Elements, EmptySeq
  <1>2. PICK f \in [0 .. n -> Seq(S)] :
           /\ f[0] = <<>>
           /\ \A i \in 1 .. n :
                 f[i] = IF s[i] \in ToSet(f[i - 1]) THEN f[i - 1] ELSE Append(f[i - 1], s[i])
           /\ Distinct(s) = f[n]
    BY DistinctIsFold
  <1> HIDE DEF n
  <1> DEFINE Done(i) == /\ IsInjective(f[i])
                        /\ \A k \in 1 .. i : s[k] \in ToSet(f[i])
                        /\ \A x \in ToSet(f[i]) : \E k \in 1 .. i : s[k] = x
                        /\ i # 0 => f[i] # <<>> /\ f[i][1] = s[1]
             T == {i \in 0 .. n : Done(i)}
  <1>3. 0 \in T
    BY <1>1, <1>2 DEF ToSet, IsInjective
  <1>4. ASSUME NEW i \in 0 .. n, i # n, i \in T PROVE i + 1 \in T
    <2>1. i + 1 \in 1 .. n /\ (i + 1) - 1 = i /\ i + 1 \in 0 .. n
      BY <1>1, <1>4
    <2> DEFINE x == s[i + 1]
               v == f[i]
               w == f[i + 1]
    <2>2. w = (IF x \in ToSet(v) THEN v ELSE Append(v, x)) /\ v \in Seq(S) /\ x \in S
      BY <1>1, <1>2, <2>1
    <2>3. Done(i)
      BY <1>4
    <2>4. (i = 0 => v = <<>> /\ x = s[1]) /\ x = s[i + 1]
      BY <1>2
    <2>5. \A k \in 1 .. i + 1 : k \in 1 .. i \/ k = i + 1
      OBVIOUS
    <2>6. \A k \in 1 .. i : k \in 1 .. i + 1
      OBVIOUS
    <2>7. i + 1 \in 1 .. i + 1
      OBVIOUS
    <2> HIDE DEF x
    <2>8. /\ ToSet(w) = ToSet(v) \cup {x}
          /\ v # <<>> => w # <<>> /\ w[1] = v[1]
          /\ v = <<>> => w # <<>> /\ w[1] = x
      <3> HIDE DEF v, w
      <3>1. CASE x \in ToSet(v)
        <4>1. v # <<>>
          BY <3>1 DEF ToSet
        <4> QED
          BY <2>2, <3>1, <4>1
      <3>2. CASE x \notin ToSet(v)
        <4> DEFINE e == <<x>>
        <4>1. w = v \o e
          BY <2>2, <3>2, AppendIsConcat
        <4>2. e \in Seq(S) /\ ToSet(e) = {x} /\ e # <<>> /\ e[1] = x
          BY <2>2 DEF ToSet
        <4> HIDE DEF e
        <4>3. /\ ToSet(v \o e) = ToSet(v) \cup ToSet(e)
              /\ v # <<>> => v \o e # <<>> /\ (v \o e)[1] = v[1]
              /\ v = <<>> => v \o e = e
          BY <2>2, <4>2, ConcatHolds
        <4> QED
          BY <4>1, <4>2, <4>3
      <3> QED
        BY <3>1, <3>2
    <2>9. Done(i + 1)
      <3>1. \A k \in 1 .. i + 1 : s[k] \in ToSet(w)
        BY <2>3, <2>4, <2>5, <2>8, Zenon DEF v
      <3>2. \A y \in ToSet(w) : \E k \in 1 .. i + 1 : s[k] = y
        BY <2>3, <2>4, <2>6, <2>7, <2>8, Zenon DEF v
      <3>3. w # <<>> /\ w[1] = s[1]
        <4>1. CASE v = <<>>
          <5>1. i = 0
            BY <2>3, <4>1 DEF v
          <5> QED
            BY <2>4, <2>8, <4>1, <5>1
        <4>2. CASE v # <<>>
          <5>1. i # 0
            BY <2>4, <4>2
          <5> QED
            BY <2>3, <2>8, <4>2, <5>1 DEF v
        <4> QED
          BY <4>1, <4>2
      <3>4. IsInjective(w)
        BY <2>2, <2>3, AppendNew DEF v
      <3> QED
        BY <3>1, <3>2, <3>3, <3>4 DEF w
    <2> QED
      BY <2>1, <2>9
  <1> HIDE DEF T
  <1>5. 0 .. n \subseteq T
    BY <1>1, <1>3, <1>4, Upwards
  <1>6. n \in T /\ f[n] \in Seq(S)
    BY <1>1, <1>2, <1>5
  <1>7. /\ IsInjective(f[n])
        /\ \A k \in 1 .. n : s[k] \in ToSet(f[n])
        /\ \A x \in ToSet(f[n]) : \E k \in 1 .. n : s[k] = x
        /\ n # 0 => f[n] # <<>> /\ f[n][1] = s[1]
    BY <1>6, Zenon DEF T
  <1>8. \A x : x \in ToSet(f[n]) <=> x \in ToSet(s)
    BY <1>1, <1>7, Zenon
  <1> QED
    BY <1>1, <1>2, <1>6, <1>7, <1>8

-----------------------------------------------------------------------------
\* A scan of the places 1 .. n: a place that is a hit adds its item and goes on
\* after the place it closes at, any other place adds nothing.
Scanned(f, n, hit, close, item, i) ==
    IF i > n THEN <<>>
    ELSE IF i \in hit THEN <<item[i]>> \o f[close[i] + 1]
         ELSE f[i + 1]

Follows(f, n, hit, close, item) ==
    \A i \in 1 .. n + 1 : f[i] = Scanned(f, n, hit, close, item, i)

Scan(f, n, V, hit, close, item) ==
    f \in [1 .. n + 1 -> Seq(V)] /\ Follows(f, n, hit, close, item)

LEMMA ScanExists ==
    ASSUME NEW n \in Nat, NEW V, NEW hit \in SUBSET (1 .. n),
           NEW close \in [1 .. n -> Nat], NEW item,
           \A i \in hit : close[i] \in i + 1 .. n /\ item[i] \in V
    PROVE  \E f : Scan(f, n, V, hit, close, item)
  <1> DEFINE G == [i \in 1 .. n |->
                     [v \in Seq(V) |-> IF i \in hit THEN <<item[i]>> \o v ELSE v]]
             nxt == [i \in 1 .. n |-> IF i \in hit THEN close[i] + 1 ELSE i + 1]
  <1>1. G \in [1 .. n -> [Seq(V) -> Seq(V)]]
    <2>1. ASSUME NEW i \in 1 .. n, NEW v \in Seq(V)
          PROVE  (IF i \in hit THEN <<item[i]>> \o v ELSE v) \in Seq(V)
      <3>1. CASE i \in hit
        <4> DEFINE e == <<item[i]>>
        <4>1. e \in Seq(V)
          BY <3>1
        <4> HIDE DEF e
        <4>2. e \o v \in Seq(V)
          BY <4>1, ConcatProperties
        <4> QED
          BY <3>1, <4>2 DEF e
      <3> QED
        BY <3>1
    <2> QED
      BY <2>1
  <1>2. nxt \in [1 .. n -> 1 .. n + 1] /\ \A i \in 1 .. n : nxt[i] > i
    <2>1. ASSUME NEW i \in 1 .. n
          PROVE  (IF i \in hit THEN close[i] + 1 ELSE i + 1) \in 1 .. n + 1
                 /\ (IF i \in hit THEN close[i] + 1 ELSE i + 1) > i
      BY <2>1
    <2> QED
      BY <2>1
  <1>3. \A i \in 1 .. n : \A v \in Seq(V) : G[i][v] = IF i \in hit THEN <<item[i]>> \o v ELSE v
    OBVIOUS
  <1>4. \A i \in 1 .. n : nxt[i] = IF i \in hit THEN close[i] + 1 ELSE i + 1
    OBVIOUS
  <1>5. <<>> \in Seq(V)
    OBVIOUS
  <1> HIDE DEF G, nxt
  <1>6. PICK f : Backward(f, n, Seq(V), <<>>, G, nxt)
    BY <1>1, <1>2, <1>5, BackwardRecursion
  <1>7. /\ f \in [1 .. n + 1 -> Seq(V)] /\ f[n + 1] = <<>>
        /\ \A i \in 1 .. n : f[i] = G[i][f[nxt[i]]]
    BY <1>6 DEF Backward
  <1>8. ASSUME NEW i \in 1 .. n + 1 PROVE f[i] = Scanned(f, n, hit, close, item, i)
    <2>1. CASE i = n + 1
      BY <1>7, <2>1 DEF Scanned
    <2>2. CASE i # n + 1
      <3>1. i \in 1 .. n /\ ~(i > n)
        BY <2>2
      <3>2. f[i] = G[i][f[nxt[i]]] /\ f[nxt[i]] \in Seq(V)
        BY <1>2, <1>7, <3>1
      <3>3. f[i] = IF i \in hit THEN <<item[i]>> \o f[nxt[i]] ELSE f[nxt[i]]
        BY <1>3, <3>1, <3>2
      <3> QED
        BY <1>4, <3>1, <3>3 DEF Scanned
    <2> QED
      BY <2>1, <2>2
  <1>9. Scan(f, n, V, hit, close, item)
    BY <1>7, <1>8 DEF Scan, Follows
  <1> QED
    BY <1>9

\* A scan only goes ahead, and so there is only one.
Ahead(n, hit, close) ==
    hit \in SUBSET (1 .. n) /\ \A i \in hit : close[i] \in i + 1 .. n
Agree(n, f, g) == \A i \in 1 .. n + 1 : g[i] = f[i]

LEMMA ScanIsUnique ==
    ASSUME NEW n \in Nat, NEW V, NEW hit, NEW close, NEW item, Ahead(n, hit, close),
           NEW f, Scan(f, n, V, hit, close, item),
           NEW g, Follows(g, n, hit, close, item)
    PROVE  Agree(n, f, g)
  <1> DEFINE T == {i \in 1 .. n + 1 : g[i] = f[i]}
  <1>1. /\ \A i \in 1 .. n + 1 : f[i] = Scanned(f, n, hit, close, item, i)
        /\ \A i \in 1 .. n + 1 : g[i] = Scanned(g, n, hit, close, item, i)
    BY DEF Scan, Follows
  <1>2. n + 1 \in T
    <2>1. n + 1 \in 1 .. n + 1 /\ n + 1 > n
      OBVIOUS
    <2> QED
      BY <1>1, <2>1 DEF Scanned
  <1>3. ASSUME NEW i \in 1 .. n, \A j \in i + 1 .. n + 1 : j \in T PROVE i \in T
    <2>1. /\ i \in 1 .. n + 1 /\ ~(i > n) /\ i + 1 \in i + 1 .. n + 1
          /\ i \in hit => close[i] + 1 \in i + 1 .. n + 1
      BY DEF Ahead
    <2>2. g[i + 1] = f[i + 1] /\ (i \in hit => g[close[i] + 1] = f[close[i] + 1])
      BY <1>3, <2>1
    <2>3. /\ g[i] = Scanned(g, n, hit, close, item, i)
          /\ f[i] = Scanned(f, n, hit, close, item, i)
      BY <1>1, <2>1
    <2>4. g[i] = f[i]
      BY <2>1, <2>2, <2>3 DEF Scanned
    <2> QED
      BY <2>1, <2>4
  <1> HIDE DEF T
  <1>4. 1 .. n + 1 \subseteq T
    BY <1>2, <1>3, Downwards
  <1> QED
    BY <1>4 DEF T, Agree

\* From a quote to the next one of its kind.
Partners(line, i) == {j \in Positions(line, {line[i]}) : j > i}
Closes(line) == [i \in 1 .. Len(line) |-> IF Partners(line, i) # {} THEN Min(Partners(line, i)) ELSE 0]
Openings(line) == {i \in 1 .. Len(line) : line[i] \in {DQ, SQ} /\ Partners(line, i) # {}}
Inner(line, i) == SubSeq(line, i + 1, Closes(line)[i] - 1)
Literals(line) == [i \in 1 .. Len(line) |-> Inner(line, i)]
Quoted(line) == [i \in 1 .. Len(line) |-> SubSeq(line, i, Closes(line)[i])]
Matching(line, q, class, least) ==
    {i \in Openings(line) : /\ line[i] = q
                            /\ ToSet(Inner(line, i)) \subseteq class
                            /\ Chars(Inner(line, i)) >= least}

LEMMA ClosesFacts ==
    ASSUME NEW S, NEW line \in Seq(S)
    PROVE  /\ Closes(line) \in [1 .. Len(line) -> Nat]
           /\ \A i \in Openings(line) :
                 /\ i \in 1 .. Len(line)
                 /\ Closes(line)[i] = Min(Partners(line, i))
                 /\ Closes(line)[i] \in i + 1 .. Len(line)
                 /\ line[Closes(line)[i]] = line[i]
                 /\ \A k \in i + 1 .. Closes(line)[i] - 1 : line[k] # line[i]
           /\ Openings(line) \subseteq 1 .. Len(line)
  <1> DEFINE n == Len(line)
  <1>1. n \in Nat /\ DOMAIN line = 1 .. n
    BY Elements
  <1>2. Closes(line) = [i \in 1 .. n |-> IF Partners(line, i) # {} THEN Min(Partners(line, i)) ELSE 0]
        /\ Openings(line) = {i \in 1 .. n : line[i] \in {DQ, SQ} /\ Partners(line, i) # {}}
    BY Zenon DEF Closes, Openings
  <1> HIDE DEF n
  <1>3. ASSUME NEW i \in 1 .. n
        PROVE  Partners(line, i) = {j \in 1 .. n : line[j] = line[i] /\ j > i}
    BY <1>1 DEF Partners, Positions
  <1>4. ASSUME NEW i \in 1 .. n, Partners(line, i) # {}
        PROVE  /\ Min(Partners(line, i)) \in Partners(line, i)
               /\ \A j \in Partners(line, i) : Min(Partners(line, i)) <= j
    <2>1. Partners(line, i) \in SUBSET Nat
      BY <1>3
    <2> QED
      BY <1>4, <2>1, MinIsLeast
  <1>5. Closes(line) \in [1 .. n -> Nat]
    <2>1. \A i \in 1 .. n : Partners(line, i) # {} => Min(Partners(line, i)) \in Nat
      BY <1>3, <1>4
    <2> QED
      BY <1>2, <2>1
  <1>6. ASSUME NEW i \in Openings(line)
        PROVE  /\ i \in 1 .. n
               /\ Closes(line)[i] = Min(Partners(line, i))
               /\ Closes(line)[i] \in i + 1 .. n
               /\ line[Closes(line)[i]] = line[i]
               /\ \A k \in i + 1 .. Closes(line)[i] - 1 : line[k] # line[i]
    <2>1. i \in 1 .. n /\ Partners(line, i) # {}
      BY <1>2
    <2>2. Closes(line)[i] = Min(Partners(line, i))
      BY <1>2, <2>1
    <2> DEFINE c == Min(Partners(line, i))
    <2>3. c \in Partners(line, i) /\ \A j \in Partners(line, i) : c <= j
      BY <1>4, <2>1
    <2> HIDE DEF c
    <2>4. c \in 1 .. n /\ line[c] = line[i] /\ c > i
      BY <1>3, <2>1, <2>3
    <2>5. ASSUME NEW k \in i + 1 .. c - 1 PROVE line[k] # line[i]
      <3>1. k \in 1 .. n /\ k > i /\ ~(c <= k)
        BY <1>1, <2>1, <2>4
      <3> QED
        BY <1>3, <2>1, <2>3, <3>1
    <2>6. c \in i + 1 .. n
      BY <1>1, <2>1, <2>4
    <2> QED
      BY <2>1, <2>2, <2>4, <2>5, <2>6 DEF c
  <1>7. Openings(line) \subseteq 1 .. n
    BY <1>2
  <1> QED
    BY <1>5, <1>6, <1>7 DEF n

LEMMA Slice ==
    ASSUME NEW S, NEW line \in Seq(S), NEW a \in 1 .. Len(line) + 1, NEW b \in 0 .. Len(line)
    PROVE  /\ SubSeq(line, a, b) \in Seq(S)
           /\ Len(SubSeq(line, a, b)) = IF a <= b THEN b - a + 1 ELSE 0
           /\ \A i \in 1 .. b - a + 1 : SubSeq(line, a, b)[i] = line[a + i - 1]
  <1>1. Len(line) \in Nat /\ \A i \in 1 .. Len(line) : line[i] \in S
    BY Elements
  <1>2. a \in Int /\ b \in Int /\ \A i \in a .. b : line[i] \in S
    BY <1>1
  <1> QED
    BY <1>2, SubSeqProperties

LEMMA StringsAreScanned ==
    ASSUME NEW S, NEW line \in Seq(S)
    PROVE  \E f : /\ Scan(f, Len(line), Seq(S), Openings(line), Closes(line), Literals(line))
                  /\ Strings(line) = f[1]
  <1> DEFINE n == Len(line)
             end(i) == {j \in Positions(line, {line[i]}) : j > i}
             Def(g) == [i \in 1 .. n + 1 |->
                          IF i > n THEN <<>>
                          ELSE IF line[i] \in {DQ, SQ} /\ end(i) # {}
                               THEN <<SubSeq(line, i + 1, Min(end(i)) - 1)>> \o g[Min(end(i)) + 1]
                               ELSE g[i + 1]]
             from == CHOOSE g : g = Def(g)
             hit == Openings(line)
             close == Closes(line)
             item == Literals(line)
  <1>1. n \in Nat
    BY Elements
  <1>2. Strings(line) = from[1]
    BY DEF Strings
  <1>3. \A i : end(i) = Partners(line, i)
    BY DEF Partners
  <1>4. ASSUME NEW g, NEW i \in 1 .. n + 1
        PROVE  Def(g)[i] = Scanned(g, n, hit, close, item, i)
    <2>1. CASE i > n
      BY <2>1 DEF Scanned
    <2>2. CASE i \in hit
      <3>1. /\ i \in 1 .. n /\ close[i] = Min(end(i))
            /\ line[i] \in {DQ, SQ} /\ end(i) # {}
        <4>1. i \in Openings(line)
          BY <2>2
        <4>2. i \in 1 .. n /\ line[i] \in {DQ, SQ} /\ Partners(line, i) # {}
          BY <4>1, Zenon DEF Openings
        <4>3. close[i] = Min(Partners(line, i))
          BY <4>1, ClosesFacts, Zenon
        <4> QED
          BY <1>3, <4>2, <4>3
      <3>2. item[i] = SubSeq(line, i + 1, Min(end(i)) - 1)
        BY <3>1, Zenon DEF Literals, Inner
      <3> HIDE DEF end, close, item, hit
      <3> QED
        BY <1>1, <2>2, <3>1, <3>2 DEF Scanned
    <2>3. CASE ~(i > n) /\ i \notin hit
      <3>1. ~(line[i] \in {DQ, SQ} /\ end(i) # {})
        <4>1. i \in 1 .. n
          BY <1>1, <2>3
        <4> QED
          BY <1>3, <2>3, <4>1, Zenon DEF Openings
      <3> HIDE DEF end, close, item, hit
      <3> QED
        BY <2>3, <3>1 DEF Scanned
    <2> QED
      BY <2>1, <2>2, <2>3
  <1>5. hit \in SUBSET (1 .. n) /\ close \in [1 .. n -> Nat]
        /\ \A i \in hit : close[i] \in i + 1 .. n /\ item[i] \in Seq(S)
    <2>1. hit \in SUBSET (1 .. n) /\ close \in [1 .. n -> Nat]
          /\ \A i \in hit : close[i] \in i + 1 .. n
      BY ClosesFacts
    <2>2. ASSUME NEW i \in hit PROVE item[i] \in Seq(S)
      <3>1. item[i] = SubSeq(line, i + 1, close[i] - 1)
        BY <2>1 DEF Literals, Inner
      <3>2. i + 1 \in 1 .. n + 1 /\ close[i] - 1 \in 0 .. n
        BY <1>1, <2>1
      <3> QED
        BY <3>1, <3>2, Slice
    <2> QED
      BY <2>1, <2>2
  <1> HIDE DEF n, hit, close, item, Def
  <1>6. PICK f : Scan(f, n, Seq(S), hit, close, item)
    BY <1>1, <1>5, ScanExists
  <1>7. \E g : g = Def(g)
    <2>1. f \in [1 .. n + 1 -> Seq(Seq(S))]
          /\ \A i \in 1 .. n + 1 : f[i] = Scanned(f, n, hit, close, item, i)
      BY <1>6 DEF Scan, Follows
    <2>2. \A i \in 1 .. n + 1 : f[i] = Def(f)[i]
      BY <1>4, <2>1
    <2>3. DOMAIN Def(f) = 1 .. n + 1 /\ Def(f) = [i \in 1 .. n + 1 |-> Def(f)[i]]
      BY DEF Def
    <2>4. f = Def(f)
      BY <2>1, <2>2, <2>3
    <2> QED
      BY <2>4
  <1>8. from = Def(from)
    BY <1>7, Zenon
  <1>9. Follows(from, n, hit, close, item)
    BY <1>4, <1>8, Zenon DEF Follows
  <1> HIDE DEF from
  <1>10. Ahead(n, hit, close)
    BY <1>5 DEF Ahead
  <1>11. from[1] = f[1]
    <2>1. Agree(n, f, from)
      BY <1>1, <1>6, <1>9, <1>10, ScanIsUnique, Zenon
    <2>2. 1 \in 1 .. n + 1
      BY <1>1
    <2> QED
      BY <2>1, <2>2, Zenon DEF Agree
  <1> QED
    BY <1>2, <1>6, <1>11 DEF n, hit, close, item

LEMMA MatchesAreScanned ==
    ASSUME NEW S, NEW line \in Seq(S), NEW q \in {DQ, SQ}, NEW class, NEW least
    PROVE  \E f : /\ Scan(f, Len(line), Seq(S), Matching(line, q, class, least),
                          Closes(line), Quoted(line))
                  /\ Matches(line, q, class, least) = f[1]
  <1> DEFINE n == Len(line)
             after(i) == {j \in Positions(line, {q}) : j > i}
             inner(i) == SubSeq(line, i + 1, Min(after(i)) - 1)
             Is(i) == /\ line[i] = q /\ after(i) # {}
                      /\ ToSet(inner(i)) \subseteq class /\ Chars(inner(i)) >= least
             Def(g) == [i \in 1 .. n + 1 |->
                          IF i > n THEN <<>>
                          ELSE IF Is(i)
                               THEN <<SubSeq(line, i, Min(after(i)))>> \o g[Min(after(i)) + 1]
                               ELSE g[i + 1]]
             from == CHOOSE g : g = Def(g)
             hit == Matching(line, q, class, least)
             close == Closes(line)
             item == Quoted(line)
  <1>1. n \in Nat
    BY Elements
  <1>2. Matches(line, q, class, least) = from[1]
    BY DEF Matches
  <1>3. /\ hit \subseteq Openings(line)
        /\ hit \in SUBSET (1 .. n) /\ close \in [1 .. n -> Nat]
        /\ \A i \in hit : i \in Openings(line) /\ close[i] \in i + 1 .. n
    BY ClosesFacts DEF Matching
  <1>4. ASSUME NEW i \in 1 .. n
        PROVE  /\ i \in hit <=> Is(i)
               /\ i \in hit => item[i] = SubSeq(line, i, Min(after(i))) /\ close[i] = Min(after(i))
    <2>1. CASE line[i] # q
      BY <2>1 DEF Matching
    <2>2. CASE line[i] = q
      <3>1. Partners(line, i) = after(i)
        BY <2>2 DEF Partners
      <3>2. i \in Openings(line) <=> after(i) # {}
        BY <2>2, <3>1, Zenon DEF Openings
      <3>3. after(i) # {} => close[i] = Min(after(i)) /\ Inner(line, i) = inner(i)
        BY <3>1, <3>2, Zenon DEF Closes, Inner
      <3>4. i \in hit <=> Is(i)
        BY <2>2, <3>2, <3>3, Zenon DEF Matching
      <3>5. item[i] = SubSeq(line, i, close[i])
        BY Zenon DEF Quoted
      <3> QED
        BY <3>3, <3>4, <3>5, Zenon
    <2> QED
      BY <2>1, <2>2
  <1>5. \A i \in hit : item[i] \in Seq(S)
    <2> TAKE i \in hit
    <2>1. i \in 1 .. n /\ i \in 1 .. n + 1 /\ close[i] \in 0 .. n
      BY <1>1, <1>3
    <2>2. item[i] = SubSeq(line, i, close[i])
      BY <2>1, Zenon DEF Quoted
    <2> QED
      BY <2>1, <2>2, Slice
  <1> HIDE DEF n, hit, close, item
  <1>6. ASSUME NEW g, NEW i \in 1 .. n + 1
        PROVE  Def(g)[i] = Scanned(g, n, hit, close, item, i)
    <2>1. CASE i > n
      BY <2>1 DEF Scanned
    <2>2. CASE ~(i > n)
      <3>1. i \in 1 .. n
        BY <1>1, <2>2
      <3> HIDE DEF after, Is
      <3>2. CASE i \in hit
        BY <1>4, <2>2, <3>1, <3>2 DEF Scanned
      <3>3. CASE i \notin hit
        BY <1>4, <2>2, <3>1, <3>3 DEF Scanned
      <3> QED
        BY <3>2, <3>3
    <2> QED
      BY <2>1, <2>2
  <1> HIDE DEF Def
  <1>7. PICK f : Scan(f, n, Seq(S), hit, close, item)
    BY <1>1, <1>3, <1>5, ScanExists
  <1>8. \E g : g = Def(g)
    <2>1. f \in [1 .. n + 1 -> Seq(Seq(S))]
          /\ \A i \in 1 .. n + 1 : f[i] = Scanned(f, n, hit, close, item, i)
      BY <1>7 DEF Scan, Follows
    <2>2. \A i \in 1 .. n + 1 : f[i] = Def(f)[i]
      BY <1>6, <2>1
    <2>3. DOMAIN Def(f) = 1 .. n + 1 /\ Def(f) = [i \in 1 .. n + 1 |-> Def(f)[i]]
      BY DEF Def
    <2>4. f = Def(f)
      BY <2>1, <2>2, <2>3
    <2> QED
      BY <2>4
  <1>9. from = Def(from)
    BY <1>8, Zenon
  <1>10. Follows(from, n, hit, close, item)
    BY <1>6, <1>9, Zenon DEF Follows
  <1> HIDE DEF from
  <1>11. Ahead(n, hit, close)
    BY <1>3 DEF Ahead
  <1>12. from[1] = f[1]
    <2>1. Agree(n, f, from)
      BY <1>1, <1>7, <1>10, <1>11, ScanIsUnique, Zenon
    <2>2. 1 \in 1 .. n + 1
      BY <1>1
    <2> QED
      BY <2>1, <2>2, Zenon DEF Agree
  <1> QED
    BY <1>2, <1>7, <1>12 DEF n, hit, close, item

LEMMA ConsHolds ==
    ASSUME NEW S, NEW x \in S, NEW s \in Seq(S)
    PROVE  /\ <<x>> \o s \in Seq(S)
           /\ ToSet(<<x>> \o s) = {x} \cup ToSet(s)
           /\ Len(<<x>> \o s) = 1 + Len(s)
           /\ Last(<<x>> \o s) = IF s = <<>> THEN x ELSE Last(s)
           /\ <<x>> \o s # <<>>
  <1> DEFINE e == <<x>>
             n == Len(s)
             u == e \o s
  <1>1. e \in Seq(S) /\ ToSet(e) = {x} /\ Len(e) = 1 /\ e[1] = x /\ e # <<>>
    BY DEF ToSet
  <1>2. n \in Nat /\ (s = <<>> => n = 0) /\ (s # <<>> => n # 0)
    BY EmptySeq
  <1> HIDE DEF e
  <1>3. u \in Seq(S) /\ Len(u) = Len(e) + n
        /\ \A k \in 1 .. Len(e) + n : u[k] = IF k <= Len(e) THEN e[k] ELSE s[k - Len(e)]
    BY <1>1, ConcatProperties
  <1>4. ToSet(u) = ToSet(e) \cup ToSet(s)
    BY <1>1, ConcatHolds
  <1>5. u # <<>>
    BY <1>1, ConcatHolds
  <1> HIDE DEF u, n
  <1>6. Last(u) = IF s = <<>> THEN x ELSE Last(s)
    <2>1. CASE s = <<>>
      BY <1>1, <1>2, <1>3, <2>1 DEF Last
    <2>2. CASE s # <<>>
      <3>1. Len(u) = 1 + n /\ 1 + n \in 1 .. 1 + n /\ ~(1 + n <= 1) /\ (1 + n) - 1 = n
        BY <1>1, <1>2, <1>3, <2>2
      <3>2. u[1 + n] = s[n]
        BY <1>1, <1>3, <3>1
      <3> QED
        BY <2>2, <3>1, <3>2 DEF Last, n
    <2> QED
      BY <2>1, <2>2
  <1> QED
    BY <1>1, <1>2, <1>3, <1>4, <1>5, <1>6 DEF e, u, n

\* A second scan of the same text that hits wherever the first one has a good
\* item finds the counterpart of each item, as long as all of them are good.
Covers(n, V, W, hit, found, close, item, other, Good) ==
    /\ hit \subseteq 1 .. n /\ found \subseteq hit
    /\ \A i \in hit : close[i] \in i + 1 .. n /\ item[i] \in V
    /\ \A i \in found : other[i] \in W
    /\ \A i \in hit : item[i] \in Good => i \in found

Finds(f, g, hit, item, other) ==
    \A s \in ToSet(f[1]) : \E a \in hit : s = item[a] /\ other[a] \in ToSet(g[1])

LEMMA ScanFindsAll ==
    ASSUME NEW n \in Nat, NEW V, NEW W, NEW hit, NEW found,
           NEW close, NEW item, NEW other, NEW Good,
           Covers(n, V, W, hit, found, close, item, other, Good),
           NEW f, Scan(f, n, V, hit, close, item),
           NEW g, Scan(g, n, W, found, close, other),
           ToSet(f[1]) \subseteq Good
    PROVE  Finds(f, g, hit, item, other)
  <1> USE DEF Covers
  <1> DEFINE Done(i) == ToSet(f[i]) \subseteq Good =>
                 \A s \in ToSet(f[i]) : \E a \in hit : s = item[a] /\ other[a] \in ToSet(g[i])
             T == {i \in 1 .. n + 1 : Done(i)}
  <1>1. /\ f \in [1 .. n + 1 -> Seq(V)] /\ g \in [1 .. n + 1 -> Seq(W)]
        /\ \A i \in 1 .. n + 1 : /\ f[i] = Scanned(f, n, hit, close, item, i)
                                 /\ g[i] = Scanned(g, n, found, close, other, i)
    BY DEF Scan, Follows
  <1>2. n + 1 \in T
    <2>1. n + 1 \in 1 .. n + 1 /\ n + 1 > n
      OBVIOUS
    <2>2. f[n + 1] = <<>>
      BY <1>1, <2>1 DEF Scanned
    <2>3. ToSet(f[n + 1]) = {}
      BY <2>2 DEF ToSet
    <2> QED
      BY <2>1, <2>3
  <1>3. ASSUME NEW i \in 1 .. n, \A j \in i + 1 .. n + 1 : j \in T PROVE i \in T
    <2>1. i \in 1 .. n + 1 /\ ~(i > n) /\ i + 1 \in i + 1 .. n + 1 /\ i + 1 \in 1 .. n + 1
      OBVIOUS
    <2>2. SUFFICES ASSUME ToSet(f[i]) \subseteq Good, NEW s \in ToSet(f[i])
                   PROVE  \E a \in hit : s = item[a] /\ other[a] \in ToSet(g[i])
      BY <2>1
    <2>3. CASE i \in hit
      <3> DEFINE m == close[i] + 1
      <3>1. m \in i + 1 .. n + 1 /\ m \in 1 .. n + 1 /\ item[i] \in V
        BY <2>3
      <3>2. m \in T
        BY <1>3, <3>1, Zenon
      <3>3. f[i] = <<item[i]>> \o f[m] /\ f[m] \in Seq(V)
        BY <1>1, <2>1, <2>3, <3>1 DEF Scanned
      <3> HIDE DEF m
      <3>4. ToSet(f[i]) = {item[i]} \cup ToSet(f[m])
        BY <3>1, <3>3, ConsHolds
      <3>5. i \in found
        BY <2>2, <2>3, <3>4
      <3>6. g[i] = <<other[i]>> \o g[m] /\ g[m] \in Seq(W) /\ other[i] \in W
        BY <1>1, <2>1, <3>1, <3>5 DEF Scanned, m
      <3>7. ToSet(g[i]) = {other[i]} \cup ToSet(g[m])
        BY <3>6, ConsHolds
      <3>8. CASE s = item[i]
        BY <2>3, <3>7, <3>8
      <3>9. CASE s \in ToSet(f[m])
        <4>1. ToSet(f[m]) \subseteq Good
          BY <2>2, <3>4
        <4>2. PICK a \in hit : s = item[a] /\ other[a] \in ToSet(g[m])
          BY <3>2, <3>9, <4>1
        <4> QED
          BY <3>7, <4>2
      <3> QED
        BY <2>2, <3>4, <3>8, <3>9
    <2>4. CASE i \notin hit
      <3>1. f[i] = f[i + 1] /\ g[i] = g[i + 1]
        BY <1>1, <2>1, <2>4 DEF Scanned
      <3>2. i + 1 \in T
        BY <1>3, <2>1, Zenon
      <3> QED
        BY <2>2, <3>1, <3>2
    <2> QED
      BY <2>3, <2>4
  <1> HIDE DEF T
  <1>4. 1 .. n + 1 \subseteq T
    BY <1>2, <1>3, Downwards
  <1>5. 1 \in T
    BY <1>4
  <1> QED
    BY <1>5 DEF T, Finds

-----------------------------------------------------------------------------
\* Unquote takes the quotes off both ends, and leaves a text without them alone.
LEMMA UnquoteQuoted ==
    ASSUME NEW S, NEW line \in Seq(S), NEW a \in 1 .. Len(line), NEW b \in a + 1 .. Len(line),
           NEW q, line[a] = q, line[b] = q
    PROVE  Unquote(SubSeq(line, a, b), q) = SubSeq(line, a + 1, b - 1)
  <1> DEFINE n == Len(line)
             x == SubSeq(line, a, b)
             t == Tail(x)
             u == SubSeq(t, 1, Len(t) - 1)
             v == SubSeq(line, a + 1, b - 1)
  <1>0. n \in Nat /\ a \in 1 .. n /\ b \in a + 1 .. n
    BY Elements
  <1>1. x \in Seq(S) /\ Len(x) = b - a + 1 /\ \A i \in 1 .. b - a + 1 : x[i] = line[a + i - 1]
    <2>1. a \in 1 .. n + 1 /\ b \in 0 .. n /\ a <= b
      BY <1>0
    <2> QED
      BY <2>1, Slice
  <1>2. v \in Seq(S) /\ Len(v) = b - a - 1 /\ \A i \in 1 .. b - a - 1 : v[i] = line[a + i]
    <2>1. a + 1 \in 1 .. n + 1 /\ b - 1 \in 0 .. n
      BY <1>0
    <2>2. /\ v \in Seq(S) /\ Len(v) = IF a + 1 <= b - 1 THEN (b - 1) - (a + 1) + 1 ELSE 0
          /\ \A i \in 1 .. (b - 1) - (a + 1) + 1 : v[i] = line[(a + 1) + i - 1]
      BY <2>1, Slice
    <2> HIDE DEF v
    <2>3. /\ (IF a + 1 <= b - 1 THEN (b - 1) - (a + 1) + 1 ELSE 0) = b - a - 1
          /\ (b - 1) - (a + 1) + 1 = b - a - 1
          /\ \A i \in 1 .. b - a - 1 : (a + 1) + i - 1 = a + i
      BY <1>0
    <2> QED
      BY <2>2, <2>3
  <1> HIDE DEF n, x, v
  <1>3. x # <<>> /\ x[1] = q
    <2>1. 1 \in 1 .. b - a + 1 /\ a + 1 - 1 = a
      BY <1>0
    <2>2. x[1] = line[a]
      BY <1>1, <2>1
    <2>3. Len(x) # 0
      BY <1>0, <1>1
    <2> QED
      BY <2>2, <2>3
  <1>4. t \in Seq(S) /\ Len(t) = b - a /\ \A i \in 1 .. b - a : t[i] = line[a + i]
    <2>1. t \in Seq(S) /\ Len(t) = Len(x) - 1 /\ \A i \in 1 .. Len(t) : t[i] = x[i + 1]
      BY <1>1, <1>3, HeadTailProperties
    <2> HIDE DEF t
    <2>2. Len(t) = b - a
      BY <1>0, <1>1, <2>1
    <2>3. \A i \in 1 .. b - a : i + 1 \in 1 .. b - a + 1 /\ a + (i + 1) - 1 = a + i
      BY <1>0
    <2> QED
      BY <1>1, <2>1, <2>2, <2>3
  <1> HIDE DEF t
  <1>5. t # <<>> /\ t[Len(t)] = q
    <2>1. b - a \in 1 .. b - a /\ a + (b - a) = b /\ b - a # 0
      BY <1>0
    <2> QED
      BY <1>4, <2>1
  <1>6. u \in Seq(S) /\ Len(u) = b - a - 1 /\ \A i \in 1 .. b - a - 1 : u[i] = t[i]
    <2>1. 1 \in 1 .. Len(t) + 1 /\ Len(t) - 1 \in 0 .. Len(t)
      BY <1>0, <1>4
    <2>2. /\ u \in Seq(S) /\ Len(u) = IF 1 <= Len(t) - 1 THEN (Len(t) - 1) - 1 + 1 ELSE 0
          /\ \A i \in 1 .. (Len(t) - 1) - 1 + 1 : u[i] = t[1 + i - 1]
      BY <1>4, <2>1, Slice
    <2> HIDE DEF u
    <2>3. /\ (IF 1 <= Len(t) - 1 THEN (Len(t) - 1) - 1 + 1 ELSE 0) = b - a - 1
          /\ (Len(t) - 1) - 1 + 1 = b - a - 1
          /\ \A i \in 1 .. b - a - 1 : 1 + i - 1 = i
      BY <1>0, <1>4
    <2> QED
      BY <2>2, <2>3
  <1>7. Unquote(x, q) = u
    BY <1>3, <1>5 DEF Unquote, Front, t
  <1> HIDE DEF u
  <1>8. u = v
    <2>1. \A i \in 1 .. b - a - 1 : i \in 1 .. b - a
      BY <1>0
    <2>2. Len(u) = Len(v) /\ \A i \in 1 .. Len(u) : u[i] = v[i]
      BY <1>2, <1>4, <1>6, <2>1
    <2> QED
      BY <1>2, <1>6, <2>2, SeqEqual
  <1> QED
    BY <1>7, <1>8 DEF x, v

LEMMA UnquoteBare ==
    ASSUME NEW S, NEW s \in Seq(S), NEW q, s # <<>> => s[1] # q /\ s[Len(s)] # q
    PROVE  Unquote(s, q) = s
  <1>1. CASE s = <<>>
    BY <1>1 DEF Unquote
  <1>2. CASE s # <<>>
    BY <1>2 DEF Unquote
  <1> QED
    BY <1>1, <1>2

\* What is left of a literal with or without its quotes.
Bare(s) == Unquote(Unquote(s, DQ), SQ)

LEMMA BareBare ==
    ASSUME NEW S, NEW s \in Seq(S), \A i \in 1 .. Len(s) : s[i] \notin {DQ, SQ}
    PROVE  Bare(s) = s
  <1>1. s # <<>> => 1 \in 1 .. Len(s) /\ Len(s) \in 1 .. Len(s)
    BY Elements
  <1>2. Unquote(s, DQ) = s /\ Unquote(s, SQ) = s
    BY <1>1, UnquoteBare
  <1> QED
    BY <1>2 DEF Bare

LEMMA BareQuoted ==
    ASSUME NEW S, NEW line \in Seq(S), NEW a \in 1 .. Len(line), NEW b \in a + 1 .. Len(line),
           NEW q \in {DQ, SQ}, line[a] = q, line[b] = q,
           \A k \in a + 1 .. b - 1 : line[k] \notin {DQ, SQ}
    PROVE  Bare(SubSeq(line, a, b)) = SubSeq(line, a + 1, b - 1)
  <1> DEFINE n == Len(line)
             x == SubSeq(line, a, b)
             v == SubSeq(line, a + 1, b - 1)
  <1>0. n \in Nat /\ a \in 1 .. n /\ b \in a + 1 .. n /\ DQ # SQ
    BY Elements DEF DQ, SQ
  <1>1. Unquote(x, q) = v
    BY UnquoteQuoted
  <1>2. /\ v \in Seq(S) /\ Len(v) = IF a + 1 <= b - 1 THEN (b - 1) - (a + 1) + 1 ELSE 0
        /\ \A i \in 1 .. (b - 1) - (a + 1) + 1 : v[i] = line[(a + 1) + i - 1]
    <2>1. a + 1 \in 1 .. n + 1 /\ b - 1 \in 0 .. n
      BY <1>0
    <2> QED
      BY <2>1, Slice
  <1>3. /\ x \in Seq(S) /\ Len(x) = IF a <= b THEN b - a + 1 ELSE 0
        /\ \A i \in 1 .. b - a + 1 : x[i] = line[a + i - 1]
    <2>1. a \in 1 .. n + 1 /\ b \in 0 .. n
      BY <1>0
    <2> QED
      BY <2>1, Slice
  <1> HIDE DEF n, x, v
  <1>4. \A i \in 1 .. Len(v) : v[i] \notin {DQ, SQ}
    <2> TAKE i \in 1 .. Len(v)
    <2>1. i \in 1 .. (b - 1) - (a + 1) + 1 /\ (a + 1) + i - 1 \in a + 1 .. b - 1
      BY <1>0, <1>2
    <2> QED
      BY <1>2, <2>1
  <1>5. x[1] = q /\ x[Len(x)] = q /\ x # <<>>
    <2>1. /\ 1 \in 1 .. b - a + 1 /\ a + 1 - 1 = a
          /\ Len(x) \in 1 .. b - a + 1 /\ a + Len(x) - 1 = b /\ Len(x) # 0
      BY <1>0, <1>3
    <2>2. x[1] = line[a] /\ x[Len(x)] = line[b]
      BY <1>3, <2>1
    <2> QED
      BY <2>1, <2>2
  <1>6. Unquote(v, SQ) = v
    <2>1. v # <<>> => 1 \in 1 .. Len(v) /\ Len(v) \in 1 .. Len(v)
      BY <1>2, Elements
    <2> QED
      BY <1>2, <1>4, <2>1, UnquoteBare
  <1>7. CASE q = DQ
    BY <1>1, <1>6, <1>7 DEF Bare, x, v
  <1>8. CASE q = SQ
    <2>1. Unquote(x, DQ) = x
      BY <1>0, <1>3, <1>5, <1>8, UnquoteBare
    <2> QED
      BY <1>1, <1>8, <2>1 DEF Bare, x, v
  <1> QED
    BY <1>7, <1>8

-----------------------------------------------------------------------------
\* What Regular says of the quotes of a line: they are all of one kind.
OneKind(line, q) == \A k \in 1 .. Len(line) : line[k] \in {DQ, SQ} => line[k] = q

LEMMA OneKindOfQuote ==
    ASSUME NEW S, NEW line \in Seq(S), NEW q,
           Positions(line, {DQ, SQ}) = Positions(line, {q})
    PROVE  OneKind(line, q)
  <1>1. DOMAIN line = 1 .. Len(line)
    BY Elements
  <1> QED
    BY <1>1 DEF OneKind, Positions

LEMMA StringsTyped ==
    ASSUME NEW S, NEW line \in Seq(S)
    PROVE  Strings(line) \in Seq(Seq(S))
  <1>1. PICK f : /\ Scan(f, Len(line), Seq(S), Openings(line), Closes(line), Literals(line))
                 /\ Strings(line) = f[1]
    BY StringsAreScanned
  <1>2. 1 \in 1 .. Len(line) + 1
    BY Elements
  <1> QED
    BY <1>1, <1>2 DEF Scan

LEMMA MatchesTyped ==
    ASSUME NEW S, NEW line \in Seq(S), NEW q \in {DQ, SQ}, NEW class, NEW least
    PROVE  /\ Matches(line, q, class, least) \in Seq(Seq(S))
           /\ line = <<>> => Matches(line, q, class, least) = <<>>
  <1>1. PICK f : /\ Scan(f, Len(line), Seq(S), Matching(line, q, class, least),
                         Closes(line), Quoted(line))
                 /\ Matches(line, q, class, least) = f[1]
    BY MatchesAreScanned
  <1>2. 1 \in 1 .. Len(line) + 1 /\ (line = <<>> => 1 > Len(line))
    BY Elements, EmptySeq
  <1>3. f[1] \in Seq(Seq(S))
    BY <1>1, <1>2 DEF Scan
  <1>4. f[1] = Scanned(f, Len(line), Matching(line, q, class, least), Closes(line),
                       Quoted(line), 1)
    BY <1>1, <1>2 DEF Scan, Follows
  <1>5. line = <<>> => f[1] = <<>>
    BY <1>2, <1>4 DEF Scanned
  <1> QED
    BY <1>1, <1>3, <1>5

\* Between the two quotes of an opening there is no other quote.
LEMMA InnerFacts ==
    ASSUME NEW S, NEW line \in Seq(S), NEW q \in {DQ, SQ}, OneKind(line, q),
           NEW a \in Openings(line)
    PROVE  /\ a \in 1 .. Len(line) /\ Closes(line)[a] \in a + 1 .. Len(line)
           /\ line[a] = q /\ line[Closes(line)[a]] = q
           /\ Inner(line, a) \in Seq(S)
           /\ Bare(Quoted(line)[a]) = Inner(line, a)
           /\ Quoted(line)[a] \in Seq(S)
           /\ \A k \in a + 1 .. Closes(line)[a] - 1 : line[k] \notin {DQ, SQ}
  <1> DEFINE n == Len(line)
             b == Closes(line)[a]
  <1>1. /\ n \in Nat /\ a \in 1 .. n /\ b \in a + 1 .. n /\ line[b] = line[a]
        /\ \A k \in a + 1 .. b - 1 : line[k] # line[a]
    BY ClosesFacts, Elements
  <1>2. line[a] \in {DQ, SQ}
    BY DEF Openings
  <1>3. Quoted(line)[a] = SubSeq(line, a, b) /\ Inner(line, a) = SubSeq(line, a + 1, b - 1)
    BY <1>1 DEF Quoted, Inner
  <1> HIDE DEF b
  <1>4. line[a] = q /\ line[b] = q
    BY <1>1, <1>2 DEF OneKind
  <1>5. \A k \in a + 1 .. b - 1 : line[k] \notin {DQ, SQ}
    <2> TAKE k \in a + 1 .. b - 1
    <2>1. k \in 1 .. n
      BY <1>1
    <2> QED
      BY <1>1, <1>4, <2>1 DEF OneKind
  <1>6. Bare(SubSeq(line, a, b)) = SubSeq(line, a + 1, b - 1)
    BY <1>1, <1>4, <1>5, BareQuoted
  <1>7. /\ a + 1 \in 1 .. n + 1 /\ b - 1 \in 0 .. n
        /\ a \in 1 .. n + 1 /\ b \in 0 .. n
    BY <1>1
  <1>8. SubSeq(line, a + 1, b - 1) \in Seq(S) /\ SubSeq(line, a, b) \in Seq(S)
    BY <1>7, Slice
  <1> QED
    BY <1>1, <1>3, <1>4, <1>5, <1>6, <1>8 DEF b

\* grep finds each string of a line of one kind of quotes, if all of them are long
\* enough for it.
LEMMA StringsAreMatched ==
    ASSUME NEW line \in Seq(DOMAIN Width), NEW q \in {DQ, SQ}, OneKind(line, q),
           \A s \in ToSet(Strings(line)) : Chars(s) >= 2
    PROVE  \A s \in ToSet(Strings(line)) :
              \E x \in ToSet(Matches(line, q, DOMAIN Width, 2)) : Bare(x) = s
  <1> DEFINE S == DOMAIN Width
             n == Len(line)
             hit == Openings(line)
             found == Matching(line, q, DOMAIN Width, 2)
             close == Closes(line)
             item == Literals(line)
             other == Quoted(line)
             Good == {s \in Seq(S) : Chars(s) >= 2}
  <1>1. PICK f : Scan(f, n, Seq(S), hit, close, item) /\ Strings(line) = f[1]
    BY StringsAreScanned
  <1>2. PICK g : Scan(g, n, Seq(S), found, close, other)
                 /\ Matches(line, q, DOMAIN Width, 2) = g[1]
    BY MatchesAreScanned
  <1>3. ASSUME NEW i \in hit
        PROVE  /\ i \in 1 .. n /\ close[i] \in i + 1 .. n /\ item[i] = Inner(line, i)
               /\ item[i] \in Seq(S) /\ other[i] \in Seq(S) /\ line[i] = q
               /\ Bare(other[i]) = item[i]
    <2>1. /\ i \in 1 .. n /\ close[i] \in i + 1 .. n
          /\ Inner(line, i) \in Seq(S) /\ other[i] \in Seq(S) /\ line[i] = q
          /\ Bare(other[i]) = Inner(line, i)
      BY InnerFacts
    <2> QED
      BY <2>1 DEF Literals
  <1>4. found \subseteq hit
    BY DEF Matching
  <1>5. ASSUME NEW i \in hit, item[i] \in Good PROVE i \in found
    <2>1. ToSet(Inner(line, i)) \subseteq DOMAIN Width
      <3> DEFINE t == Inner(line, i)
      <3>1. t \in Seq(DOMAIN Width)
        BY <1>3
      <3> HIDE DEF t
      <3>2. \A x \in ToSet(t) : x \in DOMAIN Width
        BY ONLY <3>1, Elements
      <3> QED
        BY <3>2 DEF t
    <2> QED
      BY <1>3, <1>5, <2>1, Zenon DEF Matching
  <1>6. ToSet(f[1]) \subseteq Good
    <2>1. f[1] \in Seq(Seq(S))
      BY <1>1, StringsTyped
    <2>2. \A s \in ToSet(f[1]) : s \in Seq(S)
      BY <2>1, Elements
    <2> QED
      BY <1>1, <2>2
  <1>7. n \in Nat /\ hit \in SUBSET (1 .. n)
    BY <1>3, Elements
  <1> HIDE DEF hit, found, close, item, other, Good, n
  <1>8. \A i \in hit : close[i] \in i + 1 .. n /\ item[i] \in Seq(S)
    BY <1>3
  <1>9. \A i \in found : other[i] \in Seq(S)
    BY <1>3, <1>4
  <1>10. Finds(f, g, hit, item, other)
    <2> DEFINE V == Seq(S)
    <2>1. Scan(f, n, V, hit, close, item) /\ Scan(g, n, V, found, close, other)
      BY <1>1, <1>2
    <2>2. Covers(n, V, V, hit, found, close, item, other, Good)
      BY <1>4, <1>5, <1>7, <1>8, <1>9 DEF Covers
    <2> HIDE DEF V
    <2> QED
      BY ONLY <1>6, <1>7, <2>1, <2>2, ScanFindsAll
  <1> QED
    BY <1>1, <1>2, <1>3, <1>10 DEF Finds

\* The quotes of a line from a place on.
QuotesFrom(line, i) == {k \in 1 .. Len(line) : k >= i /\ line[k] \in {DQ, SQ}}

LEMMA QuotesFromFacts ==
    ASSUME NEW S, NEW line \in Seq(S), NEW i
    PROVE  IsFiniteSet(QuotesFrom(line, i)) /\ Cardinality(QuotesFrom(line, i)) \in Nat
  <1>1. Len(line) \in Nat
    BY Elements
  <1>2. IsFiniteSet(1 .. Len(line))
    BY <1>1, FS_Interval
  <1>3. QuotesFrom(line, i) \in SUBSET (1 .. Len(line))
    BY DEF QuotesFrom
  <1>4. IsFiniteSet(QuotesFrom(line, i))
    BY <1>2, <1>3, FS_Subset
  <1> QED
    BY <1>4, FS_CardinalityType

\* Between the two last of some quotes there is the literal l.
LastTwo(line, quotes, l) ==
    \E o, c \in quotes : /\ o < c /\ l = SubSeq(line, o + 1, c - 1)
                         /\ \A k \in quotes : k <= o \/ k = c

\* As many quotes as the strings take, or more; if no more, the last string is
\* between the last two of them.
Counted(line, quotes, strings) ==
    /\ Cardinality(quotes) >= 2 * Len(strings)
    /\ Cardinality(quotes) = 2 * Len(strings) =>
          IF strings = <<>> THEN quotes = {} ELSE LastTwo(line, quotes, Last(strings))

LEMMA StringsAreCounted ==
    ASSUME NEW S, NEW line \in Seq(S), NEW q \in {DQ, SQ}, OneKind(line, q)
    PROVE  Counted(line, QuotesFrom(line, 1), Strings(line))
  <1> DEFINE n == Len(line)
             hit == Openings(line)
             close == Closes(line)
             item == Literals(line)
             Q(i) == QuotesFrom(line, i)
  <1>1. PICK f : Scan(f, n, Seq(S), hit, close, item) /\ Strings(line) = f[1]
    BY StringsAreScanned
  <1>2. /\ f \in [1 .. n + 1 -> Seq(Seq(S))]
        /\ \A i \in 1 .. n + 1 : f[i] = Scanned(f, n, hit, close, item, i)
    BY <1>1 DEF Scan, Follows
  <1>3. ASSUME NEW i \in hit
        PROVE  /\ i \in 1 .. n /\ close[i] \in i + 1 .. n /\ line[i] = q /\ line[close[i]] = q
               /\ item[i] = SubSeq(line, i + 1, close[i] - 1) /\ item[i] \in Seq(S)
               /\ \A k \in i + 1 .. close[i] - 1 : line[k] \notin {DQ, SQ}
    <2>1. /\ i \in 1 .. n /\ close[i] \in i + 1 .. n /\ line[i] = q /\ line[close[i]] = q
          /\ Inner(line, i) \in Seq(S)
          /\ \A k \in i + 1 .. close[i] - 1 : line[k] \notin {DQ, SQ}
      BY InnerFacts
    <2> QED
      BY <2>1 DEF Literals, Inner
  <1>4. n \in Nat /\ \A i \in 1 .. n + 1 : Len(f[i]) \in Nat
    <2>1. n \in Nat
      BY Elements
    <2>2. \A i \in 1 .. n + 1 : f[i] \in Seq(Seq(S))
      BY <1>2
    <2> QED
      BY <2>1, <2>2, LenProperties
  <1>5. \A i : IsFiniteSet(Q(i)) /\ Cardinality(Q(i)) \in Nat
    BY QuotesFromFacts
  <1>6. \A i, k : k \in Q(i) <=> k \in 1 .. n /\ k >= i /\ line[k] \in {DQ, SQ}
    BY DEF QuotesFrom
  <1> HIDE DEF n, hit, close, item, Q
  <1> DEFINE T == {i \in 1 .. n + 1 : Counted(line, Q(i), f[i])}
  <1>7. n + 1 \in T
    <2>1. n + 1 \in 1 .. n + 1 /\ n + 1 > n
      BY <1>4
    <2>2. f[n + 1] = <<>> /\ Len(f[n + 1]) = 0
      <3>1. f[n + 1] = <<>>
        BY <1>2, <2>1, Zenon DEF Scanned
      <3> QED
        BY <3>1
    <2>3. Q(n + 1) = {}
      BY <1>4, <1>6
    <2>4. Cardinality(Q(n + 1)) = 0
      BY <2>3, FS_EmptySet
    <2>5. Counted(line, Q(n + 1), f[n + 1])
      BY <2>2, <2>3, <2>4 DEF Counted
    <2> QED
      BY <2>1, <2>5
  <1>8. ASSUME NEW i \in 1 .. n, \A j \in i + 1 .. n + 1 : j \in T PROVE i \in T
    <2>1. i \in 1 .. n + 1 /\ ~(i > n) /\ i + 1 \in i + 1 .. n + 1 /\ i + 1 \in 1 .. n + 1
      BY <1>4
    <2>2. CASE i \in hit
      <3> DEFINE c == close[i]
                 m == close[i] + 1
                 s == f[m]
                 x == item[i]
                 R == Q(m)
      <3>1. /\ c \in i + 1 .. n /\ c \in Nat /\ m = c + 1 /\ m \in i + 1 .. n + 1
            /\ m \in 1 .. n + 1 /\ line[i] = q /\ line[c] = q
            /\ x = SubSeq(line, i + 1, c - 1) /\ x \in Seq(S)
            /\ \A k \in i + 1 .. c - 1 : line[k] \notin {DQ, SQ}
        BY <1>3, <1>4, <2>2
      <3>2. Counted(line, R, s)
        <4>1. m \in T
          BY <1>8, <3>1, Zenon
        <4> QED
          BY <4>1
      <3>3. f[i] = <<x>> \o s /\ s \in Seq(Seq(S)) /\ Len(s) \in Nat
        BY <1>2, <1>4, <2>1, <2>2, <3>1 DEF Scanned
      <3> HIDE DEF c, m, s, x, R, T
      <3>4. /\ Len(f[i]) = 1 + Len(s) /\ f[i] # <<>>
            /\ Last(f[i]) = IF s = <<>> THEN x ELSE Last(s)
        <4> DEFINE V == Seq(S)
        <4>1. x \in V /\ s \in Seq(V)
          BY <3>1, <3>3
        <4> HIDE DEF V
        <4>2. /\ Len(<<x>> \o s) = 1 + Len(s) /\ <<x>> \o s # <<>>
              /\ Last(<<x>> \o s) = IF s = <<>> THEN x ELSE Last(s)
          BY ONLY <4>1, ConsHolds
        <4> QED
          BY <3>3, <4>2, Zenon
      <3>5. \A k : k \in R <=> k \in 1 .. n /\ k >= m /\ line[k] \in {DQ, SQ}
        BY <1>6 DEF R
      <3>6. \A k : k \in Q(i) <=> k = i \/ k = c \/ k \in R
        <4>1. ASSUME NEW k \in Q(i) PROVE k = i \/ k = c \/ k \in R
          <5>1. k \in 1 .. n /\ k >= i /\ line[k] \in {DQ, SQ}
            BY <1>6
          <5>2. k \notin i + 1 .. c - 1
            BY <3>1, <5>1
          <5> QED
            BY <3>1, <3>5, <5>1, <5>2
        <4>2. ASSUME NEW k, k = i \/ k = c \/ k \in R PROVE k \in Q(i)
          <5>1. CASE k = i
            BY <1>6, <3>1, <5>1
          <5>2. CASE k = c
            BY <1>4, <1>6, <3>1, <5>2
          <5>3. CASE k \in R
            BY <1>6, <3>1, <3>5, <5>3
          <5> QED
            BY <4>2, <5>1, <5>2, <5>3
        <4> QED
          BY <4>1, <4>2
      <3>7. IsFiniteSet(R) /\ Cardinality(R) \in Nat
        BY <1>5 DEF R
      <3>8. Cardinality(Q(i)) = Cardinality(R) + 2
        <4>1. Q(i) = (R \cup {c}) \cup {i}
          BY <3>6
        <4>2. c \notin R /\ i \notin R /\ i # c
          BY <3>1, <3>5
        <4>3. IsFiniteSet(R \cup {c}) /\ Cardinality(R \cup {c}) = Cardinality(R) + 1
          BY <3>7, <4>2, FS_AddElement
        <4>4. Cardinality((R \cup {c}) \cup {i}) = Cardinality(R \cup {c}) + 1
          BY <4>2, <4>3, FS_AddElement
        <4> QED
          BY <3>7, <4>1, <4>3, <4>4
      <3>9. /\ Cardinality(R) >= 2 * Len(s)
            /\ Cardinality(R) = 2 * Len(s) =>
                  IF s = <<>> THEN R = {} ELSE LastTwo(line, R, Last(s))
        BY <3>2 DEF Counted
      <3>10. Cardinality(Q(i)) >= 2 * Len(f[i])
        <4> DEFINE r == Cardinality(R)
                   l == Len(s)
                   p == Cardinality(Q(i))
                   t == Len(f[i])
        <4>1. r \in Nat /\ l \in Nat /\ p = r + 2 /\ t = 1 + l /\ r >= 2 * l
          BY <3>3, <3>4, <3>7, <3>8, <3>9
        <4> HIDE DEF r, l, p, t
        <4>2. p >= 2 * t
          BY <4>1
        <4> QED
          BY <4>2 DEF p, t
      <3>11. ASSUME Cardinality(Q(i)) = 2 * Len(f[i])
             PROVE  LastTwo(line, Q(i), Last(f[i]))
        <4>1. Cardinality(R) = 2 * Len(s)
          <5> DEFINE r == Cardinality(R)
                     l == Len(s)
                     p == Cardinality(Q(i))
                     t == Len(f[i])
          <5>1. r \in Nat /\ l \in Nat /\ p = r + 2 /\ t = 1 + l /\ p = 2 * t
            BY <3>3, <3>4, <3>7, <3>8, <3>11
          <5> HIDE DEF r, l, p, t
          <5>2. r = 2 * l
            BY <5>1
          <5> QED
            BY <5>2 DEF r, l
        <4>2. CASE s = <<>>
          <5>1. R = {}
            BY <3>9, <4>1, <4>2
          <5>2. i \in Q(i) /\ c \in Q(i) /\ i < c /\ Last(f[i]) = SubSeq(line, i + 1, c - 1)
                /\ \A k \in Q(i) : k <= i \/ k = c
            BY <3>1, <3>4, <3>6, <4>2, <5>1
          <5> QED
            BY <5>2, Zenon DEF LastTwo
        <4>3. CASE s # <<>>
          <5>1. PICK o, d \in R : /\ o < d /\ Last(s) = SubSeq(line, o + 1, d - 1)
                                  /\ \A k \in R : k <= o \/ k = d
            BY <3>9, <4>1, <4>3 DEF LastTwo
          <5>2. o \in Q(i) /\ d \in Q(i) /\ Last(f[i]) = SubSeq(line, o + 1, d - 1)
            BY <3>4, <3>6, <4>3, <5>1
          <5>3. i <= o /\ c <= o
            BY <3>1, <3>5, <5>1
          <5>4. \A k \in Q(i) : k <= o \/ k = d
            BY <3>6, <5>1, <5>3
          <5> QED
            BY <5>1, <5>2, <5>4, Zenon DEF LastTwo
        <4> QED
          BY <4>2, <4>3
      <3>12. Counted(line, Q(i), f[i])
        BY <3>4, <3>10, <3>11 DEF Counted
      <3> QED
        BY <2>1, <3>12 DEF T
    <2>3. CASE i \notin hit
      <3> DEFINE s == f[i + 1]
                 R == Q(i + 1)
      <3>1. f[i] = s /\ Len(s) \in Nat
        BY <1>2, <1>4, <2>1, <2>3 DEF Scanned
      <3>2. Counted(line, R, s)
        <4>1. i + 1 \in T
          BY <1>8, <2>1, Zenon
        <4> QED
          BY <4>1
      <3>3. \A k : k \in R <=> k \in 1 .. n /\ k >= i + 1 /\ line[k] \in {DQ, SQ}
        BY <1>6
      <3> HIDE DEF s, R, T
      <3>4. CASE line[i] \notin {DQ, SQ}
        <4>1. \A k : k \in Q(i) <=> k \in R
          BY <1>6, <3>3, <3>4
        <4>2. Q(i) = R
          BY <4>1
        <4> QED
          BY <2>1, <3>1, <3>2, <4>2 DEF T
      <3>5. CASE line[i] \in {DQ, SQ}
        <4>1. \A k : k \in Q(i) <=> k = i \/ k \in R
          BY <1>6, <3>3, <3>5
        <4>2. Q(i) = R \cup {i} /\ i \notin R
          BY <3>3, <4>1
        <4>3. IsFiniteSet(R) /\ Cardinality(R) \in Nat
          BY <1>5 DEF R
        <4>4. Cardinality(Q(i)) = Cardinality(R) + 1
          BY <4>2, <4>3, FS_AddElement
        <4>5. Cardinality(R) >= 2 * Len(s)
          BY <3>2 DEF Counted
        <4>6. Counted(line, Q(i), f[i])
          BY <3>1, <4>3, <4>4, <4>5 DEF Counted
        <4> QED
          BY <2>1, <4>6 DEF T
      <3> QED
        BY <3>4, <3>5
    <2> QED
      BY <2>2, <2>3
  <1> HIDE DEF T
  <1>9. 1 .. n + 1 \subseteq T
    BY <1>4, <1>7, <1>8, Downwards
  <1>10. 1 \in T
    BY <1>4, <1>9
  <1> QED
    BY <1>1, <1>10 DEF T, Q

LEMMA QuotesArePositions ==
    ASSUME NEW S, NEW line \in Seq(S)
    PROVE  Positions(line, {DQ, SQ}) = QuotesFrom(line, 1)
  <1>1. DOMAIN line = 1 .. Len(line) /\ Len(line) \in Nat
    BY Elements
  <1> QED
    BY <1>1 DEF Positions, QuotesFrom

\* The two greatest of some quotes.
LEMMA TwoGreatest ==
    ASSUME NEW n \in Nat, NEW quotes \in SUBSET (1 .. n),
           NEW o \in quotes, NEW c \in quotes, o < c, \A k \in quotes : k <= o \/ k = c
    PROVE  Max(quotes) = c /\ Max(quotes \ {Max(quotes)}) = o
  <1>1. quotes \in SUBSET (0 .. n) /\ quotes # {}
    OBVIOUS
  <1>2. Max(quotes) \in quotes /\ \A k \in quotes : Max(quotes) >= k
    BY <1>1, MaxIsGreatest
  <1> DEFINE m == Max(quotes)
             rest == quotes \ {c}
             r == Max(rest)
  <1>3. m \in quotes /\ \A k \in quotes : m >= k
    BY <1>2
  <1>4. o \in rest /\ rest \in SUBSET (0 .. n)
    OBVIOUS
  <1>5. r \in rest /\ \A k \in rest : r >= k
    BY <1>4, MaxIsGreatest
  <1>6. r \in quotes /\ r # c /\ r >= o
    BY <1>4, <1>5
  <1> HIDE DEF m, r
  <1>7. m \in 1 .. n /\ r \in 1 .. n /\ o \in 1 .. n /\ c \in 1 .. n
    BY <1>3, <1>6
  <1>8. m >= c /\ (m <= o \/ m = c) /\ (r <= o \/ r = c)
    BY <1>3, <1>6
  <1>9. m = c /\ r = o
    BY <1>6, <1>7, <1>8
  <1> QED
    BY <1>9 DEF m, r, rest

\* What sed takes, in terms of the positions of the quotes.
LEMMA UnfoldedLastLiteral ==
    ASSUME NEW S, NEW line \in Seq(S)
    PROVE  LET quotes == QuotesFrom(line, 1)
               close == Max(quotes)
               open == Max(quotes \ {close})
           IN  LastLiteral(line) = IF Cardinality(quotes) < 2 \/ open + 1 = close THEN <<>>
                                   ELSE <<SubSeq(line, open + 1, close - 1)>>
  <1> DEFINE quotes == Positions(line, {DQ, SQ})
             close == Max(quotes)
             open == Max(quotes \ {close})
  <1>1. LastLiteral(line) = IF Cardinality(quotes) < 2 \/ open + 1 = close THEN <<>>
                            ELSE <<SubSeq(line, open + 1, close - 1)>>
    BY DEF LastLiteral
  <1>2. quotes = QuotesFrom(line, 1)
    BY QuotesArePositions
  <1> HIDE DEF quotes
  <1> QED
    BY <1>1, <1>2

\* Whatever the line, what sed takes of it is a literal or nothing.
LEMMA LastLiteralTyped ==
    ASSUME NEW S, NEW line \in Seq(S)
    PROVE  LastLiteral(line) \in Seq(Seq(S)) /\ (line = <<>> => LastLiteral(line) = <<>>)
  <1> DEFINE n == Len(line)
             quotes == QuotesFrom(line, 1)
             close == Max(quotes)
             open == Max(quotes \ {close})
  <1>1. n \in Nat /\ quotes \in SUBSET (1 .. n) /\ (line = <<>> => n = 0)
    BY Elements, EmptySeq DEF QuotesFrom
  <1>2. LastLiteral(line) = IF Cardinality(quotes) < 2 \/ open + 1 = close THEN <<>>
                            ELSE <<SubSeq(line, open + 1, close - 1)>>
    BY UnfoldedLastLiteral
  <1>3. IsFiniteSet(quotes) /\ Cardinality(quotes) \in Nat
    BY QuotesFromFacts
  <1>4. CASE Cardinality(quotes) < 2
    BY <1>2, <1>4
  <1>5. CASE ~(Cardinality(quotes) < 2)
    <2> HIDE DEF n, quotes
    <2>1. quotes # {}
      BY <1>5, FS_EmptySet
    <2>2. quotes \in SUBSET (0 .. n)
      BY <1>1
    <2>3. close \in quotes
      BY <1>1, <2>1, <2>2, MaxIsGreatest
    <2> DEFINE rest == quotes \ {close}
    <2> HIDE DEF close
    <2>4. Cardinality(rest) = Cardinality(quotes) - 1
      BY <1>3, <2>3, FS_RemoveElement
    <2>5. rest # {} /\ rest \in SUBSET (0 .. n)
      <3>1. rest \in SUBSET (0 .. n)
        BY <2>2
      <3> HIDE DEF rest
      <3>2. Cardinality(rest) # 0
        BY <1>3, <1>5, <2>4
      <3> QED
        BY <3>1, <3>2, FS_EmptySet
    <2> HIDE DEF rest
    <2>6. Max(rest) \in rest
      BY <1>1, <2>5, MaxIsGreatest
    <2>7. open \in 1 .. n /\ close \in 1 .. n
      BY <1>1, <2>3, <2>6 DEF rest
    <2> HIDE DEF open
    <2>8. open + 1 \in 1 .. n + 1 /\ close - 1 \in 0 .. n
      BY <1>1, <2>7
    <2>9. SubSeq(line, open + 1, close - 1) \in Seq(S)
      BY <2>8, Slice DEF n
    <2>10. line = <<>> => FALSE
      BY <1>1, <2>7
    <2> QED
      BY <1>2, <2>9, <2>10
  <1> QED
    BY <1>4, <1>5

\* Of a regular line it takes the last string, and nothing of a line without one.
LEMMA LastLiteralOfRegular ==
    ASSUME NEW S, NEW line \in Seq(S), Regular(line)
    PROVE  /\ Strings(line) = <<>> => LastLiteral(line) = <<>>
           /\ Strings(line) # <<>> => /\ LastLiteral(line) = <<Last(Strings(line))>>
                                      /\ Bare(Last(Strings(line))) = Last(Strings(line))
                                      /\ Visible(Last(Strings(line)))
  <1> DEFINE n == Len(line)
             quotes == QuotesFrom(line, 1)
             close == Max(quotes)
             open == Max(quotes \ {close})
             s == Last(Strings(line))
  <1>1. n \in Nat /\ quotes \in SUBSET (1 .. n)
    BY Elements DEF QuotesFrom
  <1>2. LastLiteral(line) = IF Cardinality(quotes) < 2 \/ open + 1 = close THEN <<>>
                            ELSE <<SubSeq(line, open + 1, close - 1)>>
    BY UnfoldedLastLiteral
  <1>3. PICK q \in {DQ, SQ} : OneKind(line, q)
    BY OneKindOfQuote DEF Regular
  <1>4. Cardinality(quotes) = 2 * Len(Strings(line))
    BY QuotesArePositions, Zenon DEF Regular
  <1>5. IF Strings(line) = <<>> THEN quotes = {} ELSE LastTwo(line, quotes, s)
    BY <1>3, <1>4, StringsAreCounted DEF Counted
  <1>6. CASE Strings(line) = <<>>
    <2>1. Cardinality(quotes) = 0
      BY <1>5, <1>6, FS_EmptySet
    <2> QED
      BY <1>2, <1>6, <2>1
  <1>7. CASE Strings(line) # <<>>
    <2>1. PICK o, c \in quotes : /\ o < c /\ s = SubSeq(line, o + 1, c - 1)
                                 /\ \A k \in quotes : k <= o \/ k = c
      BY <1>5, <1>7 DEF LastTwo
    <2>2. Strings(line) \in Seq(Seq(S))
      BY StringsTyped
    <2>3. Len(Strings(line)) \in 1 .. Len(Strings(line))
      BY <1>7, <2>2, Elements
    <2>4. s \in ToSet(Strings(line)) /\ s \in Seq(S)
      BY <2>2, <2>3, Elements DEF Last
    <2>5. Visible(s)
      BY <2>4 DEF Regular
    <2> HIDE DEF quotes, s, n
    <2>6. close = c /\ open = o
      BY <1>1, <2>1, TwoGreatest
    <2>7. o \in 1 .. n /\ c \in 1 .. n /\ o < c /\ n \in Nat
      BY <1>1, <2>1
    <2>8. /\ Len(s) = IF o + 1 <= c - 1 THEN (c - 1) - (o + 1) + 1 ELSE 0
          /\ \A i \in 1 .. (c - 1) - (o + 1) + 1 : s[i] = line[(o + 1) + i - 1]
      <3>1. o + 1 \in 1 .. n + 1 /\ c - 1 \in 0 .. n
        BY <2>7
      <3> QED
        BY <2>1, <3>1, Slice DEF n
    <2>9. Len(s) # 0
      <3>1. DOMAIN s # {}
        BY <2>5 DEF Visible
      <3>2. DOMAIN s = 1 .. Len(s)
        BY <2>4, Elements
      <3> QED
        BY <3>1, <3>2
    <2>10. o + 1 # c
      BY <2>7, <2>8, <2>9
    <2>11. ~(Cardinality(quotes) < 2)
      <3> DEFINE l == Len(Strings(line))
      <3>1. l \in 1 .. l /\ l \in Nat
        BY <2>2, <2>3, Elements
      <3> HIDE DEF l
      <3>2. ~(2 * l < 2)
        BY <3>1
      <3> QED
        BY <1>4, <3>2 DEF l
    <2>12. LastLiteral(line) = <<s>>
      BY <1>2, <2>1, <2>6, <2>10, <2>11
    <2>13. \A i \in 1 .. Len(s) : s[i] \notin {DQ, SQ}
      <3> TAKE i \in 1 .. Len(s)
      <3> DEFINE k == (o + 1) + i - 1
      <3>1. i \in 1 .. (c - 1) - (o + 1) + 1 /\ k > o /\ k < c /\ k \in 1 .. n
        BY <2>7, <2>8
      <3>2. s[i] = line[k]
        BY <2>8, <3>1
      <3> HIDE DEF k
      <3>3. k \notin quotes
        BY <2>1, <2>7, <3>1
      <3> QED
        BY <3>1, <3>2, <3>3 DEF quotes, QuotesFrom, n
    <2>14. Bare(s) = s
      BY <2>4, <2>13, BareBare
    <2> QED
      BY <1>7, <2>5, <2>12, <2>14 DEF s
  <1> QED
    BY <1>6, <1>7

\* The literals sed takes of each line, and those grep finds between quotes of
\* one kind.
Answers(text) ==
    [k \in DOMAIN text |-> IF HasKey(text[k]) THEN LastLiteral(text[k]) ELSE <<>>]
Marked(text, q) == [k \in DOMAIN text |-> Matches(text[k], q, DOMAIN Width, 2)]
Gathered(text) ==
    FlattenSeq(Answers(text)) \o FlattenSeq(Marked(text, DQ)) \o FlattenSeq(Marked(text, SQ))
Bared(all) == [k \in DOMAIN all |-> IF Visible(Bare(all[k])) THEN <<Bare(all[k])>> ELSE <<>>]

LEMMA CandidatesAreGathered ==
    ASSUME NEW text
    PROVE  Candidates(text) = IF Binary(text) THEN <<>>
                              ELSE Distinct(FlattenSeq(Bared(Gathered(text))))
  BY DEF Candidates, OfEach, Answers, Marked, Gathered, Bared, Bare

\* A list of the same length.
LEMMA SameLength ==
    ASSUME NEW S, NEW text \in Seq(S), NEW V, NEW ss, ss = [k \in DOMAIN text |-> ss[k]],
           \A k \in 1 .. Len(text) : ss[k] \in V
    PROVE  ss \in Seq(V) /\ Len(ss) = Len(text)
  <1>1. DOMAIN text = 1 .. Len(text) /\ Len(text) \in Nat
    BY Elements
  <1> QED
    BY <1>1

LEMMA AnswersFacts ==
    ASSUME NEW S, NEW text \in Seq(Seq(S))
    PROVE  /\ Answers(text) \in Seq(Seq(Seq(S))) /\ Len(Answers(text)) = Len(text)
           /\ \A k \in 1 .. Len(text) :
                 Answers(text)[k] = IF HasKey(text[k]) THEN LastLiteral(text[k]) ELSE <<>>
  <1> DEFINE L == Seq(S)
             ss == Answers(text)
  <1>1. DOMAIN text = 1 .. Len(text) /\ \A k \in 1 .. Len(text) : text[k] \in Seq(S)
    BY Elements
  <1>2. \A k \in 1 .. Len(text) : ss[k] = IF HasKey(text[k]) THEN LastLiteral(text[k]) ELSE <<>>
    BY <1>1 DEF Answers
  <1>3. \A k \in 1 .. Len(text) : ss[k] \in Seq(L)
    <2> TAKE k \in 1 .. Len(text)
    <2>1. LastLiteral(text[k]) \in Seq(L)
      BY <1>1, LastLiteralTyped
    <2>2. <<>> \in Seq(L)
      OBVIOUS
    <2> QED
      BY <1>2, <2>1, <2>2
  <1>4. ss = [k \in DOMAIN text |-> ss[k]]
    BY DEF Answers
  <1> HIDE DEF ss, L
  <1>5. ss \in Seq(Seq(L)) /\ Len(ss) = Len(text)
    BY <1>3, <1>4, SameLength
  <1> QED
    BY <1>2, <1>5 DEF ss, L

LEMMA MarkedFacts ==
    ASSUME NEW S, NEW text \in Seq(Seq(S)), NEW q \in {DQ, SQ}
    PROVE  /\ Marked(text, q) \in Seq(Seq(Seq(S))) /\ Len(Marked(text, q)) = Len(text)
           /\ \A k \in 1 .. Len(text) :
                 Marked(text, q)[k] = Matches(text[k], q, DOMAIN Width, 2)
  <1> DEFINE L == Seq(S)
             ss == Marked(text, q)
  <1>1. DOMAIN text = 1 .. Len(text) /\ \A k \in 1 .. Len(text) : text[k] \in Seq(S)
    BY Elements
  <1>2. \A k \in 1 .. Len(text) : ss[k] = Matches(text[k], q, DOMAIN Width, 2)
    BY <1>1 DEF Marked
  <1>3. \A k \in 1 .. Len(text) : ss[k] \in Seq(L)
    <2> TAKE k \in 1 .. Len(text)
    <2>1. Matches(text[k], q, DOMAIN Width, 2) \in Seq(L)
      BY <1>1, MatchesTyped
    <2> QED
      BY <1>2, <2>1
  <1>4. ss = [k \in DOMAIN text |-> ss[k]]
    BY DEF Marked
  <1> HIDE DEF ss, L
  <1>5. ss \in Seq(Seq(L)) /\ Len(ss) = Len(text)
    BY <1>3, <1>4, SameLength
  <1> QED
    BY <1>2, <1>5 DEF ss, L

LEMMA GatheredFacts ==
    ASSUME NEW S, NEW text \in Seq(Seq(S))
    PROVE  /\ Gathered(text) \in Seq(Seq(S))
           /\ FlattenSeq(Answers(text)) \in Seq(Seq(S))
           /\ FlattenSeq(Answers(text)) # <<>> =>
                 /\ Gathered(text) # <<>>
                 /\ Gathered(text)[1] = FlattenSeq(Answers(text))[1]
           /\ \A q \in {DQ, SQ} :
                 \A x \in ToSet(FlattenSeq(Marked(text, q))) : x \in ToSet(Gathered(text))
           /\ (\A k \in 1 .. Len(text) : text[k] = <<>>) => Gathered(text) = <<>>
  <1> DEFINE L == Seq(S)
             a == FlattenSeq(Answers(text))
             d == FlattenSeq(Marked(text, DQ))
             s == FlattenSeq(Marked(text, SQ))
             ad == a \o d
  <1>1. a \in Seq(L) /\ d \in Seq(L) /\ s \in Seq(L)
    BY AnswersFacts, MarkedFacts, FlattenHolds
  <1>2. ASSUME \A k \in 1 .. Len(text) : text[k] = <<>>
        PROVE  a = <<>> /\ d = <<>> /\ s = <<>>
    <2>1. \A k \in 1 .. Len(text) : text[k] \in Seq(S)
      BY Elements
    <2>2. \A k \in 1 .. Len(Answers(text)) : Answers(text)[k] = <<>>
      BY <1>2, <2>1, AnswersFacts, LastLiteralTyped
    <2>3. \A q \in {DQ, SQ} : \A k \in 1 .. Len(Marked(text, q)) : Marked(text, q)[k] = <<>>
      <3> TAKE q \in {DQ, SQ}
      <3>1. Len(Marked(text, q)) = Len(text)
        BY MarkedFacts
      <3> SUFFICES ASSUME NEW k \in 1 .. Len(text) PROVE Marked(text, q)[k] = <<>>
        BY <3>1
      <3>2. Marked(text, q)[k] = Matches(text[k], q, DOMAIN Width, 2)
        BY MarkedFacts
      <3> QED
        BY <1>2, <2>1, <3>2, MatchesTyped
    <2> QED
      BY <2>2, <2>3, AnswersFacts, MarkedFacts, FlattenNothing
  <1>3. Gathered(text) = ad \o s
    BY DEF Gathered
  <1> HIDE DEF L, a, d, s
  <1>4. /\ ad \in Seq(L) /\ ToSet(ad) = ToSet(a) \cup ToSet(d)
        /\ (a # <<>> => ad # <<>> /\ ad[1] = a[1])
        /\ (a = <<>> => ad = d)
    BY <1>1, ConcatHolds
  <1> HIDE DEF ad
  <1>5. /\ ad \o s \in Seq(L) /\ ToSet(ad \o s) = ToSet(ad) \cup ToSet(s)
        /\ (ad # <<>> => ad \o s # <<>> /\ (ad \o s)[1] = ad[1])
        /\ (ad = <<>> => ad \o s = s)
    BY <1>1, <1>4, ConcatHolds
  <1>6. \A q \in {DQ, SQ} : \A x \in ToSet(FlattenSeq(Marked(text, q))) : x \in ToSet(Gathered(text))
    BY <1>3, <1>4, <1>5 DEF d, s
  <1>7. (\A k \in 1 .. Len(text) : text[k] = <<>>) => Gathered(text) = <<>>
    BY <1>2, <1>3, <1>4, <1>5
  <1> QED
    BY <1>1, <1>3, <1>4, <1>5, <1>6, <1>7 DEF L, a

\* What is left of a text is a text.
LEMMA UnquoteTyped ==
    ASSUME NEW S, NEW s \in Seq(S), NEW q
    PROVE  Unquote(s, q) \in Seq(S)
  <1> DEFINE t == IF s # <<>> /\ Head(s) = q THEN Tail(s) ELSE s
  <1>1. t \in Seq(S)
    OBVIOUS
  <1>2. Unquote(s, q) = IF t # <<>> /\ t[Len(t)] = q THEN Front(t) ELSE t
    BY DEF Unquote
  <1> HIDE DEF t
  <1>3. t # <<>> => SubSeq(t, 1, Len(t) - 1) \in Seq(S)
    BY <1>1
  <1> QED
    BY <1>1, <1>2, <1>3 DEF Front

LEMMA BareTyped ==
    ASSUME NEW S, NEW s \in Seq(S)
    PROVE  Bare(s) \in Seq(S)
  BY UnquoteTyped DEF Bare

LEMMA BaredFacts ==
    ASSUME NEW S, NEW all \in Seq(Seq(S))
    PROVE  /\ Bared(all) \in Seq(Seq(Seq(S))) /\ Len(Bared(all)) = Len(all)
           /\ \A k \in 1 .. Len(all) :
                 Bared(all)[k] = IF Visible(Bare(all[k])) THEN <<Bare(all[k])>> ELSE <<>>
  <1> DEFINE L == Seq(S)
             ss == Bared(all)
  <1>1. DOMAIN all = 1 .. Len(all) /\ \A k \in 1 .. Len(all) : all[k] \in Seq(S)
    BY Elements
  <1>2. \A k \in 1 .. Len(all) :
           ss[k] = IF Visible(Bare(all[k])) THEN <<Bare(all[k])>> ELSE <<>>
    BY <1>1 DEF Bared
  <1>3. \A k \in 1 .. Len(all) : ss[k] \in Seq(L)
    <2> TAKE k \in 1 .. Len(all)
    <2> DEFINE b == Bare(all[k])
    <2>1. b \in L
      BY <1>1, BareTyped
    <2>2. ss[k] = IF Visible(b) THEN <<b>> ELSE <<>>
      BY <1>2
    <2> HIDE DEF b, L
    <2>3. <<b>> \in Seq(L) /\ <<>> \in Seq(L)
      BY <2>1
    <2> QED
      BY <2>2, <2>3
  <1>4. ss = [k \in DOMAIN all |-> ss[k]]
    BY DEF Bared
  <1> HIDE DEF ss, L
  <1>5. all \in Seq(L)
    BY DEF L
  <1>6. ss \in Seq(Seq(L)) /\ Len(ss) = Len(all)
    BY <1>3, <1>4, <1>5, SameLength
  <1> QED
    BY <1>2, <1>6 DEF ss, L

\* The candidates of a text are literals, and those of a blank text are none.
LEMMA CandidatesTyped ==
    ASSUME NEW S, NEW text \in Seq(Seq(S))
    PROVE  /\ Candidates(text) \in Seq(Seq(S))
           /\ (\A k \in 1 .. Len(text) : text[k] = <<>>) => Candidates(text) = <<>>
  <1> DEFINE L == Seq(S)
             all == Gathered(text)
             bared == Bared(all)
             flat == FlattenSeq(bared)
  <1>1. /\ all \in Seq(L)
        /\ (\A k \in 1 .. Len(text) : text[k] = <<>>) => all = <<>>
    BY GatheredFacts
  <1>2. bared \in Seq(Seq(L)) /\ Len(bared) = Len(all)
    BY <1>1, BaredFacts
  <1>3. Candidates(text) = IF Binary(text) THEN <<>> ELSE Distinct(flat)
    BY CandidatesAreGathered
  <1> HIDE DEF all, bared, L
  <1>4. flat \in Seq(L)
    BY <1>2, FlattenHolds
  <1>5. Distinct(flat) \in Seq(L) /\ ToSet(Distinct(flat)) = ToSet(flat)
    BY <1>4, DistinctHolds
  <1>6. ASSUME \A k \in 1 .. Len(text) : text[k] = <<>>
        PROVE  Distinct(flat) = <<>>
    <2>1. Len(bared) = 0
      BY <1>1, <1>2, <1>6
    <2>2. \A k \in 1 .. Len(bared) : bared[k] = <<>>
      BY <2>1
    <2>3. flat = <<>>
      BY <1>2, <2>2, FlattenNothing
    <2> QED
      BY <1>5, <2>3, Elements
  <1> QED
    BY <1>3, <1>5, <1>6 DEF L

\* No literal of a regular line is lost: each is a candidate, as it stands in
\* the source (shortcut_hunter.py:104-124).
THEOREM StringsAreCandidates ==
    ASSUME NEW text \in Seq(Seq(DOMAIN Width)), ~Binary(text),
           NEW k \in 1 .. Len(text), Regular(text[k]), NEW s \in ToSet(Strings(text[k]))
    PROVE  s \in ToSet(Candidates(text))
  <1> DEFINE L == Seq(DOMAIN Width)
             line == text[k]
             all == Gathered(text)
             bared == Bared(all)
             flat == FlattenSeq(bared)
  <1>1. line \in Seq(DOMAIN Width)
    BY Elements
  <1>2. PICK q \in {DQ, SQ} : Positions(line, {DQ, SQ}) = Positions(line, {q})
    BY DEF Regular
  <1>3. OneKind(line, q)
    BY <1>1, <1>2, OneKindOfQuote
  <1>4. /\ \A t \in ToSet(Strings(line)) : Chars(t) >= 2
        /\ Visible(s)
    BY DEF Regular
  <1>5. PICK x \in ToSet(Matches(line, q, DOMAIN Width, 2)) : Bare(x) = s
    BY <1>1, <1>3, <1>4, StringsAreMatched
  <1>6. x \in ToSet(Marked(text, q)[k]) /\ k \in 1 .. Len(Marked(text, q))
    BY <1>5, MarkedFacts
  <1>7. x \in ToSet(FlattenSeq(Marked(text, q)))
    <2> DEFINE ss == Marked(text, q)
    <2>1. ss \in Seq(Seq(L))
      BY MarkedFacts
    <2> HIDE DEF ss, L
    <2> QED
      BY <1>6, <2>1, FlattenHolds DEF ss
  <1>8. x \in ToSet(all) /\ all \in Seq(L)
    BY <1>7, GatheredFacts
  <1>9. Candidates(text) = Distinct(flat)
    BY CandidatesAreGathered
  <1>10. /\ bared \in Seq(Seq(L)) /\ Len(bared) = Len(all)
         /\ \A j \in 1 .. Len(all) :
               bared[j] = IF Visible(Bare(all[j])) THEN <<Bare(all[j])>> ELSE <<>>
    BY <1>8, BaredFacts
  <1> HIDE DEF all, bared, L
  <1>11. PICK j \in 1 .. Len(all) : all[j] = x
    BY <1>8, Elements
  <1>12. bared[j] = <<s>>
    BY <1>4, <1>5, <1>10, <1>11
  <1>13. s \in ToSet(bared[j])
    <2>1. 1 \in DOMAIN <<s>> /\ <<s>>[1] = s
      OBVIOUS
    <2> QED
      BY <1>12, <2>1 DEF ToSet
  <1>14. s \in ToSet(flat) /\ flat \in Seq(L)
    BY <1>10, <1>11, <1>13, FlattenHolds
  <1> HIDE DEF flat
  <1>15. ToSet(Distinct(flat)) = ToSet(flat)
    BY <1>14, DistinctHolds
  <1> QED
    BY <1>9, <1>14, <1>15

\* The first of the candidates of regular lines is the last literal of the first
\* line with a key that has one, and not a key (shortcut_hunter.py:107-113).
THEOREM LastStringComesFirst ==
    ASSUME NEW text \in Seq(Seq(DOMAIN Width)), ~Binary(text),
           \A j \in 1 .. Len(text) : Regular(text[j]),
           NEW k \in 1 .. Len(text), HasKey(text[k]), Strings(text[k]) # <<>>,
           \A j \in 1 .. k - 1 : ~(HasKey(text[j]) /\ Strings(text[j]) # <<>>)
    PROVE  Candidates(text) # <<>> /\ Candidates(text)[1] = Last(Strings(text[k]))
  <1> DEFINE L == Seq(DOMAIN Width)
             s == Last(Strings(text[k]))
             answers == Answers(text)
             first == FlattenSeq(answers)
             all == Gathered(text)
             bared == Bared(all)
             flat == FlattenSeq(bared)
  <1>1. /\ answers \in Seq(Seq(L)) /\ Len(answers) = Len(text)
        /\ \A j \in 1 .. Len(text) :
              answers[j] = IF HasKey(text[j]) THEN LastLiteral(text[j]) ELSE <<>>
    BY AnswersFacts
  <1>2. \A j \in 1 .. Len(text) : text[j] \in Seq(DOMAIN Width) /\ Len(text) \in Nat
    BY Elements
  <1>3. answers[k] = <<s>> /\ Bare(s) = s /\ Visible(s)
    BY <1>1, <1>2, LastLiteralOfRegular
  <1>4. \A j \in 1 .. k - 1 : answers[j] = <<>>
    <2> TAKE j \in 1 .. k - 1
    <2>1. j \in 1 .. Len(text)
      BY <1>2
    <2> QED
      BY <1>1, <1>2, <2>1, LastLiteralOfRegular
  <1> HIDE DEF s, L, answers
  <1>5. <<s>> # <<>> /\ <<s>>[1] = s
    OBVIOUS
  <1>6. first # <<>> /\ first[1] = s
    <2>1. answers[k] # <<>> /\ answers[k][1] = s /\ k \in 1 .. Len(answers)
      BY <1>1, <1>3, <1>5
    <2> QED
      BY <1>1, <1>4, <2>1, FlattenFirst
  <1>7. all \in Seq(L) /\ all # <<>> /\ all[1] = s
    BY <1>6, GatheredFacts DEF answers, L
  <1>8. Candidates(text) = Distinct(flat)
    BY CandidatesAreGathered
  <1> HIDE DEF all
  <1>9. /\ bared \in Seq(Seq(L)) /\ Len(bared) = Len(all)
        /\ \A j \in 1 .. Len(all) :
              bared[j] = IF Visible(Bare(all[j])) THEN <<Bare(all[j])>> ELSE <<>>
    BY <1>7, BaredFacts DEF L
  <1>10. 1 \in 1 .. Len(all)
    BY <1>7, Elements
  <1> HIDE DEF bared
  <1>11. bared[1] = <<s>> /\ 1 \in 1 .. Len(bared)
    BY <1>3, <1>7, <1>9, <1>10
  <1>12. flat \in Seq(L)
    BY <1>9, FlattenHolds
  <1>13. flat # <<>> /\ flat[1] = s
    <2>1. bared[1] # <<>> /\ bared[1][1] = s /\ \A j \in 1 .. 1 - 1 : bared[j] = <<>>
      BY <1>5, <1>11
    <2> QED
      BY <1>9, <1>11, <2>1, FlattenFirst
  <1> HIDE DEF flat
  <1>14. Distinct(flat) # <<>> /\ Distinct(flat)[1] = flat[1]
    BY <1>12, <1>13, DistinctHolds
  <1> QED
    BY <1>8, <1>13, <1>14 DEF s

\* No candidate is blank, and none comes twice: each literal has a number of its
\* own, and so a pair of files (shortcut_hunter.py:122, 155-161).
THEOREM CandidatesAreDistinct ==
    ASSUME NEW S, NEW text \in Seq(Seq(S))
    PROVE  /\ IsInjective(Candidates(text))
           /\ \A s \in ToSet(Candidates(text)) : Visible(s)
  <1> DEFINE L == Seq(S)
             all == Gathered(text)
             bared == Bared(all)
             flat == FlattenSeq(bared)
  <1>1. all \in Seq(L)
    BY GatheredFacts
  <1>2. /\ bared \in Seq(Seq(L)) /\ Len(bared) = Len(all)
        /\ \A k \in 1 .. Len(all) :
              bared[k] = IF Visible(Bare(all[k])) THEN <<Bare(all[k])>> ELSE <<>>
    BY <1>1, BaredFacts
  <1>3. Candidates(text) = IF Binary(text) THEN <<>> ELSE Distinct(flat)
    BY CandidatesAreGathered
  <1> HIDE DEF all, bared, L
  <1>4. flat \in Seq(L)
        /\ \A s \in ToSet(flat) : \E k \in 1 .. Len(bared) : s \in ToSet(bared[k])
    BY <1>2, FlattenHolds
  <1>5. IsInjective(Distinct(flat)) /\ ToSet(Distinct(flat)) = ToSet(flat)
    BY <1>4, DistinctHolds
  <1>6. ASSUME NEW s \in ToSet(flat) PROVE Visible(s)
    <2>1. PICK k \in 1 .. Len(all) : s \in ToSet(bared[k])
      BY <1>2, <1>4, <1>6
    <2> DEFINE b == Bare(all[k])
    <2>2. bared[k] = IF Visible(b) THEN <<b>> ELSE <<>>
      BY <1>2
    <2> HIDE DEF b
    <2>3. ToSet(<<b>>) = {b} /\ ToSet(<<>>) = {}
      BY DEF ToSet
    <2> QED
      BY <2>1, <2>2, <2>3
  <1>7. IsInjective(<<>>) /\ ToSet(<<>>) = {}
    BY DEF IsInjective, ToSet
  <1> HIDE DEF flat
  <1> QED
    BY <1>3, <1>5, <1>6, <1>7

-----------------------------------------------------------------------------
\* A text: the lines between newlines, and what follows the last one.
Texts(L) == Seq(L) \ {<<>>}

\* A line that a newline ends.
Finished(text, line) == \E k \in 1 .. Len(text) - 1 : text[k] = line

\* The parts of a text.
LEMMA TextFacts ==
    ASSUME NEW L, NEW s \in Texts(L)
    PROVE  /\ s \in Seq(L) /\ Len(s) \in Nat /\ Len(s) >= 1
           /\ \A k \in 1 .. Len(s) : s[k] \in L
           /\ Last(s) = s[Len(s)] /\ Head(s) = s[1]
           /\ Front(s) \in Seq(L) /\ Len(Front(s)) = Len(s) - 1
           /\ \A k \in 1 .. Len(s) - 1 : Front(s)[k] = s[k]
           /\ Tail(s) \in Seq(L) /\ Len(Tail(s)) = Len(s) - 1
           /\ \A k \in 1 .. Len(s) - 1 : Tail(s)[k] = s[k + 1]
  <1> DEFINE n == Len(s)
             m == n - 1
             a == Front(s)
             b == Tail(s)
  <1>1. s \in Seq(L) /\ s # <<>>
    BY DEF Texts
  <1>2. n \in Nat /\ n >= 1 /\ \A k \in 1 .. n : s[k] \in L
    BY <1>1, Elements
  <1> HIDE DEF n
  <1>3. a \in Seq(L) /\ Len(a) = m /\ \A k \in 1 .. m : a[k] = s[k]
    <2>1. a = SubSeq(s, 1, m)
      BY DEF Front, n
    <2>2. 1 \in 1 .. n + 1 /\ m \in 0 .. n /\ m = m - 1 + 1 /\ (1 <= m \/ m = 0)
      BY <1>2
    <2> HIDE DEF a, m
    <2>3. /\ SubSeq(s, 1, m) \in Seq(L)
          /\ Len(SubSeq(s, 1, m)) = IF 1 <= m THEN m - 1 + 1 ELSE 0
          /\ \A i \in 1 .. m - 1 + 1 : SubSeq(s, 1, m)[i] = s[1 + i - 1]
      BY <1>1, <2>2, Slice DEF n
    <2> QED
      BY <2>1, <2>2, <2>3
  <1>4. b \in Seq(L) /\ Len(b) = m /\ \A k \in 1 .. m : b[k] = s[k + 1]
    BY <1>1, <1>2, HeadTailProperties DEF n
  <1>5. Last(s) = s[n] /\ Head(s) = s[1]
    BY <1>1 DEF Last, n
  <1> HIDE DEF a, b
  <1> QED
    BY <1>1, <1>2, <1>3, <1>4, <1>5 DEF a, b, n

\* Where the lines of two texts are in the joined one.
LEMMA JoinFacts ==
    ASSUME NEW S, NEW s \in Texts(Seq(S)), NEW t \in Texts(Seq(S))
    PROVE  /\ Join(s, t) \in Texts(Seq(S))
           /\ Len(Join(s, t)) = Len(s) + Len(t) - 1
           /\ \A k \in 1 .. Len(s) - 1 : Join(s, t)[k] = s[k]
           /\ Join(s, t)[Len(s)] = Last(s) \o Head(t)
           /\ \A k \in 2 .. Len(t) : Join(s, t)[Len(s) + k - 1] = t[k]
  <1> DEFINE L == Seq(S)
             m == Len(s)
             n == Len(t)
             a == Front(s)
             c == Last(s) \o Head(t)
             b == Tail(t)
             p == a \o <<c>>
             u == p \o b
  <1> HIDE DEF L
  <1>1. /\ m \in Nat /\ m >= 1 /\ a \in Seq(L) /\ Len(a) = m - 1
        /\ Last(s) \in L /\ \A k \in 1 .. m - 1 : a[k] = s[k]
    <2>1. s \in Texts(L)
      BY DEF L
    <2>2. /\ m \in Nat /\ m >= 1 /\ Last(s) = s[m]
          /\ \A k \in 1 .. m : s[k] \in L
          /\ a \in Seq(L) /\ Len(a) = m - 1
          /\ \A k \in 1 .. m - 1 : a[k] = s[k]
      BY <2>1, TextFacts
    <2>3. m \in 1 .. m
      BY <2>2
    <2> QED
      BY <2>2, <2>3
  <1>2. /\ n \in Nat /\ n >= 1 /\ b \in Seq(L) /\ Len(b) = n - 1
        /\ Head(t) \in L /\ \A k \in 1 .. n - 1 : b[k] = t[k + 1]
    <2>1. t \in Texts(L)
      BY DEF L
    <2> QED
      BY <2>1, TextFacts
  <1>3. c \in L
    BY <1>1, <1>2, ConcatProperties DEF L
  <1>4. Join(s, t) = u
    BY DEF Join
  <1> HIDE DEF m, n, a, b, c
  <1>5. /\ p \in Seq(L) /\ Len(p) = m /\ p[m] = c
        /\ \A k \in 1 .. m - 1 : p[k] = s[k]
    BY <1>1, <1>3
  <1> HIDE DEF p
  <1>6. /\ u \in Seq(L) /\ Len(u) = m + (n - 1)
        /\ \A k \in 1 .. m + (n - 1) : u[k] = IF k <= m THEN p[k] ELSE b[k - m]
    <2>1. /\ u \in Seq(L) /\ Len(u) = Len(p) + Len(b)
          /\ \A k \in 1 .. Len(p) + Len(b) : u[k] = IF k <= Len(p) THEN p[k] ELSE b[k - Len(p)]
      BY <1>2, <1>5, ConcatProperties
    <2> QED
      BY <1>2, <1>5, <2>1
  <1> HIDE DEF u
  <1>7. u \in Texts(L)
    <2>1. Len(u) # 0
      BY <1>1, <1>2, <1>6
    <2> QED
      BY <1>6, <2>1, EmptySeq DEF Texts
  <1>8. u[m] = c /\ \A k \in 1 .. m - 1 : u[k] = s[k]
    BY <1>1, <1>2, <1>5, <1>6
  <1>9. \A k \in 2 .. n : u[m + k - 1] = t[k]
    <2> TAKE k \in 2 .. n
    <2>1. /\ m + k - 1 \in 1 .. m + (n - 1) /\ ~(m + k - 1 <= m)
          /\ (m + k - 1) - m = k - 1 /\ k - 1 \in 1 .. n - 1 /\ (k - 1) + 1 = k
      BY <1>1, <1>2
    <2> QED
      BY <1>2, <1>6, <2>1
  <1>10. Len(u) = m + n - 1
    BY <1>1, <1>2, <1>6
  <1> QED
    BY <1>4, <1>7, <1>8, <1>9, <1>10 DEF L, m, n, c

\* Joining two texts keeps the finished lines of both, but for the first one of
\* the second where the first text does not end in a newline.
LEMMA JoinKeeps ==
    ASSUME NEW S, NEW s \in Texts(Seq(S)), NEW t \in Texts(Seq(S))
    PROVE  /\ \A x \in Seq(S) : Finished(s, x) => Finished(Join(s, t), x)
           /\ \A k \in 1 .. Len(t) - 1 :
                 k > 1 \/ Last(s) = <<>> => Finished(Join(s, t), t[k])
           /\ Last(s) = <<>> /\ Last(t) = <<>> => Last(Join(s, t)) = <<>>
  <1> DEFINE L == Seq(S)
             m == Len(s)
             n == Len(t)
             u == Join(s, t)
  <1>1. m \in Nat /\ m >= 1 /\ n \in Nat /\ n >= 1
    BY TextFacts
  <1>2. /\ u \in Texts(L) /\ Len(u) = m + n - 1
        /\ \A k \in 1 .. m - 1 : u[k] = s[k]
        /\ u[m] = Last(s) \o Head(t)
        /\ \A k \in 2 .. n : u[m + k - 1] = t[k]
    BY JoinFacts
  <1>3. Head(t) = t[1] /\ t[1] \in L /\ Last(t) = t[n]
    <2>1. 1 \in 1 .. n
      BY <1>1
    <2> QED
      BY <2>1, TextFacts
  <1>4. Last(u) = u[m + n - 1]
    BY <1>2, TextFacts
  <1>5. Last(s) = <<>> => u[m] = t[1]
    BY <1>2, <1>3, ConcatEmptySeq
  <1> HIDE DEF u, m, n, L
  <1>6. \A x : Finished(s, x) => Finished(u, x)
    <2> SUFFICES ASSUME NEW x, Finished(s, x) PROVE Finished(u, x)
      OBVIOUS
    <2>1. PICK k \in 1 .. m - 1 : s[k] = x
      BY DEF Finished, m
    <2>2. k \in 1 .. Len(u) - 1 /\ u[k] = x
      BY <1>1, <1>2, <2>1
    <2> QED
      BY <2>2 DEF Finished
  <1>7. ASSUME NEW k \in 1 .. n - 1, k > 1 \/ Last(s) = <<>> PROVE Finished(u, t[k])
    <2>1. u[m + k - 1] = t[k]
      <3>1. CASE k > 1
        <4>1. k \in 2 .. n
          BY <1>1, <3>1
        <4> QED
          BY <1>2, <4>1
      <3>2. CASE ~(k > 1)
        <4>1. k = 1 /\ m + k - 1 = m
          BY <1>1, <3>2
        <4> QED
          BY <1>5, <1>7, <3>2, <4>1
      <3> QED
        BY <3>1, <3>2
    <2>2. m + k - 1 \in 1 .. Len(u) - 1
      BY <1>1, <1>2
    <2> QED
      BY <2>1, <2>2 DEF Finished
  <1>8. ASSUME Last(s) = <<>>, Last(t) = <<>> PROVE Last(u) = <<>>
    <2>1. CASE n = 1
      <3>1. m + n - 1 = m
        BY <1>1, <2>1
      <3> QED
        BY <1>3, <1>4, <1>5, <1>8, <2>1, <3>1
    <2>2. CASE n # 1
      <3>1. n \in 2 .. n
        BY <1>1, <2>2
      <3> QED
        BY <1>2, <1>3, <1>4, <1>8, <3>1
    <2> QED
      BY <2>1, <2>2
  <1> QED
    BY <1>6, <1>7, <1>8 DEF u, n

\* Cat as the last of its partial results.
LEMMA CatIsFold ==
    ASSUME NEW S, NEW texts \in Seq(Texts(Seq(S)))
    PROVE  \E f \in [0 .. Len(texts) -> Texts(Seq(S))] :
              /\ f[0] = << <<>> >>
              /\ \A i \in 1 .. Len(texts) : f[i] = Join(f[i - 1], texts[i])
              /\ Cat(texts) = f[Len(texts)]
  <1> DEFINE n == Len(texts)
             V == Texts(Seq(S))
             G == [i \in 1 .. n |-> [v \in V |-> Join(v, texts[i])]]
             Def(g) == [k \in 0 .. n |-> IF k = 0 THEN << <<>> >> ELSE Join(g[k - 1], texts[k])]
             copied == CHOOSE g : g = Def(g)
             nothing == << <<>> >>
  <1>1. n \in Nat /\ \A i \in 1 .. n : texts[i] \in V
    BY Elements
  <1>2. nothing \in V
    <2>1. <<>> \in Seq(S)
      OBVIOUS
    <2> DEFINE L == Seq(S)
    <2> HIDE DEF L
    <2>2. nothing \in Seq(L) /\ nothing # <<>>
      BY <2>1 DEF L
    <2> QED
      BY <2>2 DEF Texts, L
  <1>3. \A v \in V : \A i \in 1 .. n : Join(v, texts[i]) \in V
    BY <1>1, JoinFacts
  <1> HIDE DEF n, V
  <1>4. \E f : f \in [0 .. n -> V] /\ f = Def(f)
    <2>1. G \in [1 .. n -> [V -> V]]
      BY <1>3
    <2>2. \A i \in 1 .. n : \A v \in V : G[i][v] = Join(v, texts[i])
      OBVIOUS
    <2> HIDE DEF G, nothing
    <2>3. PICK f : Forward(f, n, V, nothing, G)
      BY <1>1, <1>2, <2>1, ForwardRecursion
    <2>4. /\ f \in [0 .. n -> V] /\ f[0] = nothing
          /\ \A i \in 1 .. n : f[i] = G[i][f[i - 1]]
      BY <2>3 DEF Forward
    <2>5. ASSUME NEW i \in 0 .. n
          PROVE  f[i] = IF i = 0 THEN nothing ELSE Join(f[i - 1], texts[i])
      <3>1. CASE i = 0
        BY <2>4, <3>1
      <3>2. CASE i # 0
        <4>1. i \in 1 .. n /\ i - 1 \in 0 .. n
          BY <1>1, <3>2
        <4>2. f[i] = G[i][f[i - 1]] /\ f[i - 1] \in V
          BY <2>4, <4>1
        <4> QED
          BY <2>2, <3>2, <4>1, <4>2
      <3> QED
        BY <3>1, <3>2
    <2>6. f = Def(f)
      BY <2>4, <2>5 DEF nothing
    <2> QED
      BY <2>4, <2>6
  <1>5. copied = Def(copied)
    <2> HIDE DEF Def
    <2> QED
      BY <1>4, Zenon
  <1>6. Cat(texts) = copied[n]
    BY DEF Cat, copied, n
  <1> HIDE DEF G, copied
  <1>7. /\ copied[0] = nothing
        /\ \A i \in 1 .. n : copied[i] = Join(copied[i - 1], texts[i])
    <2>1. \A i \in 0 .. n :
             copied[i] = IF i = 0 THEN nothing ELSE Join(copied[i - 1], texts[i])
      BY <1>5
    <2>2. 0 \in 0 .. n /\ \A i \in 1 .. n : i \in 0 .. n /\ i # 0
      BY <1>1
    <2> HIDE DEF nothing
    <2> QED
      BY <2>1, <2>2
  <1>8. DOMAIN copied = 0 .. n /\ copied = [i \in 0 .. n |-> copied[i]]
    BY <1>5
  <1> HIDE DEF Def, nothing
  <1>9. 0 .. n \subseteq {i \in 0 .. n : copied[i] \in V}
    <2> DEFINE T == {i \in 0 .. n : copied[i] \in V}
    <2>1. 0 \in T
      BY <1>1, <1>2, <1>7
    <2>2. ASSUME NEW i \in 0 .. n, i # n, i \in T PROVE i + 1 \in T
      <3>1. i + 1 \in 1 .. n /\ (i + 1) - 1 = i /\ i + 1 \in 0 .. n
        BY <1>1, <2>2
      <3>2. copied[i + 1] = Join(copied[i], texts[i + 1])
        BY <1>7, <3>1
      <3> QED
        BY <1>3, <2>2, <3>1, <3>2
    <2> HIDE DEF T
    <2>3. 0 .. n \subseteq T
      BY <1>1, <2>1, <2>2, Upwards
    <2> QED
      BY <2>3 DEF T
  <1>10. copied \in [0 .. n -> V]
    BY <1>8, <1>9
  <1> QED
    BY <1>6, <1>7, <1>10 DEF n, V, nothing

\* The first i texts end in newlines.
Clean(texts, i) == \A j \in 1 .. i : Last(texts[j]) = <<>>

\* A text that has the finished lines of this one, the first of them only if
\* nothing unfinished stood before it.
Holds(text, t, clean) ==
    \A k \in 1 .. Len(t) - 1 : k > 1 \/ clean => Finished(text, t[k])

\* cat keeps the finished lines of every text but for the first one of a text that
\* follows an unfinished line.
LEMMA CatHolds ==
    ASSUME NEW S, NEW texts \in Seq(Texts(Seq(S)))
    PROVE  /\ Cat(texts) \in Texts(Seq(S))
           /\ \A j \in 1 .. Len(texts) : Holds(Cat(texts), texts[j], Clean(texts, j - 1))
  <1> DEFINE n == Len(texts)
             V == Texts(Seq(S))
  <1>1. n \in Nat /\ \A i \in 1 .. n : texts[i] \in V
    BY Elements
  <1>2. PICK f \in [0 .. n -> V] :
           /\ f[0] = << <<>> >>
           /\ \A i \in 1 .. n : f[i] = Join(f[i - 1], texts[i])
           /\ Cat(texts) = f[n]
    BY CatIsFold
  <1> HIDE DEF n
  <1> DEFINE Done(i) == /\ \A j \in 1 .. i : Holds(f[i], texts[j], Clean(texts, j - 1))
                        /\ Clean(texts, i) => Last(f[i]) = <<>>
             T == {i \in 0 .. n : Done(i)}
  <1>3. 0 \in T
    <2>1. Last(f[0]) = <<>>
      BY <1>2 DEF Last
    <2> QED
      BY <1>1, <2>1
  <1>4. ASSUME NEW i \in 0 .. n, i # n, i \in T PROVE i + 1 \in T
    <2>1. i + 1 \in 1 .. n /\ (i + 1) - 1 = i /\ i + 1 \in 0 .. n /\ i + 1 \in 1 .. i + 1
      BY <1>1, <1>4
    <2> DEFINE s == f[i]
               t == texts[i + 1]
               u == f[i + 1]
    <2>2. u = Join(s, t) /\ s \in V /\ t \in V
      BY <1>1, <1>2, <2>1
    <2>3. Done(i)
      BY <1>4
    <2> HIDE DEF s, t, u
    <2>4. /\ \A x \in Seq(S) : Finished(s, x) => Finished(u, x)
          /\ \A k \in 1 .. Len(t) - 1 : k > 1 \/ Last(s) = <<>> => Finished(u, t[k])
          /\ Last(s) = <<>> /\ Last(t) = <<>> => Last(u) = <<>>
      BY <2>2, JoinKeeps
    <2>5. \A j \in 1 .. i : Holds(u, texts[j], Clean(texts, j - 1))
      <3> TAKE j \in 1 .. i
      <3>1. Holds(s, texts[j], Clean(texts, j - 1))
        BY <2>3 DEF s
      <3>2. j \in 1 .. n
        BY <1>1
      <3>3. texts[j] \in V
        BY <1>1, <3>2
      <3>4. \A k \in 1 .. Len(texts[j]) - 1 : texts[j][k] \in Seq(S)
        BY <3>3, TextFacts
      <3> QED
        BY <2>4, <3>1, <3>4 DEF Holds
    <2>6. Clean(texts, i) => Last(s) = <<>>
      BY <2>3 DEF s
    <2>7. Holds(u, t, Clean(texts, i))
      BY <2>4, <2>6 DEF Holds
    <2>8. Clean(texts, i + 1) => Clean(texts, i) /\ Last(t) = <<>>
      BY <2>1 DEF Clean, t
    <2>9. \A j \in 1 .. i + 1 : j \in 1 .. i \/ j = i + 1
      OBVIOUS
    <2>10. ASSUME NEW j \in 1 .. i + 1
           PROVE  Holds(u, texts[j], Clean(texts, j - 1))
      <3>1. CASE j \in 1 .. i
        BY <2>5, <3>1
      <3>2. CASE j = i + 1
        BY <2>1, <2>7, <3>2 DEF t
      <3> QED
        BY <2>9, <3>1, <3>2
    <2>11. Done(i + 1)
      BY <2>4, <2>6, <2>8, <2>10 DEF u
    <2> QED
      BY <2>1, <2>11
  <1> HIDE DEF T
  <1>5. 0 .. n \subseteq T
    BY <1>1, <1>3, <1>4, Upwards
  <1>6. n \in T
    BY <1>1, <1>5
  <1>7. Done(n) /\ f[n] \in V
    BY <1>1, <1>2, <1>6 DEF T
  <1> QED
    BY <1>2, <1>7 DEF n

\* What the search prints of the files of a world.
Files(S) == Seq([kind : Kinds, readable : BOOLEAN, text : Texts(Seq(S))])
Read(f, kind) == f.readable /\ f.kind = kind
Copied(files, kind) ==
    [k \in DOMAIN files |-> IF Read(files[k], kind) THEN <<files[k].text>> ELSE <<>>]
Long(text) == [k \in DOMAIN text |-> Matches(text[k], DQ, Plain, 6)]
Longs(files) ==
    [k \in DOMAIN files |->
        IF files[k].readable /\ ~Binary(files[k].text) THEN FlattenSeq(Long(files[k].text))
        ELSE <<>>]

LEMMA LongTyped ==
    ASSUME NEW S, NEW text \in Seq(Seq(S))
    PROVE  FlattenSeq(Long(text)) \in Seq(Seq(S))
  <1> DEFINE L == Seq(S)
             ss == Long(text)
  <1>1. DOMAIN text = 1 .. Len(text) /\ \A k \in 1 .. Len(text) : text[k] \in Seq(S)
    BY Elements
  <1>2. \A k \in 1 .. Len(text) : ss[k] = Matches(text[k], DQ, Plain, 6)
    BY <1>1 DEF Long
  <1>3. \A k \in 1 .. Len(text) : ss[k] \in Seq(L)
    <2> TAKE k \in 1 .. Len(text)
    <2>1. Matches(text[k], DQ, Plain, 6) \in Seq(L)
      BY <1>1, MatchesTyped
    <2> QED
      BY <1>2, <2>1
  <1>4. ss = [k \in DOMAIN text |-> ss[k]]
    BY DEF Long
  <1> HIDE DEF ss, L
  <1>5. ss \in Seq(Seq(L))
    BY <1>3, <1>4, SameLength
  <1>6. FlattenSeq(ss) \in Seq(L)
    BY <1>5, FlattenHolds
  <1> QED
    BY <1>6 DEF ss, L

LEMMA FilesFacts ==
    ASSUME NEW S, NEW files \in Files(S)
    PROVE  /\ DOMAIN files = 1 .. Len(files) /\ Len(files) \in Nat
           /\ \A k \in 1 .. Len(files) :
                 /\ files[k].text \in Texts(Seq(S)) /\ files[k].text \in Seq(Seq(S))
                 /\ files[k].kind \in Kinds /\ files[k] \in ToSet(files)
           /\ \A f \in ToSet(files) : \E k \in 1 .. Len(files) : files[k] = f
  <1> DEFINE V == Texts(Seq(S))
             R == [kind : Kinds, readable : BOOLEAN, text : V]
  <1>1. files \in Seq(R)
    BY DEF Files
  <1>2. \A t \in V : t \in Seq(Seq(S))
    BY TextFacts
  <1> HIDE DEF V
  <1>3. \A r \in R : r.text \in V /\ r.kind \in Kinds
    OBVIOUS
  <1> HIDE DEF R
  <1> QED
    BY <1>1, <1>2, <1>3, Elements DEF V

LEMMA ContentsFacts ==
    ASSUME NEW S, NEW files \in Files(S), NEW kind
    PROVE  /\ Contents(files, kind) \in Seq(Texts(Seq(S)))
           /\ \A f \in ToSet(files) : Read(f, kind) => f.text \in ToSet(Contents(files, kind))
           /\ \A t \in ToSet(Contents(files, kind)) :
                 \E f \in ToSet(files) : Read(f, kind) /\ f.text = t
  <1> DEFINE V == Texts(Seq(S))
             ss == Copied(files, kind)
             n == Len(files)
  <1>1. Contents(files, kind) = FlattenSeq(ss)
    BY DEF Contents, OfEach, Copied, Read
  <1>2. /\ n \in Nat /\ DOMAIN files = 1 .. n
        /\ \A k \in 1 .. n : files[k].text \in V /\ files[k] \in ToSet(files)
        /\ \A f \in ToSet(files) : \E k \in 1 .. n : files[k] = f
    BY FilesFacts
  <1>3. \A k \in 1 .. n :
           ss[k] = IF Read(files[k], kind) THEN <<files[k].text>> ELSE <<>>
    BY <1>2 DEF Copied
  <1>4. ss = [k \in 1 .. n |-> ss[k]]
    BY <1>2 DEF Copied
  <1> HIDE DEF V, ss, n
  <1>5. \A k \in 1 .. n : ss[k] \in Seq(V)
    <2> TAKE k \in 1 .. n
    <2>1. <<files[k].text>> \in Seq(V) /\ <<>> \in Seq(V)
      BY <1>2
    <2> QED
      BY <1>3, <2>1
  <1>6. ss \in Seq(Seq(V)) /\ Len(ss) = n
    BY <1>2, <1>4, <1>5
  <1>7. /\ FlattenSeq(ss) \in Seq(V)
        /\ \A k \in 1 .. n : \A x \in ToSet(ss[k]) : x \in ToSet(FlattenSeq(ss))
        /\ \A x \in ToSet(FlattenSeq(ss)) : \E k \in 1 .. n : x \in ToSet(ss[k])
    BY <1>6, FlattenHolds
  <1>8. \A k \in 1 .. n : \A x :
           x \in ToSet(ss[k]) <=> Read(files[k], kind) /\ x = files[k].text
    <2> TAKE k \in 1 .. n
    <2>1. ToSet(<<>>) = {} /\ ToSet(<<files[k].text>>) = {files[k].text}
      BY DEF ToSet
    <2> QED
      BY <1>3, <2>1
  <1>9. ASSUME NEW f \in ToSet(files), Read(f, kind)
        PROVE  f.text \in ToSet(FlattenSeq(ss))
    <2>1. PICK k \in 1 .. n : files[k] = f
      BY <1>2
    <2>2. f.text \in ToSet(ss[k])
      BY <1>8, <1>9, <2>1
    <2> QED
      BY <1>7, <2>2
  <1>10. \A t \in ToSet(FlattenSeq(ss)) :
            \E f \in ToSet(files) : Read(f, kind) /\ f.text = t
    BY <1>2, <1>7, <1>8, Zenon
  <1> QED
    BY <1>1, <1>7, <1>9, <1>10 DEF V

LEMMA LongLiteralsTyped ==
    ASSUME NEW S, NEW files \in Files(S)
    PROVE  LongLiterals(files) \in Seq(Seq(S))
  <1> DEFINE L == Seq(S)
             ss == Longs(files)
  <1>1. LongLiterals(files) = FlattenSeq(ss)
    BY DEF LongLiterals, OfEach, Longs, Long
  <1>2. \A k \in 1 .. Len(files) : ss[k] \in Seq(L)
    <2> TAKE k \in 1 .. Len(files)
    <2>1. ss[k] = IF files[k].readable /\ ~Binary(files[k].text)
                  THEN FlattenSeq(Long(files[k].text)) ELSE <<>>
      BY FilesFacts DEF Longs
    <2>2. FlattenSeq(Long(files[k].text)) \in Seq(L) /\ <<>> \in Seq(L)
      BY FilesFacts, LongTyped
    <2> QED
      BY <2>1, <2>2
  <1>3. DOMAIN ss = 1 .. Len(files) /\ ss = [k \in 1 .. Len(files) |-> ss[k]] /\ Len(files) \in Nat
    BY FilesFacts DEF Longs
  <1> HIDE DEF ss, L
  <1>4. ss \in Seq(Seq(L))
    BY <1>2, <1>3
  <1>5. FlattenSeq(ss) \in Seq(L)
    BY <1>4, FlattenHolds
  <1> QED
    BY <1>1, <1>5 DEF L

\* `head` lets the first lines of a text through.
LEMMA HeadTyped ==
    ASSUME NEW S, NEW text \in Seq(S)
    PROVE  SubSeq(text, 1, Min({HeadLimit, Len(text)})) \in Seq(S)
  <1> DEFINE n == Len(text)
             m == Min({HeadLimit, n})
  <1>1. n \in Nat /\ HeadLimit \in Nat
    BY Elements, TokensAreChars
  <1>2. m \in {HeadLimit, n} /\ m <= n
    <2> DEFINE T == {HeadLimit, n}
    <2>1. T \in SUBSET Nat /\ n \in T
      BY <1>1
    <2> HIDE DEF T
    <2>2. Min(T) \in T /\ Min(T) <= n
      BY <2>1, MinIsLeast
    <2> QED
      BY <2>2 DEF T
  <1> HIDE DEF m
  <1>3. m \in 0 .. n /\ 1 \in 1 .. n + 1
    BY <1>1, <1>2
  <1>4. SubSeq(text, 1, m) \in Seq(S)
    BY <1>3, Slice
  <1> QED
    BY <1>4 DEF m

\* Lines that each end in a newline.
LEMMA AppendFinishes ==
    ASSUME NEW S, NEW lines \in Seq(Seq(S))
    PROVE  /\ Append(lines, <<>>) \in Texts(Seq(S))
           /\ Last(Append(lines, <<>>)) = <<>>
  <1> DEFINE L == Seq(S)
             t == Append(lines, <<>>)
             n == Len(lines)
  <1>1. <<>> \in L /\ lines \in Seq(L)
    OBVIOUS
  <1> HIDE DEF L
  <1>2. t \in Seq(L) /\ n \in Nat /\ Len(t) = n + 1 /\ t[n + 1] = <<>>
    BY <1>1, AppendProperties
  <1> HIDE DEF t, n
  <1>3. t # <<>>
    <2>1. Len(t) # 0
      BY <1>2
    <2> QED
      BY <1>2, <2>1, EmptySeq
  <1>4. t \in Texts(L)
    BY <1>2, <1>3 DEF Texts
  <1>5. Last(t) = <<>>
    BY <1>2, <1>4, TextFacts
  <1> QED
    BY <1>4, <1>5 DEF L, t

\* The texts the search puts one after the other.
Printed(files) ==
    Contents(files, "capability") \o Contents(files, "safety") \o Contents(files, "keyed")
Literal(files) ==
    Append(SubSeq(LongLiterals(files), 1, Min({HeadLimit, Len(LongLiterals(files))})), <<>>)
Whole(f) == f.readable /\ f.kind # "other"

LEMMA PrintedFacts ==
    ASSUME NEW S, NEW files \in Files(S)
    PROVE  /\ Printed(files) \in Seq(Texts(Seq(S)))
           /\ \A f \in ToSet(files) : Whole(f) => f.text \in ToSet(Printed(files))
           /\ \A t \in ToSet(Printed(files)) : \E f \in ToSet(files) : Whole(f) /\ f.text = t
  <1> DEFINE V == Texts(Seq(S))
             a == Contents(files, "capability")
             b == Contents(files, "safety")
             c == Contents(files, "keyed")
             ab == a \o b
             abc == ab \o c
  <1>1. a \in Seq(V) /\ b \in Seq(V) /\ c \in Seq(V)
    BY ContentsFacts
  <1>2. /\ \A f \in ToSet(files) : Read(f, "capability") => f.text \in ToSet(a)
        /\ \A f \in ToSet(files) : Read(f, "safety") => f.text \in ToSet(b)
        /\ \A f \in ToSet(files) : Read(f, "keyed") => f.text \in ToSet(c)
    BY ContentsFacts
  <1>3. /\ \A t \in ToSet(a) : \E f \in ToSet(files) : Read(f, "capability") /\ f.text = t
        /\ \A t \in ToSet(b) : \E f \in ToSet(files) : Read(f, "safety") /\ f.text = t
        /\ \A t \in ToSet(c) : \E f \in ToSet(files) : Read(f, "keyed") /\ f.text = t
    BY ContentsFacts
  <1>4. \A f \in ToSet(files) :
           Whole(f) <=> Read(f, "capability") \/ Read(f, "safety") \/ Read(f, "keyed")
    <2> TAKE f \in ToSet(files)
    <2>1. f.kind \in Kinds
      BY FilesFacts
    <2> QED
      BY <2>1 DEF Kinds, Whole, Read
  <1> HIDE DEF V, a, b, c
  <1>5. ab \in Seq(V) /\ ToSet(ab) = ToSet(a) \cup ToSet(b)
    BY <1>1, ConcatHolds
  <1> HIDE DEF ab
  <1>6. abc \in Seq(V) /\ ToSet(abc) = ToSet(ab) \cup ToSet(c)
    BY <1>1, <1>5, ConcatHolds
  <1>7. Printed(files) = abc
    BY DEF Printed, abc, ab, a, b, c
  <1> HIDE DEF abc
  <1>8. \A f \in ToSet(files) : Whole(f) => f.text \in ToSet(abc)
    BY <1>2, <1>4, <1>5, <1>6
  <1>9. \A t \in ToSet(abc) : \E f \in ToSet(files) : Whole(f) /\ f.text = t
    <2> TAKE t \in ToSet(abc)
    <2>1. t \in ToSet(a) \/ t \in ToSet(b) \/ t \in ToSet(c)
      BY <1>5, <1>6
    <2>2. CASE t \in ToSet(a)
      BY <1>3, <1>4, <2>2
    <2>3. CASE t \in ToSet(b)
      BY <1>3, <1>4, <2>3
    <2>4. CASE t \in ToSet(c)
      BY <1>3, <1>4, <2>4
    <2> QED
      BY <2>1, <2>2, <2>3, <2>4
  <1> QED
    BY <1>6, <1>7, <1>8, <1>9 DEF V

\* The leak is a text, and has the finished lines of the files that are copied
\* whole: all of them when every one of those files ends in a newline, and
\* otherwise all but their first ones.
LEMMA LeakFacts ==
    ASSUME NEW S, NEW files \in Files(S), NEW finished,
           finished => \A f \in ToSet(files) : Whole(f) => Last(f.text) = <<>>
    PROVE  /\ Found(files) \in Texts(Seq(S)) /\ Found(files) \in Seq(Seq(S))
           /\ \A f \in ToSet(files) : Whole(f) => Holds(Found(files), f.text, finished)
  <1> DEFINE V == Texts(Seq(S))
             p == Printed(files)
             e == <<Literal(files)>>
             d == p \o e
  <1>1. p \in Seq(V)
    BY PrintedFacts
  <1>2. Literal(files) \in V /\ Last(Literal(files)) = <<>>
    <2> DEFINE text == LongLiterals(files)
               L == Seq(S)
    <2>1. text \in Seq(L)
      BY LongLiteralsTyped
    <2> HIDE DEF text, L
    <2>2. SubSeq(text, 1, Min({HeadLimit, Len(text)})) \in Seq(L)
      BY <2>1, HeadTyped
    <2> QED
      BY <2>2, AppendFinishes DEF Literal, text, L
  <1>3. Found(files) = Cat(d)
    BY DEF Found, Printed, Literal
  <1> HIDE DEF V, p
  <1>4. e \in Seq(V) /\ ToSet(e) = {Literal(files)}
    BY <1>2 DEF ToSet
  <1> HIDE DEF e
  <1>5. d \in Seq(V) /\ ToSet(d) = ToSet(p) \cup ToSet(e)
    BY <1>1, <1>4, ConcatHolds
  <1> HIDE DEF d
  <1>6. /\ Cat(d) \in V
        /\ \A j \in 1 .. Len(d) : Holds(Cat(d), d[j], Clean(d, j - 1))
    BY <1>5, CatHolds DEF V
  <1>7. finished => \A t \in ToSet(d) : Last(t) = <<>>
    <2> SUFFICES ASSUME finished, NEW t \in ToSet(d) PROVE Last(t) = <<>>
      OBVIOUS
    <2>1. CASE t \in ToSet(p)
      <3>1. PICK f \in ToSet(files) : Whole(f) /\ f.text = t
        BY <2>1, PrintedFacts DEF p
      <3> QED
        BY <3>1
    <2>2. CASE t \in ToSet(e)
      BY <1>2, <1>4, <2>2
    <2> QED
      BY <1>5, <2>1, <2>2
  <1>8. ASSUME NEW f \in ToSet(files), Whole(f)
        PROVE  Holds(Cat(d), f.text, finished)
    <2>1. f.text \in ToSet(d)
      BY <1>5, <1>8, PrintedFacts DEF p
    <2>2. PICK j \in 1 .. Len(d) : d[j] = f.text
      BY <1>5, <2>1, Elements
    <2>3. finished => Clean(d, j - 1)
      <3> SUFFICES ASSUME finished, NEW h \in 1 .. j - 1 PROVE Last(d[h]) = <<>>
        BY DEF Clean
      <3>1. Len(d) \in Nat /\ \A k \in 1 .. Len(d) : d[k] \in ToSet(d)
        BY <1>5, Elements
      <3>2. h \in 1 .. Len(d)
        BY <3>1
      <3> QED
        BY <1>7, <3>1, <3>2
    <2>4. Holds(Cat(d), d[j], Clean(d, j - 1))
      BY <1>6
    <2> QED
      BY <2>2, <2>3, <2>4 DEF Holds
  <1>9. Cat(d) \in Seq(Seq(S))
    BY <1>6, TextFacts DEF V
  <1> QED
    BY <1>3, <1>6, <1>8, <1>9 DEF V
=============================================================================
