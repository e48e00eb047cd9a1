------------------------ MODULE SelectorCacheProofs ------------------------
(***************************************************************************)
(* Proofs about SelectorCache, for every capacity and every set of         *)
(* selectors.  The inductive invariant adds to the properties what the map *)
(* stores, and that the map's size, which the code tests, is the length of *)
(* the queue, which it shortens.                                           *)
(***************************************************************************)
EXTENDS SelectorCache, FiniteSetTheorems, TLAPS

Stored == \A css \in Cached : map[css] = ParsedAs[css]
SameSize == IsFiniteSet(Cached) /\ Cardinality(Cached) = Len(order)

IInv == TypeOK /\ InStep /\ AnswersExact /\ HoldsLatest /\ Stored /\ SameSize

-----------------------------------------------------------------------------
\* Forgetting the first element of a queue and appending another shifts it.
LEMMA ShiftedQueue ==
  ASSUME NEW S, NEW s \in Seq(S), s # <<>>, NEW e \in S, NEW t, t = Append(Tail(s), e)
  PROVE  /\ t \in Seq(S)
         /\ Len(t) = Len(s)
         /\ t[Len(s)] = e
         /\ \A i \in 1..Len(s) - 1 : t[i] = s[i + 1]
OBVIOUS

\* Entry by entry, what a queue with one key more is.
LEMMA ExtendedQueue ==
  ASSUME NEW S, NEW s \in Seq(S), NEW e \in S, NEW t, t = Append(s, e)
  PROVE  /\ t \in Seq(S)
         /\ Len(t) = Len(s) + 1
         /\ t[Len(s) + 1] = e
         /\ \A i \in 1..Len(s) : t[i] = s[i]
OBVIOUS

\* The empty cache.
LEMMA InitInvariant == Init => IInv
<1> SUFFICES ASSUME Init PROVE IInv
  OBVIOUS
<1>1. Cached = {} /\ order = <<>> /\ missed = <<>> /\ asked \in Selectors
  BY DEF Init, Cached
<1>2. TypeOK
  BY <1>1, ParseAssumption DEF Init, TypeOK, Cached
<1>3. InStep
  BY <1>1, CapacityAssumption DEF InStep
<1>4. AnswersExact /\ HoldsLatest /\ Stored
  BY <1>1, CapacityAssumption DEF Init, AnswersExact, HoldsLatest, Stored
<1>5. SameSize
  BY <1>1, FS_EmptySet DEF SameSize
<1> QED
  BY <1>2, <1>3, <1>4, <1>5 DEF IInv

\* A request that stores nothing only has to answer right.
LEMMA AnswerInvariant ==
  ASSUME IInv, UNCHANGED <<map, order, missed>>, NEW css \in Selectors,
         asked' = css, answer' = ParsedAs[css]
  PROVE  IInv'
<1>1. Cached' = Cached /\ order' = order /\ missed' = missed /\ map' = map
  BY DEF Cached
<1>2. TypeOK'
  BY <1>1, ParseAssumption DEF IInv, TypeOK
<1>3. InStep' /\ HoldsLatest' /\ Stored' /\ SameSize'
  BY <1>1 DEF IInv, InStep, HoldsLatest, Stored, SameSize
<1> QED
  BY <1>2, <1>3 DEF IInv, AnswersExact

\* The facts a miss starts from: the size of the queue decides about eviction.
LEMMA EvictionDecision ==
  ASSUME IInv
  PROVE  /\ Len(order) \in Nat
         /\ Full <=> Len(order) = Capacity
         /\ Full => order # <<>>
         /\ ~ Full => Len(order) + 1 <= Capacity
BY CapacityAssumption DEF IInv, TypeOK, InStep, SameSize, Full

\* A cache with room keeps every entry.
LEMMA KeepInvariant ==
  ASSUME IInv, NEW css \in Selectors, css \notin Overlong, css \notin Cached,
         ParsedAs[css] # SyntaxError, asked' = css, answer' = ParsedAs[css],
         KeepAll, ~ Full, missed' = Append(missed, css)
  PROVE  IInv'
<1> DEFINE n == Len(order)
<1>1. /\ order \in Seq(Selectors) /\ missed \in Seq(Selectors) /\ n \in Nat
      /\ Cached \subseteq Selectors \ Overlong /\ map \in [Cached -> Lists]
  BY DEF IInv, TypeOK
<1>2. answer' \in Lists
  BY ParseAssumption
<1>3. /\ order' \in Seq(Selectors) /\ Len(order') = n + 1 /\ order'[n + 1] = css
      /\ \A i \in 1..n : order'[i] = order[i]
  BY <1>1, ExtendedQueue DEF KeepAll
<1>4. /\ missed' \in Seq(Selectors) /\ Len(missed') = Len(missed) + 1
      /\ missed'[Len(missed) + 1] = css
      /\ \A i \in 1..Len(missed) : missed'[i] = missed[i]
  BY <1>1, ExtendedQueue
<1>5. /\ map' = [key \in Cached \union {css} |-> IF key = css THEN answer' ELSE map[key]]
      /\ Cached' = Cached \union {css}
  BY DEF KeepAll, WithEntry, Cached
<1>6. TypeOK'
  <2>1. map' \in [Cached' -> Lists]
    BY <1>1, <1>2, <1>5
  <2> QED
    BY <1>1, <1>2, <1>3, <1>4, <1>5, <2>1 DEF TypeOK
<1>7. InStep'
  <2>1. Cached = {order[i] : i \in 1..n} /\ \A i, j \in 1..n : order[i] = order[j] => i = j
    BY <1>1 DEF IInv, InStep
  <2>2. DOMAIN order' = 1..n + 1 /\ 1..n + 1 = (1..n) \union {n + 1}
    BY <1>1, <1>3
  <2>3. Cached' = {order'[i] : i \in DOMAIN order'}
    BY <1>3, <1>5, <2>1, <2>2
  <2>4. \A i \in 1..n : order'[i] # css
    BY <1>3, <2>1
  <2>5. \A i, j \in DOMAIN order' : order'[i] = order'[j] => i = j
    BY <1>3, <2>1, <2>2, <2>4
  <2>6. Len(order') <= Capacity
    BY <1>3, EvictionDecision
  <2> QED
    BY <2>3, <2>5, <2>6 DEF InStep
<1>8. HoldsLatest'
  <2>1. /\ Len(missed) \in Nat /\ Len(missed) = n
        /\ \A i \in 1..n : order[i] = missed[Len(missed) - n + i]
    BY <1>1, EvictionDecision DEF IInv, HoldsLatest
  <2>2. \A i \in 1..n + 1 : order'[i] = missed'[i]
    BY <1>1, <1>3, <1>4, <2>1
  <2> QED
    BY <1>1, <1>3, <1>4, <2>1, <2>2 DEF HoldsLatest
<1>9. Stored'
  BY <1>5 DEF Stored, IInv
<1>10. SameSize'
  BY <1>3, <1>5, FS_AddElement DEF SameSize, IInv
<1> QED
  BY <1>6, <1>7, <1>8, <1>9, <1>10 DEF IInv, AnswersExact

\* A full cache exchanges its oldest entry for the new one.
LEMMA EvictInvariant ==
  ASSUME IInv, NEW css \in Selectors, css \notin Overlong, css \notin Cached,
         ParsedAs[css] # SyntaxError, asked' = css, answer' = ParsedAs[css],
         EvictOldest, Full, missed' = Append(missed, css)
  PROVE  IInv'
<1> DEFINE n == Len(order)
           old == Head(order)
<1>1. /\ order \in Seq(Selectors) /\ missed \in Seq(Selectors) /\ n \in Nat \ {0} /\ n = Capacity
      /\ Cached \subseteq Selectors \ Overlong /\ map \in [Cached -> Lists] /\ order # <<>>
  BY EvictionDecision, CapacityAssumption DEF IInv, TypeOK
<1>2. answer' \in Lists
  BY ParseAssumption
<1>3. /\ order' \in Seq(Selectors) /\ Len(order') = n /\ order'[n] = css
      /\ \A i \in 1..n - 1 : order'[i] = order[i + 1]
  BY <1>1, ShiftedQueue DEF EvictOldest
<1>4. /\ missed' \in Seq(Selectors) /\ Len(missed') = Len(missed) + 1
      /\ missed'[Len(missed) + 1] = css
      /\ \A i \in 1..Len(missed) : missed'[i] = missed[i]
  BY <1>1, ExtendedQueue
<1>5. /\ map' = [key \in (Cached \ {old}) \union {css} |-> IF key = css THEN answer' ELSE map[key]]
      /\ Cached' = (Cached \ {old}) \union {css}
  <2>1. Without(map, old) = [key \in Cached \ {old} |-> map[key]]
    BY DEF Without, Cached
  <2> QED
    BY <2>1 DEF EvictOldest, WithEntry, Cached
<1>6. /\ old = order[1]
      /\ \A key : key \in Cached <=> \E i \in 1..n : key = order[i]
      /\ \A i, j \in 1..n : order[i] = order[j] => i = j
  <2>1. DOMAIN order = 1..n /\ old = order[1]
    BY <1>1
  <2>2. Cached = {order[i] : i \in DOMAIN order} /\ \A i, j \in DOMAIN order : order[i] = order[j] => i = j
    BY DEF IInv, InStep
  <2> QED
    BY <2>1, <2>2
<1>7. TypeOK'
  <2>1. map' \in [Cached' -> Lists]
    BY <1>1, <1>2, <1>5
  <2> QED
    BY <1>1, <1>2, <1>3, <1>4, <1>5, <2>1 DEF TypeOK
<1>8. InStep'
  <2>1. DOMAIN order' = 1..n /\ 1..n = (1..n - 1) \union {n}
    BY <1>1, <1>3
  <2>2. \A key : key \in Cached \ {old} <=> \E i \in 1..n - 1 : key = order'[i]
    <3>1. ASSUME NEW i \in 2..n PROVE order[i] = order'[i - 1] /\ i - 1 \in 1..n - 1 /\ order[i] # old
      <4>1. i - 1 \in 1..n - 1 /\ (i - 1) + 1 = i /\ i \in 1..n /\ 1 \in 1..n /\ i # 1
        BY <1>1
      <4>2. order'[i - 1] = order[(i - 1) + 1]
        BY <4>1, <1>3
      <4> QED
        BY <4>1, <4>2, <1>6
    <3>2. ASSUME NEW i \in 1..n - 1 PROVE order'[i] = order[i + 1] /\ i + 1 \in 2..n
      BY <1>1, <1>3
    <3>3. 1..n = {1} \union 2..n
      BY <1>1
    <3> QED
      <4>1. ASSUME NEW key \in Cached, key # old PROVE \E i \in 1..n - 1 : key = order'[i]
        <5>1. PICK i \in 1..n : key = order[i]
          BY <4>1, <1>6
        <5>2. i \in 2..n
          BY <5>1, <4>1, <1>6, <1>1
        <5> QED
          BY <5>1, <5>2, <3>1, Zenon
      <4>2. ASSUME NEW i \in 1..n - 1 PROVE order'[i] \in Cached \ {old}
        <5>1. i + 1 \in 1..n /\ order'[i] = order[i + 1] /\ order[i + 1] # old
          <6>1. i + 1 \in 2..n /\ (i + 1) - 1 = i
            BY <1>1
          <6>2. order[i + 1] # old
            BY <6>1, <3>1, Zenon
          <6> QED
            BY <3>2, <6>1, <6>2, <1>1
        <5> QED
          BY <5>1, <1>6
      <4> QED
        BY <4>1, <4>2, Zenon
  <2>3. Cached' = {order'[i] : i \in DOMAIN order'}
    <3>1. \A key : key \in Cached' <=> key = css \/ \E i \in 1..n - 1 : key = order'[i]
      BY <1>5, <2>2
    <3>2. \A key : key \in Cached' <=> \E i \in 1..n : key = order'[i]
      <4>1. n \in 1..n /\ order'[n] = css /\ \A i \in 1..n : i \in 1..n - 1 \/ i = n
        BY <1>1, <1>3
      <4>2. \A i \in 1..n - 1 : i \in 1..n
        BY <1>1
      <4> QED
        BY <3>1, <4>1, <4>2, Zenon
    <3> QED
      BY <3>2, <2>1
  <2>4. \A i \in 1..n - 1 : order'[i] # css
    BY <2>2
  <2>5. \A i, j \in 1..n - 1 : order'[i] = order'[j] => i = j
    <3> SUFFICES ASSUME NEW i \in 1..n - 1, NEW j \in 1..n - 1, order'[i] = order'[j] PROVE i = j
      OBVIOUS
    <3>1. order[i + 1] = order[j + 1] /\ i + 1 \in 1..n /\ j + 1 \in 1..n
      BY <1>1, <1>3
    <3> QED
      BY <3>1, <1>1, <1>6
  <2>6. \A i, j \in DOMAIN order' : order'[i] = order'[j] => i = j
    BY <1>3, <2>1, <2>4, <2>5
  <2> QED
    BY <1>1, <1>3, <2>3, <2>6 DEF InStep
<1>9. HoldsLatest'
  <2>1. DOMAIN order = 1..n /\ DOMAIN order' = 1..n /\ Len(missed) \in Nat
    BY <1>1, <1>3
  <2>2. Len(missed) >= n /\ \A i \in 1..n : order[i] = missed[Len(missed) - n + i]
    <3>1. Len(missed) >= Len(order) /\ \A i \in DOMAIN order : order[i] = missed[Len(missed) - Len(order) + i]
      BY DEF IInv, HoldsLatest
    <3> QED
      BY <3>1, <2>1, Zenon
  <2>3. \A i \in 1..n : order'[i] = missed'[(Len(missed) + 1) - n + i]
    <3> SUFFICES ASSUME NEW i \in 1..n PROVE order'[i] = missed'[(Len(missed) + 1) - n + i]
      OBVIOUS
    <3>1. CASE i = n
      <4>1. (Len(missed) + 1) - n + n = Len(missed) + 1
        BY <1>1, <2>1
      <4> QED
        BY <3>1, <4>1, <1>3, <1>4
    <3>2. CASE i # n
      <4>1. i \in 1..n - 1 /\ i + 1 \in 1..n
        BY <3>2, <1>1
      <4>2. /\ (Len(missed) + 1) - n + i \in 1..Len(missed)
            /\ Len(missed) - n + (i + 1) = (Len(missed) + 1) - n + i
        <5>1. n \in Nat /\ Len(missed) \in Nat /\ Len(missed) >= n /\ i \in 1..n - 1
          BY <4>1, <1>1, <2>1, <2>2
        <5> HIDE DEF n
        <5> QED
          BY <5>1
      <4>3. order'[i] = missed[Len(missed) - n + (i + 1)]
        BY <4>1, <1>3, <2>2
      <4> QED
        BY <4>2, <4>3, <1>4
    <3> QED
      BY <3>1, <3>2
  <2>4. Len(missed') >= n /\ \A i \in 1..n : order'[i] = missed'[Len(missed') - n + i]
    BY <1>1, <1>4, <2>1, <2>2, <2>3
  <2> QED
    BY <1>1, <1>3, <2>1, <2>4 DEF HoldsLatest
<1>10. Stored'
  BY <1>5 DEF Stored, IInv
<1>11. SameSize'
  <2>1. old \in Cached /\ css \notin Cached \ {old}
    BY <1>1, <1>6
  <2>2. IsFiniteSet(Cached) /\ Cardinality(Cached) = n
    BY DEF IInv, SameSize
  <2>3. IsFiniteSet(Cached \ {old}) /\ Cardinality(Cached \ {old}) = n - 1
    BY <2>1, <2>2, FS_RemoveElement
  <2>4. IsFiniteSet(Cached') /\ Cardinality(Cached') = (n - 1) + 1
    BY <1>5, <2>1, <2>3, FS_AddElement
  <2> QED
    BY <1>1, <1>3, <2>4 DEF SameSize
<1> QED
  BY <1>7, <1>8, <1>9, <1>10, <1>11 DEF IInv, AnswersExact

\* No call breaks the invariant.
LEMMA NextInvariant == IInv /\ [Next]_vars => IInv'
<1> SUFFICES ASSUME IInv, [Next]_vars PROVE IInv'
  OBVIOUS
<1>1. ASSUME NEW css \in Selectors, ParseOverlong(css) PROVE IInv'
  BY <1>1, AnswerInvariant DEF ParseOverlong
<1>2. ASSUME NEW css \in Selectors, Hit(css) PROVE IInv'
  <2>1. map[css] = ParsedAs[css]
    BY <1>2 DEF Hit, IInv, Stored
  <2> QED
    BY <1>2, <2>1, AnswerInvariant DEF Hit
<1>3. ASSUME NEW css \in Selectors, MissInvalid(css) PROVE IInv'
  BY <1>3, AnswerInvariant DEF MissInvalid
<1>4. ASSUME NEW css \in Selectors, Miss(css) PROVE IInv'
  <2>1. /\ css \notin Overlong /\ css \notin Cached /\ ParsedAs[css] # SyntaxError
        /\ asked' = css /\ answer' = ParsedAs[css] /\ missed' = Append(missed, css)
    BY <1>4 DEF Miss, TooLong
  <2>2. CASE Full
    <3>1. EvictOldest
      BY <1>4, <2>1, <2>2, EvictionDecision DEF Miss, Insert
    <3> QED
      BY <2>1, <2>2, <3>1, EvictInvariant
  <2>3. CASE ~ Full
    <3>1. KeepAll
      BY <1>4, <2>1, <2>3 DEF Miss, Insert
    <3> QED
      BY <2>1, <2>3, <3>1, KeepInvariant
  <2> QED
    BY <2>2, <2>3
<1>5. CASE UNCHANGED vars
  <2>1. Cached' = Cached /\ Full' = Full
    BY <1>5 DEF Cached, Full, vars
  <2> QED
    BY <1>5, <2>1 DEF vars, IInv, TypeOK, InStep, AnswersExact, HoldsLatest, Stored, SameSize
<1> QED
  BY <1>1, <1>2, <1>3, <1>4, <1>5 DEF Next, Request

\* It holds in every state.
LEMMA Invariance == Spec => []IInv
BY InitInvariant, NextInvariant, PTL DEF Spec

\* Every variable keeps its type, and no overlong text is ever stored.
THEOREM CacheTypeCorrect == Spec => []TypeOK
<1>1. IInv => TypeOK
  BY DEF IInv
<1> QED
  BY <1>1, Invariance, PTL

\* The queue lists the keys of the map, each once, and never more than Capacity.
THEOREM CacheInStep == Spec => []InStep
<1>1. IInv => InStep
  BY DEF IInv
<1> QED
  BY <1>1, Invariance, PTL

\* A cached selector is the one parsing its text would give.
THEOREM CacheInvisible == Spec => []AnswersExact
<1>1. IInv => AnswersExact
  BY DEF IInv
<1> QED
  BY <1>1, Invariance, PTL

\* The cache holds the latest distinct insertions, whatever their number.
THEOREM CacheHoldsLatest == Spec => []HoldsLatest
<1>1. IInv => HoldsLatest
  BY DEF IInv
<1> QED
  BY <1>1, Invariance, PTL

\* For every capacity, the cache is not visible in an answer, its map and its queue
\* agree, and what it forgets is the oldest.
THEOREM CacheCorrect == Spec => []CacheExact
<1>1. AnswersExact /\ InStep /\ HoldsLatest => CacheExact
  BY DEF CacheExact
<1> QED
  BY <1>1, CacheInStep, CacheInvisible, CacheHoldsLatest, PTL
=============================================================================
