----------------------------- MODULE TreeLemmas -----------------------------
(***************************************************************************)
(* What the operations on the builder's two data structures do to a        *)
(* well-formed one.  First the stack of open elements, whatever else its   *)
(* entries hold: every closing operation is a truncation, and a            *)
(* truncation, a push and the rebuild of the adoption agency leave the two *)
(* caches exact.  Then the arena: the lemmas on links are about any array  *)
(* whose links stay in a set of nodes; the lemmas on the arena add what    *)
(* the edits write, node by node.  Last the two together: the stack as a   *)
(* branch of the tree, and what adoption makes of it.                      *)
(***************************************************************************)
EXTENDS OpenElementsOps, ArenaOps, FiniteSetTheorems, SequenceTheorems, WellFoundedInduction,
  TLAPS

-----------------------------------------------------------------------------
(***************************************************************************)
(* Least and greatest elements of sets of naturals, from the               *)
(* well-foundedness of < that the proof library states.  They stand in for *)
(* induction below.                                                        *)
(***************************************************************************)
NatLess == {pair \in Nat \X Nat : pair[1] < pair[2]}

\* < on the naturals has no infinite descending chain.
LEMMA NatLessWellFounded == IsWellFoundedOn(NatLess, Nat)
  BY NatLessThanWellFounded, Zenon DEF OpToRel, NatLess

\* Every non-empty set of naturals has a least element.
LEMMA LeastElement ==
  ASSUME NEW T, T \subseteq Nat, T # {}
  PROVE  \E x \in T : \A y \in T : x <= y
<1>1. PICK x \in T : \A y \in T : ~ (<<y, x>> \in NatLess)
  BY WFMin, NatLessWellFounded, Zenon
<1>2. ASSUME NEW y \in T PROVE x <= y
  <2>1. <<y, x>> \notin NatLess
    BY <1>1
  <2> QED
    BY <2>1 DEF NatLess
<1> QED
  BY <1>2

\* Every non-empty set of naturals below a bound has a greatest element.
LEMMA GreatestElement ==
  ASSUME NEW n \in Nat, NEW T, T \subseteq 0..n, T # {}
  PROVE  \E x \in T : \A y \in T : y <= x
<1> DEFINE M == {n - x : x \in T}
<1>1. M \subseteq Nat /\ M # {}
  <2>1. \A x \in T : n - x \in Nat
    OBVIOUS
  <2> QED
    BY <2>1
<1>2. PICK m \in M : \A k \in M : m <= k
  BY <1>1, LeastElement
<1>3. PICK x \in T : m = n - x
  OBVIOUS
<1>4. ASSUME NEW y \in T PROVE y <= x
  BY <1>2, <1>3, n - y \in M
<1> QED
  BY <1>4

\* A set of positions in an interval of naturals is finite, and no larger than
\* the interval.
LEMMA PositionsFinite ==
  ASSUME NEW n \in Nat, NEW T, T \subseteq 1..n
  PROVE  IsFiniteSet(T) /\ Cardinality(T) \in Nat /\ Cardinality(T) <= n
<1>1. IsFiniteSet(1..n) /\ Cardinality(1..n) = n
  BY FS_Interval
<1> QED
  BY <1>1, FS_Subset, FS_CardinalityType

\* What the stack operations need of its entries: a kind, and a mode that can be
\* replaced and leaves name and kind alone.
EntrySet(E) ==
  \A e \in E :
    /\ e.kind \in Kinds /\ e.mode \in Modes
    /\ \A mode \in Modes :
         LET r == [e EXCEPT !.mode = mode]
         IN  r \in E /\ r.mode = mode /\ r.kind = e.kind /\ r.name = e.name

StackType(E) == [stack : Seq(E), counts : [Kinds -> Nat], mode : Modes]

\* A stack of entries of E with the root at the bottom and exact caches.
StackOK(o, E) == o \in StackType(E) /\ Rooted(o.stack) /\ CachesAgree(o)

\* Entry by entry, r is s but for the modes.
SameButModes(r, s) ==
  /\ Len(r) = Len(s)
  /\ \A i \in 1..Len(s) : \E mode \in Modes : r[i] = [s[i] EXCEPT !.mode = mode]

-----------------------------------------------------------------------------
\* The categories of a name: a real element is never of the root's kind.
LEMMA ClassifyKind ==
  ASSUME NEW name PROVE Classify(name) \in Kinds \ {"Root"}
BY DEF Classify, Kinds

\* Every mode-changing kind has a mode of its own.
LEMMA ModeOfType == \A kind \in ModeKinds : ModeOf[kind] \in Modes /\ ModeOf[kind] # "InBody"
BY DEF ModeOf, ModeKinds, Modes

\* A push sets a mode or leaves the one in force.
LEMMA PushedModeType ==
  ASSUME NEW kind, NEW current \in Modes PROVE PushedMode(kind, current) \in Modes
BY ModeOfType DEF PushedMode

\* A search returns a position that passed its test, or 0 when there is none.
LEMMA LastOfPosition ==
  ASSUME NEW n \in Nat, NEW hits, hits \subseteq 1..n
  PROVE  LastOf(hits) \in 0..n /\ (LastOf(hits) # 0 => LastOf(hits) \in hits)
<1>1. CASE hits = {}
  BY <1>1 DEF LastOf
<1>2. CASE hits # {}
  <2>1. \E i \in hits : \A j \in hits : j <= i
    <3>1. hits \subseteq 0..n
      OBVIOUS
    <3> QED
      BY <3>1, <1>2, GreatestElement
  <2>2. LastOf(hits) \in hits
    BY <1>2, <2>1 DEF LastOf
  <2>3. \A i \in hits : i \in 0..n
    OBVIOUS
  <2> QED
    BY <2>2, <2>3, Zenon
<1> QED
  BY <1>1, <1>2

\* The last hit is the greatest.
LEMMA LastOfGreatest ==
  ASSUME NEW n \in Nat, NEW hits, hits \subseteq 1..n
  PROVE  \A i \in hits : i <= LastOf(hits)
<1>1. CASE hits = {}
  BY <1>1
<1>2. CASE hits # {}
  <2>1. \E i \in hits : \A j \in hits : j <= i
    <3>1. hits \subseteq 0..n
      OBVIOUS
    <3> QED
      BY <3>1, <1>2, GreatestElement
  <2> QED
    BY <1>2, <2>1 DEF LastOf
<1> QED
  BY <1>1, <1>2

\* A search from the bottom returns a position that passed its test, or 0.
LEMMA FirstOfPosition ==
  ASSUME NEW n \in Nat, NEW hits, hits \subseteq 1..n
  PROVE  /\ FirstOf(hits) \in 0..n /\ (FirstOf(hits) # 0 => FirstOf(hits) \in hits)
         /\ \A i \in hits : FirstOf(hits) <= i
<1>1. CASE hits = {}
  BY <1>1 DEF FirstOf
<1>2. CASE hits # {}
  <2>1. \E i \in hits : \A j \in hits : i <= j
    <3>1. hits \subseteq Nat
      OBVIOUS
    <3> QED
      BY <3>1, <1>2, LeastElement
  <2>2. FirstOf(hits) \in hits /\ \A i \in hits : FirstOf(hits) <= i
    BY <1>2, <2>1 DEF FirstOf
  <2>3. \A i \in hits : i \in 0..n
    OBVIOUS
  <2> QED
    BY <2>2, <2>3, Zenon
<1> QED
  BY <1>1, <1>2

\* Shifting positions makes them no more.
LEMMA ShiftedNotMore ==
  ASSUME NEW S \in SUBSET Int, NEW T, IsFiniteSet(T), NEW d \in Int, \A x \in S : x + d \in T
  PROVE  Cardinality(S) <= Cardinality(T)
<1> DEFINE g == [x \in S |-> x + d]
<1>1. g \in [S -> T]
  OBVIOUS
<1>2. \A x, y \in S : g[x] = g[y] => x = y
  OBVIOUS
<1> HIDE DEF g
<1>3. g \in Injection(S, T)
  BY <1>1, <1>2 DEF Injection, IsInjective
<1> QED
  BY <1>3, FS_Injection

\* Every prefix of a stack has a mode.
LEMMA ModeExists ==
  ASSUME NEW stack, NEW n \in Nat
  PROVE  \E mode \in Modes : IsModeAt(stack, n, mode)
<1> DEFINE T == {i \in 1..n : stack[i].kind \in ModeKinds}
<1>1. CASE T = {}
  <2>1. IsModeAt(stack, n, "InBody")
    BY <1>1 DEF IsModeAt
  <2> QED
    BY <2>1 DEF Modes
<1>2. CASE T # {}
  <2>1. PICK i \in T : \A j \in T : j <= i
    <3>1. T \subseteq 0..n
      OBVIOUS
    <3> QED
      BY <3>1, <1>2, GreatestElement
  <2>2. \A j \in i + 1 .. n : stack[j].kind \notin ModeKinds
    <3> SUFFICES ASSUME NEW j \in i + 1 .. n, stack[j].kind \in ModeKinds PROVE FALSE
      OBVIOUS
    <3>1. j \in T
      OBVIOUS
    <3> QED
      BY <2>1, <3>1
  <2>3. IsModeAt(stack, n, ModeOf[stack[i].kind])
    BY <2>2 DEF IsModeAt
  <2> QED
    BY <2>3, ModeOfType
<1> QED
  BY <1>1, <1>2

\* The mode of a prefix depends on the kinds in that prefix only.
LEMMA ModeOfPrefix ==
  ASSUME NEW s, NEW t, NEW n \in Nat, NEW mode,
         \A i \in 1..n : s[i].kind = t[i].kind,
         IsModeAt(s, n, mode)
  PROVE  IsModeAt(t, n, mode)
<1>1. CASE mode = "InBody" /\ \A i \in 1..n : s[i].kind \notin ModeKinds
  BY <1>1 DEF IsModeAt
<1>2. CASE \E i \in 1..n :
             /\ s[i].kind \in ModeKinds
             /\ mode = ModeOf[s[i].kind]
             /\ \A j \in i + 1 .. n : s[j].kind \notin ModeKinds
  <2>1. PICK i \in 1..n :
             /\ s[i].kind \in ModeKinds
             /\ mode = ModeOf[s[i].kind]
             /\ \A j \in i + 1 .. n : s[j].kind \notin ModeKinds
    BY <1>2
  <2>2. \A j \in i + 1 .. n : t[j].kind \notin ModeKinds
    <3>1. \A j \in i + 1 .. n : j \in 1..n
      OBVIOUS
    <3> QED
      BY <2>1, <3>1
  <2> QED
    BY <2>1, <2>2 DEF IsModeAt
<1> QED
  BY <1>1, <1>2 DEF IsModeAt

\* One more entry: the mode it was pushed with.
LEMMA ModeOfPush ==
  ASSUME NEW s, NEW n \in Nat, NEW mode, IsModeAt(s, n, mode),
         NEW kind, s[n + 1].kind = kind
  PROVE  IsModeAt(s, n + 1, PushedMode(kind, mode))
<1>1. CASE kind \in ModeKinds
  <2>1. \A j \in n + 2 .. n + 1 : FALSE
    OBVIOUS
  <2>2. (n + 1) \in 1 .. n + 1
    OBVIOUS
  <2> QED
    BY <1>1, <2>1, <2>2 DEF IsModeAt, PushedMode
<1>2. CASE kind \notin ModeKinds
  <2>1. \A i \in 1 .. n + 1 : i \in 1..n \/ i = n + 1
    OBVIOUS
  <2>2. CASE mode = "InBody" /\ \A i \in 1..n : s[i].kind \notin ModeKinds
    BY <1>2, <2>1, <2>2 DEF IsModeAt, PushedMode
  <2>3. CASE \E i \in 1..n :
             /\ s[i].kind \in ModeKinds
             /\ mode = ModeOf[s[i].kind]
             /\ \A j \in i + 1 .. n : s[j].kind \notin ModeKinds
    <3>1. PICK i \in 1..n :
             /\ s[i].kind \in ModeKinds
             /\ mode = ModeOf[s[i].kind]
             /\ \A j \in i + 1 .. n : s[j].kind \notin ModeKinds
      BY <2>3
    <3>2. \A j \in i + 1 .. n + 1 : s[j].kind \notin ModeKinds
      <4>1. \A j \in i + 1 .. n + 1 : j \in i + 1 .. n \/ j = n + 1
        OBVIOUS
      <4> QED
        BY <3>1, <4>1, <1>2
    <3>3. i \in 1 .. n + 1
      OBVIOUS
    <3> QED
      BY <3>1, <3>2, <3>3, <1>2 DEF IsModeAt, PushedMode
  <2> QED
    BY <2>2, <2>3 DEF IsModeAt
<1> QED
  BY <1>1, <1>2

\* The entries of a kind can be counted.
LEMMA EntriesFinite ==
  ASSUME NEW E, NEW stack \in Seq(E), NEW kind
  PROVE  /\ IsFiniteSet(EntriesOfKind(stack, kind))
         /\ Cardinality(EntriesOfKind(stack, kind)) \in Nat
<1>1. EntriesOfKind(stack, kind) \subseteq 1..Len(stack)
  BY DEF EntriesOfKind
<1>2. Len(stack) \in Nat
  OBVIOUS
<1> QED
  BY <1>1, <1>2, PositionsFinite

-----------------------------------------------------------------------------
\* A push keeps the caches exact: it sets a mode, and counts one entry more.
LEMMA PushOK ==
  ASSUME NEW E, EntrySet(E), NEW o, StackOK(o, E), NEW entry \in E, Classified(entry)
  PROVE  /\ StackOK(PushEntry(o, entry), E)
         /\ \E mode \in Modes : PushEntry(o, entry).stack = Append(o.stack, [entry EXCEPT !.mode = mode])
         /\ Len(PushEntry(o, entry).stack) = Len(o.stack) + 1
<1> DEFINE s == o.stack
           n == Len(s)
           mode == PushedMode(entry.kind, o.mode)
           e == [entry EXCEPT !.mode = mode]
           t == Append(s, e)
           counts == Recounted(o.counts, entry.kind, 1)
<1>1. s \in Seq(E) /\ n \in Nat /\ n >= 1 /\ o.mode \in Modes /\ o.counts \in [Kinds -> Nat]
  BY DEF StackOK, StackType, Rooted
<1>2. mode \in Modes /\ e \in E /\ e.kind = entry.kind /\ e.name = entry.name
  BY <1>1, PushedModeType DEF EntrySet
<1>3. entry.kind \in Kinds /\ entry.kind # "Root"
  BY ClassifyKind DEF Classified
<1>4. t \in Seq(E) /\ Len(t) = n + 1 /\ t[n + 1] = e /\ \A i \in 1..n : t[i] = s[i]
  BY <1>1, <1>2
<1>5. PushEntry(o, entry) = [stack |-> t, counts |-> counts, mode |-> mode]
  BY DEF PushEntry
<1>6. counts \in [Kinds -> Nat]
  BY <1>1, <1>3 DEF Recounted
<1>7. PushEntry(o, entry) \in StackType(E)
  BY <1>2, <1>4, <1>5, <1>6 DEF StackType
<1>8. Rooted(t)
  <2>1. \A i \in 2..n : Classified(t[i])
    BY <1>1, <1>4 DEF StackOK, Rooted
  <2>2. Classified(t[n + 1])
    BY <1>2, <1>4 DEF Classified
  <2>3. t[1].kind = "Root"
    BY <1>1, <1>4 DEF StackOK, Rooted
  <2> QED
    BY <1>1, <1>4, <2>1, <2>2, <2>3 DEF Rooted
<1>9. \A i \in 1..n + 1 : IsModeAt(t, i, t[i].mode)
  <2>1. ASSUME NEW i \in 1..n PROVE IsModeAt(t, i, t[i].mode)
    <3>1. IsModeAt(s, i, t[i].mode)
      BY <1>4 DEF StackOK, CachesAgree
    <3>2. i \in Nat /\ \A j \in 1..i : s[j].kind = t[j].kind
      BY <1>1, <1>4
    <3> HIDE DEF s, n, t
    <3> QED
      BY <3>1, <3>2, ModeOfPrefix
  <2>2. IsModeAt(t, n + 1, mode)
    <3>1. IsModeAt(s, n, o.mode)
      BY <1>1 DEF StackOK, CachesAgree, Top
    <3>2. \A i \in 1..n : s[i].kind = t[i].kind
      BY <1>4
    <3>3. t[n + 1].kind = entry.kind
      BY <1>2, <1>4
    <3> HIDE DEF s, n, t
    <3>4. IsModeAt(t, n, o.mode)
      BY <1>1, <3>1, <3>2, ModeOfPrefix
    <3> QED
      BY <1>1, <3>3, <3>4, ModeOfPush
  <2>3. t[n + 1].mode = mode
    BY <1>1, <1>4, <1>2 DEF EntrySet
  <2> QED
    BY <1>1, <2>1, <2>2, <2>3
<1>10. ASSUME NEW kind \in Kinds
       PROVE  counts[kind] = Cardinality(EntriesOfKind(t, kind))
  <2>1. o.counts[kind] = Cardinality(EntriesOfKind(s, kind))
    BY DEF StackOK, CachesAgree
  <2>2. CASE kind = entry.kind
    <3>1. EntriesOfKind(t, kind) = EntriesOfKind(s, kind) \cup {n + 1}
      BY <1>1, <1>2, <1>4, <2>2 DEF EntriesOfKind
    <3>2. n + 1 \notin EntriesOfKind(s, kind)
      BY <1>1 DEF EntriesOfKind
    <3>3. Cardinality(EntriesOfKind(t, kind)) = Cardinality(EntriesOfKind(s, kind)) + 1
      BY <1>1, <3>1, <3>2, EntriesFinite, FS_AddElement
    <3> QED
      BY <1>1, <2>1, <2>2, <3>3 DEF Recounted
  <2>3. CASE kind # entry.kind
    <3>1. EntriesOfKind(t, kind) = EntriesOfKind(s, kind)
      BY <1>1, <1>2, <1>4, <2>3 DEF EntriesOfKind
    <3> QED
      BY <1>1, <2>1, <2>3, <3>1 DEF Recounted
  <2> QED
    BY <2>2, <2>3
<1>11. CachesAgree([stack |-> t, counts |-> counts, mode |-> mode])
  <2>1. t[Len(t)].mode = mode
    BY <1>1, <1>2, <1>4 DEF EntrySet
  <2> QED
    BY <1>4, <1>9, <1>10, <2>1 DEF CachesAgree, Top
<1>12. \E m \in Modes : PushEntry(o, entry).stack = Append(s, [entry EXCEPT !.mode = m])
  BY <1>2, <1>5
<1>13. StackOK(PushEntry(o, entry), E) /\ Len(PushEntry(o, entry).stack) = n + 1
  BY <1>4, <1>5, <1>7, <1>8, <1>11 DEF StackOK
<1> QED
  BY <1>12, <1>13

\* Truncation recovers the mode from the new top and recounts what it removed.
LEMMA TruncateOK ==
  ASSUME NEW E, EntrySet(E), NEW o, StackOK(o, E), NEW len \in Int
  PROVE  /\ StackOK(TruncateStack(o, len), E)
         /\ \A i \in 1..Len(TruncateStack(o, len).stack) : TruncateStack(o, len).stack[i] = o.stack[i]
         /\ Len(TruncateStack(o, len).stack) <= Len(o.stack)
         /\ len \in 1..Len(o.stack) => Len(TruncateStack(o, len).stack) = len
<1> DEFINE s == o.stack
           n == Len(s)
           keep == IF len < 1 THEN 1 ELSE len
           t == SubSeq(s, 1, keep)
           removed(kind) == {i \in keep + 1 .. n : s[i].kind = kind}
           counts == [kind \in Kinds |-> o.counts[kind] - Cardinality(removed(kind))]
           r == [stack |-> t, counts |-> counts, mode |-> s[keep].mode]
<1>1. s \in Seq(E) /\ n \in Nat /\ n >= 1 /\ o.mode \in Modes /\ o.counts \in [Kinds -> Nat]
  BY DEF StackOK, StackType, Rooted
<1>2. CASE keep >= n
  <2>1. TruncateStack(o, len) = o
    BY <1>2 DEF TruncateStack
  <2> QED
    BY <1>1, <1>2, <2>1
<1>3. CASE ~ (keep >= n)
  <2>1. TruncateStack(o, len) = r
    BY <1>3 DEF TruncateStack
  <2>2. keep \in 1..n - 1
    BY <1>1, <1>3
  <2> HIDE DEF keep
  <2>3. t \in Seq(E) /\ Len(t) = keep /\ \A i \in 1..keep : t[i] = s[i]
    BY <1>1, <2>2
  <2>4. ASSUME NEW kind \in Kinds
        PROVE  counts[kind] \in Nat /\ counts[kind] = Cardinality(EntriesOfKind(t, kind))
    <3>1. EntriesOfKind(s, kind) = EntriesOfKind(t, kind) \cup removed(kind)
      BY <1>1, <2>2, <2>3 DEF EntriesOfKind
    <3>2. EntriesOfKind(t, kind) \cap removed(kind) = {}
      BY <1>1, <2>2, <2>3 DEF EntriesOfKind
    <3>3. IsFiniteSet(removed(kind)) /\ Cardinality(removed(kind)) \in Nat
      <4>1. removed(kind) \subseteq 1..n
        BY <2>2
      <4> QED
        BY <1>1, <4>1, PositionsFinite
    <3>4. /\ IsFiniteSet(EntriesOfKind(t, kind))
          /\ Cardinality(EntriesOfKind(t, kind)) \in Nat
      BY <2>3, EntriesFinite
    <3>5. Cardinality(EntriesOfKind(s, kind)) =
            Cardinality(EntriesOfKind(t, kind)) + Cardinality(removed(kind)) - Cardinality({})
      BY <3>1, <3>2, <3>3, <3>4, FS_Union
    <3>6. o.counts[kind] = Cardinality(EntriesOfKind(s, kind))
      BY DEF StackOK, CachesAgree
    <3>7. counts[kind] = o.counts[kind] - Cardinality(removed(kind))
      OBVIOUS
    <3> HIDE DEF counts, removed
    <3> QED
      BY <3>3, <3>4, <3>5, <3>6, <3>7, FS_EmptySet
  <2>5. s[keep].mode \in Modes
    <3>1. s[keep] \in E
      BY <1>1, <2>2
    <3> QED
      BY <3>1 DEF EntrySet
  <2>6. counts \in [Kinds -> Nat]
    BY <2>4
  <2>7. r \in StackType(E)
    BY <2>3, <2>5, <2>6 DEF StackType
  <2>8. Rooted(t)
    BY <2>2, <2>3 DEF StackOK, Rooted
  <2>9. \A i \in 1..keep : IsModeAt(t, i, t[i].mode)
    <3> SUFFICES ASSUME NEW i \in 1..keep PROVE IsModeAt(t, i, t[i].mode)
      OBVIOUS
    <3>1. IsModeAt(s, i, t[i].mode)
      BY <2>2, <2>3 DEF StackOK, CachesAgree
    <3>2. i \in Nat /\ \A j \in 1..i : s[j].kind = t[j].kind
      BY <2>2, <2>3
    <3> HIDE DEF s, n, t
    <3> QED
      BY <3>1, <3>2, ModeOfPrefix
  <2>10. CachesAgree(r)
    BY <2>2, <2>3, <2>4, <2>9 DEF CachesAgree, Top
  <2>11. len \in 1..n => keep = len
    BY DEF keep
  <2> QED
    BY <1>1, <2>1, <2>2, <2>3, <2>7, <2>8, <2>10, <2>11 DEF StackOK
<1> QED
  BY <1>2, <1>3

\* A pop is the truncation by one.
LEMMA PopIsTruncation ==
  ASSUME NEW E, EntrySet(E), NEW o, StackOK(o, E), Len(o.stack) > 1
  PROVE  PopOpenElement(o) = TruncateStack(o, Len(o.stack) - 1)
<1> DEFINE s == o.stack
           n == Len(s)
           removed(kind) == {i \in (n - 1) + 1 .. n : s[i].kind = kind}
           popped == Recounted(o.counts, s[n].kind, -1)
           counts == [kind \in Kinds |-> o.counts[kind] - Cardinality(removed(kind))]
<1>1. s \in Seq(E) /\ n \in Nat /\ n > 1 /\ o.counts \in [Kinds -> Nat]
  BY DEF StackOK, StackType
<1>2. s[n].kind \in Kinds
  <2>1. s[n] \in E
    BY <1>1
  <2> QED
    BY <2>1 DEF EntrySet
<1>3. \A kind \in Kinds : popped[kind] = counts[kind]
  <2> SUFFICES ASSUME NEW kind \in Kinds PROVE popped[kind] = counts[kind]
    OBVIOUS
  <2>1. counts[kind] = o.counts[kind] - Cardinality(removed(kind))
    OBVIOUS
  <2>2. CASE kind = s[n].kind
    <3>1. removed(kind) = {n}
      BY <1>1, <2>2
    <3>2. Cardinality({n}) = 1
      BY FS_Singleton
    <3>3. popped[kind] = o.counts[kind] - 1
      BY <1>1, <1>2, <2>2 DEF Recounted
    <3> QED
      BY <2>1, <3>1, <3>2, <3>3
  <2>3. CASE kind # s[n].kind
    <3>1. removed(kind) = {}
      BY <1>1, <2>3
    <3>2. Cardinality({}) = 0
      BY FS_EmptySet
    <3>3. popped[kind] = o.counts[kind] /\ o.counts[kind] \in Nat
      BY <1>1, <1>2, <2>3 DEF Recounted
    <3> HIDE DEF counts, removed, popped
    <3> QED
      BY <2>1, <3>1, <3>2, <3>3
  <2> QED
    BY <2>2, <2>3
<1>4. popped = counts
  <2>1. popped = [kind \in Kinds |-> popped[kind]] /\ counts = [kind \in Kinds |-> counts[kind]]
    BY <1>1 DEF Recounted
  <2> HIDE DEF popped, counts
  <2> QED
    BY <1>3, <2>1
<1>5. PopOpenElement(o) = [stack |-> SubSeq(s, 1, n - 1), counts |-> popped, mode |-> s[n - 1].mode]
  <2>1. Len(SubSeq(s, 1, n - 1)) = n - 1 /\ SubSeq(s, 1, n - 1)[n - 1] = s[n - 1]
    BY <1>1
  <2> QED
    BY <2>1 DEF PopOpenElement, Top
<1>6. TruncateStack(o, n - 1) = [stack |-> SubSeq(s, 1, n - 1), counts |-> counts, mode |-> s[n - 1].mode]
  <2>1. ~ (n - 1 < 1) /\ ~ (n - 1 >= n)
    BY <1>1
  <2> QED
    BY <2>1 DEF TruncateStack
<1> QED
  BY <1>4, <1>5, <1>6

\* A closing operation leaves a well-formed stack, the bottom of the one before.
Shrinks(r, o, E) ==
  /\ StackOK(r, E)
  /\ Len(r.stack) <= Len(o.stack)
  /\ \A i \in 1..Len(r.stack) : r.stack[i] = o.stack[i]

\* Every truncation closes entries.
LEMMA TruncateShrinks ==
  ASSUME NEW E, EntrySet(E), NEW o, StackOK(o, E), NEW len \in Int
  PROVE  Shrinks(TruncateStack(o, len), o, E)
BY TruncateOK DEF Shrinks

\* So does closing none.
LEMMA UnchangedShrinks ==
  ASSUME NEW E, EntrySet(E), NEW o, StackOK(o, E) PROVE Shrinks(o, o, E)
BY DEF Shrinks, StackOK, StackType

\* A pop of anything but the root closes one.
LEMMA PopShrinks ==
  ASSUME NEW E, EntrySet(E), NEW o, StackOK(o, E), Len(o.stack) > 1
  PROVE  Shrinks(PopOpenElement(o), o, E)
<1>1. Len(o.stack) - 1 \in Int
  BY DEF StackOK, StackType
<1> QED
  BY <1>1, PopIsTruncation, TruncateShrinks

\* Closing an entry closes all above it.
LEMMA CloseFromShrinks ==
  ASSUME NEW E, EntrySet(E), NEW o, StackOK(o, E), NEW index \in Nat
  PROVE  Shrinks(CloseFrom(o, index), o, E)
BY UnchangedShrinks, TruncateShrinks DEF CloseFrom

\* The innermost entry of a kind, which the code looks for only when the count is not 0.
LEMMA LastOfKindRange ==
  ASSUME NEW E, EntrySet(E), NEW o, StackOK(o, E), NEW kind, NEW at, at = LastOfKind(o, kind)
  PROVE  /\ at \in 0..Len(o.stack)
         /\ at # 0 => o.stack[at].kind = kind
         /\ \A i \in at + 1 .. Len(o.stack) : o.stack[i].kind # kind
<1> DEFINE hits == {i \in 1..Len(o.stack) : o.stack[i].kind = kind}
<1>1. Len(o.stack) \in Nat /\ hits \subseteq 1..Len(o.stack)
  BY DEF StackOK, StackType
<1>2. at = LastOf(hits)
  BY DEF LastOfKind, Innermost
<1>3. \A i \in 1..Len(o.stack) : o.stack[i].kind = kind => i \in hits
  OBVIOUS
<1>4. \A i \in hits : o.stack[i].kind = kind
  OBVIOUS
<1> HIDE DEF hits
<1>5. at \in 0..Len(o.stack) /\ (at # 0 => at \in hits)
  BY <1>1, <1>2, LastOfPosition
<1>6. \A i \in hits : i <= at
  BY <1>1, <1>2, LastOfGreatest
<1>7. ASSUME NEW i \in at + 1 .. Len(o.stack) PROVE o.stack[i].kind # kind
  <2>1. i \in 1..Len(o.stack) /\ ~ (i <= at)
    BY <1>1, <1>5
  <2> QED
    BY <1>3, <1>6, <2>1
<1> QED
  BY <1>4, <1>5, <1>7

\* A search in scope finds an open entry or none.
LEMMA FindInScopeRange ==
  ASSUME NEW E, EntrySet(E), NEW o, StackOK(o, E), NEW kind, NEW scope
  PROVE  FindInScope(o, kind, scope) \in 0..Len(o.stack)
<1> DEFINE hits == {i \in 2..Len(o.stack) : o.stack[i].kind = kind}
<1>1. Len(o.stack) \in Nat /\ hits \subseteq 1..Len(o.stack)
  BY DEF StackOK, StackType
<1>2. FindInScope(o, kind, scope) \in {0, LastOf(hits)}
  BY DEF FindInScope, InnermostBefore, Innermost
<1>3. 0 \in 0..Len(o.stack)
  BY <1>1
<1> HIDE DEF hits
<1> QED
  BY <1>1, <1>2, <1>3, LastOfPosition, Zenon

\* The same by name: never the root, and no entry above what is found ends the scope.
LEMMA FindNamedInScopeRange ==
  ASSUME NEW E, EntrySet(E), NEW o, StackOK(o, E), NEW name, NEW scope,
         NEW f, f = FindNamedInScope(o, name, scope)
  PROVE  /\ f \in 0..Len(o.stack)
         /\ f # 0 => /\ f >= 2
                     /\ o.stack[f].name = name
                     /\ \A j \in f + 1 .. Len(o.stack) : ~ StopsAt(scope, o.stack[j].name)
<1> DEFINE hits == {i \in 2..Len(o.stack) : o.stack[i].name = name}
<1>1. Len(o.stack) \in Nat /\ hits \subseteq 1..Len(o.stack)
  BY DEF StackOK, StackType
<1>2. f = IF \E j \in LastOf(hits) + 1 .. Len(o.stack) : StopsAt(scope, o.stack[j].name)
          THEN 0 ELSE LastOf(hits)
  BY DEF FindNamedInScope, InnermostBefore, Innermost
<1>3. \A i \in hits : i >= 2 /\ o.stack[i].name = name
  BY <1>1
<1>4. 0 \in 0..Len(o.stack)
  BY <1>1
<1> HIDE DEF hits
<1>5. f \in 0..Len(o.stack) /\ (f # 0 => f \in hits)
  BY <1>1, <1>2, <1>4, LastOfPosition, Zenon
<1>6. f # 0 => \A j \in f + 1 .. Len(o.stack) : ~ StopsAt(scope, o.stack[j].name)
  BY <1>2
<1> QED
  BY <1>3, <1>5, <1>6

\* What is found is the last of its name.
LEMMA FoundIsLast ==
  ASSUME NEW E, EntrySet(E), NEW o, StackOK(o, E), NEW name, NEW scope,
         NEW f, f = FindNamedInScope(o, name, scope), f # 0
  PROVE  \A j \in f + 1 .. Len(o.stack) : o.stack[j].name # name
<1> DEFINE hits == {i \in 2..Len(o.stack) : o.stack[i].name = name}
<1>1. Len(o.stack) \in Nat /\ hits \subseteq 1..Len(o.stack)
  BY DEF StackOK, StackType
<1>2. f = LastOf(hits)
  BY DEF FindNamedInScope, InnermostBefore, Innermost
<1>3. f \in 0..Len(o.stack) /\ f >= 2
  BY FindNamedInScopeRange
<1>4. ASSUME NEW j \in f + 1 .. Len(o.stack), o.stack[j].name = name PROVE FALSE
  <2>1. j \in hits /\ j \in Nat /\ ~ (j <= f)
    BY <1>1, <1>3, <1>4
  <2> HIDE DEF hits
  <2> QED
    BY <1>1, <1>2, <2>1, LastOfGreatest
<1> QED
  BY <1>4

\* The last of its name is found when nothing above it ends the scope.
LEMMA LastIsFound ==
  ASSUME NEW E, EntrySet(E), NEW o, StackOK(o, E), NEW name, NEW scope,
         NEW f \in 2..Len(o.stack), o.stack[f].name = name,
         \A j \in f + 1 .. Len(o.stack) :
           o.stack[j].name # name /\ ~ StopsAt(scope, o.stack[j].name)
  PROVE  FindNamedInScope(o, name, scope) = f
<1> DEFINE hits == {i \in 2..Len(o.stack) : o.stack[i].name = name}
<1>1. Len(o.stack) \in Nat /\ hits \subseteq 1..Len(o.stack)
  BY DEF StackOK, StackType
<1>2. f \in hits /\ f # 0
  BY <1>1
<1>3. \A i \in hits : i <= f
  <2> SUFFICES ASSUME NEW i \in hits, ~ (i <= f) PROVE FALSE
    OBVIOUS
  <2>1. i \in f + 1 .. Len(o.stack) /\ o.stack[i].name = name
    BY <1>1
  <2> QED
    BY <2>1
<1>4. FindNamedInScope(o, name, scope)
        = IF \E j \in LastOf(hits) + 1 .. Len(o.stack) : StopsAt(scope, o.stack[j].name)
          THEN 0 ELSE LastOf(hits)
  BY DEF FindNamedInScope, InnermostBefore, Innermost
<1> HIDE DEF hits
<1>5. LastOf(hits) = f
  <2>1. LastOf(hits) \in 0..Len(o.stack) /\ f <= LastOf(hits)
    BY <1>1, <1>2, LastOfPosition, LastOfGreatest
  <2>2. LastOf(hits) # 0
    BY <1>1, <2>1
  <2>3. LastOf(hits) \in hits
    BY <1>1, <2>2, LastOfPosition
  <2>4. LastOf(hits) <= f
    BY <1>3, <2>3
  <2> QED
    BY <1>1, <2>1, <2>4
<1> QED
  BY <1>4, <1>5

\* The furthest block is a special element above the formatting entry, and is
\* therefore no formatting element; what sets a mode is special, so none of it is in between.
LEMMA FurthestBlockRange ==
  ASSUME NEW E, EntrySet(E), NEW o, StackOK(o, E), NEW f \in Nat, f >= 1,
         NEW b, b = FurthestBlock(o, f), b # 0
  PROVE  /\ b \in f + 1 .. Len(o.stack) /\ IsSpecial(o.stack[b].name) /\ o.stack[b].kind # "Formatting"
         /\ \A i \in f + 1 .. b - 1 : o.stack[i].kind \notin ModeKinds
<1> DEFINE hits == {i \in f + 1 .. Len(o.stack) : IsSpecial(o.stack[i].name)}
<1>1. Len(o.stack) \in Nat /\ hits \subseteq 1..Len(o.stack)
  BY DEF StackOK, StackType
<1>2. b = FirstOf(hits)
  BY DEF FurthestBlock
<1>3. \A i \in hits : i \in f + 1 .. Len(o.stack) /\ i \in 2..Len(o.stack) /\ IsSpecial(o.stack[i].name)
  BY <1>1
<1> HIDE DEF hits
<1>4. b \in hits
  BY <1>1, <1>2, FirstOfPosition, Zenon
<1>5. b \in f + 1 .. Len(o.stack) /\ b \in 2..Len(o.stack) /\ IsSpecial(o.stack[b].name)
  BY <1>3, <1>4
<1>6. o.stack[b].kind = Classify(o.stack[b].name)
  BY <1>5 DEF StackOK, Rooted, Classified
<1>7. ASSUME NEW name, Classify(name) = "Formatting" PROVE ~ IsSpecial(name)
  <2>1. name \in FormattingNames
    BY <1>7 DEF Classify
  <2> QED
    BY <1>7, <2>1 DEF IsSpecial, FormattingNames, RootName
<1>8. ASSUME NEW i \in f + 1 .. b - 1 PROVE o.stack[i].kind \notin ModeKinds
  <2>1. i \in f + 1 .. Len(o.stack) /\ i \in 2..Len(o.stack) /\ ~ (b <= i)
    BY <1>1, <1>5
  <2>2. ~ IsSpecial(o.stack[i].name)
    <3>1. \A j \in {j \in f + 1 .. Len(o.stack) : IsSpecial(o.stack[j].name)} : b <= j
      BY <1>1, <1>2, FirstOfPosition DEF hits
    <3> QED
      BY <2>1, <3>1
  <2>3. o.stack[i].kind = Classify(o.stack[i].name)
    BY <2>1 DEF StackOK, Rooted, Classified
  <2> QED
    BY <2>2, <2>3 DEF IsSpecial, ModeKinds
<1> QED
  BY <1>5, <1>6, <1>7, <1>8

\* The closing operations of the handlers, one by one.
LEMMA CloseLastKindShrinks ==
  ASSUME NEW E, EntrySet(E), NEW o, StackOK(o, E), NEW kind PROVE Shrinks(CloseLastKind(o, kind), o, E)
BY LastOfKindRange, CloseFromShrinks, UnchangedShrinks DEF CloseLastKind

\* Clearing back to a context closes what is above it.
LEMMA ClearBackToShrinks ==
  ASSUME NEW E, EntrySet(E), NEW o, StackOK(o, E), NEW kind PROVE Shrinks(ClearBackTo(o, kind), o, E)
BY LastOfKindRange, TruncateShrinks, UnchangedShrinks DEF ClearBackTo

\* Only the current node is popped.
LEMMA PopIfCurrentShrinks ==
  ASSUME NEW E, EntrySet(E), NEW o, StackOK(o, E), NEW kind PROVE Shrinks(PopIfCurrent(o, kind), o, E)
BY PopShrinks, UnchangedShrinks DEF PopIfCurrent, IsCurrentKind

\* Closing the innermost entry of a kind, if it is in scope.
LEMMA CloseInScopeShrinks ==
  ASSUME NEW E, EntrySet(E), NEW o, StackOK(o, E), NEW kind, NEW scope
  PROVE  Shrinks(CloseInScope(o, kind, scope), o, E)
BY FindInScopeRange, CloseFromShrinks DEF CloseInScope

\* Closing the entry an end tag matches.
LEMMA CloseMatchingShrinks ==
  ASSUME NEW E, EntrySet(E), NEW o, StackOK(o, E), NEW name PROVE Shrinks(CloseMatching(o, name), o, E)
<1> DEFINE hits == {i \in 2..Len(o.stack) : o.stack[i].name = name}
<1>1. Len(o.stack) \in Nat /\ hits \subseteq 1..Len(o.stack)
  BY DEF StackOK, StackType
<1>2. LastOf(hits) \in Nat
  <2>1. \A i \in 0..Len(o.stack) : i \in Nat
    BY <1>1
  <2> HIDE DEF hits
  <2> QED
    BY <1>1, <2>1, LastOfPosition, Zenon
<1>3. CloseMatching(o, name) \in {o, CloseFrom(o, 0), CloseFrom(o, LastOf(hits))}
  BY DEF CloseMatching, InnermostBefore, Innermost
<1> HIDE DEF hits
<1> QED
  BY <1>2, <1>3, UnchangedShrinks, CloseFromShrinks

\* Closing the list item that a new one ends.
LEMMA CloseListItemStartShrinks ==
  ASSUME NEW E, EntrySet(E), NEW o, StackOK(o, E), NEW kind PROVE Shrinks(CloseListItemStart(o, kind), o, E)
<1> DEFINE hits == {i \in 2..Len(o.stack) : o.stack[i].kind = kind}
<1>1. Len(o.stack) \in Nat /\ hits \subseteq 1..Len(o.stack)
  BY DEF StackOK, StackType
<1>2. LastOf(hits) \in Nat
  <2>1. \A i \in 0..Len(o.stack) : i \in Nat
    BY <1>1
  <2> HIDE DEF hits
  <2> QED
    BY <1>1, <2>1, LastOfPosition, Zenon
<1>3. CloseListItemStart(o, kind) \in {o, CloseFrom(o, 0), CloseFrom(o, LastOf(hits))}
  BY DEF CloseListItemStart, InnermostBefore, Innermost
<1> HIDE DEF hits
<1> QED
  BY <1>2, <1>3, UnchangedShrinks, CloseFromShrinks

-----------------------------------------------------------------------------
\* Recomputing the caches of any rooted stack makes it well-formed.
LEMMA RebuildOK ==
  ASSUME NEW E, EntrySet(E), NEW s \in Seq(E), Rooted(s)
  PROVE  StackOK(RebuildStackState(s), E) /\ SameButModes(RebuildStackState(s).stack, s)
<1> DEFINE n == Len(s)
           modeAt(i) == CHOOSE mode \in Modes : IsModeAt(s, i, mode)
           t == [i \in 1..n |-> [s[i] EXCEPT !.mode = modeAt(i)]]
           counts == [kind \in Kinds |-> Cardinality(EntriesOfKind(s, kind))]
           r == [stack |-> t, counts |-> counts, mode |-> modeAt(n)]
<1>1. n \in Nat /\ n >= 1 /\ \A i \in 1..n : s[i] \in E
  BY DEF Rooted
<1>2. \A i \in 1..n : modeAt(i) \in Modes /\ IsModeAt(s, i, modeAt(i))
  <2> SUFFICES ASSUME NEW i \in 1..n PROVE modeAt(i) \in Modes /\ IsModeAt(s, i, modeAt(i))
    OBVIOUS
  <2>1. i \in Nat
    BY <1>1
  <2> QED
    BY <2>1, ModeExists
<1> HIDE DEF modeAt
<1>3. \A i \in 1..n :
        t[i] \in E /\ t[i].name = s[i].name /\ t[i].kind = s[i].kind /\ t[i].mode = modeAt(i)
  BY <1>1, <1>2 DEF EntrySet
<1>12. \A i \in 1..n : \E mode \in Modes : t[i] = [s[i] EXCEPT !.mode = mode]
  BY <1>2
<1>4. t \in Seq(E) /\ Len(t) = n
  <2>1. t \in [1..n -> E]
    BY <1>3
  <2> HIDE DEF t
  <2> QED
    BY <1>1, <2>1
<1> HIDE DEF t
<1>5. Rooted(t)
  BY <1>1, <1>3, <1>4 DEF Rooted, Classified
<1>6. \A i \in 1..n : IsModeAt(t, i, t[i].mode)
  <2> SUFFICES ASSUME NEW i \in 1..n PROVE IsModeAt(t, i, t[i].mode)
    OBVIOUS
  <2>1. i \in Nat /\ \A j \in 1..i : s[j].kind = t[j].kind
    BY <1>1, <1>3
  <2>2. IsModeAt(s, i, t[i].mode)
    BY <1>2, <1>3
  <2> QED
    BY <2>1, <2>2, ModeOfPrefix
<1>7. \A kind \in Kinds : EntriesOfKind(t, kind) = EntriesOfKind(s, kind)
  BY <1>1, <1>3, <1>4 DEF EntriesOfKind
<1>8. counts \in [Kinds -> Nat]
  BY EntriesFinite
<1>9. r \in StackType(E)
  BY <1>1, <1>2, <1>4, <1>8 DEF StackType
<1>10. CachesAgree(r)
  BY <1>1, <1>3, <1>4, <1>6, <1>7 DEF CachesAgree, Top
<1>11. RebuildStackState(s) = r
  <2>1. SubSeq(t, 1, n) = t
    BY <1>1, <1>4
  <2>2. RebuildStackState(s) =
          [stack |-> SubSeq(t, 1, n), counts |-> counts, mode |-> modeAt(n)]
    BY DEF RebuildStackState, modeAt, t
  <2> QED
    BY <2>1, <2>2
<1> QED
  BY <1>4, <1>5, <1>9, <1>10, <1>11, <1>12 DEF StackOK, SameButModes

\* Entry by entry, a concatenation is the one and then the other.
LEMMA ConcatEntries ==
  ASSUME NEW E, NEW x \in Seq(E), NEW y \in Seq(E)
  PROVE  \A i \in 1..Len(x) + Len(y) : (x \o y)[i] = IF i <= Len(x) THEN x[i] ELSE y[i - Len(x)]
OBVIOUS

\* Appending classified entries keeps a stack rooted.
LEMMA ConcatRooted ==
  ASSUME NEW E, NEW x \in Seq(E), Rooted(x), NEW y \in Seq(E),
         \A i \in 1..Len(y) : Classified(y[i])
  PROVE  x \o y \in Seq(E) /\ Rooted(x \o y) /\ Len(x \o y) = Len(x) + Len(y)
<1>1. x \o y \in Seq(E) /\ Len(x \o y) = Len(x) + Len(y) /\ Len(x) \in Nat /\ Len(y) \in Nat
  OBVIOUS
<1>2. Len(x) >= 1 /\ x[1].kind = "Root" /\ \A i \in 2..Len(x) : Classified(x[i])
  BY DEF Rooted
<1>3. (x \o y)[1] = x[1]
  BY <1>1, <1>2
<1>4. ASSUME NEW i \in 2..Len(x \o y) PROVE Classified((x \o y)[i])
  <2>1. CASE i <= Len(x)
    <3>1. (x \o y)[i] = x[i] /\ i \in 2..Len(x)
      BY <1>1, <2>1
    <3> QED
      BY <3>1, <1>2
  <2>2. CASE i > Len(x)
    <3>1. (x \o y)[i] = y[i - Len(x)] /\ i - Len(x) \in 1..Len(y)
      BY <1>1, <2>2
    <3> QED
      BY <3>1
  <2> QED
    BY <1>1, <2>1, <2>2
<1> HIDE DEF Rooted
<1> QED
  BY <1>1, <1>2, <1>3, <1>4 DEF Rooted

\* The clones of the adoption agency are made from formatting entries between
\* the formatting entry and the furthest block, of which there are enough.
LEMMA ChainRange ==
  ASSUME NEW o, NEW f \in Nat, NEW b \in Nat, f < b
  PROVE  /\ ChainPositions(o, f, b) \in Seq({i \in f + 1 .. b - 1 : o.stack[i].kind = "Formatting"})
         /\ Len(ChainPositions(o, f, b)) <= b - f - 1
<1> DEFINE at(i) == IF i > f /\ o.stack[i].kind = "Formatting" THEN <<i>> ELSE <<>>
           P == {i \in f + 1 .. b - 1 : o.stack[i].kind = "Formatting"}
           x == at(b - 3)
           y == at(b - 2)
           z == at(b - 1)
<1>1. ASSUME NEW i \in Int, i < b
      PROVE  /\ at(i) \in Seq(P)
             /\ Len(at(i)) \in 0..1
             /\ Len(at(i)) = 1 => i > f
  <2>1. CASE i > f /\ o.stack[i].kind = "Formatting"
    <3>1. at(i) = <<i>> /\ i \in P
      BY <1>1, <2>1
    <3> HIDE DEF at, P
    <3> QED
      BY <2>1, <3>1
  <2>2. CASE ~ (i > f /\ o.stack[i].kind = "Formatting")
    <3>1. at(i) = <<>>
      BY <2>2
    <3> HIDE DEF at, P
    <3> QED
      BY <3>1
  <2> QED
    BY <2>1, <2>2
<1>2. b - 3 \in Int /\ b - 2 \in Int /\ b - 1 \in Int /\ b - 3 < b /\ b - 2 < b /\ b - 1 < b
  OBVIOUS
<1> HIDE DEF P
<1>3. /\ x \in Seq(P) /\ Len(x) \in 0..1 /\ (Len(x) = 1 => b - 3 > f)
      /\ y \in Seq(P) /\ Len(y) \in 0..1 /\ (Len(y) = 1 => b - 2 > f)
      /\ z \in Seq(P) /\ Len(z) \in 0..1 /\ (Len(z) = 1 => b - 1 > f)
  <2> HIDE DEF at
  <2> QED
    BY <1>1, <1>2
<1>4. ChainPositions(o, f, b) = x \o y \o z
  BY DEF ChainPositions
<1> HIDE DEF x, y, z
<1>5. x \o y \o z \in Seq(P) /\ Len(x \o y \o z) = Len(x) + Len(y) + Len(z)
  BY <1>3
<1>6. Len(x) + Len(y) + Len(z) <= b - f - 1
  <2>1. \A i, j, k \in 0..1 :
          (i = 1 => b - 3 > f) /\ (j = 1 => b - 2 > f) /\ (k = 1 => b - 1 > f)
            => i + j + k <= b - f - 1
    OBVIOUS
  <2> QED
    BY <1>3, <2>1, Zenon
<1> QED
  BY <1>4, <1>5, <1>6 DEF P

\* Entry i of the stack that the adoption agency leaves, but for its mode.
AdoptedEntry(s, f, b, chain, furthest, replacement, i) ==
  LET k == Len(chain)
  IN  CASE i < f -> s[i]
        [] i >= f /\ i < f + k -> chain[i - f + 1]
        [] i = f + k -> furthest
        [] i = f + k + 1 -> replacement
        [] OTHER -> s[b + (i - (f + k + 1))]

AdoptedOver(r, o, f, b, chain, furthest, replacement) ==
  /\ Len(r.stack) = f + Len(chain) + 1 + (Len(o.stack) - b)
  /\ \A i \in 1..Len(r.stack) :
       \E mode \in Modes :
         r.stack[i] = [AdoptedEntry(o.stack, f, b, chain, furthest, replacement, i) EXCEPT !.mode = mode]

\* The adoption agency's stack is well-formed, whichever classified entries its
\* clones are.
LEMMA AdoptOK ==
  ASSUME NEW E, EntrySet(E), NEW o, StackOK(o, E), NEW f \in Nat, NEW b \in Nat,
         f >= 2, f < b, b <= Len(o.stack),
         NEW chain \in Seq(E), \A i \in 1..Len(chain) : Classified(chain[i]),
         NEW furthest \in E, Classified(furthest),
         NEW replacement \in E, Classified(replacement),
         NEW r, r = AdoptedStack(o, f, b, chain, furthest, replacement)
  PROVE  StackOK(r, E) /\ AdoptedOver(r, o, f, b, chain, furthest, replacement)
<1> DEFINE s == o.stack
           n == Len(s)
           k == Len(chain)
           low == SubSeq(s, 1, f - 1)
           two == <<furthest, replacement>>
           high == SubSeq(s, b + 1, n)
           t == low \o chain \o two \o high
           entry(i) == AdoptedEntry(s, f, b, chain, furthest, replacement, i)
<1>1. s \in Seq(E) /\ n \in Nat /\ s[1].kind = "Root" /\ \A i \in 2..n : Classified(s[i])
  BY DEF StackOK, StackType, Rooted
<1>2. k \in Nat
  OBVIOUS
<1>3. low \in Seq(E) /\ Len(low) = f - 1 /\ Rooted(low) /\ \A i \in 1..f - 1 : low[i] = s[i]
  <2>1. low \in Seq(E) /\ Len(low) = f - 1 /\ \A i \in 1..f - 1 : low[i] = s[i]
    BY <1>1
  <2>2. Len(low) >= 1 /\ low[1] = s[1] /\ f - 1 <= n
    BY <1>1, <2>1
  <2>3. \A i \in 2..f - 1 : Classified(low[i])
    <3>1. \A i \in 2..f - 1 : i \in 1..f - 1 /\ i \in 2..n
      BY <1>1
    <3> QED
      BY <1>1, <2>1, <3>1, Zenon
  <2> HIDE DEF low
  <2> QED
    BY <1>1, <2>1, <2>2, <2>3, Zenon DEF Rooted
<1>4. two \in Seq(E) /\ Len(two) = 2 /\ two[1] = furthest /\ two[2] = replacement
  OBVIOUS
<1>5. \A i \in 1..Len(two) : Classified(two[i])
  <2>1. \A i \in 1..2 : i = 1 \/ i = 2
    OBVIOUS
  <2> HIDE DEF two
  <2> QED
    BY <1>4, <2>1
<1>6. high \in Seq(E) /\ Len(high) = n - b /\ \A i \in 1..n - b : high[i] = s[b + i]
  BY <1>1
<1>7. \A i \in 1..Len(high) : Classified(high[i])
  <2>1. \A i \in 1..n - b : b + i \in 2..n
    BY <1>1
  <2> HIDE DEF high
  <2> QED
    BY <1>1, <1>6, <2>1
<1> DEFINE lc == low \o chain
           lct == lc \o two
<1> HIDE DEF low, two, high
<1>8. lc \in Seq(E) /\ Rooted(lc) /\ Len(lc) = f - 1 + k
  BY <1>2, <1>3, ConcatRooted
<1>9. \A i \in 1..f - 1 + k : lc[i] = IF i < f THEN s[i] ELSE chain[i - f + 1]
  <2>1. \A i \in 1..f - 1 + k : lc[i] = IF i <= Len(low) THEN low[i] ELSE chain[i - Len(low)]
    BY <1>2, <1>3
  <2>2. \A i \in 1..f - 1 + k : i - (f - 1) = i - f + 1 /\ (i <= f - 1 <=> i < f) /\ (i < f => i \in 1..f - 1)
    BY <1>2
  <2> HIDE DEF lc
  <2> QED
    BY <1>3, <2>1, <2>2
<1> HIDE DEF lc
<1>20. Len(lc) \in Nat /\ Len(two) \in Nat
  BY <1>2, <1>4, <1>8
<1>10. lct \in Seq(E) /\ Rooted(lct) /\ Len(lct) = f + 1 + k
  <2>1. lct \in Seq(E) /\ Rooted(lct) /\ Len(lct) = Len(lc) + Len(two)
    BY <1>4, <1>5, <1>8, ConcatRooted
  <2> QED
    BY <1>2, <1>4, <1>8, <2>1
<1>11. \A i \in 1..f + 1 + k :
         lct[i] = IF i < f + k THEN lc[i] ELSE IF i = f + k THEN furthest ELSE replacement
  <2>1. \A i \in 1..f + 1 + k : lct[i] = IF i <= Len(lc) THEN lc[i] ELSE two[i - Len(lc)]
    <3>1. f + 1 + k = Len(lc) + Len(two)
      BY <1>2, <1>4, <1>8
    <3>2. \A i \in 1..Len(lc) + Len(two) : (lc \o two)[i] = IF i <= Len(lc) THEN lc[i] ELSE two[i - Len(lc)]
      BY <1>4, <1>8, ConcatEntries
    <3> QED
      BY <3>1, <3>2
  <2>2. \A i \in 1..f + 1 + k :
          /\ i <= f - 1 + k <=> i < f + k
          /\ i = f + k => i - (f - 1 + k) = 1
          /\ ~ (i < f + k) /\ i # f + k => i - (f - 1 + k) = 2
    <3> HIDE DEF k
    <3> QED
      BY <1>2
  <2> HIDE DEF lct, k
  <2> QED
    BY <1>4, <1>8, <2>1, <2>2
<1> HIDE DEF lct
<1>12. t = lct \o high
  BY DEF lct, lc
<1>13. t \in Seq(E) /\ Rooted(t) /\ Len(t) = f + k + 1 + (n - b)
  <2>1. lct \o high \in Seq(E) /\ Rooted(lct \o high) /\ Len(lct \o high) = Len(lct) + Len(high)
    BY <1>6, <1>7, <1>10, ConcatRooted
  <2>2. (f + 1 + k) + (n - b) = f + k + 1 + (n - b)
    <3>1. n \in Int /\ k \in Int /\ f \in Int /\ b \in Int
      BY <1>1, <1>2
    <3> HIDE DEF n, k
    <3> QED
      BY <3>1
  <2> HIDE DEF t, k, n
  <2> QED
    BY <1>6, <1>10, <1>12, <2>1, <2>2
<1>14. \A i \in 1..Len(t) : t[i] = entry(i)
  <2>1. \A i \in 1..Len(t) : t[i] = IF i <= Len(lct) THEN lct[i] ELSE high[i - Len(lct)]
    <3> HIDE DEF t
    <3> QED
      BY <1>2, <1>6, <1>10, <1>12, <1>13
  <2> HIDE DEF t
  <2> SUFFICES ASSUME NEW i \in 1..Len(t) PROVE t[i] = entry(i)
    OBVIOUS
  <2>2. i \in Nat /\ i >= 1
    BY <1>13
  <2>3. CASE i < f
    <3>1. i \in 1..f + 1 + k /\ i \in 1..f - 1 + k /\ i < f + k /\ i <= Len(lct)
      BY <1>2, <1>10, <2>2, <2>3
    <3> QED
      BY <1>9, <1>11, <2>1, <2>3, <3>1 DEF AdoptedEntry
  <2>4. CASE i >= f /\ i < f + k
    <3>1. i \in 1..f + 1 + k /\ i \in 1..f - 1 + k /\ ~ (i < f) /\ i <= Len(lct)
      BY <1>2, <1>10, <2>2, <2>4
    <3>2. entry(i) = chain[i - f + 1]
      BY <1>2, <2>2, <2>4 DEF AdoptedEntry
    <3> QED
      BY <1>9, <1>11, <2>1, <2>4, <3>1, <3>2
  <2>5. CASE i = f + k \/ i = f + k + 1
    <3>1. i \in 1..f + 1 + k /\ i <= Len(lct)
      BY <1>2, <1>10, <2>2, <2>5
    <3>2. entry(i) = IF i = f + k THEN furthest ELSE replacement
      BY <1>2, <2>2, <2>5 DEF AdoptedEntry
    <3>3. ~ (i < f + k)
      BY <1>2, <2>2, <2>5
    <3> QED
      BY <1>11, <2>1, <3>1, <3>2, <3>3
  <2>6. CASE i > f + k + 1
    <3>1. ~ (i <= Len(lct)) /\ i - Len(lct) \in 1..n - b /\ i - Len(lct) = i - (f + k + 1)
      <4>0. Len(lct) = f + k + 1
        BY <1>2, <1>10
      <4>1. n \in Nat /\ i <= f + k + 1 + (n - b) /\ Len(lct) = f + k + 1
        <5>1. i \in 1 .. f + k + 1 + (n - b)
          BY <1>13
        <5>2. n \in Nat
          BY <1>1
        <5> HIDE DEF k, n
        <5> QED
          BY <1>2, <2>2, <4>0, <5>1, <5>2
      <4> HIDE DEF n, k
      <4> QED
        BY <1>2, <2>2, <2>6, <4>1
    <3>2. entry(i) = s[b + (i - (f + k + 1))]
      BY <1>2, <2>2, <2>6 DEF AdoptedEntry
    <3> QED
      BY <1>6, <2>1, <3>1, <3>2
  <2>7. i < f \/ (i >= f /\ i < f + k) \/ (i = f + k \/ i = f + k + 1) \/ i > f + k + 1
    <3> HIDE DEF k
    <3> QED
      BY <1>2, <2>2
  <2> QED
    BY <2>3, <2>4, <2>5, <2>6, <2>7
<1>15. r = RebuildStackState(t)
  BY DEF AdoptedStack, low, two, high
<1> HIDE DEF t, entry
<1>16. StackOK(r, E) /\ SameButModes(r.stack, t)
  BY <1>13, <1>15, RebuildOK
<1>17. Len(r.stack) = Len(t) /\ \A i \in 1..Len(t) : \E mode \in Modes : r.stack[i] = [entry(i) EXCEPT !.mode = mode]
  BY <1>14, <1>16 DEF SameButModes
<1> QED
  BY <1>13, <1>16, <1>17 DEF entry, AdoptedOver

-----------------------------------------------------------------------------
(***************************************************************************)
(* The arena.                                                              *)
(***************************************************************************)
\* STRING: the provers do not know the literals it holds, so those that the model
\* writes into a node are named.
Strings ==
  STRING \cup {"", "none", "#document", "lf", "lt", "cr", "tbody", "tr", "colgroup", "p", "br"}

Node ==
  [type : NodeTypes, name : Strings, attrs : Strings, text : Seq(Strings), depth : Nat,
   index : Int, parent : Nat, prev : Nat, next : Nat, first : Nat, last : Nat]

Ids(ns) == 1..Len(ns)

\* LinksAgree, by the kind of link.
NextAgrees(ns, n) ==
  ns[n].next # NULL => ns[ns[n].next].prev = n /\ ns[ns[n].next].parent = ns[n].parent

PrevAgrees(ns, n) ==
  ns[n].prev # NULL => ns[ns[n].prev].next = n /\ ns[ns[n].prev].parent = ns[n].parent

FirstAgrees(ns, n) ==
  /\ ns[n].first # NULL => ns[ns[n].first].parent = n /\ ns[ns[n].first].prev = NULL
  /\ ns[n].first = NULL <=> ns[n].last = NULL

LastAgrees(ns, n) ==
  ns[n].last # NULL => ns[ns[n].last].parent = n /\ ns[ns[n].last].next = NULL

ParentAgrees(ns, n) ==
  /\ ns[n].parent # NULL /\ ns[n].prev = NULL => ns[ns[n].parent].first = n
  /\ ns[n].parent # NULL /\ ns[n].next = NULL => ns[ns[n].parent].last = n
  /\ ns[n].parent = NULL => ns[n].prev = NULL /\ ns[n].next = NULL

\* The links of the nodes N stay among them, and agree.
Linked(ns, N) ==
  \A n \in N :
    /\ {ns[n].parent, ns[n].prev, ns[n].next, ns[n].first, ns[n].last} \subseteq N \cup {NULL}
    /\ NextAgrees(ns, n) /\ PrevAgrees(ns, n) /\ FirstAgrees(ns, n)
    /\ LastAgrees(ns, n) /\ ParentAgrees(ns, n)

OnlyTextHasText(ns) == \A n \in Ids(ns) : ns[n].type # "text" => ns[n].text = <<>>

\* Every node has a rank, less than that of the sibling before it: no siblings
\* follow one another in a circle.
Ranked(ns, N, k) ==
  \A n \in N : k[n] \in Nat /\ (ns[n].next # NULL => k[ns[n].next] < k[n])

Ordered(ns, N) == \E k : Ranked(ns, N, k)

Arena(ns) ==
  ns \in Seq(Node) /\ Linked(ns, Ids(ns)) /\ Ordered(ns, Ids(ns)) /\ OnlyTextHasText(ns)

SameContent(m, n) == m.type = n.type /\ m.text = n.text

SameLinks(m, n) ==
  /\ m.parent = n.parent /\ m.prev = n.prev /\ m.next = n.next
  /\ m.first = n.first /\ m.last = n.last

\* Every node is where it was.
SamePlaces(r, ns) ==
  /\ Arena(r)
  /\ Len(r) = Len(ns)
  /\ \A n \in Ids(ns) : r[n].type = ns[n].type /\ r[n].parent = ns[n].parent

\* Nothing but depths and indices differs; the links back follow from the others.
SameTree(r, ns) ==
  /\ Arena(r)
  /\ Len(r) = Len(ns)
  /\ \A n \in Ids(ns) :
       /\ r[n].type = ns[n].type /\ r[n].text = ns[n].text /\ r[n].parent = ns[n].parent
       /\ r[n].first = ns[n].first /\ r[n].next = ns[n].next

\* The nodes of C keep their children, in the same order and with the same text.
Keeps(r, ns, C) ==
  /\ \A n \in C : r[n].first = ns[n].first
  /\ \A n \in Ids(ns) : ns[n].parent \in C =>
       /\ n \in Ids(r)
       /\ r[n].parent = ns[n].parent /\ r[n].next = ns[n].next /\ r[n].text = ns[n].text

\* c was moved below p, and all other nodes are where they were, in the same order.
MovedBelow(r, ns, c, p) ==
  /\ Arena(r)
  /\ Len(r) = Len(ns)
  /\ \A n \in Ids(ns) :
       /\ r[n].type = ns[n].type
       /\ r[n].parent = IF n = c THEN p ELSE ns[n].parent
  /\ Keeps(r, ns, Ids(ns) \ {p, ns[c].parent})

\* The fields of a node.
LEMMA NodeFields ==
  ASSUME NEW m \in Node
  PROVE  /\ m.parent \in Nat /\ m.prev \in Nat /\ m.next \in Nat /\ m.first \in Nat /\ m.last \in Nat
         /\ m.depth \in Nat /\ m.index \in Int /\ m.text \in Seq(Strings)
         /\ m.name \in Strings /\ m.attrs \in Strings /\ m.type \in NodeTypes
BY DEF Node

\* An arena is an array of nodes; NULL is none of its ids.
LEMMA IdsOf ==
  ASSUME NEW ns \in Seq(Node)
  PROVE  NULL \notin Ids(ns) /\ Ids(ns) \subseteq Nat /\ ns \in [Ids(ns) -> Node]
BY DEF Ids, NULL

\* An array over the ids of an arena is an arena's array.
LEMMA ArrayOf ==
  ASSUME NEW ns \in Seq(Node), NEW r \in [Ids(ns) -> Node]
  PROVE  r \in Seq(Node) /\ Len(r) = Len(ns) /\ Ids(r) = Ids(ns)
BY DEF Ids

\* The form in which ArenaOps states the agreement of the links.
LEMMA ArenaLinksAgree ==
  ASSUME NEW ns, Arena(ns) PROVE LinksAgree(ns)
BY DEF Arena, Linked, Ids, LinksAgree, NextAgrees, PrevAgrees, FirstAgrees, LastAgrees, ParentAgrees

-----------------------------------------------------------------------------
(***************************************************************************)
(* The edits, link by link, over nodes N that include every neighbour.     *)
(***************************************************************************)
\* c is the last child of p; l was.
Appended(r, ns, N, c, p, l) ==
  \A k \in N :
    /\ r[k].parent = IF k = c THEN p ELSE ns[k].parent
    /\ r[k].prev = IF k = c THEN l ELSE ns[k].prev
    /\ r[k].next = IF k = l THEN c ELSE ns[k].next
    /\ r[k].first = IF k = p /\ l = NULL THEN c ELSE ns[k].first
    /\ r[k].last = IF k = p THEN c ELSE ns[k].last

\* c is a child of p between l and ref.
Inserted(r, ns, N, c, p, ref, l) ==
  \A k \in N :
    /\ r[k].parent = IF k = c THEN p ELSE ns[k].parent
    /\ r[k].prev = IF k = ref THEN c ELSE IF k = c THEN l ELSE ns[k].prev
    /\ r[k].next = IF k = l THEN c ELSE IF k = c THEN ref ELSE ns[k].next
    /\ r[k].first = IF k = p /\ l = NULL THEN c ELSE ns[k].first
    /\ r[k].last = ns[k].last

\* x is no longer a child of p, between before and after.
Unlinked(r, ns, N, x, p, before, after) ==
  \A k \in N :
    /\ r[k].parent = IF k = x THEN NULL ELSE ns[k].parent
    /\ r[k].prev = IF k = x THEN NULL ELSE IF k = after THEN before ELSE ns[k].prev
    /\ r[k].next = IF k = x THEN NULL ELSE IF k = before THEN after ELSE ns[k].next
    /\ r[k].first = IF k = p /\ before = NULL THEN after ELSE ns[k].first
    /\ r[k].last = IF k = p /\ after = NULL THEN before ELSE ns[k].last

\* The children of from are the children of to.
Readopted(r, ns, N, from, to) ==
  \A k \in N :
    /\ r[k].parent = IF ns[k].parent = from THEN to ELSE ns[k].parent
    /\ r[k].prev = ns[k].prev
    /\ r[k].next = ns[k].next
    /\ r[k].first = IF k = to THEN ns[from].first ELSE IF k = from THEN NULL ELSE ns[k].first
    /\ r[k].last = IF k = to THEN ns[from].last ELSE IF k = from THEN NULL ELSE ns[k].last

\* append_child keeps the links in agreement.
LEMMA AppendLinks ==
  ASSUME NEW N, NULL \notin N, NEW ns, Linked(ns, N), NEW c \in N, NEW p \in N,
         p # c, ns[c].parent = NULL,
         NEW l, l = ns[p].last, NEW r,
         Appended(r, ns, N, c, p, l)
  PROVE  Linked(r, N)
<1> USE DEF Linked, Appended
<1>1. \A n \in N : NextAgrees(r, n)
  BY DEF NextAgrees, PrevAgrees, FirstAgrees, LastAgrees, ParentAgrees
<1>2. \A n \in N : PrevAgrees(r, n)
  BY DEF NextAgrees, PrevAgrees, FirstAgrees, LastAgrees, ParentAgrees
<1>3. \A n \in N : FirstAgrees(r, n)
  BY DEF NextAgrees, PrevAgrees, FirstAgrees, LastAgrees, ParentAgrees
<1>4. \A n \in N : LastAgrees(r, n)
  BY DEF NextAgrees, PrevAgrees, FirstAgrees, LastAgrees, ParentAgrees
<1>5. \A n \in N : ParentAgrees(r, n)
  BY DEF NextAgrees, PrevAgrees, FirstAgrees, LastAgrees, ParentAgrees
<1>6. \A n \in N : {r[n].parent, r[n].prev, r[n].next, r[n].first, r[n].last} \subseteq N \cup {NULL}
  OBVIOUS
<1> QED
  BY <1>1, <1>2, <1>3, <1>4, <1>5, <1>6

\* insert_before keeps the links in agreement.
LEMMA InsertLinks ==
  ASSUME NEW N, NULL \notin N, NEW ns, Linked(ns, N), NEW c \in N, NEW p \in N,
         NEW ref \in N, ns[ref].parent = p, ns[c].parent = NULL,
         NEW l, l = ns[ref].prev, NEW r,
         Inserted(r, ns, N, c, p, ref, l)
  PROVE  Linked(r, N)
<1> USE DEF Linked, Inserted
<1>1. \A n \in N : NextAgrees(r, n)
  BY DEF NextAgrees, PrevAgrees, FirstAgrees, LastAgrees, ParentAgrees
<1>2. \A n \in N : PrevAgrees(r, n)
  BY DEF NextAgrees, PrevAgrees, FirstAgrees, LastAgrees, ParentAgrees
<1>3. \A n \in N : FirstAgrees(r, n)
  BY DEF NextAgrees, PrevAgrees, FirstAgrees, LastAgrees, ParentAgrees
<1>4. \A n \in N : LastAgrees(r, n)
  BY DEF NextAgrees, PrevAgrees, FirstAgrees, LastAgrees, ParentAgrees
<1>5. \A n \in N : ParentAgrees(r, n)
  BY DEF NextAgrees, PrevAgrees, FirstAgrees, LastAgrees, ParentAgrees
<1>6. \A n \in N : {r[n].parent, r[n].prev, r[n].next, r[n].first, r[n].last} \subseteq N \cup {NULL}
  OBVIOUS
<1> QED
  BY <1>1, <1>2, <1>3, <1>4, <1>5, <1>6

\* So does detach.
LEMMA UnlinkLinks ==
  ASSUME NEW N, NULL \notin N, NEW ns, Linked(ns, N), NEW x \in N,
         NEW p \in N, p = ns[x].parent, NEW before, before = ns[x].prev,
         NEW after, after = ns[x].next, NEW r,
         Unlinked(r, ns, N, x, p, before, after)
  PROVE  Linked(r, N)
<1> USE DEF Linked, Unlinked
<1>1. \A n \in N : NextAgrees(r, n)
  BY DEF NextAgrees, PrevAgrees, FirstAgrees, LastAgrees, ParentAgrees
<1>2. \A n \in N : PrevAgrees(r, n)
  BY DEF NextAgrees, PrevAgrees, FirstAgrees, LastAgrees, ParentAgrees
<1>3. \A n \in N : FirstAgrees(r, n)
  BY DEF NextAgrees, PrevAgrees, FirstAgrees, LastAgrees, ParentAgrees
<1>4. \A n \in N : LastAgrees(r, n)
  BY DEF NextAgrees, PrevAgrees, FirstAgrees, LastAgrees, ParentAgrees
<1>5. \A n \in N : ParentAgrees(r, n)
  BY DEF NextAgrees, PrevAgrees, FirstAgrees, LastAgrees, ParentAgrees
<1>6. \A n \in N : {r[n].parent, r[n].prev, r[n].next, r[n].first, r[n].last} \subseteq N \cup {NULL}
  OBVIOUS
<1> QED
  BY <1>1, <1>2, <1>3, <1>4, <1>5, <1>6

\* `to` has no children yet.
LEMMA MoveLinks ==
  ASSUME NEW N, NULL \notin N, NEW ns, Linked(ns, N), NEW from \in N, NEW to \in N,
         from # to, \A k \in N : ns[k].parent # to, NEW r,
         Readopted(r, ns, N, from, to)
  PROVE  Linked(r, N)
<1> USE DEF Linked, Readopted
<1>1. \A n \in N : NextAgrees(r, n)
  BY DEF NextAgrees, PrevAgrees, FirstAgrees, LastAgrees, ParentAgrees
<1>2. \A n \in N : PrevAgrees(r, n)
  BY DEF NextAgrees, PrevAgrees, FirstAgrees, LastAgrees, ParentAgrees
<1>3. \A n \in N : FirstAgrees(r, n)
  BY DEF NextAgrees, PrevAgrees, FirstAgrees, LastAgrees, ParentAgrees
<1>4. \A n \in N : LastAgrees(r, n)
  BY DEF NextAgrees, PrevAgrees, FirstAgrees, LastAgrees, ParentAgrees
<1>5. \A n \in N : ParentAgrees(r, n)
  BY DEF NextAgrees, PrevAgrees, FirstAgrees, LastAgrees, ParentAgrees
<1>6. \A n \in N : {r[n].parent, r[n].prev, r[n].next, r[n].first, r[n].last} \subseteq N \cup {NULL}
  OBVIOUS
<1> QED
  BY <1>1, <1>2, <1>3, <1>4, <1>5, <1>6

\* Links do not depend on what else a node holds.
LEMMA SameLinksLinked ==
  ASSUME NEW N, NEW ns, Linked(ns, N), NULL \notin N, NEW r, \A k \in N : SameLinks(r[k], ns[k])
  PROVE  Linked(r, N)
<1> USE DEF Linked, SameLinks
<1>1. \A n \in N : NextAgrees(r, n)
  BY DEF NextAgrees, PrevAgrees, FirstAgrees, LastAgrees, ParentAgrees
<1>2. \A n \in N : PrevAgrees(r, n)
  BY DEF NextAgrees, PrevAgrees, FirstAgrees, LastAgrees, ParentAgrees
<1>3. \A n \in N : FirstAgrees(r, n)
  BY DEF NextAgrees, PrevAgrees, FirstAgrees, LastAgrees, ParentAgrees
<1>4. \A n \in N : LastAgrees(r, n)
  BY DEF NextAgrees, PrevAgrees, FirstAgrees, LastAgrees, ParentAgrees
<1>5. \A n \in N : ParentAgrees(r, n)
  BY DEF NextAgrees, PrevAgrees, FirstAgrees, LastAgrees, ParentAgrees
<1> QED
  BY <1>1, <1>2, <1>3, <1>4, <1>5

-----------------------------------------------------------------------------
(***************************************************************************)
(* The edits keep the siblings in an order.                                *)
(***************************************************************************)
\* A node appended is ranked below all others.
LEMMA AppendOrders ==
  ASSUME NEW N, NULL \notin N, NEW ns, Linked(ns, N), Ordered(ns, N), NEW c \in N, NEW p \in N,
         ns[c].parent = NULL, NEW l, l = ns[p].last, NEW r, Appended(r, ns, N, c, p, l)
  PROVE  Ordered(r, N)
<1>1. PICK k : Ranked(ns, N, k)
  BY DEF Ordered
<1> DEFINE g == [n \in N |-> IF n = c THEN 0 ELSE k[n] + 1]
<1>2. ASSUME NEW n \in N, r[n].next # NULL PROVE g[r[n].next] < g[n]
  <2>1. k[n] \in Nat
    BY <1>1 DEF Ranked
  <2>2. CASE n = l
    <3>1. n # c /\ r[n].next = c
      BY <2>2 DEF Linked, LastAgrees, Appended
    <3> QED
      BY <2>1, <3>1
  <2>3. CASE n # l
    <3> DEFINE x == ns[n].next
    <3>1. r[n].next = x
      BY <2>3 DEF Appended
    <3>2. x \in N /\ x # c /\ n # c
      BY <1>2, <3>1 DEF Linked, NextAgrees, ParentAgrees
    <3>3. k[x] < k[n] /\ k[x] \in Nat
      BY <1>1, <1>2, <3>1, <3>2 DEF Ranked
    <3> QED
      BY <2>1, <3>1, <3>2, <3>3
  <2> QED
    BY <2>2, <2>3
<1>3. \A n \in N : g[n] \in Nat
  BY <1>1 DEF Ranked
<1> HIDE DEF g
<1> QED
  BY <1>2, <1>3 DEF Ordered, Ranked

\* A node inserted is ranked between its neighbours, whose ranks are doubled.
LEMMA InsertOrders ==
  ASSUME NEW N, NULL \notin N, NEW ns, Linked(ns, N), Ordered(ns, N), NEW c \in N, NEW p \in N,
         NEW ref \in N, ns[ref].parent = p, ns[c].parent = NULL, NEW l, l = ns[ref].prev,
         NEW r, Inserted(r, ns, N, c, p, ref, l)
  PROVE  Ordered(r, N)
<1>1. PICK k : Ranked(ns, N, k)
  BY DEF Ordered
<1>0. ref # c
  OBVIOUS
<1> DEFINE g == [n \in N |-> IF n = c THEN k[ref] + k[ref] + 1 ELSE k[n] + k[n]]
<1>2. ASSUME NEW n \in N, r[n].next # NULL PROVE g[r[n].next] < g[n]
  <2>1. k[n] \in Nat /\ k[ref] \in Nat
    BY <1>1 DEF Ranked
  <2>2. CASE n = l
    <3>1. n # c /\ r[n].next = c /\ ns[n].next = ref
      BY <2>2 DEF Linked, PrevAgrees, Inserted, ParentAgrees
    <3>2. k[ref] < k[n]
      BY <1>1, <3>1 DEF Ranked
    <3> QED
      BY <2>1, <3>1, <3>2
  <2>3. CASE n = c
    <3>1. r[n].next = ref
      BY <2>3, <1>0 DEF Inserted, Linked, PrevAgrees, ParentAgrees
    <3> QED
      BY <1>0, <2>1, <2>3, <3>1
  <2>4. CASE n # l /\ n # c
    <3> DEFINE x == ns[n].next
    <3>1. r[n].next = x
      BY <2>4 DEF Inserted
    <3>2. x \in N /\ x # c
      BY <1>2, <3>1 DEF Linked, NextAgrees, ParentAgrees
    <3>3. k[x] < k[n] /\ k[x] \in Nat
      BY <1>1, <1>2, <3>1, <3>2 DEF Ranked
    <3> QED
      BY <2>1, <2>4, <3>1, <3>2, <3>3
  <2> QED
    BY <2>2, <2>3, <2>4
<1>3. \A n \in N : g[n] \in Nat
  BY <1>1 DEF Ranked
<1> HIDE DEF g
<1> QED
  BY <1>2, <1>3 DEF Ordered, Ranked

\* Without a node between them its neighbours are ranked as before.
LEMMA UnlinkOrders ==
  ASSUME NEW N, NULL \notin N, NEW ns, Linked(ns, N), Ordered(ns, N), NEW x \in N,
         NEW p \in N, NEW before, before = ns[x].prev, NEW after, after = ns[x].next,
         NEW r, Unlinked(r, ns, N, x, p, before, after)
  PROVE  Ordered(r, N)
<1>1. PICK k : Ranked(ns, N, k)
  BY DEF Ordered
<1>2. ASSUME NEW n \in N, r[n].next # NULL PROVE k[r[n].next] < k[n]
  <2>1. n # x
    BY <1>2 DEF Unlinked
  <2>2. CASE n = before
    <3>1. r[n].next = after /\ ns[n].next = x
      BY <2>1, <2>2 DEF Unlinked, Linked, PrevAgrees
    <3>2. after \in N
      BY <1>2, <3>1 DEF Linked
    <3>3. k[x] < k[n] /\ k[after] < k[x] /\ k[after] \in Nat /\ k[x] \in Nat /\ k[n] \in Nat
      BY <1>1, <1>2, <3>1, <3>2 DEF Ranked
    <3> QED
      BY <3>1, <3>3
  <2>3. CASE n # before
    <3>1. r[n].next = ns[n].next
      BY <2>1, <2>3 DEF Unlinked
    <3> QED
      BY <1>1, <1>2, <3>1 DEF Ranked
  <2> QED
    BY <2>2, <2>3
<1> QED
  BY <1>1, <1>2 DEF Ordered, Ranked

\* Nodes with the same next siblings are ranked alike.
LEMMA SameNextOrders ==
  ASSUME NEW N, NEW ns, Ordered(ns, N), NEW r, \A n \in N : r[n].next = ns[n].next
  PROVE  Ordered(r, N)
<1>1. PICK k : Ranked(ns, N, k)
  BY DEF Ordered
<1>2. Ranked(r, N, k)
  BY <1>1 DEF Ranked
<1> QED
  BY <1>2 DEF Ordered

\* A node without a sibling has any rank.
LEMMA NewOrders ==
  ASSUME NEW N, NULL \notin N, NEW ns, Linked(ns, N), Ordered(ns, N), NEW x, x \notin N, NEW r,
         \A n \in N : r[n] = ns[n], r[x].next = NULL
  PROVE  Ordered(r, N \cup {x})
<1>1. PICK k : Ranked(ns, N, k)
  BY DEF Ordered
<1> DEFINE g == [n \in N \cup {x} |-> IF n = x THEN 0 ELSE k[n]]
<1>2. ASSUME NEW n \in N \cup {x}, r[n].next # NULL PROVE g[r[n].next] < g[n]
  <2>1. n \in N /\ n # x /\ r[n].next = ns[n].next
    BY <1>2
  <2>2. ns[n].next \in N
    BY <1>2, <2>1 DEF Linked
  <2>3. k[ns[n].next] < k[n]
    BY <1>1, <1>2, <2>1 DEF Ranked
  <2> QED
    BY <2>1, <2>2, <2>3
<1>3. \A n \in N \cup {x} : g[n] \in Nat
  BY <1>1 DEF Ranked
<1> HIDE DEF g
<1> QED
  BY <1>2, <1>3 DEF Ordered, Ranked

-----------------------------------------------------------------------------
(***************************************************************************)
(* The edits, node by node.                                                *)
(***************************************************************************)
LEMMA AppendFields ==
  ASSUME NEW N, NULL \notin N, N \subseteq Nat, NEW ns \in [N -> Node],
         NEW c \in N, NEW p \in N, NEW l \in N \cup {NULL}, l = ns[p].last
  PROVE  LET r == AppendSubtree(ns, p, c)
         IN  /\ r \in [N -> Node]
             /\ Appended(r, ns, N, c, p, l)
             /\ \A k \in N : SameContent(r[k], ns[k])
<1> DEFINE r == AppendSubtree(ns, p, c)
<1>1. c \in Nat /\ p \in Nat /\ l \in Nat
  BY DEF NULL
<1>2. CASE l = NULL
  <2>1. r = [ns EXCEPT ![c].parent = p, ![c].prev = l, ![p].last = c, ![p].first = c]
    BY <1>2 DEF AppendSubtree
  <2> HIDE DEF r
  <2>2. DOMAIN r = N /\ r = [k \in N |-> r[k]]
    BY <2>1
  <2>3. ASSUME NEW k \in N
        PROVE  /\ r[k] \in Node
               /\ r[k].parent = IF k = c THEN p ELSE ns[k].parent
               /\ r[k].prev = IF k = c THEN l ELSE ns[k].prev
               /\ r[k].next = IF k = l THEN c ELSE ns[k].next
               /\ r[k].first = IF k = p /\ l = NULL THEN c ELSE ns[k].first
               /\ r[k].last = IF k = p THEN c ELSE ns[k].last
               /\ SameContent(r[k], ns[k])
    <3>1. ns[k] \in Node
      OBVIOUS
    <3> QED
      BY <1>1, <1>2, <2>1, <3>1 DEF Node, SameContent
  <2> QED
    BY <2>2, <2>3 DEF r, Appended
<1>3. CASE l # NULL
  <2>1. r = [ns EXCEPT ![c].parent = p, ![c].prev = l, ![p].last = c, ![l].next = c]
    BY <1>3 DEF AppendSubtree
  <2> HIDE DEF r
  <2>2. DOMAIN r = N /\ r = [k \in N |-> r[k]]
    BY <2>1
  <2>3. ASSUME NEW k \in N
        PROVE  /\ r[k] \in Node
               /\ r[k].parent = IF k = c THEN p ELSE ns[k].parent
               /\ r[k].prev = IF k = c THEN l ELSE ns[k].prev
               /\ r[k].next = IF k = l THEN c ELSE ns[k].next
               /\ r[k].first = IF k = p /\ l = NULL THEN c ELSE ns[k].first
               /\ r[k].last = IF k = p THEN c ELSE ns[k].last
               /\ SameContent(r[k], ns[k])
    <3>1. ns[k] \in Node
      OBVIOUS
    <3> QED
      BY <1>1, <1>3, <2>1, <3>1 DEF Node, SameContent
  <2> QED
    BY <2>2, <2>3 DEF r, Appended
<1> QED
  BY <1>2, <1>3

\* insert_before, node by node: what it writes into each.
LEMMA InsertFields ==
  ASSUME NEW N, NULL \notin N, N \subseteq Nat, NEW ns \in [N -> Node],
         NEW c \in N, NEW p \in N, NEW ref \in N, NEW l \in N \cup {NULL}, l = ns[ref].prev,
         ref # c
  PROVE  LET r == InsertSubtreeBefore(ns, p, ref, c)
         IN  /\ r \in [N -> Node]
             /\ Inserted(r, ns, N, c, p, ref, l)
             /\ \A k \in N : SameContent(r[k], ns[k])
<1> DEFINE d == [ns EXCEPT ![c].parent = p, ![c].prev = l, ![c].next = ref]
           e == [d EXCEPT ![ref].prev = c]
           r == InsertSubtreeBefore(ns, p, ref, c)
<1>1. r = IF l = NULL THEN [e EXCEPT ![p].first = c] ELSE [e EXCEPT ![l].next = c]
  BY DEF InsertSubtreeBefore
<1>2. c \in Nat /\ p \in Nat /\ l \in Nat /\ ref \in Nat
  BY DEF NULL
<1>3. /\ d \in [N -> Node]
      /\ \A k \in N :
           /\ d[k].parent = IF k = c THEN p ELSE ns[k].parent
           /\ d[k].prev = IF k = c THEN l ELSE ns[k].prev
           /\ d[k].next = IF k = c THEN ref ELSE ns[k].next
           /\ d[k].first = ns[k].first /\ d[k].last = ns[k].last
           /\ SameContent(d[k], ns[k])
  <2>1. DOMAIN d = N /\ d = [k \in N |-> d[k]]
    OBVIOUS
  <2>2. ASSUME NEW k \in N
        PROVE  /\ d[k] \in Node
               /\ d[k].parent = IF k = c THEN p ELSE ns[k].parent
               /\ d[k].prev = IF k = c THEN l ELSE ns[k].prev
               /\ d[k].next = IF k = c THEN ref ELSE ns[k].next
               /\ d[k].first = ns[k].first /\ d[k].last = ns[k].last
               /\ SameContent(d[k], ns[k])
    <3>1. ns[k] \in Node
      OBVIOUS
    <3> QED
      BY <1>2, <3>1 DEF Node, SameContent
  <2> HIDE DEF d
  <2> QED
    BY <2>1, <2>2
<1> HIDE DEF d
<1>4. /\ e \in [N -> Node]
      /\ \A k \in N :
           /\ e[k].parent = d[k].parent /\ e[k].next = d[k].next
           /\ e[k].first = d[k].first /\ e[k].last = d[k].last
           /\ e[k].prev = IF k = ref THEN c ELSE d[k].prev
           /\ SameContent(e[k], d[k])
  <2>1. DOMAIN e = N /\ e = [k \in N |-> e[k]]
    BY <1>3
  <2>2. ASSUME NEW k \in N
        PROVE  /\ e[k] \in Node
               /\ e[k].parent = d[k].parent /\ e[k].next = d[k].next
               /\ e[k].first = d[k].first /\ e[k].last = d[k].last
               /\ e[k].prev = IF k = ref THEN c ELSE d[k].prev
               /\ SameContent(e[k], d[k])
    <3>1. d[k] \in Node /\ d \in [N -> Node]
      BY <1>3
    <3> QED
      BY <1>2, <3>1 DEF Node, SameContent
  <2> HIDE DEF e
  <2> QED
    BY <2>1, <2>2
<1> HIDE DEF e, r
<1>5. DOMAIN r = N /\ r = [k \in N |-> r[k]]
  BY <1>1, <1>4
<1>6. ASSUME NEW k \in N
      PROVE  /\ r[k] \in Node
             /\ r[k].parent = e[k].parent /\ r[k].prev = e[k].prev /\ r[k].last = e[k].last
             /\ r[k].next = IF k = l THEN c ELSE e[k].next
             /\ r[k].first = IF k = p /\ l = NULL THEN c ELSE e[k].first
             /\ SameContent(r[k], e[k])
  <2>1. e[k] \in Node /\ e \in [N -> Node]
    BY <1>4
  <2>2. CASE l = NULL
    BY <1>1, <1>2, <2>1, <2>2 DEF Node, SameContent
  <2>3. CASE l # NULL
    BY <1>1, <1>2, <2>1, <2>3 DEF Node, SameContent
  <2> QED
    BY <2>2, <2>3
<1>7. r \in [N -> Node]
  BY <1>5, <1>6
<1>8. \A k \in N : SameContent(r[k], ns[k])
  BY <1>3, <1>4, <1>6 DEF SameContent
<1>9. Inserted(r, ns, N, c, p, ref, l)
  BY <1>3, <1>4, <1>6 DEF Inserted
<1> QED
  BY <1>7, <1>8, <1>9 DEF r

\* detach, node by node.
LEMMA UnlinkFields ==
  ASSUME NEW N, NULL \notin N, N \subseteq Nat, NEW ns \in [N -> Node],
         NEW x \in N, NEW p \in N, p = ns[x].parent,
         NEW before \in N \cup {NULL}, before = ns[x].prev,
         NEW after \in N \cup {NULL}, after = ns[x].next
  PROVE  LET r == Unlink(ns, x)
         IN  /\ r \in [N -> Node]
             /\ Unlinked(r, ns, N, x, p, before, after)
             /\ \A k \in N : SameContent(r[k], ns[k])
<1> DEFINE f == IF before = NULL THEN [ns EXCEPT ![p].first = after] ELSE [ns EXCEPT ![before].next = after]
           g == IF after = NULL THEN [f EXCEPT ![p].last = before] ELSE [f EXCEPT ![after].prev = before]
           r == Unlink(ns, x)
<1>1. r = [g EXCEPT ![x].parent = NULL, ![x].prev = NULL, ![x].next = NULL]
  BY DEF Unlink
<1>2. p \in Nat /\ before \in Nat /\ after \in Nat /\ NULL \in Nat
  BY DEF NULL
<1>3. /\ f \in [N -> Node]
      /\ \A k \in N :
           /\ f[k].parent = ns[k].parent /\ f[k].prev = ns[k].prev /\ f[k].last = ns[k].last
           /\ f[k].next = IF k = before THEN after ELSE ns[k].next
           /\ f[k].first = IF k = p /\ before = NULL THEN after ELSE ns[k].first
           /\ SameContent(f[k], ns[k])
  <2>1. DOMAIN f = N /\ f = [k \in N |-> f[k]]
    OBVIOUS
  <2>2. ASSUME NEW k \in N
        PROVE  /\ f[k] \in Node
               /\ f[k].parent = ns[k].parent /\ f[k].prev = ns[k].prev /\ f[k].last = ns[k].last
               /\ f[k].next = IF k = before THEN after ELSE ns[k].next
               /\ f[k].first = IF k = p /\ before = NULL THEN after ELSE ns[k].first
               /\ SameContent(f[k], ns[k])
    <3>1. ns[k] \in Node
      OBVIOUS
    <3>2. CASE before = NULL
      BY <1>2, <3>1, <3>2 DEF Node, SameContent
    <3>3. CASE before # NULL
      BY <1>2, <3>1, <3>3 DEF Node, SameContent
    <3> QED
      BY <3>2, <3>3
  <2> HIDE DEF f
  <2> QED
    BY <2>1, <2>2
<1> HIDE DEF f
<1>4. /\ g \in [N -> Node]
      /\ \A k \in N :
           /\ g[k].parent = f[k].parent /\ g[k].next = f[k].next /\ g[k].first = f[k].first
           /\ g[k].prev = IF k = after THEN before ELSE f[k].prev
           /\ g[k].last = IF k = p /\ after = NULL THEN before ELSE f[k].last
           /\ SameContent(g[k], f[k])
  <2>1. DOMAIN g = N /\ g = [k \in N |-> g[k]]
    BY <1>3
  <2>2. ASSUME NEW k \in N
        PROVE  /\ g[k] \in Node
               /\ g[k].parent = f[k].parent /\ g[k].next = f[k].next /\ g[k].first = f[k].first
               /\ g[k].prev = IF k = after THEN before ELSE f[k].prev
               /\ g[k].last = IF k = p /\ after = NULL THEN before ELSE f[k].last
               /\ SameContent(g[k], f[k])
    <3>1. f[k] \in Node /\ f \in [N -> Node]
      BY <1>3
    <3>2. CASE after = NULL
      BY <1>2, <3>1, <3>2 DEF Node, SameContent
    <3>3. CASE after # NULL
      BY <1>2, <3>1, <3>3 DEF Node, SameContent
    <3> QED
      BY <3>2, <3>3
  <2> HIDE DEF g
  <2> QED
    BY <2>1, <2>2
<1> HIDE DEF g, r
<1>5. DOMAIN r = N /\ r = [k \in N |-> r[k]]
  BY <1>1, <1>4
<1>6. ASSUME NEW k \in N
      PROVE  /\ r[k] \in Node
             /\ r[k].parent = IF k = x THEN NULL ELSE g[k].parent
             /\ r[k].prev = IF k = x THEN NULL ELSE g[k].prev
             /\ r[k].next = IF k = x THEN NULL ELSE g[k].next
             /\ r[k].first = g[k].first /\ r[k].last = g[k].last
             /\ SameContent(r[k], g[k])
  <2>1. g[k] \in Node /\ g \in [N -> Node]
    BY <1>4
  <2> QED
    BY <1>1, <1>2, <2>1 DEF Node, SameContent
<1>7. r \in [N -> Node]
  BY <1>5, <1>6
<1>8. \A k \in N : SameContent(r[k], ns[k])
  BY <1>3, <1>4, <1>6 DEF SameContent
<1>9. Unlinked(r, ns, N, x, p, before, after)
  BY <1>3, <1>4, <1>6 DEF Unlinked
<1> QED
  BY <1>7, <1>8, <1>9 DEF r

\* The array that UpdateNodes makes, for functions it was given.
LEMMA UpdatedArray ==
  ASSUME NEW ns \in Seq(Node), NEW f \in [Ids(ns) -> Node]
  PROVE  SubSeq([m \in DOMAIN ns |-> f[m]], 1, Len(ns)) = f
<1> DEFINE n == Len(ns)
<1>1. n \in Nat /\ DOMAIN ns = 1..n
  OBVIOUS
<1>2. f \in [1..n -> Node]
  BY DEF Ids
<1>3. [m \in DOMAIN ns |-> f[m]] = f
  BY <1>1, <1>2
<1> HIDE DEF n
<1>4. SubSeq(f, 1, n) = f
  <2>1. f \in Seq(Node) /\ Len(f) = n
    BY <1>1, <1>2
  <2> QED
    BY <2>1, <1>1
<1> QED
  BY <1>3, <1>4 DEF n

\* move_children, node by node.
LEMMA MoveFields ==
  ASSUME NEW ns \in Seq(Node), NEW from \in Ids(ns), NEW to \in Ids(ns), from # to,
         ns[from].first # NULL
  PROVE  LET r == MoveChildren(ns, from, to)
         IN  /\ r \in [Ids(ns) -> Node]
             /\ Readopted(r, ns, Ids(ns), from, to)
             /\ \A k \in Ids(ns) : SameContent(r[k], ns[k])
<1> DEFINE N == Ids(ns)
           adopted(m) == IF ns[m].parent = from THEN [ns[m] EXCEPT !.parent = to] ELSE ns[m]
           a == [m \in N |-> adopted(m)]
           r == MoveChildren(ns, from, to)
<1>1. N \subseteq Nat /\ ns \in [N -> Node] /\ NULL \notin N /\ DOMAIN ns = N
  BY IdsOf
<1> HIDE DEF N
<1>2. to \in Nat /\ from \in Nat /\ NULL \in Nat /\ from \in N /\ to \in N
  BY <1>1 DEF N, NULL
<1>3. ASSUME NEW k \in N
      PROVE  /\ adopted(k) \in Node
             /\ adopted(k).parent = IF ns[k].parent = from THEN to ELSE ns[k].parent
             /\ adopted(k).prev = ns[k].prev /\ adopted(k).next = ns[k].next
             /\ adopted(k).first = ns[k].first /\ adopted(k).last = ns[k].last
             /\ SameContent(adopted(k), ns[k])
  <2>1. ns[k] \in Node
    BY <1>1
  <2> QED
    BY <1>2, <2>1 DEF Node, SameContent
<1>4. a \in [N -> Node]
  BY <1>3
<1>5. UpdateNodes(ns, adopted) = a
  <2>1. UpdateNodes(ns, adopted) = SubSeq([m \in DOMAIN ns |-> adopted(m)], 1, Len(ns))
    BY DEF UpdateNodes
  <2>2. [m \in DOMAIN ns |-> adopted(m)] = [m \in DOMAIN ns |-> a[m]]
    BY <1>1
  <2>3. SubSeq([m \in DOMAIN ns |-> a[m]], 1, Len(ns)) = a
    <3> HIDE DEF a
    <3> QED
      BY <1>4, UpdatedArray DEF N
  <2> HIDE DEF a, adopted
  <2> QED
    BY <2>1, <2>2, <2>3
<1>6. r = [UpdateNodes(ns, adopted) EXCEPT ![from].first = NULL, ![from].last = NULL,
                         ![to].first = ns[from].first, ![to].last = ns[from].last]
  BY DEF MoveChildren
<1>7. \A k \in N :
        /\ a[k] \in Node
        /\ a[k].parent = IF ns[k].parent = from THEN to ELSE ns[k].parent
        /\ a[k].prev = ns[k].prev /\ a[k].next = ns[k].next
        /\ a[k].first = ns[k].first /\ a[k].last = ns[k].last
        /\ SameContent(a[k], ns[k])
  BY <1>3
<1>8. ns[from].first \in Nat /\ ns[from].last \in Nat
  <2>1. ns[from] \in Node
    BY <1>1, <1>2
  <2> QED
    BY <2>1, NodeFields
<1> DEFINE u == ns[from].first
           v == ns[from].last
<1> HIDE DEF a, adopted, r, u, v
<1>9. r = [a EXCEPT ![from].first = NULL, ![from].last = NULL, ![to].first = u, ![to].last = v]
  BY <1>5, <1>6 DEF u, v
<1>10. DOMAIN r = N /\ r = [k \in N |-> r[k]]
  BY <1>4, <1>9
<1>11. ASSUME NEW k \in N
      PROVE  /\ r[k] \in Node
             /\ r[k].parent = a[k].parent /\ r[k].prev = a[k].prev /\ r[k].next = a[k].next
             /\ r[k].first = IF k = to THEN u ELSE IF k = from THEN NULL ELSE a[k].first
             /\ r[k].last = IF k = to THEN v ELSE IF k = from THEN NULL ELSE a[k].last
             /\ SameContent(r[k], a[k])
  <2>1. a[k] \in Node /\ u \in Nat /\ v \in Nat /\ NULL \in Nat
    BY <1>2, <1>7, <1>8 DEF u, v
  <2> QED
    BY <1>4, <1>9, <2>1 DEF Node, SameContent
<1>12. r \in [N -> Node]
  BY <1>10, <1>11
<1>13. \A k \in N : SameContent(r[k], ns[k])
  BY <1>7, <1>11 DEF SameContent
<1>14. Readopted(r, ns, N, from, to)
  BY <1>7, <1>11 DEF u, v, Readopted
<1> QED
  BY <1>12, <1>13, <1>14 DEF r, N

-----------------------------------------------------------------------------
(***************************************************************************)
(* The edits on a whole arena.                                             *)
(***************************************************************************)
LEMMA ArenaNodes ==
  ASSUME NEW ns, Arena(ns)
  PROVE  /\ ns \in Seq(Node) /\ ns \in [Ids(ns) -> Node] /\ Linked(ns, Ids(ns))
         /\ Ordered(ns, Ids(ns))
         /\ NULL \notin Ids(ns) /\ Ids(ns) \subseteq Nat /\ Len(ns) \in Nat
         /\ \A n \in Ids(ns) : ns[n] \in Node /\ ns[n].parent \in Ids(ns) \cup {NULL}
<1>1. ns \in Seq(Node) /\ Linked(ns, Ids(ns)) /\ Ordered(ns, Ids(ns))
  BY DEF Arena
<1>2. NULL \notin Ids(ns) /\ Ids(ns) \subseteq Nat /\ ns \in [Ids(ns) -> Node]
  BY <1>1, IdsOf
<1>3. Len(ns) \in Nat
  BY <1>1
<1>4. \A n \in Ids(ns) : ns[n].parent \in Ids(ns) \cup {NULL}
  BY <1>1 DEF Linked
<1> QED
  BY <1>1, <1>2, <1>3, <1>4

\* An array whose links agree, and whose texts are where they were, is an arena.
LEMMA ArenaOf ==
  ASSUME NEW ns, Arena(ns), NEW r \in [Ids(ns) -> Node], Linked(r, Ids(ns)),
         Ordered(r, Ids(ns)), \A n \in Ids(ns) : SameContent(r[n], ns[n])
  PROVE  Arena(r) /\ Len(r) = Len(ns) /\ Ids(r) = Ids(ns)
<1>1. r \in Seq(Node) /\ Len(r) = Len(ns) /\ Ids(r) = Ids(ns)
  BY ArenaNodes, ArrayOf
<1>2. OnlyTextHasText(r)
  BY <1>1 DEF OnlyTextHasText, SameContent, Arena
<1> QED
  BY <1>1, <1>2 DEF Arena

\* append_child moves a detached node below the parent.
LEMMA AppendMoves ==
  ASSUME NEW ns, Arena(ns), NEW c \in Ids(ns), NEW p \in Ids(ns), p # c, ns[c].parent = NULL
  PROVE  MovedBelow(AppendSubtree(ns, p, c), ns, c, p)
<1> DEFINE N == Ids(ns)
           l == ns[p].last
           r == AppendSubtree(ns, p, c)
<1>1. /\ ns \in [N -> Node] /\ Linked(ns, N) /\ Ordered(ns, N) /\ NULL \notin N /\ N \subseteq Nat
      /\ c \in N /\ p \in N
  BY ArenaNodes
<1> HIDE DEF N
<1>2. l \in N \cup {NULL}
  BY <1>1 DEF Linked
<1> HIDE DEF l
<1>3. /\ r \in [N -> Node]
      /\ Appended(r, ns, N, c, p, l)
      /\ \A k \in N : SameContent(r[k], ns[k])
  BY <1>1, <1>2, AppendFields DEF l
<1> HIDE DEF r
<1>4. Linked(r, N) /\ Ordered(r, N)
  BY <1>1, <1>3, AppendLinks, AppendOrders DEF l
<1>6. Keeps(r, ns, N \ {p, ns[c].parent})
  <2>1. l # NULL => ns[l].parent = p
    BY <1>1 DEF l, Linked, LastAgrees
  <2>2. Ids(r) = N
    BY <1>3, <1>4, ArenaOf DEF N
  <2> QED
    BY <1>1, <1>3, <2>1, <2>2 DEF Keeps, Appended, SameContent, N
<1>5. Arena(r) /\ Len(r) = Len(ns)
  BY <1>3, <1>4, ArenaOf DEF N
<1> QED
  BY <1>3, <1>5, <1>6 DEF MovedBelow, SameContent, N, r, Appended

\* insert_before moves a detached node below the sibling's parent.
LEMMA InsertMoves ==
  ASSUME NEW ns, Arena(ns), NEW c \in Ids(ns), NEW p \in Ids(ns), NEW ref \in Ids(ns),
         ns[c].parent = NULL, ns[ref].parent = p
  PROVE  MovedBelow(InsertSubtreeBefore(ns, p, ref, c), ns, c, p)
<1> DEFINE N == Ids(ns)
           l == ns[ref].prev
           r == InsertSubtreeBefore(ns, p, ref, c)
<1>1. /\ ns \in [N -> Node] /\ Linked(ns, N) /\ Ordered(ns, N) /\ NULL \notin N /\ N \subseteq Nat
      /\ c \in N /\ p \in N /\ ref \in N
  BY ArenaNodes
<1> HIDE DEF N
<1>2. l \in N \cup {NULL} /\ ref # c
  BY <1>1 DEF Linked
<1> HIDE DEF l
<1>3. /\ r \in [N -> Node]
      /\ Inserted(r, ns, N, c, p, ref, l)
      /\ \A k \in N : SameContent(r[k], ns[k])
  BY <1>1, <1>2, InsertFields DEF l
<1> HIDE DEF r
<1>4. Linked(r, N) /\ Ordered(r, N)
  BY <1>1, <1>3, InsertLinks, InsertOrders DEF l
<1>6. Keeps(r, ns, N \ {p, ns[c].parent})
  <2>1. l # NULL => ns[l].parent = p
    BY <1>1 DEF l, Linked, PrevAgrees
  <2>2. Ids(r) = N
    BY <1>3, <1>4, ArenaOf DEF N
  <2> QED
    BY <1>1, <1>3, <2>1, <2>2 DEF Keeps, Inserted, SameContent, N
<1>5. Arena(r) /\ Len(r) = Len(ns)
  BY <1>3, <1>4, ArenaOf DEF N
<1> QED
  BY <1>3, <1>5, <1>6 DEF MovedBelow, SameContent, N, r, Inserted

\* detach leaves the node without a parent.
LEMMA UnlinkMoves ==
  ASSUME NEW ns, Arena(ns), NEW x \in Ids(ns), ns[x].parent # NULL
  PROVE  MovedBelow(Unlink(ns, x), ns, x, NULL)
<1> DEFINE N == Ids(ns)
           p == ns[x].parent
           before == ns[x].prev
           after == ns[x].next
           r == Unlink(ns, x)
<1>1. /\ ns \in [N -> Node] /\ Linked(ns, N) /\ Ordered(ns, N) /\ NULL \notin N /\ N \subseteq Nat
      /\ x \in N
  BY ArenaNodes
<1> HIDE DEF N
<1>2. p \in N /\ before \in N \cup {NULL} /\ after \in N \cup {NULL}
  BY <1>1 DEF Linked
<1> HIDE DEF p, before, after
<1>3. /\ r \in [N -> Node]
      /\ Unlinked(r, ns, N, x, p, before, after)
      /\ \A k \in N : SameContent(r[k], ns[k])
  BY <1>1, <1>2, UnlinkFields DEF p, before, after
<1> HIDE DEF r
<1>4. Linked(r, N) /\ Ordered(r, N)
  BY <1>1, <1>2, <1>3, UnlinkLinks, UnlinkOrders DEF p, before, after
<1>6. Keeps(r, ns, N \ {NULL, p})
  <2>1. before # NULL => ns[before].parent = p
    BY <1>1 DEF before, p, Linked, PrevAgrees
  <2>2. Ids(r) = N
    BY <1>3, <1>4, ArenaOf DEF N
  <2>3. p = ns[x].parent
    BY DEF p
  <2> QED
    BY <1>1, <1>2, <1>3, <2>1, <2>2, <2>3 DEF Keeps, Unlinked, SameContent, N
<1>5. Arena(r) /\ Len(r) = Len(ns)
  BY <1>3, <1>4, ArenaOf DEF N
<1> QED
  BY <1>3, <1>5, <1>6 DEF MovedBelow, SameContent, N, p, r, Unlinked

\* The children of `from` are below `to`.  Links alone do not tell that a node
\* without a first child is nobody's parent: it may keep those children.
LEMMA MoveChildrenMoves ==
  ASSUME NEW ns, Arena(ns), NEW from \in Ids(ns), NEW to \in Ids(ns), from # to,
         \A k \in Ids(ns) : ns[k].parent # to,
         NEW r, r = MoveChildren(ns, from, to)
  PROVE  /\ Arena(r) /\ Len(r) = Len(ns)
         /\ \A n \in Ids(ns) :
              /\ r[n].type = ns[n].type
              /\ \/ r[n].parent = ns[n].parent
                 \/ ns[n].parent = from /\ r[n].parent = to
         /\ Keeps(r, ns, Ids(ns) \ {from, to})
<1>1. CASE ns[from].first = NULL
  <2>1. r = ns
    BY <1>1 DEF MoveChildren
  <2>2. Keeps(ns, ns, Ids(ns) \ {from, to})
    BY DEF Keeps
  <2> QED
    BY <2>1, <2>2
<1>2. CASE ns[from].first # NULL
  <2> DEFINE N == Ids(ns)
  <2>1. ns \in Seq(Node) /\ Linked(ns, N) /\ Ordered(ns, N) /\ NULL \notin N /\ from \in N /\ to \in N
    BY ArenaNodes
  <2>2. /\ r \in [N -> Node]
        /\ Readopted(r, ns, N, from, to)
        /\ \A k \in N : SameContent(r[k], ns[k])
    BY <1>2, <2>1, MoveFields
  <2> HIDE DEF N
  <2>3. \A k \in N : ns[k].parent # to
    BY DEF N
  <2>4. Linked(r, N)
    BY <2>1, <2>2, <2>3, MoveLinks
  <2>5. Ordered(r, N)
    BY <2>1, <2>2, SameNextOrders DEF Readopted
  <2>6. Arena(r) /\ Len(r) = Len(ns) /\ Ids(r) = N
    BY <2>2, <2>4, <2>5, ArenaOf DEF N
  <2>7. Keeps(r, ns, N \ {from, to})
    BY <2>2, <2>6 DEF Keeps, Readopted, SameContent, N
  <2> QED
    BY <2>2, <2>6, <2>7 DEF SameContent, N, Readopted
<1> QED
  BY <1>1, <1>2

-----------------------------------------------------------------------------
Unconnected(m) ==
  m.parent = NULL /\ m.prev = NULL /\ m.next = NULL /\ m.first = NULL /\ m.last = NULL

\* A new node without links is nobody's neighbour.
LEMMA NewLinks ==
  ASSUME NEW N, NULL \notin N, NEW ns, Linked(ns, N), NEW x, x \notin N, x # NULL, NEW r,
         \A k \in N : r[k] = ns[k], Unconnected(r[x])
  PROVE  Linked(r, N \cup {x})
<1> USE DEF Linked, Unconnected
<1>1. \A n \in N : NextAgrees(r, n) /\ PrevAgrees(r, n)
  BY DEF NextAgrees, PrevAgrees, FirstAgrees, LastAgrees, ParentAgrees
<1>2. \A n \in N : FirstAgrees(r, n) /\ LastAgrees(r, n)
  BY DEF NextAgrees, PrevAgrees, FirstAgrees, LastAgrees, ParentAgrees
<1>3. \A n \in N : ParentAgrees(r, n)
  BY DEF NextAgrees, PrevAgrees, FirstAgrees, LastAgrees, ParentAgrees
<1>4. NextAgrees(r, x) /\ PrevAgrees(r, x) /\ FirstAgrees(r, x) /\ LastAgrees(r, x) /\ ParentAgrees(r, x)
  BY DEF NextAgrees, PrevAgrees, FirstAgrees, LastAgrees, ParentAgrees
<1> QED
  BY <1>1, <1>2, <1>3, <1>4

\* r is ns with one more node, not yet linked.
Allocated(r, ns, node) ==
  /\ Arena(r)
  /\ Len(r) = Len(ns) + 1
  /\ Ids(r) = Ids(ns) \cup {Len(ns) + 1}
  /\ Len(ns) + 1 \notin Ids(ns)
  /\ r[Len(ns) + 1] = node
  /\ \A n \in Ids(ns) : r[n] = ns[n]
  /\ \A n \in Ids(r) : r[n].parent # Len(ns) + 1

\* A new node has no links, and all others are where they were.
LEMMA Allocates ==
  ASSUME NEW ns, Arena(ns), NEW type \in NodeTypes, NEW name \in Strings, NEW attrs \in Strings,
         NEW text \in Seq(Strings), NEW depth \in Nat, type # "text" => text = <<>>
  PROVE  Allocated(Append(ns, BlankNode(type, name, attrs, text, depth)), ns,
                   BlankNode(type, name, attrs, text, depth))
<1> DEFINE node == BlankNode(type, name, attrs, text, depth)
           r == Append(ns, node)
           x == Len(ns) + 1
           N == Ids(ns)
<1>1. /\ node \in Node /\ node.type = type /\ node.text = text
      /\ Unconnected(node)
  BY DEF BlankNode, Node, NULL, Unconnected
<1>2. ns \in Seq(Node) /\ Linked(ns, N) /\ Ordered(ns, N) /\ NULL \notin N /\ Len(ns) \in Nat
  BY ArenaNodes
<1> HIDE DEF node
<1>3. r \in Seq(Node) /\ Len(r) = x /\ r[x] = node /\ \A n \in N : r[n] = ns[n]
  BY <1>1, <1>2 DEF Ids
<1>4. Ids(r) = N \cup {x} /\ x \notin N /\ x # NULL
  <2>1. 1..x = (1..Len(ns)) \cup {x} /\ x \notin 1..Len(ns) /\ x # NULL
    BY <1>2 DEF NULL
  <2> HIDE DEF r
  <2> QED
    BY <1>3, <2>1 DEF Ids
<1> HIDE DEF r, x, N
<1>5. Linked(r, N \cup {x}) /\ Ordered(r, N \cup {x})
  <2>1. \A n \in N : r[n] = ns[n]
    BY <1>3
  <2>2. Unconnected(r[x]) /\ x \notin N /\ x # NULL /\ NULL \notin N /\ Linked(ns, N)
    BY <1>1, <1>2, <1>3, <1>4
  <2>3. r[x].next = NULL
    BY <2>2 DEF Unconnected
  <2> QED
    BY <1>2, <2>1, <2>2, <2>3, NewLinks, NewOrders
<1>6. OnlyTextHasText(r)
  BY <1>1, <1>3, <1>4 DEF OnlyTextHasText, Arena, N
<1>7. ASSUME NEW n \in N \cup {x} PROVE r[n].parent # x
  <2>1. CASE n \in N
    <3>1. ns[n].parent \in N \cup {NULL}
      BY <1>2, <2>1 DEF Linked
    <3> QED
      BY <1>3, <1>4, <2>1, <3>1
  <2>2. CASE n = x
    BY <1>1, <1>3, <1>4, <2>2 DEF Unconnected
  <2> QED
    BY <2>1, <2>2
<1> QED
  BY <1>3, <1>4, <1>5, <1>6, <1>7 DEF Allocated, Arena, N, r, x, node

-----------------------------------------------------------------------------
(***************************************************************************)
(* The edits that leave the tree alone: depths, indices and text.          *)
(***************************************************************************)
\* m may replace n: the links and the content are the same.
Alike(m, n) == SameLinks(m, n) /\ SameContent(m, n)

\* Nodes that agree in links and content make the same tree.
LEMMA AlikeSame ==
  ASSUME NEW ns, Arena(ns), NEW r \in [Ids(ns) -> Node], \A n \in Ids(ns) : Alike(r[n], ns[n])
  PROVE  SameTree(r, ns)
<1>1. \A n \in Ids(ns) : SameLinks(r[n], ns[n]) /\ SameContent(r[n], ns[n])
  BY DEF Alike
<1>2. Linked(r, Ids(ns)) /\ Ordered(r, Ids(ns))
  BY <1>1, ArenaNodes, SameLinksLinked, SameNextOrders DEF SameLinks
<1>3. Arena(r) /\ Len(r) = Len(ns)
  BY <1>1, <1>2, ArenaOf
<1> QED
  BY <1>1, <1>3 DEF SameTree, SameLinks, SameContent

\* SameTree is an equivalence.
LEMMA SameTreeReflexive ==
  ASSUME NEW ns, Arena(ns) PROVE SameTree(ns, ns)
BY DEF SameTree

\* It carries over from edit to edit.
LEMMA SameTreeTransitive ==
  ASSUME NEW q, NEW r, NEW s, SameTree(q, r), SameTree(r, s)
  PROVE  SameTree(q, s)
BY DEF SameTree, Ids

\* It moves no node,
LEMMA SameTreePlaces ==
  ASSUME NEW r, NEW ns, SameTree(r, ns)
  PROVE  SamePlaces(r, ns)
BY DEF SameTree, SamePlaces

\* and no node loses a child.
LEMMA SameTreeKeeps ==
  ASSUME NEW r, NEW ns, SameTree(r, ns), NEW C \in SUBSET Ids(ns)
  PROVE  Keeps(r, ns, C)
BY DEF SameTree, Keeps, Ids

\* What keeps the children of many nodes keeps those of fewer.
LEMMA KeepsFewer ==
  ASSUME NEW r, NEW ns, NEW C, Keeps(r, ns, C), NEW D \in SUBSET C
  PROVE  Keeps(r, ns, D)
BY DEF Keeps

\* Keeping carries over from edit to edit.
LEMMA KeepsTransitive ==
  ASSUME NEW q, NEW r, NEW ns, NEW C, Keeps(r, ns, C), Keeps(q, r, C)
  PROVE  Keeps(q, ns, C)
BY DEF Keeps

\* One node replaced by one with the same links and content.
LEMMA EditSame ==
  ASSUME NEW ns, Arena(ns), NEW x \in Ids(ns), NEW node \in Node, Alike(node, ns[x])
  PROVE  SameTree([ns EXCEPT ![x] = node], ns)
<1> DEFINE r == [ns EXCEPT ![x] = node]
<1>1. ns \in [Ids(ns) -> Node]
  BY ArenaNodes
<1>2. r \in [Ids(ns) -> Node]
  BY <1>1
<1>3. \A n \in Ids(ns) : Alike(r[n], ns[n])
  BY <1>1 DEF Alike, SameLinks, SameContent
<1> HIDE DEF r
<1>4. SameTree(r, ns)
  BY <1>2, <1>3, AlikeSame
<1> QED
  BY <1>4 DEF r

\* The edits of one field: the index,
LEMMA EditIndex ==
  ASSUME NEW m \in Node, NEW index \in Int
  PROVE  [m EXCEPT !.index = index] \in Node /\ Alike([m EXCEPT !.index = index], m)
BY DEF Node, Alike, SameLinks, SameContent

\* or the depth.
LEMMA EditDepth ==
  ASSUME NEW m \in Node, NEW depth \in Nat
  PROVE  [m EXCEPT !.depth = depth] \in Node /\ Alike([m EXCEPT !.depth = depth], m)
BY DEF Node, Alike, SameLinks, SameContent

\* Many nodes replaced at once.
LEMMA UpdateSame ==
  ASSUME NEW ns, Arena(ns), NEW f \in [Ids(ns) -> Node], \A n \in Ids(ns) : Alike(f[n], ns[n])
  PROVE  SameTree(SubSeq([m \in DOMAIN ns |-> f[m]], 1, Len(ns)), ns)
<1>1. SubSeq([m \in DOMAIN ns |-> f[m]], 1, Len(ns)) = f
  BY ArenaNodes, UpdatedArray
<1> QED
  BY <1>1, AlikeSame

\* Shifting the indices behind an inserted element keeps the tree.
LEMMA ShiftSame ==
  ASSUME NEW ns, Arena(ns), NEW n, NEW shift \in Int
  PROVE  SameTree(ShiftElementIndices(ns, n, shift), ns)
<1> DEFINE later == {ElementsFrom(ns, n)[i] : i \in 1..Len(ElementsFrom(ns, n))}
           shifted(m) == IF m \in later THEN [ns[m] EXCEPT !.index = @ + shift] ELSE ns[m]
           f == [m \in Ids(ns) |-> shifted(m)]
<1>1. DOMAIN ns = Ids(ns)
  BY ArenaNodes
<1> HIDE DEF later
<1>2. ASSUME NEW m \in Ids(ns) PROVE f[m] \in Node /\ Alike(f[m], ns[m])
  <2>1. ns[m] \in Node /\ ns[m].index + shift \in Int
    BY ArenaNodes, NodeFields
  <2>2. f[m] = IF m \in later THEN [ns[m] EXCEPT !.index = ns[m].index + shift] ELSE ns[m]
    OBVIOUS
  <2>3. Alike(ns[m], ns[m])
    BY DEF Alike, SameLinks, SameContent
  <2> HIDE DEF f
  <2> QED
    BY <2>1, <2>2, <2>3, EditIndex
<1>3. f \in [Ids(ns) -> Node]
  <2>1. f = [m \in Ids(ns) |-> f[m]]
    OBVIOUS
  <2> HIDE DEF f
  <2> QED
    BY <1>2, <2>1
<1>4. [m \in DOMAIN ns |-> shifted(m)] = [m \in DOMAIN ns |-> f[m]]
  BY <1>1
<1>5. ShiftElementIndices(ns, n, shift) = SubSeq([m \in DOMAIN ns |-> f[m]], 1, Len(ns))
  BY <1>4 DEF ShiftElementIndices, UpdateNodes, later
<1> HIDE DEF f
<1> QED
  BY <1>2, <1>3, <1>5, UpdateSame

\* So does numbering the children of a parent anew.
LEMMA RecomputeSame ==
  ASSUME NEW ns, Arena(ns), NEW p
  PROVE  SameTree(RecomputeElementIndices(ns, p), ns)
<1> DEFINE elements == ElementsFrom(ns, ns[p].first)
           positions(m) == {i \in DOMAIN ns : i <= Len(elements) /\ elements[i] = m}
           counted(m) == IF positions(m) = {} THEN ns[m]
                         ELSE [ns[m] EXCEPT !.index = CHOOSE i \in positions(m) : TRUE]
           f == [m \in Ids(ns) |-> counted(m)]
<1>1. DOMAIN ns = Ids(ns) /\ Ids(ns) \subseteq Nat
  BY ArenaNodes
<1> HIDE DEF elements
<1>2. ASSUME NEW m \in Ids(ns) PROVE f[m] \in Node /\ Alike(f[m], ns[m])
  <2>1. ns[m] \in Node
    BY ArenaNodes
  <2>2. positions(m) \subseteq Int
    BY <1>1
  <2>3. f[m] = IF positions(m) = {} THEN ns[m]
               ELSE [ns[m] EXCEPT !.index = CHOOSE i \in positions(m) : TRUE]
    OBVIOUS
  <2>4. Alike(ns[m], ns[m])
    BY DEF Alike, SameLinks, SameContent
  <2> HIDE DEF positions, f
  <2>5. positions(m) # {} => (CHOOSE i \in positions(m) : TRUE) \in Int
    BY <2>2
  <2> QED
    BY <2>1, <2>3, <2>4, <2>5, EditIndex
<1>3. f \in [Ids(ns) -> Node]
  <2>1. f = [m \in Ids(ns) |-> f[m]]
    OBVIOUS
  <2> HIDE DEF f
  <2> QED
    BY <1>2, <2>1
<1>4. [m \in DOMAIN ns |-> counted(m)] = [m \in DOMAIN ns |-> f[m]]
  BY <1>1
<1>5. RecomputeElementIndices(ns, p) = SubSeq([m \in DOMAIN ns |-> f[m]], 1, Len(ns))
  BY <1>4 DEF RecomputeElementIndices, UpdateNodes, elements
<1> HIDE DEF f
<1> QED
  BY <1>2, <1>3, <1>5, UpdateSame

\* So does setting one index,
LEMMA IndexSame ==
  ASSUME NEW ns, Arena(ns), NEW x \in Ids(ns), NEW index \in Int
  PROVE  SameTree([ns EXCEPT ![x].index = index], ns)
<1>1. ns[x] \in Node
  BY ArenaNodes
<1>2. [ns EXCEPT ![x].index = index] = [ns EXCEPT ![x] = [ns[x] EXCEPT !.index = index]]
  OBVIOUS
<1> QED
  BY <1>1, <1>2, EditIndex, EditSame

\* one depth,
LEMMA DepthSame ==
  ASSUME NEW ns, Arena(ns), NEW x \in Ids(ns), ns[x].parent # NULL
  PROVE  SameTree(SetDepthBelowParent(ns, x), ns)
<1>1. ns[x] \in Node /\ ns[x].parent \in Ids(ns)
  BY ArenaNodes
<1>2. ns[ns[x].parent] \in Node
  BY <1>1, ArenaNodes
<1> DEFINE depth == ns[ns[x].parent].depth + 1
<1>3. depth \in Nat
  BY <1>2, NodeFields
<1>4. SetDepthBelowParent(ns, x) = [ns EXCEPT ![x] = [ns[x] EXCEPT !.depth = depth]]
  BY DEF SetDepthBelowParent
<1> DEFINE node == [ns[x] EXCEPT !.depth = depth]
<1>5. node \in Node /\ Alike(node, ns[x])
  BY <1>1, <1>3, EditDepth
<1>6. SetDepthBelowParent(ns, x) = [ns EXCEPT ![x] = node]
  BY <1>4
<1> HIDE DEF node
<1> QED
  BY <1>5, <1>6, EditSame

\* The text of a text node is its parent's business alone.
LEMMA TextPlaces ==
  ASSUME NEW ns, Arena(ns), NEW x \in Ids(ns), ns[x].type = "text", NEW content \in Seq(Strings),
         NEW r, r = [ns EXCEPT ![x].text = @ \o content]
  PROVE  SamePlaces(r, ns) /\ Keeps(r, ns, Ids(ns) \ {ns[x].parent})
<1> DEFINE N == Ids(ns)
           text == ns[x].text \o content
           node == [ns[x] EXCEPT !.text = text]
<1>1. ns[x] \in Node /\ ns \in [N -> Node] /\ Linked(ns, N) /\ Ordered(ns, N) /\ NULL \notin N /\ x \in N
  BY ArenaNodes
<1>2. text \in Seq(Strings)
  BY <1>1, NodeFields
<1>3. r = [ns EXCEPT ![x] = node]
  OBVIOUS
<1> HIDE DEF text
<1>4. node \in Node /\ SameLinks(node, ns[x]) /\ node.type = "text"
  BY <1>1, <1>2 DEF Node, SameLinks
<1> HIDE DEF node, N
<1>5. /\ r \in [N -> Node]
      /\ \A n \in N : r[n] = IF n = x THEN node ELSE ns[n]
  BY <1>1, <1>3, <1>4
<1>6. \A n \in N : SameLinks(r[n], ns[n]) /\ r[n].type = ns[n].type
  BY <1>4, <1>5 DEF SameLinks
<1>7. r \in Seq(Node) /\ Len(r) = Len(ns) /\ Ids(r) = N
  BY <1>5, ArenaNodes, ArrayOf DEF N
<1>8. Linked(r, N) /\ Ordered(r, N)
  BY <1>1, <1>6, SameLinksLinked, SameNextOrders DEF SameLinks
<1>9. OnlyTextHasText(r)
  BY <1>4, <1>5, <1>7 DEF OnlyTextHasText, Arena, N
<1>10. Arena(r)
  BY <1>7, <1>8, <1>9 DEF Arena
<1> QED
  BY <1>5, <1>6, <1>7, <1>10 DEF SamePlaces, Keeps, SameLinks, N

\* A moved node stays moved when only depths and indices change.
LEMMA MovedThenSame ==
  ASSUME NEW q, NEW r, NEW ns, NEW c, NEW p, MovedBelow(r, ns, c, p), SameTree(q, r)
  PROVE  MovedBelow(q, ns, c, p)
<1> DEFINE C == Ids(ns) \ {p, ns[c].parent}
<1>1. Keeps(r, ns, C) /\ C \subseteq Ids(r)
  BY DEF MovedBelow, Ids
<1> HIDE DEF C
<1>2. Keeps(q, ns, C)
  BY <1>1, SameTreeKeeps, KeepsTransitive
<1> QED
  BY <1>2 DEF MovedBelow, SameTree, Ids, C

\* detach of a node that has a parent, as MovedBelow states it.
LEMMA DetachMoves ==
  ASSUME NEW ns, Arena(ns), NEW x \in Ids(ns), ns[x].parent # NULL
  PROVE  MovedBelow(Detach(ns, x), ns, x, NULL)
<1>1. MovedBelow(Unlink(ns, x), ns, x, NULL)
  BY UnlinkMoves
<1>2. SameTree(ShiftElementIndices(Unlink(ns, x), ns[x].next, -1), Unlink(ns, x))
  BY <1>1, ShiftSame DEF MovedBelow
<1> QED
  BY <1>1, <1>2, MovedThenSame DEF Detach

-----------------------------------------------------------------------------
\* r is ns with one more node, of this type and below p, which alone gets a child.
Placed(r, ns, type, p) ==
  /\ Arena(r)
  /\ Len(r) = Len(ns) + 1
  /\ Ids(r) = Ids(ns) \cup {Len(ns) + 1}
  /\ Len(ns) + 1 \notin Ids(ns)
  /\ r[Len(ns) + 1].type = type /\ r[Len(ns) + 1].parent = p
  /\ \A n \in Ids(ns) : r[n].type = ns[n].type /\ r[n].parent = ns[n].parent
  /\ Keeps(r, ns, Ids(ns) \ {p})

\* A node allocated and then linked is a node placed.
LEMMA AllocatedThenMoved ==
  ASSUME NEW ns, NEW a, NEW node, Allocated(a, ns, node), node.parent = NULL, NEW p, NEW r,
         MovedBelow(r, a, Len(ns) + 1, p)
  PROVE  Placed(r, ns, node.type, p)
<1> DEFINE x == Len(ns) + 1
<1>1. /\ Len(a) = x /\ Ids(a) = Ids(ns) \cup {x} /\ x \notin Ids(ns) /\ a[x] = node
      /\ \A n \in Ids(ns) : a[n] = ns[n]
  BY DEF Allocated
<1>2. /\ Arena(r) /\ Len(r) = Len(a)
      /\ \A n \in Ids(a) : r[n].type = a[n].type /\ r[n].parent = IF n = x THEN p ELSE a[n].parent
  BY DEF MovedBelow
<1>3. Ids(r) = Ids(a)
  BY <1>2 DEF Ids
<1>4. Keeps(r, a, Ids(a) \ {p, NULL}) /\ NULL \notin Ids(ns)
  BY <1>1, ArenaNodes DEF MovedBelow, Allocated
<1> HIDE DEF x
<1> DEFINE C == Ids(ns) \ {p}
<1>5. Keeps(a, ns, C)
  BY <1>1 DEF Keeps
<1>6. C \subseteq Ids(a) \ {p, NULL}
  BY <1>1, <1>4
<1> HIDE DEF C
<1>7. Keeps(r, ns, C)
  BY <1>4, <1>5, <1>6, KeepsFewer, KeepsTransitive
<1> QED
  BY <1>1, <1>2, <1>3, <1>7 DEF Placed, C, x

\* It stays placed when depths and indices change.
LEMMA PlacedThenSame ==
  ASSUME NEW ns, NEW r, NEW type, NEW p, Placed(r, ns, type, p), NEW q, SameTree(q, r)
  PROVE  Placed(q, ns, type, p)
<1> DEFINE C == Ids(ns) \ {p}
<1>1. Keeps(r, ns, C) /\ C \subseteq Ids(r)
  BY DEF Placed
<1> HIDE DEF C
<1>2. Keeps(q, ns, C)
  BY <1>1, SameTreeKeeps, KeepsTransitive
<1> QED
  BY <1>2 DEF Placed, SameTree, Ids, C

-----------------------------------------------------------------------------
(***************************************************************************)
(* Recursion along parents.  Every node has a height, greater than that of *)
(* its parent; the functions the model defines by climbing to the parent   *)
(* are then well defined.                                                  *)
(***************************************************************************)
\* g climbs from every node of S to the next node of T, which has its value in v.
Climbs(g, S, T, v, up) == g = [m \in S |-> IF m \in T THEN v[m] ELSE g[up[m]] + 1]

\* Above every node of S outside T there is one of less height.
Climbable(S, T, up, h) == \A m \in S \ T : up[m] \in S /\ h[up[m]] < h[m]

\* The recursion has a solution: no node is the lowest for which it has none.
LEMMA ClimbExists ==
  ASSUME NEW S, NEW T, NEW v, NEW up, NEW h \in [S -> Nat], Climbable(S, T, up, h),
         NEW top \in Nat, \A m \in S : h[m] < top
  PROVE  \E g : Climbs(g, S, T, v, up)
<1> DEFINE Below(k) == {m \in S : h[m] < k}
           Bad == {k \in Nat : ~ \E g : Climbs(g, Below(k), T, v, up)}
<1>1. top \notin Bad
  <2>1. SUFFICES ASSUME Bad # {} PROVE FALSE
    OBVIOUS
  <2>2. PICK k \in Bad : \A j \in Bad : k <= j
    BY <2>1, LeastElement
  <2>3. k # 0
    <3> DEFINE g0 == [m \in {} |-> 0]
    <3>1. Below(0) = {}
      OBVIOUS
    <3>2. Climbs(g0, {}, T, v, up)
      BY DEF Climbs
    <3> QED
      BY <3>1, <3>2
  <2>4. k - 1 \in Nat /\ k - 1 \notin Bad
    <3>1. k \in Nat
      OBVIOUS
    <3>2. k - 1 \in Nat /\ ~ (k <= k - 1)
      BY <2>3, <3>1
    <3> HIDE DEF Bad
    <3> QED
      BY <2>2, <3>2
  <2>5. PICK g : Climbs(g, Below(k - 1), T, v, up)
    BY <2>4
  <2> DEFINE f == [m \in Below(k) |-> IF m \in T THEN v[m] ELSE g[up[m]] + 1]
  <2>6. \A m \in Below(k - 1) : m \in Below(k) /\ f[m] = g[m]
    <3>1. \A m \in Below(k - 1) : m \in Below(k)
      BY <2>4
    <3>2. \A m \in Below(k - 1) : g[m] = IF m \in T THEN v[m] ELSE g[up[m]] + 1
      BY <2>5, Zenon DEF Climbs
    <3> QED
      BY <3>1, <3>2
  <2>7. \A m \in Below(k) \ T : up[m] \in Below(k - 1)
    BY <2>4 DEF Climbable
  <2>8. \A m \in Below(k) : f[m] = IF m \in T THEN v[m] ELSE f[up[m]] + 1
    BY <2>6, <2>7
  <2>9. f = [m \in Below(k) |-> f[m]]
    OBVIOUS
  <2> HIDE DEF f, Below
  <2>10. Climbs(f, Below(k), T, v, up)
    <3>1. f = [m \in Below(k) |-> IF m \in T THEN v[m] ELSE f[up[m]] + 1]
      BY <2>8, <2>9
    <3> QED
      BY <3>1, Zenon DEF Climbs
  <2> QED
    BY <2>2, <2>10
<1>2. Below(top) = S
  OBVIOUS
<1> QED
  BY <1>1, <1>2

\* Its values are numbers when those it starts from are.
LEMMA ClimbRange ==
  ASSUME NEW S, NEW T, NEW v, NEW up, NEW h \in [S -> Nat], Climbable(S, T, up, h),
         \A m \in S \cap T : v[m] \in Nat,
         NEW g, Climbs(g, S, T, v, up)
  PROVE  \A m \in S : g[m] \in Nat
<1> DEFINE Bad == {k \in Nat : \E m \in S : h[m] = k /\ g[m] \notin Nat}
<1>1. SUFFICES ASSUME Bad # {} PROVE FALSE
  OBVIOUS
<1>2. PICK k \in Bad : \A j \in Bad : k <= j
  BY <1>1, LeastElement
<1>3. PICK m \in S : h[m] = k /\ g[m] \notin Nat
  OBVIOUS
<1>4. g[m] = IF m \in T THEN v[m] ELSE g[up[m]] + 1
  BY Zenon DEF Climbs
<1>5. m \notin T
  BY <1>3, <1>4
<1>6. up[m] \in S /\ h[up[m]] < k /\ h[up[m]] \in Nat
  BY <1>3, <1>5 DEF Climbable
<1>7. h[up[m]] \notin Bad
  BY <1>2, <1>6
<1> QED
  BY <1>3, <1>4, <1>5, <1>6, <1>7

\* The number of nodes on the way up is at most the height.
LEMMA ClimbBound ==
  ASSUME NEW S, NEW T, NEW v, NEW up, NEW h \in [S -> Nat], Climbable(S, T, up, h),
         \A m \in S \cap T : v[m] = 0,
         NEW g, Climbs(g, S, T, v, up)
  PROVE  \A m \in S : g[m] \in Nat /\ g[m] <= h[m]
<1>0. \A m \in S : g[m] \in Nat
  BY ClimbRange
<1> DEFINE Bad == {k \in Nat : \E m \in S : h[m] = k /\ ~ (g[m] <= h[m])}
<1>1. SUFFICES ASSUME Bad # {} PROVE FALSE
  BY <1>0
<1>2. PICK k \in Bad : \A j \in Bad : k <= j
  BY <1>1, LeastElement
<1>3. PICK m \in S : h[m] = k /\ ~ (g[m] <= h[m])
  OBVIOUS
<1>4. g[m] = IF m \in T THEN v[m] ELSE g[up[m]] + 1
  BY Zenon DEF Climbs
<1>5. m \notin T
  BY <1>3, <1>4
<1>6. up[m] \in S /\ h[up[m]] < k /\ h[up[m]] \in Nat
  BY <1>3, <1>5 DEF Climbable
<1>7. h[up[m]] \notin Bad
  BY <1>2, <1>6
<1>8. g[up[m]] <= h[up[m]] /\ g[up[m]] \in Nat
  BY <1>0, <1>6, <1>7
<1> QED
  BY <1>3, <1>4, <1>5, <1>6, <1>8

Parents(ns) == [n \in Ids(ns) |-> ns[n].parent]

\* What RootedAt computes: the nodes that reach the root in so many steps.
Reaches(f, ns, k) ==
  f = [fuel \in 0..k |-> IF fuel = 0 THEN {RootId}
                         ELSE {n \in Ids(ns) : n = RootId \/ ns[n].parent \in f[fuel - 1]}]

\* The recursion on the fuel has a solution.
LEMMA ReachesExists ==
  ASSUME NEW ns, NEW top \in Nat PROVE \E f : Reaches(f, ns, top)
<1> DEFINE Bad == {k \in Nat : ~ \E f : Reaches(f, ns, k)}
<1>1. SUFFICES ASSUME Bad # {} PROVE FALSE
  OBVIOUS
<1>2. PICK k \in Bad : \A j \in Bad : k <= j
  BY <1>1, LeastElement
<1>3. k # 0
  <2> DEFINE f == [fuel \in 0..0 |-> {RootId}]
  <2>1. Reaches(f, ns, 0)
    BY DEF Reaches
  <2> QED
    BY <2>1
<1>4. k - 1 \in Nat /\ k - 1 \notin Bad
  <2>1. k \in Nat
    OBVIOUS
  <2>2. k - 1 \in Nat /\ ~ (k <= k - 1)
    BY <1>3, <2>1
  <2> HIDE DEF Bad
  <2> QED
    BY <1>2, <2>2
<1>5. PICK f : Reaches(f, ns, k - 1)
  BY <1>4
<1> DEFINE g == [fuel \in 0..k |-> IF fuel = 0 THEN {RootId}
                                   ELSE {n \in Ids(ns) : n = RootId \/ ns[n].parent \in f[fuel - 1]}]
<1>6. \A fuel \in 0 .. k - 1 : fuel \in 0..k /\ g[fuel] = f[fuel]
  <2>1. \A fuel \in 0 .. k - 1 :
          f[fuel] = IF fuel = 0 THEN {RootId}
                    ELSE {n \in Ids(ns) : n = RootId \/ ns[n].parent \in f[fuel - 1]}
    BY <1>5, Zenon DEF Reaches
  <2>2. \A fuel \in 0 .. k - 1 : fuel \in 0..k
    BY <1>4
  <2>3. \A fuel \in 0..k :
          g[fuel] = IF fuel = 0 THEN {RootId}
                    ELSE {n \in Ids(ns) : n = RootId \/ ns[n].parent \in f[fuel - 1]}
    OBVIOUS
  <2> HIDE DEF g
  <2> QED
    BY <2>1, <2>2, <2>3
<1>7. \A fuel \in 0..k : g[fuel] = IF fuel = 0 THEN {RootId}
                                   ELSE {n \in Ids(ns) : n = RootId \/ ns[n].parent \in g[fuel - 1]}
  <2>1. \A fuel \in 0..k : fuel # 0 => fuel - 1 \in 0 .. k - 1
    BY <1>4
  <2>2. \A fuel \in 0..k : fuel # 0 => g[fuel - 1] = f[fuel - 1]
    <3> HIDE DEF g
    <3> QED
      BY <1>6, <2>1
  <2>3. \A fuel \in 0..k :
          g[fuel] = IF fuel = 0 THEN {RootId}
                    ELSE {n \in Ids(ns) : n = RootId \/ ns[n].parent \in f[fuel - 1]}
    OBVIOUS
  <2> HIDE DEF g
  <2> QED
    BY <2>2, <2>3
<1>8. g = [fuel \in 0..k |-> g[fuel]]
  OBVIOUS
<1> HIDE DEF g
<1>9. Reaches(g, ns, k)
  BY <1>7, <1>8 DEF Reaches
<1> QED
  BY <1>2, <1>9

-----------------------------------------------------------------------------
(***************************************************************************)
(* The builder's entries, and what counting the children of open elements  *)
(* changes of them: nothing the stack depends on.                          *)
(***************************************************************************)
OpenEntry == [id : Nat, name : Strings, kind : Kinds, mode : Modes, children : Nat]

\* The builder's entries are entries of a stack.
LEMMA OpenEntries == EntrySet(OpenEntry)
BY DEF EntrySet, OpenEntry

\* The same elements are open, whatever is counted of their children.
SameEntries(t, s) ==
  /\ Len(t) = Len(s)
  /\ \A i \in 1..Len(s) :
       t[i].id = s[i].id /\ t[i].name = s[i].name /\ t[i].kind = s[i].kind /\ t[i].mode = s[i].mode

\* Counting children says nothing to the caches.
LEMMA SameEntriesOK ==
  ASSUME NEW o, StackOK(o, OpenEntry), NEW t \in Seq(OpenEntry), SameEntries(t, o.stack),
         NEW r, r = [o EXCEPT !.stack = t]
  PROVE  StackOK(r, OpenEntry) /\ r.stack = t
<1> DEFINE s == o.stack
           n == Len(s)
<1>1. o \in StackType(OpenEntry) /\ n \in Nat /\ Rooted(s) /\ CachesAgree(o)
  BY DEF StackOK, StackType
<1>2. r \in StackType(OpenEntry) /\ r.stack = t /\ r.counts = o.counts /\ r.mode = o.mode
  BY <1>1 DEF StackType
<1>3. /\ Len(t) = n
      /\ \A i \in 1..n : t[i].name = s[i].name /\ t[i].kind = s[i].kind /\ t[i].mode = s[i].mode
  BY DEF SameEntries
<1> HIDE DEF s, n
<1>4. Rooted(t)
  BY <1>1, <1>3 DEF Rooted, Classified, n
<1>5. \A i \in 1..n : IsModeAt(t, i, t[i].mode)
  <2>1. ASSUME NEW i \in 1..n PROVE IsModeAt(t, i, t[i].mode)
    <3>1. IsModeAt(s, i, s[i].mode)
      BY <1>1 DEF CachesAgree, s, n
    <3>2. i \in Nat /\ \A j \in 1..i : s[j].kind = t[j].kind
      BY <1>1, <1>3
    <3> QED
      BY <1>3, <3>1, <3>2, ModeOfPrefix
  <2> QED
    BY <2>1
<1>6. r.mode = t[n].mode
  <2>1. o.mode = s[n].mode /\ n \in 1..n
    BY <1>1 DEF CachesAgree, Top, Rooted, s, n
  <2> QED
    BY <1>2, <1>3, <2>1
<1>7. \A kind \in Kinds : EntriesOfKind(t, kind) = EntriesOfKind(s, kind)
  BY <1>3 DEF EntriesOfKind, n
<1>8. CachesAgree(r)
  <2>1. \A kind \in Kinds : r.counts[kind] = Cardinality(EntriesOfKind(r.stack, kind))
    BY <1>1, <1>2, <1>7 DEF CachesAgree, s
  <2> QED
    BY <1>2, <1>3, <1>5, <1>6, <2>1 DEF CachesAgree, Top
<1> QED
  BY <1>2, <1>4, <1>8 DEF StackOK

\* Setting a child count leaves the rest of an entry alone.
LEMMA EditChildren ==
  ASSUME NEW e \in OpenEntry, NEW count \in Nat, NEW r, r = [e EXCEPT !.children = count]
  PROVE  r \in OpenEntry /\ r.id = e.id /\ r.name = e.name /\ r.kind = e.kind /\ r.mode = e.mode
BY DEF OpenEntry

\* An open element has one child more.
LEMMA CountedChild ==
  ASSUME NEW o, StackOK(o, OpenEntry), NEW at \in 1..Len(o.stack),
         NEW r, r = [o EXCEPT !.stack[at].children = @ + 1]
  PROVE  StackOK(r, OpenEntry) /\ SameEntries(r.stack, o.stack)
<1> DEFINE s == o.stack
           e == [s[at] EXCEPT !.children = @ + 1]
           t == [s EXCEPT ![at] = e]
<1>1. s \in Seq(OpenEntry) /\ s[at] \in OpenEntry
  BY DEF StackOK, StackType
<1>2. /\ e \in OpenEntry /\ e.id = s[at].id /\ e.name = s[at].name
      /\ e.kind = s[at].kind /\ e.mode = s[at].mode
  <2>1. s[at].children + 1 \in Nat
    BY <1>1 DEF OpenEntry
  <2> QED
    BY <1>1, <2>1, EditChildren
<1>3. r = [o EXCEPT !.stack = t]
  BY DEF StackOK, StackType
<1> HIDE DEF e
<1>4. t \in Seq(OpenEntry) /\ Len(t) = Len(s) /\ \A i \in 1..Len(s) : t[i] = IF i = at THEN e ELSE s[i]
  BY <1>1, <1>2
<1> HIDE DEF t
<1>5. SameEntries(t, s)
  BY <1>2, <1>4 DEF SameEntries
<1> HIDE DEF s
<1>6. StackOK(r, OpenEntry) /\ r.stack = t
  BY <1>3, <1>4, <1>5, SameEntriesOK DEF s
<1> QED
  BY <1>5, <1>6 DEF s

-----------------------------------------------------------------------------
(***************************************************************************)
(* Trees by height.                                                        *)
(***************************************************************************)
\* Every node but the root has a parent of less height, and no height is above
\* the nesting limit or as great as the number of nodes.
Hung(ns, h) ==
  /\ h \in [Ids(ns) -> Nat]
  /\ RootId \in Ids(ns)
  /\ ns[RootId].parent = NULL
  /\ \A n \in Ids(ns) \ {RootId} : ns[n].parent \in Ids(ns) /\ h[ns[n].parent] < h[n]
  /\ \A n \in Ids(ns) : h[n] <= MaxDepth + 1 /\ h[n] < Len(ns)

\* Heights make climbing from any node end at the root.
LEMMA HungClimbs ==
  ASSUME NEW ns, Arena(ns), NEW h, Hung(ns, h), NEW T, RootId \in T
  PROVE  Climbable(Ids(ns), T, Parents(ns), h)
BY DEF Hung, Climbable, Parents

\* All heights are below one bound.
LEMMA HungBound ==
  ASSUME NEW ns, NEW h, Hung(ns, h)
  PROVE  /\ h \in [Ids(ns) -> Nat]
         /\ MaxDepth + 2 \in Nat
         /\ \A n \in Ids(ns) : h[n] < MaxDepth + 2
BY MaxDepthAssumption DEF Hung

\* The depth of a node is at most its height.
LEMMA TrueDepthBound ==
  ASSUME NEW ns, Arena(ns), NEW h, Hung(ns, h), NEW n \in Ids(ns)
  PROVE  TrueDepth(ns, n) \in Nat /\ TrueDepth(ns, n) <= h[n]
<1> DEFINE T == {RootId}
           v == [m \in Ids(ns) |-> 0]
           up == Parents(ns)
           d == CHOOSE g : Climbs(g, Ids(ns), T, v, up)
<1>1. Climbable(Ids(ns), T, up, h)
  BY HungClimbs
<1>2. \E g : Climbs(g, Ids(ns), T, v, up)
  BY <1>1, HungBound, ClimbExists
<1>3. Climbs(d, Ids(ns), T, v, up)
  BY <1>2
<1>4. \A m \in Ids(ns) \cap T : v[m] = 0
  OBVIOUS
<1>5. TrueDepth(ns, n) = d[n]
  <2> DEFINE S == 1..Len(ns)
  <2>1. \A g : Climbs(g, Ids(ns), T, v, up)
               <=> g = [m \in S |-> IF ns[m].parent = NULL THEN 0 ELSE g[ns[m].parent] + 1]
    <3>1. \A m \in S : ns[m].parent = NULL <=> m \in T
      BY DEF Hung, Ids, NULL
    <3>2. \A g : [m \in S |-> IF m \in T THEN v[m] ELSE g[up[m]] + 1]
                 = [m \in S |-> IF ns[m].parent = NULL THEN 0 ELSE g[ns[m].parent] + 1]
      BY <3>1 DEF Parents, Ids
    <3> QED
      BY <3>2 DEF Climbs, Ids
  <2> HIDE DEF T, v, up
  <2>2. d = CHOOSE g : g = [m \in S |-> IF ns[m].parent = NULL THEN 0 ELSE g[ns[m].parent] + 1]
    BY <2>1
  <2> QED
    BY <2>2 DEF TrueDepth
<1> HIDE DEF d, v
<1> QED
  BY <1>1, <1>3, <1>4, <1>5, HungBound, ClimbBound

\* Depths refreshed from the root are depths, and nothing else changes.
LEMMA RefreshSame ==
  ASSUME NEW ns, Arena(ns), NEW h, Hung(ns, h), NEW stale
  PROVE  SameTree(RefreshDepths(ns, RootId, stale), ns)
<1> DEFINE T == {RootId}
           v == [m \in Ids(ns) |-> ns[m].depth]
           up == Parents(ns)
           d == CHOOSE g : Climbs(g, Ids(ns), T, v, up)
           refreshed(m) == [ns[m] EXCEPT !.depth = d[m]]
           f == [m \in Ids(ns) |-> refreshed(m)]
<1>1. Climbable(Ids(ns), T, up, h)
  BY HungClimbs
<1>2. \E g : Climbs(g, Ids(ns), T, v, up)
  BY <1>1, HungBound, ClimbExists
<1>3. Climbs(d, Ids(ns), T, v, up)
  BY <1>2
<1>4. \A m \in Ids(ns) \cap T : v[m] \in Nat
  BY ArenaNodes, NodeFields
<1>5. ASSUME stale # NotStale
      PROVE  RefreshDepths(ns, RootId, stale) = UpdateNodes(ns, refreshed)
  <2> DEFINE S == 1..Len(ns)
  <2>1. \A g : Climbs(g, Ids(ns), T, v, up)
               <=> g = [m \in S |-> IF m = RootId \/ ns[m].parent = NULL THEN ns[m].depth
                                    ELSE g[ns[m].parent] + 1]
    <3>1. \A m \in S : m = RootId \/ ns[m].parent = NULL <=> m \in T
      BY DEF Hung, Ids, NULL
    <3>2. \A g : [m \in S |-> IF m \in T THEN v[m] ELSE g[up[m]] + 1]
                 = [m \in S |-> IF m = RootId \/ ns[m].parent = NULL THEN ns[m].depth
                                 ELSE g[ns[m].parent] + 1]
      BY <3>1 DEF Parents, Ids
    <3> QED
      BY <3>2 DEF Climbs, Ids
  <2> HIDE DEF T, v, up
  <2>2. d = CHOOSE g : g = [m \in S |-> IF m = RootId \/ ns[m].parent = NULL THEN ns[m].depth
                                        ELSE g[ns[m].parent] + 1]
    BY <2>1
  <2> HIDE DEF d
  <2> QED
    BY <1>5, <2>2 DEF RefreshDepths
<1> HIDE DEF d
<1>6. \A m \in Ids(ns) : d[m] \in Nat
  <2> HIDE DEF v
  <2> QED
    BY <1>1, <1>3, <1>4, HungBound, ClimbRange
<1>7. ASSUME NEW m \in Ids(ns) PROVE f[m] \in Node /\ Alike(f[m], ns[m])
  BY <1>6, ArenaNodes, EditDepth
<1>8. f \in [Ids(ns) -> Node]
  <2>1. f = [m \in Ids(ns) |-> f[m]]
    OBVIOUS
  <2> HIDE DEF f
  <2> QED
    BY <1>7, <2>1
<1>9. UpdateNodes(ns, refreshed) = SubSeq([m \in DOMAIN ns |-> f[m]], 1, Len(ns))
  <2>1. DOMAIN ns = Ids(ns)
    BY ArenaNodes
  <2>2. [m \in DOMAIN ns |-> refreshed(m)] = [m \in DOMAIN ns |-> f[m]]
    BY <2>1
  <2> QED
    BY <2>2 DEF UpdateNodes
<1>10. SameTree(UpdateNodes(ns, refreshed), ns)
  <2> HIDE DEF f
  <2>1. SameTree(SubSeq([m \in DOMAIN ns |-> f[m]], 1, Len(ns)), ns)
    BY <1>7, <1>8, UpdateSame
  <2> QED
    BY <1>9, <2>1
<1>11. CASE stale = NotStale
  <2>1. RefreshDepths(ns, RootId, stale) = ns
    BY <1>11 DEF RefreshDepths
  <2> QED
    BY <2>1, SameTreeReflexive
<1>12. CASE stale # NotStale
  BY <1>5, <1>10, <1>12
<1> QED
  BY <1>11, <1>12

\* A tree with heights hangs below its root, and no parent chain is longer than
\* the number of nodes.
LEMMA HungRooted ==
  ASSUME NEW ns, Arena(ns), NEW h, Hung(ns, h) PROVE RootedAt(ns, RootId)
<1> DEFINE L == Len(ns)
           f == CHOOSE g : Reaches(g, ns, L)
<1>1. L \in Nat
  BY ArenaNodes
<1>2. Reaches(f, ns, L)
  BY <1>1, ReachesExists
<1>3. RootedAt(ns, RootId) <=> ns[RootId].parent = NULL /\ f[L] = Ids(ns)
  BY DEF RootedAt, Reaches, Ids
<1> HIDE DEF L, f
<1>4. \A fuel \in 0..L : f[fuel] = IF fuel = 0 THEN {RootId}
                                   ELSE {n \in Ids(ns) : n = RootId \/ ns[n].parent \in f[fuel - 1]}
  BY <1>2, Zenon DEF Reaches
<1> DEFINE Bad == {k \in Nat : k <= L /\ \E n \in Ids(ns) : h[n] <= k /\ n \notin f[k]}
<1>5. Bad = {}
  <2>1. SUFFICES ASSUME Bad # {} PROVE FALSE
    OBVIOUS
  <2>2. PICK k \in Bad : \A j \in Bad : k <= j
    BY <2>1, LeastElement
  <2>3. k \in Nat /\ k <= L /\ k \in 0..L
    BY <1>1
  <2>4. PICK n \in Ids(ns) : h[n] <= k /\ n \notin f[k]
    OBVIOUS
  <2>5. n # RootId
    BY <1>4, <2>3, <2>4 DEF Hung
  <2>6. ns[n].parent \in Ids(ns) /\ h[ns[n].parent] < h[n] /\ h[ns[n].parent] \in Nat /\ h[n] \in Nat
    BY <2>5 DEF Hung
  <2>7. k # 0 /\ k - 1 \in Nat /\ k - 1 <= L /\ h[ns[n].parent] <= k - 1 /\ ~ (k <= k - 1)
    BY <1>1, <2>3, <2>4, <2>6
  <2>8. k - 1 \notin Bad
    <3> HIDE DEF Bad
    <3> QED
      BY <2>2, <2>7
  <2>9. ns[n].parent \in f[k - 1]
    BY <2>6, <2>7, <2>8
  <2> QED
    BY <1>4, <2>3, <2>4, <2>7, <2>9
<1>6. L \in 1..L
  BY <1>1 DEF Hung, Ids, L, RootId
<1>7. \A n \in Ids(ns) : n \in f[L]
  <2>1. \A n \in Ids(ns) : h[n] \in Nat /\ h[n] <= L
    BY <1>1 DEF Hung, L
  <2> QED
    BY <1>1, <1>5, <2>1
<1>8. f[L] = {n \in Ids(ns) : n = RootId \/ ns[n].parent \in f[L - 1]}
  <2>1. L \in 0..L /\ L # 0
    BY <1>1, <1>6
  <2>2. f[L] = IF L = 0 THEN {RootId} ELSE {n \in Ids(ns) : n = RootId \/ ns[n].parent \in f[L - 1]}
    BY <1>4, <2>1
  <2> QED
    BY <2>1, <2>2
<1> QED
  BY <1>3, <1>7, <1>8 DEF Hung

-----------------------------------------------------------------------------
(***************************************************************************)
(* The stack of open elements as a branch of the tree.                     *)
(***************************************************************************)
\* The parts of a table that only open in one.
TableContentKinds == ModeKinds \ {"Table", "Select"}

\* The parent of an open element is open, further down the stack.  Only
\* formatting elements are open between the two, reopened after the parent was
\* left, or a table is, out of which the element was fostered.
OpenParentAt(ns, s, i) ==
  \E j \in 1 .. i - 1 :
    /\ s[j].id = ns[s[i].id].parent
    /\ \/ \A m \in j + 1 .. i - 1 : s[m].kind = "Formatting"
       \/ \E t \in j + 1 .. i - 1 : s[t].kind = "Table"

\* What is open up to n does not leave the mode of column groups in force.
OutsideColumns(s, n) ==
  \A j \in 1..n : s[j].kind = "ColGroup" => \E m \in j + 1 .. n : s[m].kind \in ModeKinds

\* A part of a table is in a table, and a column group not in a column group.
InTableAt(s, i) ==
  /\ s[i].kind \in TableContentKinds => \E t \in 1 .. i - 1 : s[t].kind = "Table"
  /\ s[i].kind = "ColGroup" => OutsideColumns(s, i - 1)

\* The height of an open element is the number of elements open below it.
Branch(ns, s, h) ==
  /\ Len(s) \in Nat /\ 1 <= Len(s) /\ Len(s) <= MaxDepth + 1 /\ Len(s) <= Len(ns)
  /\ s[1].id = RootId
  /\ \A i \in 1..Len(s) : s[i].id \in Ids(ns) /\ ns[s[i].id].type = "element" /\ h[s[i].id] = i - 1
  /\ \A i \in 2..Len(s) : OpenParentAt(ns, s, i)
  /\ \A i \in 1..Len(s) : InTableAt(s, i)

Grounded(ns, s, h) == Arena(ns) /\ Hung(ns, h) /\ Branch(ns, s, h)

\* Comments after the body go to a node that may still have children.
TakesComments(ns, h, after) == after # NULL => after \in Ids(ns) /\ h[after] <= MaxDepth

TreeOK(ns, s, after) == \E h : Grounded(ns, s, h) /\ TakesComments(ns, h, after)

\* t holds the first entries of s, but for their modes and child counts.
Beginning(t, s) ==
  /\ Len(t) \in Nat /\ 1 <= Len(t) /\ Len(t) <= Len(s)
  /\ \A i \in 1..Len(t) : t[i].id = s[i].id /\ t[i].kind = s[i].kind

\* Whether an entry is in a table is a matter of the kinds up to it.
LEMMA SameInTable ==
  ASSUME NEW t, NEW s, NEW i \in Nat, i >= 1, \A m \in 1..i : t[m].kind = s[m].kind, InTableAt(s, i)
  PROVE  InTableAt(t, i)
<1>1. i \in 1..i /\ \A m \in 1 .. i - 1 : m \in 1..i
  OBVIOUS
<1>2. t[i].kind \in TableContentKinds => \E m \in 1 .. i - 1 : t[m].kind = "Table"
  BY <1>1 DEF InTableAt
<1>3. ASSUME t[i].kind = "ColGroup" PROVE OutsideColumns(t, i - 1)
  <2>1. OutsideColumns(s, i - 1)
    BY <1>1, <1>3 DEF InTableAt
  <2>2. \A j \in 1 .. i - 1 : \A m \in j + 1 .. i - 1 : m \in 1..i
    OBVIOUS
  <2> QED
    BY <1>1, <2>1, <2>2 DEF OutsideColumns
<1> QED
  BY <1>2, <1>3 DEF InTableAt

\* Closing elements, and editing depths, indices and text, keep a tree grounded.
LEMMA GroundedBeginning ==
  ASSUME NEW ns, NEW s, NEW h, Grounded(ns, s, h), NEW r, SamePlaces(r, ns), NEW t, Beginning(t, s)
  PROVE  Grounded(r, t, h)
<1>1. Arena(r) /\ Len(r) = Len(ns) /\ Ids(r) = Ids(ns)
  BY DEF SamePlaces, Ids
<1>2. \A n \in Ids(ns) : r[n].type = ns[n].type /\ r[n].parent = ns[n].parent
  BY DEF SamePlaces
<1>3. Hung(r, h)
  BY <1>1, <1>2 DEF Hung, Grounded
<1>4. Len(s) \in Nat /\ \A i \in 1..Len(t) : i \in 1..Len(s)
  BY DEF Beginning, Grounded, Branch
<1>5. \A i \in 1..Len(t) : t[i].id \in Ids(r) /\ r[t[i].id].type = "element" /\ h[t[i].id] = i - 1
  <2>1. \A i \in 1..Len(s) :
          s[i].id \in Ids(ns) /\ ns[s[i].id].type = "element" /\ h[s[i].id] = i - 1
    BY DEF Grounded, Branch
  <2>2. \A i \in 1..Len(t) : t[i].id = s[i].id
    BY DEF Beginning
  <2> QED
    BY <1>1, <1>2, <1>4, <2>1, <2>2
<1>6. ASSUME NEW i \in 2..Len(t) PROVE OpenParentAt(r, t, i)
  <2>0. i \in 2..Len(s) /\ i \in 1..Len(s) /\ i \in 1..Len(t)
    BY <1>4 DEF Beginning
  <2>1. OpenParentAt(ns, s, i) /\ s[i].id \in Ids(ns)
    BY <2>0 DEF Grounded, Branch
  <2>2. PICK j \in 1 .. i - 1 :
          /\ s[j].id = ns[s[i].id].parent
          /\ \/ \A m \in j + 1 .. i - 1 : s[m].kind = "Formatting"
             \/ \E m \in j + 1 .. i - 1 : s[m].kind = "Table"
    BY <2>1 DEF OpenParentAt
  <2>3. \A m \in 1 .. i - 1 : t[m].id = s[m].id /\ t[m].kind = s[m].kind
    BY <2>0 DEF Beginning
  <2>4. \A m \in j + 1 .. i - 1 : m \in 1 .. i - 1
    OBVIOUS
  <2>5. t[j].id = r[t[i].id].parent
    BY <1>2, <2>0, <2>1, <2>2, <2>3 DEF Beginning
  <2> QED
    BY <2>2, <2>3, <2>4, <2>5 DEF OpenParentAt
<1>7. ASSUME NEW i \in 1..Len(t) PROVE InTableAt(t, i)
  <2>1. InTableAt(s, i)
    BY <1>4 DEF Grounded, Branch
  <2>2. \A m \in 1..i : t[m].kind = s[m].kind
    BY DEF Beginning
  <2>3. i \in Nat /\ i >= 1
    BY DEF Beginning
  <2> QED
    BY <2>1, <2>2, <2>3, SameInTable
<1>8. Branch(r, t, h)
  <2>1. Len(t) \in Nat /\ 1 <= Len(t) /\ Len(t) <= MaxDepth + 1 /\ Len(t) <= Len(r)
    BY <1>1, MaxDepthAssumption, ArenaNodes DEF Beginning, Grounded, Branch
  <2>2. t[1].id = RootId
    BY <1>4 DEF Beginning, Grounded, Branch
  <2> QED
    BY <1>5, <1>6, <1>7, <2>1, <2>2 DEF Branch
<1> QED
  BY <1>1, <1>3, <1>8 DEF Grounded

\* The same of the heights' existence: comments may go to the same node, or to none.
LEMMA TreeOKBeginning ==
  ASSUME NEW ns, NEW s, NEW after, TreeOK(ns, s, after), NEW r, SamePlaces(r, ns),
         NEW t, Beginning(t, s)
  PROVE  TreeOK(r, t, after) /\ TreeOK(r, t, NULL)
<1>1. PICK h : Grounded(ns, s, h) /\ TakesComments(ns, h, after)
  BY DEF TreeOK
<1>2. Grounded(r, t, h)
  BY <1>1, GroundedBeginning
<1>3. TakesComments(r, h, after) /\ TakesComments(r, h, NULL)
  BY <1>1 DEF TakesComments, SamePlaces, Ids
<1> QED
  BY <1>2, <1>3 DEF TreeOK

\* A new node hangs where its height says.
LEMMA GroundedPlaced ==
  ASSUME NEW ns, NEW s, NEW h, Grounded(ns, s, h), NEW p \in Ids(ns), NEW type,
         NEW r, Placed(r, ns, type, p),
         NEW v \in Nat, h[p] < v, v <= MaxDepth + 1, v <= Len(ns),
         NEW g, g = [n \in Ids(r) |-> IF n = Len(ns) + 1 THEN v ELSE h[n]]
  PROVE  Grounded(r, s, g)
<1> DEFINE x == Len(ns) + 1
<1>1. /\ Arena(r) /\ Len(r) = x /\ Ids(r) = Ids(ns) \cup {x} /\ x \notin Ids(ns)
      /\ r[x].type = type /\ r[x].parent = p
      /\ \A n \in Ids(ns) : r[n].type = ns[n].type /\ r[n].parent = ns[n].parent
  BY DEF Placed
<1>2. Len(ns) \in Nat /\ x \in Nat /\ Len(ns) < x /\ MaxDepth + 1 \in Nat
  BY ArenaNodes, MaxDepthAssumption DEF Grounded
<1>3. \A n \in Ids(ns) : g[n] = h[n] /\ h[n] \in Nat
  BY <1>1 DEF Grounded, Hung
<1>4. g[x] = v
  BY <1>1
<1> HIDE DEF x
<1>5. Hung(r, g)
  <2>1. g \in [Ids(r) -> Nat]
    <3>1. \A n \in Ids(r) : g[n] \in Nat
      BY <1>1, <1>3, <1>4
    <3> QED
      BY <3>1
  <2>2. RootId \in Ids(r) /\ r[RootId].parent = NULL
    BY <1>1 DEF Grounded, Hung
  <2>3. ASSUME NEW n \in Ids(r) \ {RootId} PROVE r[n].parent \in Ids(r) /\ g[r[n].parent] < g[n]
    <3>1. CASE n = x
      BY <1>1, <1>3, <1>4, <3>1
    <3>2. CASE n \in Ids(ns)
      <4>1. ns[n].parent \in Ids(ns) /\ h[ns[n].parent] < h[n]
        BY <3>2 DEF Grounded, Hung
      <4> QED
        BY <1>1, <1>3, <3>2, <4>1
    <3> QED
      BY <1>1, <3>1, <3>2
  <2>4. ASSUME NEW n \in Ids(r) PROVE g[n] <= MaxDepth + 1 /\ g[n] < Len(r)
    <3>1. CASE n = x
      BY <1>1, <1>2, <1>4, <3>1
    <3>2. CASE n \in Ids(ns)
      <4>1. h[n] <= MaxDepth + 1 /\ h[n] < Len(ns)
        BY <3>2 DEF Grounded, Hung
      <4> QED
        BY <1>1, <1>2, <1>3, <3>2, <4>1
    <3> QED
      BY <1>1, <3>1, <3>2
  <2> QED
    BY <2>1, <2>2, <2>3, <2>4 DEF Hung
<1>6. Branch(r, s, g)
  <2>1. Len(s) \in Nat /\ 1 <= Len(s) /\ Len(s) <= MaxDepth + 1 /\ Len(s) <= Len(r) /\ s[1].id = RootId
    BY <1>1, <1>2 DEF Grounded, Branch
  <2>2. \A i \in 1..Len(s) : s[i].id \in Ids(r) /\ r[s[i].id].type = "element" /\ g[s[i].id] = i - 1
    BY <1>1, <1>3 DEF Grounded, Branch
  <2>3. ASSUME NEW i \in 2..Len(s) PROVE OpenParentAt(r, s, i)
    <3>1. OpenParentAt(ns, s, i) /\ s[i].id \in Ids(ns)
      BY <2>1 DEF Grounded, Branch
    <3>2. r[s[i].id].parent = ns[s[i].id].parent
      BY <1>1, <3>1
    <3> QED
      BY <3>1, <3>2 DEF OpenParentAt
  <2>4. \A i \in 1..Len(s) : InTableAt(s, i)
    BY DEF Grounded, Branch
  <2> QED
    BY <2>1, <2>2, <2>3, <2>4 DEF Branch
<1> QED
  BY <1>1, <1>5, <1>6 DEF Grounded

\* An element at the height of the stack may open.
LEMMA GroundedPush ==
  ASSUME NEW ns, NEW E, NEW s \in Seq(E), NEW h, Grounded(ns, s, h), Len(s) <= MaxDepth,
         NEW e \in E, e.id \in Ids(ns), ns[e.id].type = "element", h[e.id] = Len(s),
         NEW t, t = Append(s, e),
         OpenParentAt(ns, t, Len(s) + 1), InTableAt(t, Len(s) + 1)
  PROVE  Grounded(ns, t, h)
<1> DEFINE n == Len(s)
<1>1. n \in Nat /\ Len(t) = n + 1 /\ t[n + 1] = e /\ \A i \in 1..n : t[i] = s[i]
  OBVIOUS
<1>2. n < Len(ns) /\ 1 <= n /\ n <= MaxDepth
  BY <1>1 DEF Grounded, Hung, Branch
<1>3. Len(ns) \in Nat
  BY ArenaNodes DEF Grounded
<1>4. \A i \in 1 .. n + 1 : i \in 1..n \/ i = n + 1
  BY <1>1
<1> HIDE DEF n
<1>5. \A i \in 1 .. n + 1 : t[i].id \in Ids(ns) /\ ns[t[i].id].type = "element" /\ h[t[i].id] = i - 1
  <2>1. \A i \in 1..n : t[i].id \in Ids(ns) /\ ns[t[i].id].type = "element" /\ h[t[i].id] = i - 1
    BY <1>1 DEF Grounded, Branch, n
  <2>2. t[n + 1].id \in Ids(ns) /\ ns[t[n + 1].id].type = "element" /\ h[t[n + 1].id] = (n + 1) - 1
    BY <1>1 DEF n
  <2> QED
    BY <1>4, <2>1, <2>2
<1>6. ASSUME NEW i \in 2 .. n + 1 PROVE OpenParentAt(ns, t, i)
  <2>1. CASE i = n + 1
    BY <2>1 DEF n
  <2>2. CASE i # n + 1
    <3>1. i \in 2..n /\ i \in 1..n
      BY <1>1, <2>2
    <3>2. OpenParentAt(ns, s, i)
      BY <3>1 DEF Grounded, Branch, n
    <3>3. PICK j \in 1 .. i - 1 :
            /\ s[j].id = ns[s[i].id].parent
            /\ \/ \A m \in j + 1 .. i - 1 : s[m].kind = "Formatting"
               \/ \E m \in j + 1 .. i - 1 : s[m].kind = "Table"
      BY <3>2 DEF OpenParentAt
    <3>4. t[i] = s[i] /\ \A m \in 1 .. i - 1 : t[m] = s[m]
      BY <1>1, <3>1
    <3>5. j + 1 .. i - 1 \subseteq 1 .. i - 1
      OBVIOUS
    <3>6. t[j] = s[j] /\ \A m \in j + 1 .. i - 1 : t[m] = s[m]
      BY <3>4, <3>5
    <3> QED
      BY <3>3, <3>4, <3>6 DEF OpenParentAt
  <2> QED
    BY <2>1, <2>2
<1>7. ASSUME NEW i \in 1 .. n + 1 PROVE InTableAt(t, i)
  <2>1. CASE i = n + 1
    BY <2>1 DEF n
  <2>2. CASE i # n + 1
    <3>1. i \in 1..n
      BY <1>1, <2>2
    <3>2. InTableAt(s, i)
      BY <3>1 DEF Grounded, Branch, n
    <3>3. i \in Nat /\ i >= 1 /\ \A m \in 1..i : t[m].kind = s[m].kind
      BY <1>1, <3>1
    <3> QED
      BY <3>2, <3>3, SameInTable
  <2> QED
    BY <2>1, <2>2
<1>8. t[1].id = RootId
  BY <1>1, <1>2 DEF Grounded, Branch, n
<1>9. n + 1 \in Nat /\ 1 <= n + 1 /\ n + 1 <= MaxDepth + 1 /\ n + 1 <= Len(ns)
  BY <1>1, <1>2, <1>3, MaxDepthAssumption
<1> QED
  BY <1>1, <1>5, <1>6, <1>7, <1>8, <1>9 DEF Grounded, Branch

-----------------------------------------------------------------------------
(***************************************************************************)
(* What is reported of new elements: the numbers of the new elements, in   *)
(* the order they were made, joined to what was reported before.           *)
(***************************************************************************)
ElementIds(ns) == {n \in Ids(ns) : ns[n].type = "element"}
NewElements(rs, ns) == ElementIds(rs) \ ElementIds(ns)

\* The sequence has every member of S once, and no other.
Listed(list, S) ==
  /\ list \in Seq(Nat)
  /\ {list[i] : i \in 1..Len(list)} = S
  /\ \A i, j \in 1..Len(list) : list[i] = list[j] => i = j

\* No node goes away, and none becomes another kind of node.
NodesStay(rs, ns) == \A n \in Ids(ns) : n \in Ids(rs) /\ rs[n].type = ns[n].type

\* What was created since c is listed after what c has listed.
Lists(ns, created, c) ==
  /\ NodesStay(ns, c.nodes)
  /\ \E list : created = c.created \o list /\ Listed(list, NewElements(ns, c.nodes))

\* Sequences with the same elements are the same.
LEMMA SameSequence ==
  ASSUME NEW S, NEW s \in Seq(S), NEW t \in Seq(S), Len(s) = Len(t),
         \A i \in 1..Len(s) : s[i] = t[i]
  PROVE  s = t
OBVIOUS

\* Joining sequences of anything, and lists of nodes, in either order.
LEMMA JoinAnyAssociative ==
  ASSUME NEW S, NEW s \in Seq(S), NEW t \in Seq(S), NEW u \in Seq(S)
  PROVE  (s \o t) \o u = s \o (t \o u)
<1> DEFINE x == (s \o t) \o u
           y == s \o (t \o u)
<1>1. Len(s) \in Nat /\ Len(t) \in Nat /\ Len(u) \in Nat
  OBVIOUS
<1>2. x \in Seq(S) /\ y \in Seq(S) /\ Len(x) = Len(y)
  OBVIOUS
<1>3. \A i \in 1..Len(x) : x[i] = y[i]
  BY <1>1
<1> HIDE DEF x, y
<1>4. x = y
  BY <1>2, <1>3, SameSequence
<1> QED
  BY <1>4 DEF x, y

\* The same of lists of nodes.
LEMMA JoinAssociative ==
  ASSUME NEW s \in Seq(Nat), NEW t \in Seq(Nat), NEW u \in Seq(Nat)
  PROVE  (s \o t) \o u = s \o (t \o u)
BY JoinAnyAssociative, SMTT(30)

\* Appending is joining a sequence of one.
LEMMA AppendJoins ==
  ASSUME NEW S, NEW s \in Seq(S), NEW x PROVE Append(s, x) = s \o <<x>>
<1>1. /\ Len(s) \in Nat /\ DOMAIN Append(s, x) = 1 .. Len(s) + 1
      /\ DOMAIN (s \o <<x>>) = 1 .. Len(s) + 1
      /\ \A i \in 1 .. Len(s) + 1 : Append(s, x)[i] = (s \o <<x>>)[i]
  OBVIOUS
<1> QED
  BY <1>1, SMTT(30)

\* Nothing follows an empty list, and nothing precedes it.
LEMMA EmptyJoins ==
  ASSUME NEW list \in Seq(Nat) PROVE <<>> \o list = list /\ list \o <<>> = list
<1>1. <<>> \o list = list
  <2>1. <<>> \o list \in Seq(Nat) /\ Len(<<>> \o list) = Len(list)
    OBVIOUS
  <2>2. \A i \in 1..Len(list) : (<<>> \o list)[i] = list[i]
    OBVIOUS
  <2> QED
    BY <2>1, <2>2, SameSequence
<1>2. list \o <<>> = list
  <2>1. list \o <<>> \in Seq(Nat) /\ Len(list \o <<>>) = Len(list)
    OBVIOUS
  <2>2. \A i \in 1..Len(list) : (list \o <<>>)[i] = list[i]
    OBVIOUS
  <2> QED
    BY <2>1, <2>2, SameSequence
<1> QED
  BY <1>1, <1>2

\* Two lists of different things, one after the other.
LEMMA ListedTogether ==
  ASSUME NEW p, NEW S, Listed(p, S), NEW q, NEW T, Listed(q, T), S \cap T = {}
  PROVE  Listed(p \o q, S \cup T)
<1> DEFINE m == Len(p)
           n == Len(q)
           s == p \o q
<1>1. p \in Seq(Nat) /\ q \in Seq(Nat) /\ m \in Nat /\ n \in Nat
  BY DEF Listed
<1>2. /\ s \in Seq(Nat) /\ Len(s) = m + n
      /\ \A i \in 1 .. m + n : s[i] = IF i <= m THEN p[i] ELSE q[i - m]
  BY <1>1
<1>3. /\ \A i \in 1..m : p[i] \in S
      /\ \A i \in 1..n : q[i] \in T
      /\ \A x \in S : \E i \in 1..m : p[i] = x
      /\ \A x \in T : \E i \in 1..n : q[i] = x
      /\ \A i, j \in 1..m : p[i] = p[j] => i = j
      /\ \A i, j \in 1..n : q[i] = q[j] => i = j
  BY DEF Listed
<1> HIDE DEF s, m, n
<1>4. ASSUME NEW i \in 1 .. m + n PROVE s[i] \in S \cup T
  <2>1. i <= m \/ i - m \in 1..n
    BY <1>1
  <2>2. i <= m => i \in 1..m
    BY <1>1
  <2> QED
    BY <1>1, <1>2, <1>3, <2>1, <2>2
<1>5. ASSUME NEW x \in S PROVE \E i \in 1 .. m + n : s[i] = x
  <2>1. PICK i \in 1..m : p[i] = x
    BY <1>3
  <2>2. i \in 1 .. m + n /\ i <= m
    BY <1>1
  <2> QED
    BY <1>2, <2>1, <2>2
<1>6. ASSUME NEW x \in T PROVE \E i \in 1 .. m + n : s[i] = x
  <2>1. PICK i \in 1..n : q[i] = x
    BY <1>3
  <2>2. i + m \in 1 .. m + n /\ ~ (i + m <= m) /\ (i + m) - m = i
    BY <1>1
  <2> QED
    BY <1>2, <2>1, <2>2
<1>7. ASSUME NEW i \in 1 .. m + n, NEW j \in 1 .. m + n, s[i] = s[j] PROVE i = j
  <2>1. (i <= m => i \in 1..m) /\ (i > m => i - m \in 1..n)
    BY <1>1
  <2>2. (j <= m => j \in 1..m) /\ (j > m => j - m \in 1..n)
    BY <1>1
  <2>3. CASE i <= m /\ j <= m
    <3>1. p[i] = p[j]
      BY <1>2, <1>7, <2>3
    <3> QED
      BY <1>3, <2>1, <2>2, <2>3, <3>1
  <2>4. CASE i > m /\ j > m
    <3>1. s[i] = q[i - m] /\ s[j] = q[j - m]
      BY <1>1, <1>2, <2>4
    <3>2. i - m = j - m
      BY <1>3, <1>7, <2>1, <2>2, <2>4, <3>1
    <3> QED
      BY <1>1, <3>2
  <2>5. CASE i <= m /\ j > m
    <3>1. s[i] = p[i] /\ s[j] = q[j - m]
      BY <1>1, <1>2, <2>5
    <3> QED
      BY <1>3, <1>7, <2>1, <2>2, <2>5, <3>1
  <2>6. CASE i > m /\ j <= m
    <3>1. s[i] = q[i - m] /\ s[j] = p[j]
      BY <1>1, <1>2, <2>6
    <3> QED
      BY <1>3, <1>7, <2>1, <2>2, <2>6, <3>1
  <2> QED
    BY <1>1, <2>3, <2>4, <2>5, <2>6
<1>8. {s[i] : i \in 1 .. m + n} = S \cup T
  BY <1>4, <1>5, <1>6
<1> QED
  BY <1>2, <1>7, <1>8 DEF Listed, s

\* Nothing, and one thing.
LEMMA ListedNone == Listed(<<>>, {})
BY DEF Listed

\* A list of one.
LEMMA ListedOne ==
  ASSUME NEW x \in Nat PROVE Listed(<<x>>, {x})
<1>1. <<x>> \in Seq(Nat) /\ Len(<<x>>) = 1 /\ <<x>>[1] = x /\ 1..1 = {1}
  OBVIOUS
<1> QED
  BY <1>1 DEF Listed

\* Nodes that stay stay whatever comes after.
LEMMA NodesStayTransitive ==
  ASSUME NEW qs, NEW rs, NEW ns, NodesStay(qs, rs), NodesStay(rs, ns)
  PROVE  NodesStay(qs, ns)
BY DEF NodesStay

\* What a placed node adds to the elements.
LEMMA PlacedNew ==
  ASSUME NEW ns, NEW rs, NEW type, NEW p, Placed(rs, ns, type, p)
  PROVE  /\ NodesStay(rs, ns)
         /\ NewElements(rs, ns) = IF type = "element" THEN {Len(ns) + 1} ELSE {}
BY DEF Placed, NodesStay, NewElements, ElementIds

-----------------------------------------------------------------------------
(***************************************************************************)
(* Clones around the furthest block, each in the next.                     *)
(***************************************************************************)
\* The detached node outer has a new parent, itself detached; nothing else moved.
Wraps(r, ns, outer) ==
  /\ Arena(r)
  /\ Len(r) = Len(ns) + 1
  /\ \A n \in Ids(ns) :
       r[n].type = ns[n].type /\ r[n].parent = IF n = outer THEN Len(ns) + 1 ELSE ns[n].parent
  /\ r[Len(ns) + 1].type = "element" /\ r[Len(ns) + 1].parent = NULL
  /\ Keeps(r, ns, Ids(ns))

\* A shallow clone is a new node without links.
LEMMA CloneAllocates ==
  ASSUME NEW ns, Arena(ns), NEW source \in Ids(ns)
  PROVE  \E node : /\ Allocated(CloneElementShallow(ns, source, 0), ns, node)
                   /\ node.type = "element" /\ node.parent = NULL
<1> DEFINE node == BlankNode("element", ns[source].name, ns[source].attrs, <<>>, 0)
<1>1. ns[source].name \in Strings /\ ns[source].attrs \in Strings
  BY ArenaNodes, NodeFields
<1>2. "element" \in NodeTypes /\ <<>> \in Seq(Strings) /\ 0 \in Nat
  BY DEF NodeTypes
<1>3. Allocated(Append(ns, node), ns, node)
  BY <1>1, <1>2, Allocates
<1>4. node.type = "element" /\ node.parent = NULL
  BY DEF BlankNode
<1> QED
  BY <1>3, <1>4 DEF CloneElementShallow

\* Wrapping the outermost node in a new clone.
LEMMA CloneWraps ==
  ASSUME NEW ns, Arena(ns), NEW source \in Ids(ns), NEW outer \in Ids(ns), ns[outer].parent = NULL,
         NEW a, a = AppendSubtree(CloneElementShallow(ns, source, 0), Len(ns) + 1, outer)
  PROVE  Wraps([a EXCEPT ![outer].index = 1], ns, outer)
<1> DEFINE x == Len(ns) + 1
           fresh == CloneElementShallow(ns, source, 0)
           r == [a EXCEPT ![outer].index = 1]
<1>1. PICK node : Allocated(fresh, ns, node) /\ node.type = "element" /\ node.parent = NULL
  BY CloneAllocates
<1> HIDE DEF fresh
<1>2. /\ Arena(fresh) /\ Len(fresh) = x /\ Ids(fresh) = Ids(ns) \cup {x} /\ x \notin Ids(ns)
      /\ fresh[x].type = "element" /\ fresh[x].parent = NULL
      /\ \A n \in Ids(ns) : fresh[n] = ns[n]
  BY <1>1 DEF Allocated
<1> HIDE DEF x
<1>3. MovedBelow(a, fresh, outer, x)
  BY <1>2, AppendMoves DEF fresh, x
<1>4. SameTree(r, a)
  <2>1. Arena(a) /\ outer \in Ids(a) /\ 1 \in Int
    BY <1>2, <1>3 DEF MovedBelow, Ids
  <2> QED
    BY <2>1, IndexSame, Zenon
<1> HIDE DEF r
<1>5. MovedBelow(r, fresh, outer, x)
  BY <1>3, <1>4, MovedThenSame
<1>6. /\ Arena(r) /\ Len(r) = x
      /\ \A n \in Ids(ns) : r[n].type = ns[n].type /\ r[n].parent = IF n = outer THEN x ELSE ns[n].parent
      /\ r[x].type = "element" /\ r[x].parent = NULL
  BY <1>2, <1>5 DEF MovedBelow
<1>7. Keeps(r, ns, Ids(ns))
  <2>1. Keeps(fresh, ns, Ids(ns))
    BY <1>2 DEF Keeps
  <2>2. Keeps(r, fresh, Ids(fresh) \ {x, NULL}) /\ NULL \notin Ids(ns)
    BY <1>2, <1>5, ArenaNodes DEF MovedBelow
  <2>3. Keeps(r, fresh, Ids(ns))
    BY <1>2, <2>2, KeepsFewer
  <2> QED
    BY <2>1, <2>3, KeepsTransitive
<1> QED
  BY <1>6, <1>7 DEF Wraps, r, x

\* The furthest block and the clones around it, inside out.
Around(furthest, len, q) == IF q = 0 THEN furthest ELSE len + q

\* Each of the clones of the first i entries is the parent of the one before, the first that of the
\* furthest block; the last is detached.
ChainAt(chain, ns, furthest, i) ==
  /\ Arena(chain.nodes) /\ Len(chain.nodes) = Len(ns) + i
  /\ chain.outer = Around(furthest, Len(ns), i)
  /\ \A n \in Ids(ns) : chain.nodes[n].type = ns[n].type
  /\ \A n \in Ids(ns) \ {furthest} : chain.nodes[n].parent = ns[n].parent
  /\ \A q \in 1..i : chain.nodes[Len(ns) + q].type = "element"
  /\ \A q \in 0..i : chain.nodes[Around(furthest, Len(ns), q)].parent
                       = IF q = i THEN NULL ELSE Around(furthest, Len(ns), q + 1)
  /\ chain.entries \in Seq(OpenEntry) /\ Len(chain.entries) = i
  /\ \A q \in 1..i : /\ chain.entries[q].id = Len(ns) + i + 1 - q
                     /\ chain.entries[q].kind = "Formatting" /\ Classified(chain.entries[q])
  /\ Keeps(chain.nodes, ns, Ids(ns) \ {ns[furthest].parent})

ChainType == [nodes : Seq(Node), outer : Nat, entries : Seq(OpenEntry)]
ChainsAt(ns, furthest, i) == {chain \in ChainType : ChainAt(chain, ns, furthest, i)}

\* A chain is a record of its three fields.
LEMMA ChainOfType ==
  ASSUME NEW ns, Arena(ns), NEW furthest \in Ids(ns), NEW i \in Nat, NEW chain,
         ChainAt(chain, ns, furthest, i),
         chain = [nodes |-> chain.nodes, outer |-> chain.outer, entries |-> chain.entries]
  PROVE  chain \in ChainsAt(ns, furthest, i)
<1>1. chain.nodes \in Seq(Node) /\ chain.entries \in Seq(OpenEntry)
  BY ArenaNodes DEF ChainAt
<1>2. chain.outer \in Nat
  <2>1. Len(ns) \in Nat /\ furthest \in Nat
    BY ArenaNodes
  <2> QED
    BY <2>1 DEF ChainAt, Around
<1>3. chain \in ChainType
  BY <1>1, <1>2 DEF ChainType
<1> QED
  BY <1>3 DEF ChainsAt

\* The chain starts as the furthest block, detached.
LEMMA DetachStartsChain ==
  ASSUME NEW ns, Arena(ns), NEW furthest \in Ids(ns), ns[furthest].parent # NULL
  PROVE  [nodes |-> Detach(ns, furthest), outer |-> furthest, entries |-> <<>>]
           \in ChainsAt(ns, furthest, 0)
<1> DEFINE r == Detach(ns, furthest)
           chain == [nodes |-> r, outer |-> furthest, entries |-> <<>>]
<1>1. MovedBelow(r, ns, furthest, NULL)
  BY DetachMoves
<1> HIDE DEF r
<1>2. /\ Arena(r) /\ Len(r) = Len(ns)
      /\ \A n \in Ids(ns) : r[n].type = ns[n].type
                            /\ r[n].parent = IF n = furthest THEN NULL ELSE ns[n].parent
  BY <1>1 DEF MovedBelow
<1>3. Len(ns) \in Nat
  BY ArenaNodes
<1>4. chain.nodes = r /\ chain.outer = furthest /\ chain.entries = <<>>
  OBVIOUS
<1>5. chain = [nodes |-> chain.nodes, outer |-> chain.outer, entries |-> chain.entries]
  OBVIOUS
<1> HIDE DEF chain
<1>6. ChainAt(chain, ns, furthest, 0)
  <2>1. Around(furthest, Len(ns), 0) = furthest
    BY DEF Around
  <2>2. Len(r) = Len(ns) + 0
    BY <1>2, <1>3
  <2>3. \A q \in 0..0 : chain.nodes[Around(furthest, Len(ns), q)].parent
                          = IF q = 0 THEN NULL ELSE Around(furthest, Len(ns), q + 1)
    BY <1>2, <1>4, <2>1
  <2>4. /\ chain.entries \in Seq(OpenEntry) /\ Len(chain.entries) = 0
        /\ \A q \in 1..0 : FALSE
    BY <1>4
  <2>5. Keeps(chain.nodes, ns, Ids(ns) \ {ns[furthest].parent})
    <3>1. Keeps(r, ns, Ids(ns) \ {NULL, ns[furthest].parent}) /\ NULL \notin Ids(ns)
      BY <1>1, ArenaNodes DEF MovedBelow
    <3> QED
      BY <1>4, <3>1, KeepsFewer
  <2> QED
    BY <1>2, <1>4, <2>1, <2>2, <2>3, <2>4, <2>5 DEF ChainAt
<1>7. chain \in ChainsAt(ns, furthest, 0)
  BY <1>5, <1>6, ChainOfType
<1> QED
  BY <1>7 DEF chain, r

-----------------------------------------------------------------------------
(***************************************************************************)
(* The stack that the adoption agency leaves, entry by entry: where every  *)
(* element stands, and the names it is open under.                         *)
(***************************************************************************)
\* f is the position of a formatting element and at that of its furthest block.
Adopts(s, f, at) ==
  /\ f \in Nat /\ f >= 2 /\ at \in f + 1 .. Len(s)
  /\ s[f].kind = "Formatting" /\ s[at].kind # "Formatting"
  /\ \A i \in f + 1 .. Len(s) : s[i].kind # "Table"
  /\ \A i \in f + 1 .. at - 1 : s[i].kind \notin ModeKinds

\* The names of what is open between a formatting element and its furthest block.
NamesBetween(s, f, at) == {s[i].name : i \in f + 1 .. at - 1}

Named(entries, names) == \A q \in 1..Len(entries) : entries[q].name \in names

\* What adoption makes of the tree: below p the k clones, the furthest block in the innermost of
\* them, and in the furthest block a last clone with what was its content.
Adopted(r, ns, furthest, k, p) ==
  /\ Arena(r) /\ Len(r) = Len(ns) + k + 1
  /\ \A n \in Ids(ns) : r[n].type = ns[n].type
  /\ \A n \in Ids(ns) \ {furthest} :
       \/ r[n].parent = ns[n].parent
       \/ ns[n].parent = furthest /\ r[n].parent = Len(ns) + k + 1
  /\ \A q \in 1..k + 1 : r[Len(ns) + q].type = "element"
  /\ \A q \in 0..k : r[Around(furthest, Len(ns), q)].parent
                       = IF q = k THEN p ELSE Around(furthest, Len(ns), q + 1)
  /\ r[Len(ns) + k + 1].parent = furthest
  /\ Keeps(r, ns, Ids(ns) \ {furthest, ns[furthest].parent, p})

\* The same tree is adopted when only depths and indices change.
LEMMA AdoptedThenSame ==
  ASSUME NEW ns, NEW furthest \in Ids(ns), NEW k \in Nat, NEW p,
         NEW q, Adopted(q, ns, furthest, k, p), Arena(ns), NEW r, SameTree(r, q)
  PROVE  Adopted(r, ns, furthest, k, p)
<1>1. Len(ns) \in Nat /\ Arena(r) /\ Len(r) = Len(q) /\ Len(q) = Len(ns) + k + 1
  BY ArenaNodes DEF Adopted, SameTree
<1>2. \A x \in 1..Len(ns) + k + 1 : r[x].type = q[x].type /\ r[x].parent = q[x].parent
  BY <1>1 DEF SameTree, Ids
<1>3. \A x \in Ids(ns) : x \in 1..Len(ns) + k + 1
  BY <1>1 DEF Ids
<1>4. \A i \in 1..k + 1 : Len(ns) + i \in 1..Len(ns) + k + 1
  BY <1>1
<1>5. Len(ns) + k + 1 \in 1..Len(ns) + k + 1
  BY <1>1
<1>6. \A i \in 0..k : Around(furthest, Len(ns), i) \in 1..Len(ns) + k + 1
  BY <1>1, <1>3 DEF Around
<1>7. /\ \A n \in Ids(ns) : q[n].type = ns[n].type
      /\ \A n \in Ids(ns) \ {furthest} :
           \/ q[n].parent = ns[n].parent
           \/ ns[n].parent = furthest /\ q[n].parent = Len(ns) + k + 1
      /\ \A i \in 1..k + 1 : q[Len(ns) + i].type = "element"
      /\ \A i \in 0..k : q[Around(furthest, Len(ns), i)].parent
                            = IF i = k THEN p ELSE Around(furthest, Len(ns), i + 1)
      /\ q[Len(ns) + k + 1].parent = furthest
  BY DEF Adopted
<1>8. Keeps(r, ns, Ids(ns) \ {furthest, ns[furthest].parent, p})
  <2> DEFINE C == Ids(ns) \ {furthest, ns[furthest].parent, p}
  <2>1. Keeps(q, ns, C)
    BY DEF Adopted
  <2>2. C \subseteq Ids(q)
    BY <1>1, <1>3 DEF Ids
  <2> HIDE DEF C
  <2>3. Keeps(r, q, C)
    BY <2>2, SameTreeKeeps
  <2>4. Keeps(r, ns, C)
    BY <2>1, <2>3, KeepsTransitive
  <2> QED
    BY <2>4 DEF C
<1> QED
  BY <1>1, <1>2, <1>3, <1>4, <1>5, <1>6, <1>7, <1>8 DEF Adopted

\* The stack t after the move: the clones, the furthest block and its new content stand where the
\* formatting element and all above it up to the furthest block stood.
Restacked(t, s, len, f, at, k) ==
  /\ Len(t) = f + k + 1 + (Len(s) - at)
  /\ \A i \in 1..f - 1 : t[i].id = s[i].id /\ t[i].kind = s[i].kind
  /\ \A q \in 0..k : t[f + q].id = Around(s[at].id, len, k - q)
                     /\ t[f + q].kind = IF q = k THEN s[at].kind ELSE "Formatting"
  /\ t[f + k + 1].id = len + k + 1 /\ t[f + k + 1].kind = "Formatting"
  /\ \A m \in 1..Len(s) - at : t[f + k + 1 + m].id = s[at + m].id
                               /\ t[f + k + 1 + m].kind = s[at + m].kind

\* Every position of the new stack is one of these.
LEMMA RestackedPositions ==
  ASSUME NEW f \in Nat, NEW k \in Nat, NEW n \in Nat, NEW at \in Nat, at <= n,
         NEW i \in 1 .. f + k + 1 + (n - at)
  PROVE  \/ i \in 1..f - 1
         \/ \E q \in 0..k : i = f + q
         \/ i = f + k + 1
         \/ \E m \in 1..n - at : i = f + k + 1 + m
<1>1. CASE i < f
  BY <1>1
<1>2. CASE f <= i /\ i <= f + k
  <2>1. i - f \in 0..k /\ i = f + (i - f)
    BY <1>2
  <2> QED
    BY <2>1
<1>3. CASE i = f + k + 1
  BY <1>3
<1>4. CASE i > f + k + 1
  <2>1. i - (f + k + 1) \in 1..n - at /\ i = f + k + 1 + (i - (f + k + 1))
    BY <1>4
  <2> QED
    BY <2>1
<1> QED
  BY <1>1, <1>2, <1>3, <1>4

\* The rebuilt stack holds clones, and what was open before.
LEMMA RestackedOpen ==
  ASSUME NEW s, NEW f, NEW at, Adopts(s, f, at), NEW k \in Nat, NEW len \in Nat,
         NEW t, Restacked(t, s, len, f, at, k), Len(s) \in Nat, NEW j \in 1..Len(t)
  PROVE  t[j].id > len \/ \E i \in 1..Len(s) : t[j].id = s[i].id
<1> DEFINE n == Len(s)
<1>1. n \in Nat /\ f \in Nat /\ f >= 2 /\ at \in f + 1 .. n /\ at \in 1..n
  BY DEF Adopts
<1>2. /\ Len(t) = f + k + 1 + (n - at)
      /\ \A i \in 1..f - 1 : t[i].id = s[i].id
      /\ \A q \in 0..k : t[f + q].id = Around(s[at].id, len, k - q)
      /\ t[f + k + 1].id = len + k + 1
      /\ \A m \in 1..n - at : t[f + k + 1 + m].id = s[at + m].id
  BY DEF Restacked
<1> HIDE DEF n
<1>3. CASE j \in 1..f - 1
  BY <1>1, <1>2, <1>3 DEF n
<1>4. ASSUME NEW q \in 0..k, j = f + q
      PROVE  t[j].id > len \/ \E i \in 1..n : t[j].id = s[i].id
  <2>1. t[j].id = Around(s[at].id, len, k - q)
    BY <1>2, <1>4
  <2>2. CASE k - q = 0
    BY <1>1, <2>1, <2>2 DEF Around
  <2>3. CASE k - q # 0
    <3>1. len + (k - q) > len
      BY <2>3
    <3> QED
      BY <2>1, <2>3, <3>1 DEF Around
  <2> QED
    BY <2>2, <2>3
<1>5. CASE j = f + k + 1
  <2>1. len + k + 1 > len
    OBVIOUS
  <2> QED
    BY <1>2, <1>5, <2>1
<1>6. ASSUME NEW m \in 1..n - at, j = f + k + 1 + m
      PROVE  \E i \in 1..n : t[j].id = s[i].id
  <2>1. at + m \in 1..n
    BY <1>1
  <2> QED
    BY <1>2, <1>6, <2>1
<1>7. \/ j \in 1..f - 1 \/ \E q \in 0..k : j = f + q
      \/ j = f + k + 1 \/ \E m \in 1..n - at : j = f + k + 1 + m
  <2>1. f \in Nat /\ n \in Nat /\ at \in Nat /\ at <= n /\ j \in 1 .. f + k + 1 + (n - at)
    BY <1>1, <1>2
  <2> HIDE DEF n
  <2> QED
    BY <2>1, RestackedPositions
<1> QED
  BY <1>3, <1>4, <1>5, <1>6, <1>7 DEF n

\* Entry by entry, t is what the adoption agency leaves of s.
EntriesAt(entry, s, f, at, k, n, lt, chain, furthest, clone) ==
  /\ \A i \in 1..f - 1 : i \in 1..lt /\ i \in 1..n /\ entry[i] = s[i]
  /\ \A q \in 0..k : q # k =>
       f + q \in 1..lt /\ entry[f + q] = chain[q + 1] /\ q + 1 \in 1..k
  /\ f + k \in 1..lt /\ entry[f + k] = furthest
  /\ f + k + 1 \in 1..lt /\ entry[f + k + 1] = clone
  /\ \A m \in 1..n - at :
       f + k + 1 + m \in 1..lt /\ at + m \in 1..n /\ entry[f + k + 1 + m] = s[at + m]

\* The concatenation that the code builds, position by position.
LEMMA AdoptedEntries ==
  ASSUME NEW s, NEW f \in Nat, f >= 2, NEW at \in Nat, f < at, NEW n \in Nat, at <= n,
         NEW chain, NEW k \in Nat, Len(chain) = k, NEW furthest, NEW clone,
         NEW lt, lt = f + k + 1 + (n - at),
         NEW entry, entry = [i \in 1..lt |-> AdoptedEntry(s, f, at, chain, furthest, clone, i)]
  PROVE  EntriesAt(entry, s, f, at, k, n, lt, chain, furthest, clone)
<1> DEFINE e(i) == AdoptedEntry(s, f, at, chain, furthest, clone, i)
<1>1. \A i \in 1..lt : entry[i] = e(i)
  OBVIOUS
<1>2. ASSUME NEW i \in 1..f - 1
      PROVE  i \in 1..lt /\ i \in 1..n /\ e(i) = s[i]
  <2>1. i \in 1..lt /\ i \in 1..n /\ i < f
    OBVIOUS
  <2> QED
    BY <2>1 DEF AdoptedEntry
<1>3. ASSUME NEW q \in 0..k, q # k
      PROVE  f + q \in 1..lt /\ e(f + q) = chain[q + 1] /\ q + 1 \in 1..k
  <2>1. f + q \in 1..lt /\ q + 1 \in 1..k
    BY <1>3
  <2>2. ~ (f + q < f) /\ f + q >= f /\ f + q < f + k /\ (f + q) - f + 1 = q + 1
    BY <1>3
  <2>3. e(f + q) = chain[(f + q) - f + 1]
    BY <2>2 DEF AdoptedEntry
  <2> QED
    BY <2>1, <2>2, <2>3
<1>4. f + k \in 1..lt /\ e(f + k) = furthest
  <2>1. f + k \in 1..lt /\ ~ (f + k < f) /\ ~ (f + k < f + k)
    OBVIOUS
  <2> QED
    BY <2>1 DEF AdoptedEntry
<1>5. f + k + 1 \in 1..lt /\ e(f + k + 1) = clone
  <2>1. f + k + 1 \in 1..lt /\ ~ (f + k + 1 < f) /\ ~ (f + k + 1 < f + k) /\ f + k + 1 # f + k
    OBVIOUS
  <2> QED
    BY <2>1 DEF AdoptedEntry
<1>6. ASSUME NEW m \in 1..n - at
      PROVE  /\ f + k + 1 + m \in 1..lt /\ at + m \in 1..n
             /\ e(f + k + 1 + m) = s[at + m]
  <2> DEFINE i == f + k + 1 + m
  <2>1. i \in 1..lt /\ at + m \in 1..n
    OBVIOUS
  <2>2. ~ (i < f) /\ ~ (i < f + k) /\ i # f + k /\ i # f + k + 1
    OBVIOUS
  <2>3. i - (f + k + 1) = m
    OBVIOUS
  <2> HIDE DEF i
  <2>4. e(i) = s[at + (i - (f + k + 1))]
    BY <2>2 DEF AdoptedEntry
  <2> QED
    BY <2>1, <2>3, <2>4 DEF i
<1> HIDE DEF e
<1> QED
  BY <1>1, <1>2, <1>3, <1>4, <1>5, <1>6 DEF EntriesAt

\* A mode is all that differs.
LEMMA EditMode ==
  ASSUME NEW e \in OpenEntry, NEW mode, NEW r, r = [e EXCEPT !.mode = mode]
  PROVE  r.id = e.id /\ r.kind = e.kind /\ r.name = e.name
BY DEF OpenEntry

\* Entries for the k clones made after len nodes, outermost first.
EntriesOfClones(chain, len, k) ==
  /\ chain \in Seq(OpenEntry) /\ Len(chain) = k
  /\ \A q \in 1..k : chain[q].id = len + k + 1 - q /\ chain[q].kind = "Formatting"

ButModes(t, entry, n) == \A i \in 1..n : \E mode \in Modes : t[i] = [entry[i] EXCEPT !.mode = mode]

\* Entries that stand so are the new stack, whatever their modes.
LEMMA RestackedEntries ==
  ASSUME NEW s \in Seq(OpenEntry), NEW f, NEW at, Adopts(s, f, at), NEW k \in Nat, NEW len \in Nat,
         NEW chain, EntriesOfClones(chain, len, k),
         NEW furthest \in OpenEntry, furthest.id = s[at].id, furthest.kind = s[at].kind,
         NEW clone \in OpenEntry, clone.id = len + k + 1, clone.kind = "Formatting",
         NEW t, NEW n, n = Len(s), NEW lt, lt = Len(t), lt = f + k + 1 + (n - at),
         NEW entry, EntriesAt(entry, s, f, at, k, n, lt, chain, furthest, clone),
         ButModes(t, entry, lt)
  PROVE  Restacked(t, s, len, f, at, k)
<1>1. ASSUME NEW i \in 1..lt, NEW e \in OpenEntry, entry[i] = e
      PROVE  t[i].id = e.id /\ t[i].kind = e.kind
  <2>1. PICK mode \in Modes : t[i] = [e EXCEPT !.mode = mode]
    BY <1>1 DEF ButModes
  <2> QED
    BY <2>1, EditMode
<1>2. \A i \in 1..n : s[i] \in OpenEntry
  OBVIOUS
<1>3. /\ \A i \in 1..f - 1 : i \in 1..lt /\ i \in 1..n /\ entry[i] = s[i]
      /\ \A q \in 0..k : q # k =>
           f + q \in 1..lt /\ entry[f + q] = chain[q + 1] /\ q + 1 \in 1..k
      /\ f + k \in 1..lt /\ entry[f + k] = furthest
      /\ f + k + 1 \in 1..lt /\ entry[f + k + 1] = clone
      /\ \A m \in 1..n - at :
           f + k + 1 + m \in 1..lt /\ at + m \in 1..n /\ entry[f + k + 1 + m] = s[at + m]
  BY DEF EntriesAt
<1>4. \A i \in 1..f - 1 : t[i].id = s[i].id /\ t[i].kind = s[i].kind
  <2> TAKE i \in 1..f - 1
  <2>1. i \in 1..lt /\ s[i] \in OpenEntry /\ entry[i] = s[i]
    BY <1>2, <1>3
  <2> QED
    BY <1>1, <2>1
<1>5. \A q \in 0..k : t[f + q].id = Around(s[at].id, len, k - q)
                      /\ t[f + q].kind = IF q = k THEN s[at].kind ELSE "Formatting"
  <2> TAKE q \in 0..k
  <2>1. CASE q = k
    <3>1. t[f + k].id = furthest.id /\ t[f + k].kind = furthest.kind
      BY <1>1, <1>3
    <3>2. k - q = 0
      BY <2>1
    <3> QED
      BY <2>1, <3>1, <3>2 DEF Around
  <2>2. CASE q # k
    <3>1. f + q \in 1..lt /\ entry[f + q] = chain[q + 1] /\ q + 1 \in 1..k
      BY <1>3, <2>2
    <3>2. chain[q + 1] \in OpenEntry
      BY <3>1 DEF EntriesOfClones
    <3>3. t[f + q].id = chain[q + 1].id /\ t[f + q].kind = chain[q + 1].kind
      BY <1>1, <3>1, <3>2
    <3>4. chain[q + 1].id = len + k + 1 - (q + 1) /\ chain[q + 1].kind = "Formatting"
      BY <3>1 DEF EntriesOfClones
    <3>5. len + k + 1 - (q + 1) = len + (k - q) /\ k - q # 0
      BY <2>2
    <3> QED
      BY <2>2, <3>3, <3>4, <3>5 DEF Around
  <2> QED
    BY <2>1, <2>2
<1>6. t[f + k + 1].id = len + k + 1 /\ t[f + k + 1].kind = "Formatting"
  BY <1>1, <1>3
<1>7. \A m \in 1..n - at : t[f + k + 1 + m].id = s[at + m].id
                           /\ t[f + k + 1 + m].kind = s[at + m].kind
  <2> TAKE m \in 1..n - at
  <2>1. f + k + 1 + m \in 1..lt /\ s[at + m] \in OpenEntry /\ entry[f + k + 1 + m] = s[at + m]
    BY <1>2, <1>3
  <2> QED
    BY <1>1, <2>1
<1> QED
  BY <1>4, <1>5, <1>6, <1>7 DEF Restacked

\* The names on the stack that the agency leaves: the element it was called for is open once
\* again, above its furthest block, and nothing below or above is open under another name.
Renamed(t, s, f, at, k) ==
  /\ Len(t) = f + k + 1 + (Len(s) - at)
  /\ \A i \in 1..f - 1 : t[i].name = s[i].name
  /\ \A q \in 0..k : q # k => t[f + q].name \in NamesBetween(s, f, at)
  /\ t[f + k].name = s[at].name
  /\ t[f + k + 1].name = s[f].name
  /\ \A m \in 1..Len(s) - at : t[f + k + 1 + m].name = s[at + m].name

\* Entries that stand so bear these names, whatever their modes.
LEMMA RestackedNames ==
  ASSUME NEW s \in Seq(OpenEntry), NEW f, NEW at, NEW k \in Nat,
         NEW chain \in Seq(OpenEntry), Len(chain) = k, Named(chain, NamesBetween(s, f, at)),
         NEW furthest \in OpenEntry, furthest.name = s[at].name,
         NEW clone \in OpenEntry, clone.name = s[f].name,
         NEW t, NEW n, n = Len(s), NEW lt, lt = Len(t), lt = f + k + 1 + (n - at),
         NEW entry, EntriesAt(entry, s, f, at, k, n, lt, chain, furthest, clone),
         ButModes(t, entry, lt)
  PROVE  Renamed(t, s, f, at, k)
<1>1. ASSUME NEW i \in 1..lt, NEW e \in OpenEntry, entry[i] = e
      PROVE  t[i].name = e.name
  <2>1. PICK mode \in Modes : t[i] = [e EXCEPT !.mode = mode]
    BY <1>1 DEF ButModes
  <2> QED
    BY <2>1, EditMode
<1>2. \A i \in 1..n : s[i] \in OpenEntry
  OBVIOUS
<1>3. /\ \A i \in 1..f - 1 : i \in 1..lt /\ i \in 1..n /\ entry[i] = s[i]
      /\ \A q \in 0..k : q # k =>
           f + q \in 1..lt /\ entry[f + q] = chain[q + 1] /\ q + 1 \in 1..k
      /\ f + k \in 1..lt /\ entry[f + k] = furthest
      /\ f + k + 1 \in 1..lt /\ entry[f + k + 1] = clone
      /\ \A m \in 1..n - at :
           f + k + 1 + m \in 1..lt /\ at + m \in 1..n /\ entry[f + k + 1 + m] = s[at + m]
  BY DEF EntriesAt
<1>4. \A i \in 1..f - 1 : t[i].name = s[i].name
  <2> TAKE i \in 1..f - 1
  <2>1. i \in 1..lt /\ s[i] \in OpenEntry /\ entry[i] = s[i]
    BY <1>2, <1>3
  <2> QED
    BY <1>1, <2>1
<1>5. \A q \in 0..k : q # k => t[f + q].name \in NamesBetween(s, f, at)
  <2> SUFFICES ASSUME NEW q \in 0..k, q # k PROVE t[f + q].name \in NamesBetween(s, f, at)
    OBVIOUS
  <2>1. f + q \in 1..lt /\ entry[f + q] = chain[q + 1] /\ q + 1 \in 1..k
    BY <1>3
  <2>2. chain[q + 1] \in OpenEntry /\ chain[q + 1].name \in NamesBetween(s, f, at)
    BY <2>1 DEF Named
  <2> QED
    BY <1>1, <2>1, <2>2
<1>6. t[f + k].name = s[at].name /\ t[f + k + 1].name = s[f].name
  BY <1>1, <1>3
<1>7. \A m \in 1..n - at : t[f + k + 1 + m].name = s[at + m].name
  <2> TAKE m \in 1..n - at
  <2>1. f + k + 1 + m \in 1..lt /\ s[at + m] \in OpenEntry /\ entry[f + k + 1 + m] = s[at + m]
    BY <1>2, <1>3
  <2> QED
    BY <1>1, <2>1
<1> QED
  BY <1>4, <1>5, <1>6, <1>7 DEF Renamed

\* Counting children makes no difference to names.
LEMMA RenamedSame ==
  ASSUME NEW t, NEW q, NEW s, SameEntries(q, s), NEW f, NEW at, Adopts(s, f, at), NEW k \in Nat
  PROVE  /\ NamesBetween(q, f, at) = NamesBetween(s, f, at)
         /\ Renamed(t, q, f, at, k) => Renamed(t, s, f, at, k)
<1>1. Len(q) = Len(s) /\ \A i \in 1..Len(s) : q[i].name = s[i].name
  BY DEF SameEntries
<1>2. f \in Nat /\ f >= 2 /\ at \in f + 1 .. Len(s)
  BY DEF Adopts
<1>3. /\ at \in 1..Len(s) /\ f \in 1..Len(s) /\ \A i \in 1..f - 1 : i \in 1..Len(s)
      /\ \A i \in f + 1 .. at - 1 : i \in 1..Len(s)
  BY <1>2
<1>4. \A m \in 1..Len(s) - at : at + m \in 1..Len(s)
  BY <1>2
<1>5. NamesBetween(q, f, at) = NamesBetween(s, f, at)
  BY <1>1, <1>3 DEF NamesBetween
<1>6. ASSUME Renamed(t, q, f, at, k) PROVE Renamed(t, s, f, at, k)
  <2>1. /\ Len(t) = f + k + 1 + (Len(q) - at)
        /\ \A i \in 1..f - 1 : t[i].name = q[i].name
        /\ \A j \in 0..k : j # k => t[f + j].name \in NamesBetween(q, f, at)
        /\ t[f + k].name = q[at].name /\ t[f + k + 1].name = q[f].name
        /\ \A m \in 1..Len(q) - at : t[f + k + 1 + m].name = q[at + m].name
    BY <1>6 DEF Renamed
  <2> QED
    BY <1>1, <1>3, <1>4, <1>5, <2>1 DEF Renamed
<1> QED
  BY <1>5, <1>6

\* Counting children makes no difference to where entries are.
LEMMA RestackedSame ==
  ASSUME NEW t, NEW q, NEW s, SameEntries(q, s), NEW f, NEW at, Adopts(s, f, at), NEW k \in Nat,
         NEW len, Restacked(t, q, len, f, at, k)
  PROVE  Restacked(t, s, len, f, at, k)
<1>1. Len(q) = Len(s) /\ \A i \in 1..Len(s) : q[i].id = s[i].id /\ q[i].kind = s[i].kind
  BY DEF SameEntries
<1>2. f \in Nat /\ f >= 2 /\ at \in f + 1 .. Len(s)
  BY DEF Adopts
<1>3. at \in 1..Len(s) /\ \A i \in 1..f - 1 : i \in 1..Len(s)
  BY <1>2
<1>4. \A m \in 1..Len(s) - at : at + m \in 1..Len(s)
  BY <1>2
<1>5. /\ Len(t) = f + k + 1 + (Len(q) - at)
      /\ \A i \in 1..f - 1 : t[i].id = q[i].id /\ t[i].kind = q[i].kind
      /\ \A j \in 0..k : t[f + j].id = Around(q[at].id, len, k - j)
                         /\ t[f + j].kind = IF j = k THEN q[at].kind ELSE "Formatting"
      /\ t[f + k + 1].id = len + k + 1 /\ t[f + k + 1].kind = "Formatting"
      /\ \A m \in 1..Len(q) - at : t[f + k + 1 + m].id = q[at + m].id
                                   /\ t[f + k + 1 + m].kind = q[at + m].kind
  BY DEF Restacked
<1> QED
  BY <1>1, <1>3, <1>4, <1>5 DEF Restacked

\* Nor to what the agency adopts.
LEMMA AdoptsSame ==
  ASSUME NEW q, NEW s, SameEntries(q, s), Len(s) \in Nat, NEW f, NEW at, Adopts(s, f, at)
  PROVE  Adopts(q, f, at)
<1>1. Len(q) = Len(s) /\ \A i \in 1..Len(s) : q[i].kind = s[i].kind
  BY DEF SameEntries
<1>2. /\ f \in 1..Len(s) /\ at \in 1..Len(s) /\ \A i \in f + 1 .. Len(s) : i \in 1..Len(s)
      /\ \A i \in f + 1 .. at - 1 : i \in 1..Len(s)
  BY DEF Adopts
<1> QED
  BY <1>1, <1>2 DEF Adopts

\* The clones of the chain, and the one that takes over the content, are listed once each.
LEMMA ClonesListed ==
  ASSUME NEW len \in Nat, NEW k \in Nat, NEW chain, EntriesOfClones(chain, len, k),
         NEW ids \in Seq(Nat), ids = [i \in 1..Len(chain) |-> chain[i].id]
  PROVE  Listed(ids \o <<len + k + 1>>, {len + q : q \in 1..k + 1})
<1> DEFINE X == {len + q : q \in 1..k}
<1>1. /\ Len(ids) = k
      /\ \A i \in 1..k : ids[i] = len + k + 1 - i
  BY DEF EntriesOfClones
<1>2. Listed(ids, X)
  <2>1. \A i \in 1..k : ids[i] \in X
    <3> TAKE i \in 1..k
    <3>1. k + 1 - i \in 1..k /\ len + (k + 1 - i) = len + k + 1 - i
      OBVIOUS
    <3> QED
      BY <1>1, <3>1
  <2>2. \A x \in X : \E i \in 1..k : ids[i] = x
    <3> TAKE x \in X
    <3>1. PICK q \in 1..k : x = len + q
      OBVIOUS
    <3>2. k + 1 - q \in 1..k /\ len + k + 1 - (k + 1 - q) = len + q
      OBVIOUS
    <3> QED
      BY <1>1, <3>1, <3>2
  <2>3. \A i, j \in 1..k : ids[i] = ids[j] => i = j
    <3> TAKE i \in 1..k, j \in 1..k
    <3>1. ids[i] = len + k + 1 - i /\ ids[j] = len + k + 1 - j
      BY <1>1
    <3>2. len + k + 1 - i = len + k + 1 - j => i = j
      OBVIOUS
    <3> QED
      BY <3>1, <3>2
  <2> HIDE DEF X
  <2>4. {ids[i] : i \in 1..k} = X
    BY <2>1, <2>2
  <2> QED
    BY <1>1, <2>3, <2>4 DEF Listed
<1>3. len + k + 1 \in Nat /\ Listed(<<len + k + 1>>, {len + k + 1})
  BY ListedOne
<1>4. X \cap {len + k + 1} = {} /\ X \cup {len + k + 1} = {len + q : q \in 1..k + 1}
  <2>1. 1..k + 1 = (1..k) \cup {k + 1} /\ len + (k + 1) = len + k + 1
    OBVIOUS
  <2>2. \A q \in 1..k : len + q # len + k + 1
    OBVIOUS
  <2> QED
    BY <2>1, <2>2
<1> HIDE DEF X
<1>5. Listed(ids \o <<len + k + 1>>, X \cup {len + k + 1})
  BY <1>2, <1>3, <1>4, ListedTogether
<1> QED
  BY <1>4, <1>5

-----------------------------------------------------------------------------
(***************************************************************************)
(* The adoption agency: heights after the move.                            *)
(***************************************************************************)
\* The height of every open element is its position, of every other node not more than it was.
Heights(g, len, s, h, f, at, k) ==
  /\ g \in [1..len + k + 1 -> Nat]
  /\ \A q \in 0..k : g[Around(s[at].id, len, q)] = f - 1 + k - q
  /\ g[len + k + 1] = f + k
  /\ \A i \in 1..at - 1 : g[s[i].id] = i - 1
  /\ \A i \in at + 1 .. Len(s) : g[s[i].id] = f + k + (i - at)
  /\ \A x \in 1..len : g[x] <= h[x]
  /\ \A x \in 1..len :
       x = s[at].id \/ (\E i \in at + 1 .. Len(s) : x = s[i].id) \/ g[x] = h[x]

\* What Grounded says of the positions on the stack.
LEMMA BranchHeights ==
  ASSUME NEW ns, NEW s, NEW h, Grounded(ns, s, h)
  PROVE  /\ Len(s) \in Nat /\ 1 <= Len(s) /\ Len(s) <= MaxDepth + 1 /\ Len(s) <= Len(ns)
         /\ Len(ns) \in Nat /\ h \in [1..Len(ns) -> Nat]
         /\ \A i \in 1..Len(s) : s[i].id \in 1..Len(ns) /\ h[s[i].id] = i - 1
  BY ArenaNodes DEF Grounded, Branch, Hung, Ids

\* There are heights for the adopted tree and its stack.
LEMMA HeightsExist ==
  ASSUME NEW ns, NEW s, NEW h, Grounded(ns, s, h), NEW f, NEW at, Adopts(s, f, at),
         NEW k \in Nat, k <= at - f - 1
  PROVE  \E g : Heights(g, Len(ns), s, h, f, at, k)
<1> DEFINE len == Len(ns)
           n == Len(s)
           furthest == s[at].id
           above == {s[i].id : i \in at + 1 .. n}
           by == at - f - k - 1
           g == [x \in 1..len + k + 1 |->
                   IF x = len + k + 1 THEN f + k
                   ELSE IF x > len THEN f - 1 + k - (x - len)
                   ELSE IF x = furthest THEN f - 1 + k
                   ELSE IF x \in above THEN h[x] - by
                   ELSE h[x]]
<1>1. /\ n \in Nat /\ len \in Nat /\ h \in [1..len -> Nat]
      /\ \A i \in 1..n : s[i].id \in 1..len /\ h[s[i].id] = i - 1
  BY BranchHeights
<1>2. f \in Nat /\ f >= 2 /\ at \in f + 1 .. n /\ by \in Nat
  BY <1>1 DEF Adopts
<1>3. furthest \in 1..len /\ h[furthest] = at - 1
  BY <1>1, <1>2
<1>4. \A x \in above : x \in 1..len /\ \E i \in at + 1 .. n : x = s[i].id /\ h[x] = i - 1
  BY <1>1, <1>2
<1>5. furthest \notin above
  <2>1. SUFFICES ASSUME furthest \in above PROVE FALSE
    OBVIOUS
  <2>2. PICK i \in at + 1 .. n : h[furthest] = i - 1
    BY <1>4, <2>1
  <2> QED
    BY <1>1, <1>2, <1>3, <2>2
<1>6. \A i \in at + 1 .. n : s[i].id \in above
  OBVIOUS
<1>7. \A i \in 1..at - 1 : s[i].id \in 1..len /\ s[i].id \notin above /\ s[i].id # furthest
                          /\ h[s[i].id] = i - 1
  <2> TAKE i \in 1..at - 1
  <2>1. i \in 1..n /\ i - 1 < at - 1
    BY <1>1, <1>2
  <2>2. s[i].id \in 1..len /\ h[s[i].id] = i - 1
    BY <1>1, <2>1
  <2> HIDE DEF above, furthest
  <2>3. s[i].id # furthest
    BY <1>2, <1>3, <2>1, <2>2
  <2>4. s[i].id \notin above
    <3>1. \A x \in above : h[x] >= at
      BY <1>2, <1>4
    <3> QED
      BY <1>2, <2>1, <2>2, <3>1
  <2> QED
    BY <2>2, <2>3, <2>4
<1> HIDE DEF above, furthest
<1>8. \A x \in above : h[x] - by \in Nat /\ h[x] - by <= h[x]
  <2> TAKE x \in above
  <2>1. PICK i \in at + 1 .. n : h[x] = i - 1
    BY <1>4
  <2>2. i - 1 - by \in Nat /\ i - 1 - by <= i - 1
    BY <1>1, <1>2, <2>1
  <2> QED
    BY <2>1, <2>2
<1>9. f - 1 + k \in Nat /\ f - 1 + k <= at - 1
  BY <1>2
<1>10. /\ \A x \in 1..len : x # len + k + 1 /\ ~ (x > len)
       /\ \A x \in 1..len + k + 1 : x \in 1..len \/ x > len
       /\ \A q \in 1..k : len + q \in 1..len + k + 1 /\ len + q > len /\ len + q # len + k + 1
       /\ len + k + 1 \in 1..len + k + 1
       /\ 1..len \subseteq 1..len + k + 1
  BY <1>1
<1> HIDE DEF by
<1>11. \A x \in 1..len : g[x] = IF x = furthest THEN f - 1 + k
                               ELSE IF x \in above THEN h[x] - by ELSE h[x]
  BY <1>10
<1>12. g[len + k + 1] = f + k
  BY <1>10
<1>13. \A q \in 1..k : g[len + q] = f - 1 + k - (len + q - len)
  BY <1>10
<1>19. \A x \in 1..len + k + 1 : g[x] \in Nat
  <2> TAKE x \in 1..len + k + 1
  <2>1. CASE x \in 1..len
    <3>1. h[x] \in Nat
      BY <1>1, <2>1
    <3> HIDE DEF g
    <3> QED
      BY <1>8, <1>9, <1>11, <2>1, <3>1
  <2>2. CASE x = len + k + 1
    BY <1>2, <1>12, <2>2
  <2>3. CASE x > len /\ x # len + k + 1
    <3>1. x - len \in 1..k /\ len + (x - len) = x
      <4>1. len \in Nat
        BY <1>1
      <4> HIDE DEF len, g
      <4> QED
        BY <2>3, <4>1
    <3>2. g[x] = f - 1 + k - (len + (x - len) - len)
      BY <1>13, <3>1
    <3> HIDE DEF g
    <3> QED
      BY <1>1, <1>2, <3>1, <3>2
  <2> QED
    BY <1>10, <2>1, <2>2, <2>3
<1>20. g \in [1..len + k + 1 -> Nat]
  BY <1>19
<1> HIDE DEF g
<1>14. \A q \in 0..k : g[Around(furthest, len, q)] = f - 1 + k - q
  <2> TAKE q \in 0..k
  <2>1. CASE q = 0
    BY <1>2, <1>3, <1>11, <2>1 DEF Around
  <2>2. CASE q # 0
    <3>1. q \in 1..k /\ f - 1 + k - (len + q - len) = f - 1 + k - q
      BY <1>1, <1>2, <2>2
    <3>2. g[len + q] = f - 1 + k - (len + q - len)
      BY <1>13, <3>1
    <3> QED
      BY <2>2, <3>1, <3>2 DEF Around
  <2> QED
    BY <2>1, <2>2
<1>15. \A i \in 1..at - 1 : g[s[i].id] = i - 1
  BY <1>7, <1>11
<1>16. \A i \in at + 1 .. n : g[s[i].id] = f + k + (i - at)
  <2> TAKE i \in at + 1 .. n
  <2>1. s[i].id \in above /\ s[i].id \in 1..len /\ h[s[i].id] = i - 1 /\ s[i].id # furthest
    BY <1>1, <1>2, <1>4, <1>5, <1>6
  <2>2. g[s[i].id] = i - 1 - by
    BY <1>11, <2>1
  <2> QED
    BY <1>1, <1>2, <2>2 DEF by
<1>17. \A x \in 1..len : g[x] <= h[x]
  <2> TAKE x \in 1..len
  <2>1. h[x] \in Nat
    BY <1>1
  <2> QED
    BY <1>3, <1>8, <1>9, <1>11, <2>1
<1>18. \A x \in 1..len : x = furthest \/ (\E i \in at + 1 .. n : x = s[i].id) \/ g[x] = h[x]
  BY <1>4, <1>11
<1> QED
  BY <1>12, <1>14, <1>15, <1>16, <1>17, <1>18, <1>20 DEF Heights, furthest

\* The parent of an element above the furthest block is the furthest block or above it too, but for
\* what a table below the formatting element fostered.
HasParentAt(ns, s, f, at, i, j) ==
  /\ j \in 1..i - 1
  /\ s[j].id = ns[s[i].id].parent
  /\ \/ j >= at /\ \A m \in j + 1 .. i - 1 : s[m].kind = "Formatting"
     \/ j < f /\ \E t \in j + 1 .. f - 1 : s[t].kind = "Table"

\* What is open above the furthest block has a parent there.
LEMMA AboveParent ==
  ASSUME NEW ns, NEW s, NEW h, Grounded(ns, s, h), NEW f, NEW at, Adopts(s, f, at),
         NEW i \in at + 1 .. Len(s)
  PROVE  \E j : HasParentAt(ns, s, f, at, i, j)
<1>1. Len(s) \in Nat /\ f \in Nat /\ f >= 2 /\ at \in f + 1 .. Len(s)
  BY BranchHeights DEF Adopts
<1>2. OpenParentAt(ns, s, i)
  <2>1. i \in 2..Len(s)
    BY <1>1
  <2> QED
    BY <2>1 DEF Grounded, Branch
<1>3. PICK j \in 1..i - 1 :
        /\ s[j].id = ns[s[i].id].parent
        /\ \/ \A m \in j + 1 .. i - 1 : s[m].kind = "Formatting"
           \/ \E t \in j + 1 .. i - 1 : s[t].kind = "Table"
  BY <1>2 DEF OpenParentAt
<1>4. CASE \E t \in j + 1 .. i - 1 : s[t].kind = "Table"
  <2>1. PICK t \in j + 1 .. i - 1 : s[t].kind = "Table"
    BY <1>4
  <2>2. t \notin f + 1 .. Len(s) /\ t # f
    BY <2>1 DEF Adopts
  <2>3. t \in j + 1 .. f - 1 /\ j < f
    BY <1>1, <2>1, <2>2
  <2> QED
    BY <1>3, <2>1, <2>3 DEF HasParentAt
<1>5. CASE \A m \in j + 1 .. i - 1 : s[m].kind = "Formatting"
  <2>1. at \notin j + 1 .. i - 1
    BY <1>5 DEF Adopts
  <2>2. j >= at
    BY <1>1, <2>1
  <2> QED
    BY <1>3, <1>5, <2>2 DEF HasParentAt
<1> QED
  BY <1>3, <1>4, <1>5

\* Every node of the adopted tree is higher than its parent, and none is higher than before.
LEMMA AdoptedHung ==
  ASSUME NEW ns, NEW s, NEW h, Grounded(ns, s, h), NEW f, NEW at, Adopts(s, f, at),
         NEW k \in Nat, k <= at - f - 1, NEW g, Heights(g, Len(ns), s, h, f, at, k),
         NEW p, NEW i0 \in 1..f - 1, p = s[i0].id,
         NEW r, Adopted(r, ns, s[at].id, k, p)
  PROVE  Hung(r, g)
<1> DEFINE len == Len(ns)
           n == Len(s)
           furthest == s[at].id
           x0 == len + k + 1
           around(q) == Around(furthest, len, q)
<1>1. /\ n \in Nat /\ len \in Nat /\ n <= len /\ n <= MaxDepth + 1 /\ h \in [1..len -> Nat]
      /\ \A i \in 1..n : s[i].id \in 1..len /\ h[s[i].id] = i - 1
  BY BranchHeights
<1>2. f \in Nat /\ f >= 2 /\ at \in f + 1 .. n
  BY <1>1 DEF Adopts
<1>3. /\ \A x \in 1..len : x # RootId => ns[x].parent \in 1..len /\ h[ns[x].parent] < h[x]
      /\ \A x \in 1..len : h[x] <= MaxDepth + 1 /\ h[x] < len
      /\ ns[RootId].parent = NULL /\ RootId \in 1..len /\ s[1].id = RootId
  BY DEF Grounded, Hung, Branch, Ids
<1>4. /\ g \in [1..x0 -> Nat]
      /\ \A q \in 0..k : g[around(q)] = f - 1 + k - q
      /\ g[x0] = f + k
      /\ \A i \in 1..at - 1 : g[s[i].id] = i - 1
      /\ \A i \in at + 1 .. n : g[s[i].id] = f + k + (i - at)
      /\ \A x \in 1..len : g[x] <= h[x]
      /\ \A x \in 1..len :
           x = furthest \/ (\E i \in at + 1 .. n : x = s[i].id) \/ g[x] = h[x]
  BY DEF Heights
<1>5. /\ Len(r) = x0 /\ \A x : x \in Ids(r) <=> x \in 1..x0
      /\ \A x \in 1..len : x # furthest =>
           r[x].parent = ns[x].parent \/ (ns[x].parent = furthest /\ r[x].parent = x0)
      /\ \A q \in 0..k : r[around(q)].parent = IF q = k THEN p ELSE around(q + 1)
      /\ r[x0].parent = furthest
  BY DEF Adopted, Ids
<1>6. furthest \in 1..len /\ h[furthest] = at - 1 /\ furthest # RootId
  <2>1. at \in 1..n /\ 1 \in 1..n /\ at - 1 # 1 - 1
    BY <1>1, <1>2
  <2> QED
    BY <1>1, <1>3, <2>1
<1>7. g[furthest] = f - 1 + k
  <2>1. around(0) = furthest /\ 0 \in 0..k /\ f - 1 + k - 0 = f - 1 + k
    BY <1>2 DEF Around
  <2> QED
    BY <1>4, <2>1
<1>8. p \in 1..len /\ g[p] < f - 1
  <2>1. i0 \in 1..n /\ i0 \in 1..at - 1 /\ i0 - 1 < f - 1
    BY <1>1, <1>2
  <2>2. g[s[i0].id] = i0 - 1 /\ s[i0].id \in 1..len
    BY <1>1, <1>4, <2>1
  <2> QED
    BY <2>1, <2>2
<1>9. \A q \in 0..k : around(q) \in 1..x0 /\ around(q) # RootId
  BY <1>1, <1>3, <1>6 DEF Around
<1>10. x0 \in 1..x0 /\ 1..len \subseteq 1..x0 /\ RootId # x0
  BY <1>1, <1>3
<1>11. f + k <= at - 1 /\ at - 1 <= MaxDepth /\ at - 1 < len
  BY <1>1, <1>2, MaxDepthAssumption
\* The clones and the furthest block.
<1>12. ASSUME NEW q \in 0..k
       PROVE  r[around(q)].parent \in 1..x0 /\ g[r[around(q)].parent] < g[around(q)]
  <2>1. CASE q = k
    <3>0. k \in 0..k /\ f - 1 + k - k = f - 1
      BY <1>2
    <3>1. r[around(q)].parent = p
      BY <1>5, <2>1, <3>0
    <3>2. g[around(q)] = f - 1
      BY <1>4, <2>1, <3>0
    <3>3. p \in 1..x0
      BY <1>8, <1>10
    <3>4. g[p] < f - 1
      BY <1>8
    <3>5. r[around(q)].parent \in 1..x0
      BY <3>1, <3>3
    <3>6. g[r[around(q)].parent] < g[around(q)]
      <4> HIDE DEF around
      <4> QED
        BY <3>1, <3>2, <3>4
    <3> QED
      BY <3>5, <3>6
  <2>2. CASE q # k
    <3>1. q + 1 \in 0..k
      BY <2>2
    <3>2. /\ r[around(q)].parent = around(q + 1) /\ around(q + 1) \in 1..x0
          /\ g[around(q + 1)] = f - 1 + k - (q + 1) /\ g[around(q)] = f - 1 + k - q
      BY <1>4, <1>5, <1>9, <2>2, <3>1
    <3>3. f - 1 + k - (q + 1) < f - 1 + k - q
      BY <1>2
    <3>4. r[around(q)].parent \in 1..x0
      BY <3>2
    <3>5. g[r[around(q)].parent] < g[around(q)]
      <4> HIDE DEF around
      <4> QED
        BY <3>2, <3>3
    <3> QED
      BY <3>4, <3>5
  <2> QED
    BY <2>1, <2>2
\* What was open above the furthest block.
<1>13. ASSUME NEW i \in at + 1 .. n
       PROVE  r[s[i].id].parent \in 1..x0 /\ g[r[s[i].id].parent] < g[s[i].id]
  <2>1. PICK j \in 1..i - 1 :
          s[j].id = ns[s[i].id].parent /\ (j >= at \/ j < f)
    BY AboveParent DEF HasParentAt
  <2>2. i \in 1..n /\ j \in 1..n /\ g[s[i].id] = f + k + (i - at)
    BY <1>1, <1>2, <1>4
  <2>3. s[i].id \in 1..len /\ s[i].id # furthest /\ s[j].id \in 1..len
    <3>1. i - 1 # at - 1
      BY <1>2, <2>2
    <3>2. s[i].id \in 1..len /\ h[s[i].id] = i - 1 /\ s[j].id \in 1..len
      BY <1>1, <2>2
    <3> QED
      BY <1>6, <3>1, <3>2
  <2>4. r[s[i].id].parent = s[j].id \/ r[s[i].id].parent = x0
    BY <1>5, <2>1, <2>3
  <2>5. g[s[j].id] < f + k + (i - at)
    <3>1. CASE j > at
      <4>1. j \in at + 1 .. n /\ f + k + (j - at) < f + k + (i - at)
        BY <1>2, <2>2, <3>1
      <4> QED
        BY <1>4, <4>1
    <3>2. CASE j = at
      BY <1>2, <1>7, <3>2
    <3>3. CASE j < f
      <4>1. j \in 1..at - 1 /\ j - 1 < f + k + (i - at)
        BY <1>2, <3>3
      <4> QED
        BY <1>4, <4>1
    <3> QED
      BY <1>2, <2>1, <3>1, <3>2, <3>3
  <2>6. g[x0] < f + k + (i - at)
    BY <1>2, <1>4
  <2> HIDE DEF x0
  <2> QED
    BY <1>10, <2>2, <2>3, <2>4, <2>5, <2>6
\* All other nodes: their parent is no higher than it was.
<1>14. ASSUME NEW x \in 1..len, x # RootId, x # furthest, g[x] = h[x]
       PROVE  r[x].parent \in 1..x0 /\ g[r[x].parent] < g[x]
  <2>1. ns[x].parent \in 1..len /\ h[ns[x].parent] < h[x]
    BY <1>3, <1>14
  <2>2. CASE r[x].parent = ns[x].parent
    <3>1. g[ns[x].parent] <= h[ns[x].parent] /\ ns[x].parent \in 1..x0
      BY <1>4, <1>10, <2>1
    <3>2. g[ns[x].parent] \in Nat /\ h[ns[x].parent] \in Nat /\ h[x] \in Nat
      BY <1>1, <1>4, <2>1, <3>1
    <3> QED
      BY <1>14, <2>1, <2>2, <3>1, <3>2
  <2>3. CASE ns[x].parent = furthest /\ r[x].parent = x0
    <3>1. g[x0] = f + k /\ at - 1 < h[x] /\ h[x] \in Nat
      BY <1>1, <1>4, <1>6, <2>1, <2>3
    <3>2. k \in Nat /\ f \in Nat /\ at \in Nat /\ f + k <= at - 1
      BY <1>2
    <3>3. x0 \in 1..x0
      BY <1>10
    <3> HIDE DEF x0
    <3>4. f + k < h[x]
      BY <3>1, <3>2
    <3> QED
      BY <1>14, <2>3, <3>1, <3>3, <3>4
  <2> QED
    BY <1>5, <1>14, <2>2, <2>3
<1>15. r[x0].parent \in 1..x0 /\ g[r[x0].parent] < g[x0]
  <2>1. f - 1 + k < f + k
    BY <1>2
  <2> QED
    BY <1>4, <1>5, <1>6, <1>7, <1>10, <2>1
<1>16. \A x \in 1..x0 : x \in 1..len \/ x = x0 \/ \E q \in 0..k : x = around(q)
  <2> TAKE x \in 1..x0
  <2>1. CASE x > len /\ x # x0
    <3>1. x - len \in 1..k /\ len + (x - len) = x
      <4>1. len \in Nat
        BY <1>1
      <4> HIDE DEF len
      <4> QED
        BY <2>1, <4>1
    <3>2. x - len \in 0..k /\ around(x - len) = x
      BY <3>1 DEF Around
    <3> HIDE DEF around
    <3> QED
      BY <3>2
  <2>2. x \in 1..len \/ x > len
    BY <1>1
  <2> QED
    BY <2>1, <2>2
<1>17. \A x \in 1..x0 : x # RootId => r[x].parent \in 1..x0 /\ g[r[x].parent] < g[x]
  <2> TAKE x \in 1..x0
  <2>1. CASE x = x0
    BY <1>15, <2>1
  <2>2. CASE \E q \in 0..k : x = around(q)
    BY <1>12, <2>2
  <2>3. CASE x \in 1..len
    <3>1. around(0) = furthest /\ 0 \in 0..k
      BY DEF Around
    <3> HIDE DEF around, furthest, x0
    <3> QED
      BY <1>4, <1>12, <1>13, <1>14, <2>3, <3>1
  <2> QED
    BY <1>16, <2>1, <2>2, <2>3
<1>18. r[RootId].parent = NULL
  <2>1. furthest # NULL
    BY <1>6 DEF NULL
  <2>2. r[RootId].parent = ns[RootId].parent \/ ns[RootId].parent = furthest
    BY <1>3, <1>5, <1>6
  <2> QED
    BY <1>3, <2>1, <2>2
<1>19. \A x \in 1..x0 : g[x] <= MaxDepth + 1 /\ g[x] < x0
  <2> TAKE x \in 1..x0
  <2>1. CASE x \in 1..len
    <3>1. g[x] \in Nat /\ h[x] \in Nat /\ g[x] <= h[x] /\ h[x] <= MaxDepth + 1 /\ h[x] < len
      BY <1>1, <1>3, <1>4, <2>1
    <3> QED
      BY <1>1, <3>1, MaxDepthAssumption
  <2>2. CASE x = x0
    <3>1. f + k <= MaxDepth + 1 /\ f + k < len + k + 1
      <4>1. len \in Nat
        BY <1>1
      <4> HIDE DEF len
      <4> QED
        BY <1>2, <1>11, <4>1, MaxDepthAssumption
    <3> QED
      BY <1>4, <2>2, <3>1
  <2>3. CASE \E q \in 0..k : x = around(q)
    <3>1. PICK q \in 0..k : x = around(q)
      BY <2>3
    <3>2. g[x] = f - 1 + k - q
      BY <1>4, <3>1
    <3>3. f - 1 + k - q <= MaxDepth + 1 /\ f - 1 + k - q < len + k + 1
      <4>1. len \in Nat
        BY <1>1
      <4> HIDE DEF len, around
      <4> QED
        BY <1>2, <1>11, <4>1, MaxDepthAssumption
    <3> QED
      BY <3>2, <3>3
  <2> QED
    BY <1>16, <2>1, <2>2, <2>3
<1>20. g \in [Ids(r) -> Nat] /\ RootId \in Ids(r)
  <2>1. Ids(r) = 1..x0
    BY <1>5
  <2> QED
    BY <1>3, <1>4, <1>10, <2>1
<1> HIDE DEF x0, around, furthest, len
<1> QED
  BY <1>5, <1>17, <1>18, <1>19, <1>20 DEF Hung

\* A part of a table above the formatting element is in a table below it.
LEMMA TableBelow ==
  ASSUME NEW ns, NEW s, NEW h, Grounded(ns, s, h), NEW f, NEW at, Adopts(s, f, at),
         NEW i \in at .. Len(s), s[i].kind \in TableContentKinds
  PROVE  \E t \in 1..f - 1 : s[t].kind = "Table"
<1>1. Len(s) \in Nat /\ f \in Nat /\ f >= 2 /\ at \in f + 1 .. Len(s)
  BY BranchHeights DEF Adopts
<1>2. i \in 1..Len(s)
  BY <1>1
<1>3. PICK t \in 1 .. i - 1 : s[t].kind = "Table"
  BY <1>2 DEF Grounded, Branch, InTableAt
<1>4. t \notin f + 1 .. Len(s) /\ t # f
  BY <1>3 DEF Adopts
<1>5. t \in 1..f - 1
  BY <1>1, <1>2, <1>4
<1> QED
  BY <1>3, <1>5

\* Entry p of the new stack is entry q of the old one, or the furthest block.
CameFrom(p, q, f, at, k) ==
  \/ p < f /\ q = p
  \/ p = f + k /\ q = at
  \/ p > f + k + 1 /\ q = p - (f + k + 1) + at

\* A column group is still not in another one on the new stack: only formatting elements come and
\* go, and nothing that sets a mode.
LEMMA RestackedColumns ==
  ASSUME NEW ns, NEW s, NEW h, Grounded(ns, s, h), NEW f, NEW at, Adopts(s, f, at),
         NEW k \in Nat, NEW t, Restacked(t, s, Len(ns), f, at, k), NEW i \in 1..Len(t),
         t[i].kind = "ColGroup"
  PROVE  OutsideColumns(t, i - 1)
<1> DEFINE n == Len(s)
<1>1. n \in Nat /\ f \in Nat /\ f >= 2 /\ at \in Nat /\ f < at /\ at <= n
  <2>1. n \in Nat /\ f \in Nat /\ f >= 2 /\ at \in f + 1 .. n
    BY BranchHeights DEF Adopts
  <2> QED
    BY <2>1
<1>2. /\ Len(t) = f + k + 1 + (n - at)
      /\ \A j \in 1..f - 1 : t[j].kind = s[j].kind
      /\ \A q \in 0..k : t[f + q].kind = IF q = k THEN s[at].kind ELSE "Formatting"
      /\ t[f + k + 1].kind = "Formatting"
      /\ \A m \in 1..n - at : t[f + k + 1 + m].kind = s[at + m].kind
  BY DEF Restacked
<1>3. s[f].kind = "Formatting" /\ \A q \in f + 1 .. at - 1 : s[q].kind \notin ModeKinds
  BY DEF Adopts
<1>4. \A q \in 1..n : InTableAt(s, q)
  BY DEF Grounded, Branch
<1>5. "Formatting" \notin ModeKinds /\ "ColGroup" \in ModeKinds
  BY DEF ModeKinds
<1> HIDE DEF n
<1>6. ASSUME NEW p \in 1..Len(t), t[p].kind \in ModeKinds
      PROVE  \E q \in 1..n : CameFrom(p, q, f, at, k)
  <2>1. CASE p \in 1..f - 1
    BY <1>1, <2>1 DEF CameFrom
  <2>2. CASE \E q \in 0..k : p = f + q
    <3>1. PICK q \in 0..k : p = f + q
      BY <2>2
    <3>2. q = k
      BY <1>2, <1>5, <1>6, <3>1
    <3> QED
      BY <1>1, <3>1, <3>2 DEF CameFrom
  <2>3. CASE p = f + k + 1
    BY <1>2, <1>5, <1>6, <2>3
  <2>4. CASE \E m \in 1..n - at : p = f + k + 1 + m
    <3>1. PICK m \in 1..n - at : p = f + k + 1 + m
      BY <2>4
    <3>2. at + m \in 1..n /\ p > f + k + 1 /\ at + m = p - (f + k + 1) + at
      BY <1>1, <3>1
    <3> QED
      BY <3>2 DEF CameFrom
  <2>5. p \in 1 .. f + k + 1 + (n - at)
    BY <1>2
  <2>6. \/ p \in 1..f - 1
        \/ \E q \in 0..k : p = f + q
        \/ p = f + k + 1
        \/ \E m \in 1..n - at : p = f + k + 1 + m
    BY <1>1, <2>5, RestackedPositions
  <2> QED
    BY <2>1, <2>2, <2>3, <2>4, <2>6
<1>7. ASSUME NEW q \in 1..n, s[q].kind \in ModeKinds
      PROVE  \E p \in 1..Len(t) : CameFrom(p, q, f, at, k)
  <2>1. q < f \/ q = at \/ q > at
    <3>1. q # f /\ q \notin f + 1 .. at - 1
      BY <1>3, <1>5, <1>7
    <3> QED
      BY <1>1, <3>1
  <2>2. CASE q < f
    <3>1. q \in 1..Len(t)
      BY <1>1, <1>2, <2>2
    <3> QED
      BY <2>2, <3>1 DEF CameFrom
  <2>3. CASE q = at
    <3>1. f + k \in 1..Len(t)
      BY <1>1, <1>2
    <3> QED
      BY <2>3, <3>1 DEF CameFrom
  <2>4. CASE q > at
    <3>1. q - at + (f + k + 1) \in 1..Len(t) /\ q - at + (f + k + 1) > f + k + 1
          /\ q = (q - at + (f + k + 1)) - (f + k + 1) + at
      BY <1>1, <1>2, <2>4
    <3> QED
      BY <3>1 DEF CameFrom
  <2> QED
    BY <2>1, <2>2, <2>3, <2>4
<1>8. ASSUME NEW p \in 1..Len(t), NEW q \in 1..n, CameFrom(p, q, f, at, k) PROVE t[p].kind = s[q].kind
  <2>1. CASE p < f /\ q = p
    BY <1>1, <1>2, <2>1
  <2>2. CASE p = f + k /\ q = at
    <3>1. k \in 0..k
      OBVIOUS
    <3> QED
      BY <1>2, <2>2, <3>1
  <2>3. CASE p > f + k + 1 /\ q = p - (f + k + 1) + at
    <3>1. p - (f + k + 1) \in 1..n - at /\ p = f + k + 1 + (p - (f + k + 1))
          /\ q = at + (p - (f + k + 1))
      BY <1>1, <1>2, <2>3
    <3> QED
      BY <1>2, <3>1
  <2> QED
    BY <1>8, <2>1, <2>2, <2>3 DEF CameFrom
<1>9. ASSUME NEW p \in 1..Len(t), NEW q \in 1..n, CameFrom(p, q, f, at, k),
             NEW p2 \in 1..Len(t), NEW q2 \in 1..n, CameFrom(p2, q2, f, at, k)
      PROVE  p < p2 <=> q < q2
  BY <1>1, <1>9 DEF CameFrom
<1>10. ASSUME NEW j \in 1 .. i - 1, t[j].kind = "ColGroup"
       PROVE  \E m \in j + 1 .. i - 1 : t[m].kind \in ModeKinds
  <2>1. j \in 1..Len(t) /\ j < i
    BY <1>1, <1>2
  <2>2. PICK i0 \in 1..n : CameFrom(i, i0, f, at, k)
    BY <1>5, <1>6
  <2>3. PICK j0 \in 1..n : CameFrom(j, j0, f, at, k)
    BY <1>5, <1>6, <1>10, <2>1
  <2>4. s[i0].kind = "ColGroup" /\ s[j0].kind = "ColGroup" /\ j0 < i0
    BY <1>8, <1>9, <1>10, <2>1, <2>2, <2>3
  <2>5. PICK m0 \in j0 + 1 .. i0 - 1 : s[m0].kind \in ModeKinds
    <3>1. OutsideColumns(s, i0 - 1) /\ j0 \in 1 .. i0 - 1
      BY <1>4, <2>4 DEF InTableAt
    <3> QED
      BY <2>4, <3>1 DEF OutsideColumns
  <2>6. m0 \in 1..n /\ j0 < m0 /\ m0 < i0
    BY <1>1
  <2>7. PICK m \in 1..Len(t) : CameFrom(m, m0, f, at, k)
    BY <1>7, <2>5, <2>6
  <2>8. j < m /\ m < i
    BY <1>9, <2>1, <2>2, <2>3, <2>6, <2>7
  <2>9. m \in j + 1 .. i - 1
    BY <2>8
  <2> QED
    BY <1>8, <2>5, <2>6, <2>7, <2>9
<1> QED
  BY <1>10 DEF OutsideColumns

\* A part of a table is still in a table on the new stack.
LEMMA RestackedInTable ==
  ASSUME NEW ns, NEW s, NEW h, Grounded(ns, s, h), NEW f, NEW at, Adopts(s, f, at),
         NEW k \in Nat, NEW t, Restacked(t, s, Len(ns), f, at, k), NEW i \in 1..Len(t)
  PROVE  InTableAt(t, i)
<1>1. Len(s) \in Nat /\ f \in Nat /\ f >= 2 /\ at \in f + 1 .. Len(s)
  BY BranchHeights DEF Adopts
<1>2. /\ Len(t) = f + k + 1 + (Len(s) - at)
      /\ \A j \in 1..f - 1 : t[j].kind = s[j].kind
      /\ \A q \in 0..k : t[f + q].kind = IF q = k THEN s[at].kind ELSE "Formatting"
      /\ t[f + k + 1].kind = "Formatting"
      /\ \A m \in 1..Len(s) - at : t[f + k + 1 + m].kind = s[at + m].kind
  BY DEF Restacked
<1>3. "Formatting" \notin TableContentKinds
  BY DEF TableContentKinds, ModeKinds
<1>4. CASE i \in 1..f - 1
  <2>1. s[i].kind \in TableContentKinds => \E j \in 1..i - 1 : s[j].kind = "Table"
    <3>1. i \in 1..Len(s)
      BY <1>1, <1>4
    <3> QED
      BY <3>1 DEF Grounded, Branch, InTableAt
  <2>2. \A j \in 1..i - 1 : j \in 1..f - 1
    BY <1>1, <1>4
  <2> QED
    BY <1>2, <1>4, <2>1, <2>2, RestackedColumns DEF InTableAt
<1>5. ASSUME NEW j \in at .. Len(s), s[j].kind \in TableContentKinds, f <= i
      PROVE  \E m \in 1..i - 1 : t[m].kind = "Table"
  <2>1. PICK m \in 1..f - 1 : s[m].kind = "Table"
    BY <1>5, TableBelow
  <2>2. m \in 1..i - 1
    BY <1>1, <1>5, <2>1
  <2> QED
    BY <1>2, <2>1, <2>2
<1>6. CASE \E q \in 0..k : i = f + q
  <2>1. PICK q \in 0..k : i = f + q
    BY <1>6
  <2>2. f <= i /\ at \in at .. Len(s)
    BY <1>1, <2>1
  <2>3. t[i].kind = s[at].kind \/ t[i].kind = "Formatting"
    BY <1>2, <2>1
  <2> QED
    BY <1>3, <1>5, <2>2, <2>3, RestackedColumns DEF InTableAt
<1>7. CASE i = f + k + 1
  BY <1>2, <1>3, <1>7, RestackedColumns DEF InTableAt
<1>8. CASE \E m \in 1..Len(s) - at : i = f + k + 1 + m
  <2>1. PICK m \in 1..Len(s) - at : i = f + k + 1 + m
    BY <1>8
  <2>2. f <= i /\ at + m \in at .. Len(s)
    BY <1>1, <2>1
  <2>3. t[i].kind = s[at + m].kind
    BY <1>2, <2>1
  <2> QED
    BY <1>5, <2>2, <2>3, RestackedColumns DEF InTableAt
<1>9. at \in Nat /\ at <= Len(s) /\ i \in 1 .. f + k + 1 + (Len(s) - at)
  BY <1>1, <1>2
<1>10. \/ i \in 1..f - 1
       \/ \E q \in 0..k : i = f + q
       \/ i = f + k + 1
       \/ \E m \in 1..Len(s) - at : i = f + k + 1 + m
  BY <1>1, <1>9, RestackedPositions
<1> QED
  BY <1>4, <1>6, <1>7, <1>8, <1>10

\* The furthest block goes below the formatting element's predecessor on the stack, or out of a
\* table next to it.
MovesBelow(s, f, i0) ==
  i0 \in 1..f - 1 /\ (i0 = f - 1 \/ \E m \in i0 + 1 .. f - 1 : s[m].kind = "Table")

\* The parent of an open element is still open.
LEMMA RestackedParents ==
  ASSUME NEW ns, NEW s, NEW h, Grounded(ns, s, h), NEW f, NEW at, Adopts(s, f, at),
         NEW k \in Nat, NEW i0, MovesBelow(s, f, i0),
         NEW r, Adopted(r, ns, s[at].id, k, s[i0].id),
         NEW t, Restacked(t, s, Len(ns), f, at, k), NEW i \in 2..Len(t)
  PROVE  OpenParentAt(r, t, i)
<1> DEFINE len == Len(ns)
           n == Len(s)
           furthest == s[at].id
           x0 == len + k + 1
           p == s[i0].id
           around(q) == Around(furthest, len, q)
<1>1. /\ n \in Nat /\ len \in Nat
      /\ \A j \in 1..n : s[j].id \in 1..len /\ h[s[j].id] = j - 1
  BY BranchHeights
<1>2. f \in Nat /\ f >= 2 /\ at \in f + 1 .. n /\ at \in Nat /\ at <= n /\ at \in 1..n
  BY <1>1 DEF Adopts
<1>3. /\ Len(t) = f + k + 1 + (n - at)
      /\ \A j \in 1..f - 1 : t[j].id = s[j].id /\ t[j].kind = s[j].kind
      /\ \A q \in 0..k : t[f + q].id = around(k - q)
      /\ t[f + k + 1].id = x0 /\ t[f + k + 1].kind = "Formatting"
      /\ \A m \in 1..n - at : t[f + k + 1 + m].id = s[at + m].id
                              /\ t[f + k + 1 + m].kind = s[at + m].kind
  BY DEF Restacked
<1>4. /\ \A x \in 1..len : x # furthest =>
           r[x].parent = ns[x].parent \/ (ns[x].parent = furthest /\ r[x].parent = x0)
      /\ \A q \in 0..k : r[around(q)].parent = IF q = k THEN p ELSE around(q + 1)
      /\ r[x0].parent = furthest
  BY DEF Adopted, Ids
<1>5. \A j \in 1..n : j # at => s[j].id # furthest
  <2> TAKE j \in 1..n
  <2>1. h[s[j].id] = j - 1 /\ h[furthest] = at - 1
    BY <1>1, <1>2
  <2>2. j # at => j - 1 # at - 1
    BY <1>2
  <2> QED
    BY <2>1, <2>2, Zenon
<1>6. t[f + k].id = furthest
  <2>1. k \in 0..k /\ k - k = 0 /\ around(0) = furthest
    BY DEF Around
  <2>2. t[f + k].id = around(k - k)
    BY <1>3, <2>1
  <2> QED
    BY <2>1, <2>2
<1>7. CASE i \in 1..f - 1
  <2>1. i \in 2..n /\ i \in 1..n /\ i # at
    BY <1>1, <1>2, <1>7
  <2>2. PICK j \in 1..i - 1 :
          /\ s[j].id = ns[s[i].id].parent
          /\ \/ \A m \in j + 1 .. i - 1 : s[m].kind = "Formatting"
             \/ \E m \in j + 1 .. i - 1 : s[m].kind = "Table"
    BY <2>1 DEF Grounded, Branch, OpenParentAt
  <2>3. j \in 1..n /\ j # at /\ j \in 1..f - 1 /\ \A m \in j + 1 .. i - 1 : m \in 1..f - 1
    BY <1>1, <1>2, <1>7, <2>1
  <2>4. r[t[i].id].parent = t[j].id
    <3>1. s[i].id \in 1..len /\ s[i].id # furthest /\ s[j].id # furthest
      BY <1>1, <1>5, <2>1, <2>3
    <3>2. t[i].id = s[i].id /\ t[j].id = s[j].id
      BY <1>3, <1>7, <2>3
    <3> HIDE DEF furthest, x0
    <3> QED
      BY <1>4, <2>2, <3>1, <3>2
  <2>5. \/ \A m \in j + 1 .. i - 1 : t[m].kind = "Formatting"
        \/ \E m \in j + 1 .. i - 1 : t[m].kind = "Table"
    BY <1>3, <2>2, <2>3
  <2> QED
    BY <2>4, <2>5 DEF OpenParentAt
<1>8. CASE i = f
  <2>1. i0 \in 1..f - 1 /\ i0 \in 1..i - 1
    BY <1>2, <1>8 DEF MovesBelow
  <2>2. r[t[i].id].parent = t[i0].id
    <3>1. k \in 0..k /\ 0 \in 0..k /\ f + 0 = i /\ k - 0 = k
      BY <1>2, <1>8
    <3>2. t[f + 0].id = around(k - 0) /\ r[around(k)].parent = p
      BY <1>3, <1>4, <3>1
    <3>3. t[i0].id = p
      BY <1>3, <2>1
    <3> QED
      BY <3>1, <3>2, <3>3
  <2>3. \/ \A m \in i0 + 1 .. i - 1 : t[m].kind = "Formatting"
        \/ \E m \in i0 + 1 .. i - 1 : t[m].kind = "Table"
    <3>1. CASE i0 = f - 1
      <4>1. \A m \in i0 + 1 .. i - 1 : FALSE
        BY <1>2, <1>8, <3>1
      <4> QED
        BY <4>1
    <3>2. CASE \E m \in i0 + 1 .. f - 1 : s[m].kind = "Table"
      <4>1. \A m \in i0 + 1 .. f - 1 : m \in 1..f - 1 /\ m \in i0 + 1 .. i - 1
        BY <1>8, <2>1
      <4> QED
        BY <1>3, <3>2, <4>1
    <3> QED
      BY <3>1, <3>2 DEF MovesBelow
  <2> QED
    BY <2>1, <2>2, <2>3 DEF OpenParentAt
<1>9. ASSUME i >= 2, r[t[i].id].parent = t[i - 1].id PROVE OpenParentAt(r, t, i)
  <2>1. i - 1 \in 1..i - 1 /\ \A m \in i - 1 + 1 .. i - 1 : FALSE
    BY <1>9
  <2> QED
    BY <1>9, <2>1 DEF OpenParentAt
<1>10. CASE \E q \in 1..k : i = f + q
  <2>1. PICK q \in 1..k : i = f + q
    BY <1>10
  <2>2. q \in 0..k /\ q - 1 \in 0..k /\ i - 1 = f + (q - 1) /\ k - q \in 0..k /\ k - q # k
        /\ k - q + 1 = k - (q - 1)
    BY <1>2, <2>1
  <2>3. t[i].id = around(k - q) /\ t[i - 1].id = around(k - (q - 1))
    BY <1>3, <2>1, <2>2
  <2>4. r[around(k - q)].parent = around(k - q + 1)
    BY <1>4, <2>2
  <2> QED
    BY <1>9, <2>2, <2>3, <2>4
<1>11. CASE i = f + k + 1
  <2>1. i - 1 = f + k
    BY <1>2, <1>11
  <2> QED
    BY <1>3, <1>4, <1>6, <1>9, <1>11, <2>1
<1>12. CASE \E m \in 1..n - at : i = f + k + 1 + m
  <2>1. PICK m \in 1..n - at : i = f + k + 1 + m
    BY <1>12
  <2>2. at + m \in at + 1 .. n /\ at + m \in 1..n /\ at + m # at
    BY <1>1, <1>2, <2>1
  <2>9. PICK j : HasParentAt(ns, s, f, at, at + m, j)
    BY <2>2, AboveParent
  <2>3. /\ j \in 1..(at + m) - 1
        /\ s[j].id = ns[s[at + m].id].parent
        /\ \/ j >= at /\ \A e \in j + 1 .. (at + m) - 1 : s[e].kind = "Formatting"
           \/ j < f /\ \E e \in j + 1 .. f - 1 : s[e].kind = "Table"
    BY <2>9 DEF HasParentAt
  <2>4. t[i].id = s[at + m].id /\ s[at + m].id \in 1..len /\ s[at + m].id # furthest
    BY <1>1, <1>3, <1>5, <2>1, <2>2
  <2>5. CASE j < f /\ \E e \in j + 1 .. f - 1 : s[e].kind = "Table"
    <3>1. j \in 1..f - 1 /\ j \in 1..n /\ j # at /\ j \in 1..i - 1
      BY <1>1, <1>2, <2>1, <2>3, <2>5
    <3>2. s[j].id # furthest /\ t[j].id = s[j].id
      BY <1>3, <1>5, <3>1
    <3>3. r[t[i].id].parent = t[j].id
      <4> HIDE DEF furthest, x0
      <4> QED
        BY <1>4, <2>3, <2>4, <3>2
    <3>4. \A e \in j + 1 .. f - 1 : e \in 1..f - 1 /\ e \in j + 1 .. i - 1
      BY <1>2, <2>1, <3>1
    <3>5. \E e \in j + 1 .. i - 1 : t[e].kind = "Table"
      BY <1>3, <2>5, <3>4
    <3> QED
      BY <3>1, <3>3, <3>5 DEF OpenParentAt
  <2>6. CASE j = at /\ \A e \in j + 1 .. (at + m) - 1 : s[e].kind = "Formatting"
    <3>1. r[t[i].id].parent \in {t[f + k].id, t[f + k + 1].id}
      <4>1. s[j].id = furthest
        BY <2>6
      <4> HIDE DEF furthest, x0
      <4>2. r[s[at + m].id].parent \in {furthest, x0}
        BY <1>4, <2>3, <2>4, <4>1
      <4> QED
        BY <1>3, <1>6, <2>4, <4>2
    <3>2. f + k \in 1..i - 1 /\ f + k + 1 \in 1..i - 1
      BY <1>2, <2>1
    <3>3. \A e \in f + k + 1 .. i - 1 : t[e].kind = "Formatting"
      <4> TAKE e \in f + k + 1 .. i - 1
      <4>1. CASE e = f + k + 1
        BY <1>3, <4>1
      <4>2. CASE e # f + k + 1
        <5>1. e - (f + k + 1) \in 1..n - at /\ f + k + 1 + (e - (f + k + 1)) = e
              /\ at + (e - (f + k + 1)) \in at + 1 .. (at + m) - 1
          BY <1>2, <2>1, <4>2
        <5>2. t[f + k + 1 + (e - (f + k + 1))].kind = s[at + (e - (f + k + 1))].kind
          BY <1>3, <5>1
        <5> QED
          BY <2>6, <5>1, <5>2
      <4> QED
        BY <4>1, <4>2
    <3>4. \A e \in f + k + 1 + 1 .. i - 1 : e \in f + k + 1 .. i - 1
      BY <1>2
    <3> QED
      BY <3>1, <3>2, <3>3, <3>4 DEF OpenParentAt
  <2>7. CASE j > at /\ \A e \in j + 1 .. (at + m) - 1 : s[e].kind = "Formatting"
    <3> DEFINE to == f + k + 1 + (j - at)
    <3>1. j - at \in 1..n - at /\ at + (j - at) = j /\ to \in 1..i - 1 /\ j \in 1..n /\ j # at
      <4>1. n \in Nat /\ j \in 1..(at + m) - 1
        BY <1>1, <2>3
      <4> HIDE DEF n
      <4>2. j \in 1..n /\ j \in Nat
        BY <1>2, <2>1, <4>1
      <4>3. j - at \in 1..n - at /\ at + (j - at) = j /\ j # at
        <5>1. at \in Nat /\ j > at /\ j <= n
          BY <1>2, <2>7, <4>2
        <5>2. j - at >= 1 /\ j - at <= n - at /\ at + (j - at) = j
          BY <4>1, <4>2, <5>1
        <5> QED
          BY <4>1, <4>2, <5>1, <5>2
      <4>4. to \in 1..i - 1
        BY <1>2, <2>1, <2>7, <4>1, <4>2
      <4> QED
        BY <4>2, <4>3, <4>4
    <3>2. t[to].id = s[j].id /\ s[j].id # furthest
      <4>1. t[to].id = s[at + (j - at)].id
        BY <1>3, <3>1
      <4> QED
        BY <1>5, <3>1, <4>1
    <3>3. r[t[i].id].parent = t[to].id
      <4> HIDE DEF furthest, x0, to
      <4> QED
        BY <1>4, <2>3, <2>4, <3>2
    <3>4. \A e \in to + 1 .. i - 1 : t[e].kind = "Formatting"
      <4> TAKE e \in to + 1 .. i - 1
      <4>1. e - (f + k + 1) \in 1..n - at /\ f + k + 1 + (e - (f + k + 1)) = e
            /\ at + (e - (f + k + 1)) \in j + 1 .. (at + m) - 1
        BY <1>2, <2>1, <3>1
      <4>2. t[f + k + 1 + (e - (f + k + 1))].kind = s[at + (e - (f + k + 1))].kind
        BY <1>3, <4>1
      <4> QED
        BY <2>7, <4>1, <4>2
    <3> HIDE DEF to
    <3> QED
      BY <3>1, <3>3, <3>4 DEF OpenParentAt
  <2>8. j > at \/ j = at \/ ~ (j >= at)
    BY <1>2, <2>3
  <2> QED
    BY <2>3, <2>5, <2>6, <2>7, <2>8
<1>13. i \in 1 .. f + k + 1 + (n - at) /\ (\A q \in 0..k : q = 0 \/ q \in 1..k) /\ f + 0 = f
  BY <1>2, <1>3
<1> HIDE DEF n
<1>14. \/ i \in 1..f - 1
       \/ \E q \in 0..k : i = f + q
       \/ i = f + k + 1
       \/ \E m \in 1..n - at : i = f + k + 1 + m
  BY <1>1, <1>2, <1>13, RestackedPositions
<1> QED
  BY <1>7, <1>8, <1>10, <1>11, <1>12, <1>13, <1>14

\* The new stack is a branch of the adopted tree.
LEMMA AdoptedBranch ==
  ASSUME NEW ns, NEW s, NEW h, Grounded(ns, s, h), NEW f, NEW at, Adopts(s, f, at),
         NEW k \in Nat, k <= at - f - 1, NEW g, Heights(g, Len(ns), s, h, f, at, k),
         NEW i0, MovesBelow(s, f, i0),
         NEW r, Adopted(r, ns, s[at].id, k, s[i0].id),
         NEW t, Restacked(t, s, Len(ns), f, at, k)
  PROVE  Branch(r, t, g)
<1> DEFINE len == Len(ns)
           n == Len(s)
           furthest == s[at].id
           x0 == len + k + 1
           around(q) == Around(furthest, len, q)
<1>1. /\ n \in Nat /\ len \in Nat /\ n <= len /\ n <= MaxDepth + 1
      /\ \A i \in 1..n : s[i].id \in 1..len
  BY BranchHeights
<1>2. f \in Nat /\ f >= 2 /\ at \in f + 1 .. n /\ at \in Nat /\ at <= n /\ at \in 1..n
  BY <1>1 DEF Adopts
<1>3. /\ Len(t) = f + k + 1 + (n - at)
      /\ \A i \in 1..f - 1 : t[i].id = s[i].id
      /\ \A q \in 0..k : t[f + q].id = around(k - q)
      /\ t[f + k + 1].id = x0
      /\ \A m \in 1..n - at : t[f + k + 1 + m].id = s[at + m].id
  BY DEF Restacked
<1>4. /\ Len(r) = x0 /\ \A x : x \in Ids(r) <=> x \in 1..x0
      /\ \A x \in 1..len : r[x].type = ns[x].type
      /\ \A q \in 1..k + 1 : r[len + q].type = "element"
  BY DEF Adopted, Ids
<1>5. /\ \A q \in 0..k : g[around(q)] = f - 1 + k - q
      /\ g[x0] = f + k
      /\ \A i \in 1..at - 1 : g[s[i].id] = i - 1
      /\ \A i \in at + 1 .. n : g[s[i].id] = f + k + (i - at)
  BY DEF Heights
<1>6. s[1].id = RootId /\ \A i \in 1..n : ns[s[i].id].type = "element"
  BY DEF Grounded, Branch
<1>7. /\ Len(t) \in Nat /\ 1 <= Len(t) /\ Len(t) <= MaxDepth + 1 /\ Len(t) <= Len(r)
      /\ f + k + 1 + (n - at) \in Nat
  <2>1. len \in Nat /\ n \in Nat /\ n <= len /\ n <= MaxDepth + 1
    BY <1>1
  <2> HIDE DEF len, n
  <2> QED
    BY <1>2, <1>3, <1>4, <2>1, MaxDepthAssumption
<1>8. t[1].id = RootId
  <2>1. 1 \in 1..f - 1
    BY <1>2
  <2> QED
    BY <1>3, <1>6, <2>1
<1>9. \A i \in 1..n : s[i].id \in Ids(r) /\ r[s[i].id].type = "element"
  <2> TAKE i \in 1..n
  <2>1. s[i].id \in 1..len /\ s[i].id \in 1..x0
    BY <1>1
  <2> QED
    BY <1>4, <1>6, <2>1
<1>10. \A q \in 0..k : around(q) \in Ids(r) /\ r[around(q)].type = "element"
  <2> TAKE q \in 0..k
  <2>1. CASE q = 0
    BY <1>2, <1>9, <2>1 DEF Around
  <2>2. CASE q # 0
    <3>1. q \in 1..k + 1 /\ len + q \in 1..x0
      BY <1>1, <2>2
    <3> QED
      BY <1>4, <2>2, <3>1 DEF Around
  <2> QED
    BY <2>1, <2>2
<1>11. x0 \in Ids(r) /\ r[x0].type = "element"
  <2>1. k + 1 \in 1..k + 1 /\ len + (k + 1) = x0 /\ x0 \in 1..x0
    BY <1>1
  <2>2. r[len + (k + 1)].type = "element"
    BY <1>4, <2>1
  <2> HIDE DEF x0, len
  <2> QED
    BY <1>4, <2>1, <2>2
<1> HIDE DEF x0, around, furthest
<1>12. ASSUME NEW i \in 1..Len(t)
       PROVE  t[i].id \in Ids(r) /\ r[t[i].id].type = "element" /\ g[t[i].id] = i - 1
  <2>1. CASE i \in 1..f - 1
    <3>1. i \in 1..n /\ i \in 1..at - 1
      BY <1>1, <1>2, <2>1
    <3> QED
      BY <1>3, <1>5, <1>9, <2>1, <3>1
  <2>2. CASE \E q \in 0..k : i = f + q
    <3>1. PICK q \in 0..k : i = f + q
      BY <2>2
    <3>2. k - q \in 0..k /\ f - 1 + k - (k - q) = i - 1
      BY <1>2, <3>1
    <3>3. t[i].id = around(k - q) /\ g[around(k - q)] = f - 1 + k - (k - q)
      BY <1>3, <1>5, <3>1, <3>2
    <3> QED
      BY <1>10, <3>2, <3>3
  <2>3. CASE i = f + k + 1
    <3>1. f + k = i - 1
      BY <1>2, <2>3
    <3> QED
      BY <1>3, <1>5, <1>11, <2>3, <3>1
  <2>4. CASE \E m \in 1..n - at : i = f + k + 1 + m
    <3>1. PICK m \in 1..n - at : i = f + k + 1 + m
      BY <2>4
    <3>2. at + m \in at + 1 .. n /\ at + m \in 1..n /\ f + k + ((at + m) - at) = i - 1
      BY <1>1, <1>2, <3>1
    <3>3. t[i].id = s[at + m].id /\ g[s[at + m].id] = f + k + ((at + m) - at)
      BY <1>3, <1>5, <3>1, <3>2
    <3> QED
      BY <1>9, <3>2, <3>3
  <2>5. i \in 1 .. f + k + 1 + (n - at)
    BY <1>3
  <2> HIDE DEF n
  <2>6. \/ i \in 1..f - 1
        \/ \E q \in 0..k : i = f + q
        \/ i = f + k + 1
        \/ \E m \in 1..n - at : i = f + k + 1 + m
    BY <1>1, <1>2, <2>5, RestackedPositions
  <2> QED
    BY <2>1, <2>2, <2>3, <2>4, <2>6
<1>13. \A i \in 2..Len(t) : OpenParentAt(r, t, i)
  BY RestackedParents
<1>14. \A i \in 1..Len(t) : InTableAt(t, i)
  BY RestackedInTable
<1> QED
  BY <1>7, <1>8, <1>12, <1>13, <1>14 DEF Branch

\* Adoption keeps the tree and the stack sound: what it moves does not get deeper.
LEMMA AdoptedOK ==
  ASSUME NEW ns, NEW s, NEW after, TreeOK(ns, s, after), NEW f, NEW at, Adopts(s, f, at),
         NEW k \in Nat, k <= at - f - 1, NEW i0, MovesBelow(s, f, i0),
         NEW r, Adopted(r, ns, s[at].id, k, s[i0].id),
         NEW t, Restacked(t, s, Len(ns), f, at, k)
  PROVE  TreeOK(r, t, after)
<1>1. PICK h : Grounded(ns, s, h) /\ TakesComments(ns, h, after)
  BY DEF TreeOK
<1>2. PICK g : Heights(g, Len(ns), s, h, f, at, k)
  BY <1>1, HeightsExist
<1>3. Branch(r, t, g)
  BY <1>1, <1>2, AdoptedBranch
<1>4. Hung(r, g)
  <2>1. i0 \in 1..f - 1
    BY DEF MovesBelow
  <2> QED
    BY <1>1, <1>2, <2>1, AdoptedHung
<1>5. Arena(r)
  BY DEF Adopted
<1>6. TakesComments(r, g, after)
  <2>1. ASSUME after # NULL PROVE after \in Ids(r) /\ g[after] <= MaxDepth
    <3>1. after \in 1..Len(ns) /\ h[after] <= MaxDepth /\ h \in [1..Len(ns) -> Nat] /\ Len(ns) \in Nat
      BY <1>1, <2>1, BranchHeights DEF TakesComments, Ids
    <3>2. g[after] <= h[after] /\ g \in [1..Len(ns) + k + 1 -> Nat]
      BY <1>2, <3>1 DEF Heights
    <3>3. after \in 1..Len(ns) + k + 1 /\ Len(r) = Len(ns) + k + 1
      BY <3>1 DEF Adopted
    <3>4. g[after] \in Nat /\ h[after] \in Nat
      BY <3>1, <3>2, <3>3
    <3> QED
      BY <3>1, <3>2, <3>3, <3>4, MaxDepthAssumption DEF Ids
  <2> QED
    BY <2>1 DEF TakesComments
<1> QED
  BY <1>3, <1>4, <1>5, <1>6 DEF TreeOK, Grounded

-----------------------------------------------------------------------------
(***************************************************************************)
(* Walks from sibling to sibling, and the edits that keep the children of  *)
(* a node.                                                                 *)
(***************************************************************************)
\* w lists, from every place of S on, the places that follow one another.
Walks(w, S, next) == w = [m \in S |-> IF m = NULL THEN <<>> ELSE <<m>> \o w[next[m]]]

\* Every place of S is followed by one of lower rank, up to the end.
Walkable(S, next, h) == \A m \in S \ {NULL} : next[m] \in S /\ h[next[m]] < h[m]

\* The recursion has a solution: no place is the lowest for which it has none.
LEMMA WalkExists ==
  ASSUME NEW S, NEW next, NEW h \in [S -> Nat], Walkable(S, next, h),
         NEW top \in Nat, \A m \in S : h[m] < top
  PROVE  \E w : Walks(w, S, next)
<1> DEFINE Below(k) == {m \in S : h[m] < k}
           Bad == {k \in Nat : ~ \E w : Walks(w, Below(k), next)}
<1>1. top \notin Bad
  <2>1. SUFFICES ASSUME Bad # {} PROVE FALSE
    OBVIOUS
  <2>2. PICK k \in Bad : \A j \in Bad : k <= j
    BY <2>1, LeastElement
  <2>3. k # 0
    <3> DEFINE w0 == [m \in {} |-> <<>>]
    <3>1. Below(0) = {}
      OBVIOUS
    <3>2. Walks(w0, {}, next)
      BY DEF Walks
    <3> QED
      BY <3>1, <3>2
  <2>4. k - 1 \in Nat /\ k - 1 \notin Bad
    <3>1. k \in Nat
      OBVIOUS
    <3>2. k - 1 \in Nat /\ ~ (k <= k - 1)
      BY <2>3, <3>1
    <3> HIDE DEF Bad
    <3> QED
      BY <2>2, <3>2
  <2>5. PICK w : Walks(w, Below(k - 1), next)
    BY <2>4
  <2> DEFINE f == [m \in Below(k) |-> IF m = NULL THEN <<>> ELSE <<m>> \o w[next[m]]]
  <2>6. \A m \in Below(k - 1) : m \in Below(k) /\ f[m] = w[m]
    <3>1. \A m \in Below(k - 1) : m \in Below(k)
      BY <2>4
    <3>2. \A m \in Below(k - 1) : w[m] = IF m = NULL THEN <<>> ELSE <<m>> \o w[next[m]]
      BY <2>5, Zenon DEF Walks
    <3> QED
      BY <3>1, <3>2
  <2>7. \A m \in Below(k) \ {NULL} : next[m] \in Below(k - 1)
    BY <2>4 DEF Walkable
  <2>8. \A m \in Below(k) : f[m] = IF m = NULL THEN <<>> ELSE <<m>> \o f[next[m]]
    BY <2>6, <2>7
  <2>9. f = [m \in Below(k) |-> f[m]]
    OBVIOUS
  <2> HIDE DEF f, Below
  <2>10. Walks(f, Below(k), next)
    <3>1. f = [m \in Below(k) |-> IF m = NULL THEN <<>> ELSE <<m>> \o f[next[m]]]
      BY <2>8, <2>9
    <3> QED
      BY <3>1, Zenon DEF Walks
  <2> QED
    BY <2>2, <2>10
<1>2. Below(top) = S
  OBVIOUS
<1> QED
  BY <1>1, <1>2

\* There are finitely many nodes, and so a number above all ranks.
LEMMA RanksBounded ==
  ASSUME NEW n \in Nat, NEW k, \A m \in 1..n : k[m] \in Nat
  PROVE  \E top \in Nat : \A m \in 1..n : k[m] < top
<1> DEFINE Bounded(i) == \E top \in Nat : \A m \in 1..i : k[m] < top
           Bad == {i \in 0..n : ~ Bounded(i)}
<1>1. Bounded(0)
  <2>1. 1..0 = {}
    OBVIOUS
  <2> QED
    BY <2>1, 0 \in Nat
<1>2. ASSUME NEW i \in 1..n, Bounded(i - 1) PROVE Bounded(i)
  <2>1. PICK top \in Nat : \A m \in 1..i - 1 : k[m] < top
    BY <1>2
  <2>2. k[i] \in Nat
    OBVIOUS
  <2> DEFINE above == top + k[i] + 1
  <2>3. above \in Nat /\ k[i] < above /\ top < above
    BY <2>1, <2>2
  <2>4. \A m \in 1..i : k[m] < above
    <3> SUFFICES ASSUME NEW m \in 1..i PROVE k[m] < above
      OBVIOUS
    <3>1. k[m] \in Nat
      OBVIOUS
    <3>2. m = i \/ m \in 1..i - 1
      OBVIOUS
    <3> HIDE DEF above
    <3> QED
      BY <2>1, <2>2, <2>3, <3>1, <3>2
  <2> HIDE DEF above
  <2> QED
    BY <2>3, <2>4
<1> HIDE DEF Bounded
<1>3. Bad = {}
  <2> SUFFICES ASSUME Bad # {} PROVE FALSE
    OBVIOUS
  <2>1. PICK i \in Bad : \A j \in Bad : i <= j
    <3>1. Bad \subseteq Nat
      OBVIOUS
    <3> HIDE DEF Bad
    <3> QED
      BY <3>1, LeastElement
  <2>2. i \in 1..n /\ i - 1 \in 0..n
    BY <1>1
  <2>3. ~ (i <= i - 1)
    BY <2>2
  <2>4. Bounded(i - 1)
    BY <2>1, <2>2, <2>3
  <2> QED
    BY <1>2, <2>2, <2>4
<1>4. Bounded(n)
  BY <1>3
<1> QED
  BY <1>4 DEF Bounded

\* The place that follows each: itself for the end.
Followers(ns) == [m \in 0..Len(ns) |-> IF m = NULL THEN NULL ELSE ns[m].next]

\* The siblings from a node on are well defined: none follow one another in a circle.
LEMMA SiblingsWalk ==
  ASSUME NEW ns, Arena(ns)
  PROVE  \E w : /\ w[NULL] = <<>>
                /\ \A n \in Ids(ns) : w[n] = <<n>> \o w[ns[n].next]
                /\ \A n \in 0..Len(ns) : SiblingsFrom(ns, n) = w[n]
<1> DEFINE S == 0..Len(ns)
           next == Followers(ns)
<1>1. PICK k : Ranked(ns, Ids(ns), k)
  BY DEF Arena, Ordered
<1>2. ns \in Seq(Node) /\ Len(ns) \in Nat /\ S = Ids(ns) \cup {NULL} /\ NULL \notin Ids(ns)
  BY DEF Arena, Ids, NULL
<1>3. \A n \in Ids(ns) : ns[n].next \in S /\ next[n] = ns[n].next
  BY <1>2 DEF Arena, Linked, Followers
<1> DEFINE h == [m \in S |-> IF m = NULL THEN 0 ELSE k[m] + 1]
<1>4. h \in [S -> Nat]
  BY <1>1, <1>2 DEF Ranked
<1>5. Walkable(S, next, h)
  <2> SUFFICES ASSUME NEW m \in S \ {NULL} PROVE next[m] \in S /\ h[next[m]] < h[m]
    BY DEF Walkable
  <2>1. m \in Ids(ns) /\ next[m] = ns[m].next /\ next[m] \in S
    BY <1>2, <1>3
  <2>2. k[m] \in Nat /\ (ns[m].next # NULL => k[ns[m].next] < k[m] /\ k[ns[m].next] \in Nat)
    BY <1>1, <1>2, <2>1 DEF Ranked
  <2>3. h[m] = k[m] + 1
    OBVIOUS
  <2>4. h[next[m]] = IF next[m] = NULL THEN 0 ELSE k[next[m]] + 1
    BY <2>1
  <2> HIDE DEF h, next, S
  <2> QED
    BY <2>1, <2>2, <2>3, <2>4
<1>6. PICK top \in Nat : \A m \in 1..Len(ns) : k[m] < top
  BY <1>1, <1>2, RanksBounded DEF Ranked, Ids
<1>7. top + 1 \in Nat /\ \A m \in S : h[m] < top + 1
  BY <1>1, <1>2, <1>6 DEF Ranked, Ids
<1> HIDE DEF h, next
<1>8. \E w : Walks(w, S, next)
  BY <1>4, <1>5, <1>7, WalkExists
<1> DEFINE d == CHOOSE w : Walks(w, S, next)
<1>9. Walks(d, S, next)
  BY <1>8
<1>10. \A n \in S : SiblingsFrom(ns, n) = d[n]
  <2>1. \A w : Walks(w, S, next) <=> w = [m \in S |-> IF m = NULL THEN <<>> ELSE <<m>> \o w[ns[m].next]]
    <3>1. \A w : [m \in S |-> IF m = NULL THEN <<>> ELSE <<m>> \o w[next[m]]]
                 = [m \in S |-> IF m = NULL THEN <<>> ELSE <<m>> \o w[ns[m].next]]
      BY <1>2, <1>3
    <3> QED
      BY <3>1 DEF Walks
  <2>2. d = CHOOSE w : w = [m \in S |-> IF m = NULL THEN <<>> ELSE <<m>> \o w[ns[m].next]]
    BY <2>1
  <2> QED
    BY <2>2 DEF SiblingsFrom
<1> HIDE DEF d
<1>11. \A m \in S : d[m] = IF m = NULL THEN <<>> ELSE <<m>> \o d[next[m]]
  BY <1>9, Zenon DEF Walks
<1>12. d[NULL] = <<>> /\ \A n \in Ids(ns) : d[n] = <<n>> \o d[ns[n].next]
  BY <1>2, <1>3, <1>11
<1> QED
  BY <1>10, <1>12

\* A node whose links and those of its children stay keeps its children.
LEMMA KeepsChildren ==
  ASSUME NEW ns, Arena(ns), NEW r, Arena(r), NEW C, C \subseteq Ids(ns), Keeps(r, ns, C), NEW n \in C
  PROVE  Children(r, n) = Children(ns, n)
<1>1. PICK v : /\ v[NULL] = <<>>
               /\ \A m \in Ids(ns) : v[m] = <<m>> \o v[ns[m].next]
               /\ \A m \in 0..Len(ns) : SiblingsFrom(ns, m) = v[m]
  BY SiblingsWalk
<1>2. PICK w : /\ w[NULL] = <<>>
               /\ \A m \in Ids(r) : w[m] = <<m>> \o w[r[m].next]
               /\ \A m \in 0..Len(r) : SiblingsFrom(r, m) = w[m]
  BY SiblingsWalk
<1>3. PICK k : Ranked(ns, Ids(ns), k)
  BY DEF Arena, Ordered
<1>4. \A m \in Ids(ns) : /\ ns[m].next # NULL => ns[m].next \in Ids(ns) /\ ns[ns[m].next].parent = ns[m].parent
                         /\ ns[m].first # NULL => ns[m].first \in Ids(ns) /\ ns[ns[m].first].parent = m
  BY DEF Arena, Linked, NextAgrees, FirstAgrees
<1>5. \A m \in Ids(ns) : ns[m].parent = n => m \in Ids(r) /\ r[m].next = ns[m].next
  BY DEF Keeps
<1> DEFINE Bad == {j \in Nat : \E m \in Ids(ns) : ns[m].parent = n /\ k[m] = j /\ w[m] # v[m]}
<1>6. Bad = {}
  <2> SUFFICES ASSUME Bad # {} PROVE FALSE
    OBVIOUS
  <2>1. PICK j \in Bad : \A i \in Bad : j <= i
    BY LeastElement
  <2>2. PICK m \in Ids(ns) : ns[m].parent = n /\ k[m] = j /\ w[m] # v[m]
    OBVIOUS
  <2> DEFINE x == ns[m].next
  <2>3. v[m] = <<m>> \o v[x] /\ w[m] = <<m>> \o w[x]
    BY <1>1, <1>2, <1>5, <2>2
  <2>4. x # NULL
    BY <1>1, <1>2, <2>2, <2>3
  <2>5. x \in Ids(ns) /\ ns[x].parent = n /\ k[x] \in Nat /\ k[x] < k[m]
    BY <1>3, <1>4, <2>2, <2>4 DEF Ranked
  <2>6. w[x] # v[x]
    BY <2>2, <2>3
  <2>7. k[x] \in Bad
    BY <2>5, <2>6
  <2> HIDE DEF Bad, x
  <2> QED
    BY <1>3, <2>1, <2>2, <2>5, <2>7 DEF Ranked
<1>7. \A m \in Ids(ns) : ns[m].parent = n => w[m] = v[m]
  BY <1>3, <1>6 DEF Ranked
<1> HIDE DEF Bad
<1> DEFINE first == ns[n].first
<1>8. r[n].first = first /\ n \in Ids(ns)
  BY DEF Keeps
<1>9. first = NULL \/ (first \in Ids(ns) /\ ns[first].parent = n)
  BY <1>4, <1>8
<1>10. w[first] = v[first]
  BY <1>1, <1>2, <1>7, <1>9
<1>11. first \in 0..Len(ns) /\ first \in 0..Len(r)
  BY <1>5, <1>9 DEF Arena, Ids, NULL
<1> HIDE DEF first
<1> QED
  BY <1>1, <1>2, <1>8, <1>10, <1>11 DEF Children, first

-----------------------------------------------------------------------------
(***************************************************************************)
(* Links and text are apart: an edit of the links is the same whatever the *)
(* text of the nodes, and a change of text leaves the links alone.         *)
(***************************************************************************)
\* The array with the text of node n replaced.
WithText(ns, n, v) == [ns EXCEPT ![n].text = v]

\* The array with one link of node k written.
SetParent(ns, k, u) == [ns EXCEPT ![k].parent = u]

SetPrev(ns, k, u)   == [ns EXCEPT ![k].prev = u]
SetNext(ns, k, u)   == [ns EXCEPT ![k].next = u]
SetFirst(ns, k, u)  == [ns EXCEPT ![k].first = u]
SetLast(ns, k, u)   == [ns EXCEPT ![k].last = u]

\* Writing a link into an array of nodes leaves one.
LEMMA LinkWritten ==
  ASSUME NEW ns \in Seq(Node), NEW k \in Ids(ns), NEW u \in Nat
  PROVE  /\ SetParent(ns, k, u) \in Seq(Node) /\ Ids(SetParent(ns, k, u)) = Ids(ns)
         /\ SetPrev(ns, k, u) \in Seq(Node) /\ Ids(SetPrev(ns, k, u)) = Ids(ns)
         /\ SetNext(ns, k, u) \in Seq(Node) /\ Ids(SetNext(ns, k, u)) = Ids(ns)
         /\ SetFirst(ns, k, u) \in Seq(Node) /\ Ids(SetFirst(ns, k, u)) = Ids(ns)
         /\ SetLast(ns, k, u) \in Seq(Node) /\ Ids(SetLast(ns, k, u)) = Ids(ns)
<1> DEFINE I == Ids(ns)
<1>1. ns \in [I -> Node]
  BY IdsOf
<1>2. \A r \in [I -> Node] : r \in Seq(Node) /\ Ids(r) = I
  BY ArrayOf
<1> HIDE DEF I
<1>3. k \in I
  BY DEF I
<1>4. \A m \in Node :
        /\ [m EXCEPT !.parent = u] \in Node /\ [m EXCEPT !.prev = u] \in Node
        /\ [m EXCEPT !.next = u] \in Node /\ [m EXCEPT !.first = u] \in Node
        /\ [m EXCEPT !.last = u] \in Node
  BY DEF Node
<1>5. /\ SetParent(ns, k, u) \in [I -> Node] /\ SetPrev(ns, k, u) \in [I -> Node]
      /\ SetNext(ns, k, u) \in [I -> Node] /\ SetFirst(ns, k, u) \in [I -> Node]
      /\ SetLast(ns, k, u) \in [I -> Node]
  BY <1>1, <1>3, <1>4 DEF SetParent, SetPrev, SetNext, SetFirst, SetLast
<1> QED
  BY <1>2, <1>5 DEF I

\* Writing a link and writing a text commute.
LEMMA LinkAndText ==
  ASSUME NEW ns \in Seq(Node), NEW n \in Ids(ns), NEW v \in Seq(Strings), NEW k \in Ids(ns), NEW u \in Nat
  PROVE  /\ SetParent(WithText(ns, n, v), k, u) = WithText(SetParent(ns, k, u), n, v)
         /\ SetPrev(WithText(ns, n, v), k, u) = WithText(SetPrev(ns, k, u), n, v)
         /\ SetNext(WithText(ns, n, v), k, u) = WithText(SetNext(ns, k, u), n, v)
         /\ SetFirst(WithText(ns, n, v), k, u) = WithText(SetFirst(ns, k, u), n, v)
         /\ SetLast(WithText(ns, n, v), k, u) = WithText(SetLast(ns, k, u), n, v)
<1> DEFINE I == Ids(ns)
<1>1. ns \in [I -> Node]
  BY IdsOf
<1> HIDE DEF I
<1>2. n \in I /\ k \in I
  BY DEF I
<1>3. \A m \in Node :
        /\ [m EXCEPT !.text = v] \in Node
        /\ [m EXCEPT !.parent = u] \in Node /\ [m EXCEPT !.prev = u] \in Node
        /\ [m EXCEPT !.next = u] \in Node /\ [m EXCEPT !.first = u] \in Node
        /\ [m EXCEPT !.last = u] \in Node
        /\ [[m EXCEPT !.text = v] EXCEPT !.parent = u] = [[m EXCEPT !.parent = u] EXCEPT !.text = v]
        /\ [[m EXCEPT !.text = v] EXCEPT !.prev = u] = [[m EXCEPT !.prev = u] EXCEPT !.text = v]
        /\ [[m EXCEPT !.text = v] EXCEPT !.next = u] = [[m EXCEPT !.next = u] EXCEPT !.text = v]
        /\ [[m EXCEPT !.text = v] EXCEPT !.first = u] = [[m EXCEPT !.first = u] EXCEPT !.text = v]
        /\ [[m EXCEPT !.text = v] EXCEPT !.last = u] = [[m EXCEPT !.last = u] EXCEPT !.text = v]
  BY DEF Node
<1>4. SetParent(WithText(ns, n, v), k, u) = WithText(SetParent(ns, k, u), n, v)
  BY <1>1, <1>2, <1>3 DEF WithText, SetParent
<1>5. SetPrev(WithText(ns, n, v), k, u) = WithText(SetPrev(ns, k, u), n, v)
  BY <1>1, <1>2, <1>3 DEF WithText, SetPrev
<1>6. SetNext(WithText(ns, n, v), k, u) = WithText(SetNext(ns, k, u), n, v)
  BY <1>1, <1>2, <1>3 DEF WithText, SetNext
<1>7. SetFirst(WithText(ns, n, v), k, u) = WithText(SetFirst(ns, k, u), n, v)
  BY <1>1, <1>2, <1>3 DEF WithText, SetFirst
<1>8. SetLast(WithText(ns, n, v), k, u) = WithText(SetLast(ns, k, u), n, v)
  BY <1>1, <1>2, <1>3 DEF WithText, SetLast
<1> QED
  BY <1>4, <1>5, <1>6, <1>7, <1>8

\* w is the array a but for the text of node n.
TextApart(w, a, N, n, v) == a \in Seq(Node) /\ Ids(a) = N /\ w = WithText(a, n, v)

\* It stays that when one link is written into both.
LEMMA LinkApart ==
  ASSUME NEW a, NEW N, NEW n \in N, NEW v \in Seq(Strings), NEW w, TextApart(w, a, N, n, v),
         NEW k \in N, NEW u \in Nat
  PROVE  /\ TextApart(SetParent(w, k, u), SetParent(a, k, u), N, n, v)
         /\ TextApart(SetPrev(w, k, u), SetPrev(a, k, u), N, n, v)
         /\ TextApart(SetNext(w, k, u), SetNext(a, k, u), N, n, v)
         /\ TextApart(SetFirst(w, k, u), SetFirst(a, k, u), N, n, v)
         /\ TextApart(SetLast(w, k, u), SetLast(a, k, u), N, n, v)
<1>1. /\ SetParent(a, k, u) \in Seq(Node) /\ Ids(SetParent(a, k, u)) = N
      /\ SetPrev(a, k, u) \in Seq(Node) /\ Ids(SetPrev(a, k, u)) = N
      /\ SetNext(a, k, u) \in Seq(Node) /\ Ids(SetNext(a, k, u)) = N
      /\ SetFirst(a, k, u) \in Seq(Node) /\ Ids(SetFirst(a, k, u)) = N
      /\ SetLast(a, k, u) \in Seq(Node) /\ Ids(SetLast(a, k, u)) = N
  BY LinkWritten DEF TextApart
<1>2. /\ SetParent(w, k, u) = WithText(SetParent(a, k, u), n, v)
      /\ SetPrev(w, k, u) = WithText(SetPrev(a, k, u), n, v)
      /\ SetNext(w, k, u) = WithText(SetNext(a, k, u), n, v)
      /\ SetFirst(w, k, u) = WithText(SetFirst(a, k, u), n, v)
      /\ SetLast(w, k, u) = WithText(SetLast(a, k, u), n, v)
  BY LinkAndText DEF TextApart
<1> QED
  BY <1>1, <1>2 DEF TextApart

\* Writing a text changes nothing else.
LEMMA TextWritten ==
  ASSUME NEW ns \in Seq(Node), NEW n \in Ids(ns), NEW v \in Seq(Strings), NEW r, r = WithText(ns, n, v)
  PROVE  /\ r \in Seq(Node) /\ Len(r) = Len(ns) /\ Ids(r) = Ids(ns) /\ r[n].text = v
         /\ \A k \in Ids(ns) :
              /\ SameLinks(r[k], ns[k]) /\ r[k].depth = ns[k].depth
              /\ k # n => r[k].text = ns[k].text
<1> DEFINE I == Ids(ns)
<1>1. ns \in [I -> Node]
  BY IdsOf
<1> HIDE DEF I
<1>2. n \in I
  BY DEF I
<1>3. \A m \in Node :
        /\ [m EXCEPT !.text = v] \in Node /\ [m EXCEPT !.text = v].text = v
        /\ SameLinks([m EXCEPT !.text = v], m) /\ [m EXCEPT !.text = v].depth = m.depth
  BY DEF Node, SameLinks
<1>4. /\ r \in [I -> Node] /\ r[n] = [ns[n] EXCEPT !.text = v]
      /\ \A k \in I : k # n => r[k] = ns[k]
  BY <1>1, <1>2, <1>3 DEF WithText
<1>5. \A k \in I : /\ SameLinks(r[k], ns[k]) /\ r[k].depth = ns[k].depth
                   /\ k # n => r[k].text = ns[k].text
  <2>1. ASSUME NEW k \in I PROVE SameLinks(r[k], ns[k]) /\ r[k].depth = ns[k].depth
    <3>1. ns[k] \in Node /\ (k = n => r[k] = [ns[k] EXCEPT !.text = v]) /\ (k # n => r[k] = ns[k])
      BY <1>1, <1>4
    <3>2. SameLinks(ns[k], ns[k])
      BY DEF SameLinks
    <3> QED
      BY <1>3, <3>1, <3>2
  <2>2. \A k \in I : k # n => r[k].text = ns[k].text
    BY <1>4
  <2> QED
    BY <2>1, <2>2
<1>6. r \in Seq(Node) /\ Len(r) = Len(ns) /\ Ids(r) = Ids(ns)
  BY <1>4, ArrayOf DEF I
<1>7. r[n].text = v
  BY <1>1, <1>2, <1>3, <1>4
<1> QED
  BY <1>5, <1>6, <1>7 DEF I

\* Linking a node as the last child does not depend on any text.
LEMMA AppendsWithText ==
  ASSUME NEW ns \in Seq(Node), NEW n \in Ids(ns), NEW v \in Seq(Strings), NEW p \in Ids(ns),
         NEW x \in Ids(ns), ns[p].last \in Ids(ns) \cup {NULL}
  PROVE  AppendSubtree(WithText(ns, n, v), p, x) = WithText(AppendSubtree(ns, p, x), n, v)
<1> DEFINE last == ns[p].last
           w == WithText(ns, n, v)
           a1 == SetParent(ns, x, p)
           a2 == SetPrev(a1, x, last)
           a3 == SetLast(a2, p, x)
           b1 == SetParent(w, x, p)
           b2 == SetPrev(b1, x, last)
           b3 == SetLast(b2, p, x)
<1>0. TextApart(w, ns, Ids(ns), n, v)
  BY DEF TextApart
<1>1. w[p].last = last
  BY TextWritten DEF SameLinks
<1>2. last \in Nat /\ p \in Nat /\ x \in Nat
  BY DEF Ids, NULL
<1>3. AppendSubtree(ns, p, x) = IF last = NULL THEN SetFirst(a3, p, x) ELSE SetNext(a3, last, x)
  BY DEF AppendSubtree, SetParent, SetPrev, SetLast, SetFirst, SetNext
<1> HIDE DEF w
<1>4. AppendSubtree(w, p, x) = IF last = NULL THEN SetFirst(b3, p, x) ELSE SetNext(b3, last, x)
  BY <1>1 DEF AppendSubtree, SetParent, SetPrev, SetLast, SetFirst, SetNext
<1> HIDE DEF last, a1, a2, a3, b1, b2, b3
<1>5. TextApart(b1, a1, Ids(ns), n, v)
  BY <1>2, <1>0, LinkApart DEF a1, b1
<1>6. TextApart(b2, a2, Ids(ns), n, v)
  BY <1>2, <1>5, LinkApart DEF a2, b2
<1>7. TextApart(b3, a3, Ids(ns), n, v)
  BY <1>2, <1>6, LinkApart DEF a3, b3
<1>8. CASE last = NULL
  BY <1>2, <1>3, <1>4, <1>7, <1>8, LinkApart DEF w, TextApart
<1>9. CASE last # NULL
  <2>1. last \in Ids(ns)
    BY <1>9 DEF last
  <2> QED
    BY <1>2, <1>3, <1>4, <1>7, <1>9, <2>1, LinkApart DEF w, TextApart
<1> QED
  BY <1>8, <1>9

\* Nor does linking it before a sibling.
LEMMA InsertsWithText ==
  ASSUME NEW ns \in Seq(Node), NEW n \in Ids(ns), NEW v \in Seq(Strings), NEW p \in Ids(ns),
         NEW x \in Ids(ns), NEW ref \in Ids(ns), ns[ref].prev \in Ids(ns) \cup {NULL}
  PROVE  InsertSubtreeBefore(WithText(ns, n, v), p, ref, x) = WithText(InsertSubtreeBefore(ns, p, ref, x), n, v)
<1> DEFINE before == ns[ref].prev
           w == WithText(ns, n, v)
           a1 == SetParent(ns, x, p)
           a2 == SetPrev(a1, x, before)
           a3 == SetNext(a2, x, ref)
           a4 == SetPrev(a3, ref, x)
           b1 == SetParent(w, x, p)
           b2 == SetPrev(b1, x, before)
           b3 == SetNext(b2, x, ref)
           b4 == SetPrev(b3, ref, x)
<1>0. TextApart(w, ns, Ids(ns), n, v)
  BY DEF TextApart
<1>1. w[ref].prev = before
  BY TextWritten DEF SameLinks
<1>2. before \in Nat /\ p \in Nat /\ x \in Nat /\ ref \in Nat
  BY DEF Ids, NULL
<1>3. InsertSubtreeBefore(ns, p, ref, x)
        = IF before = NULL THEN SetFirst(a4, p, x) ELSE SetNext(a4, before, x)
  BY DEF InsertSubtreeBefore, SetParent, SetPrev, SetLast, SetFirst, SetNext
<1> HIDE DEF w
<1>4. InsertSubtreeBefore(w, p, ref, x)
        = IF before = NULL THEN SetFirst(b4, p, x) ELSE SetNext(b4, before, x)
  BY <1>1 DEF InsertSubtreeBefore, SetParent, SetPrev, SetLast, SetFirst, SetNext
<1> HIDE DEF before, a1, a2, a3, a4, b1, b2, b3, b4
<1>5. TextApart(b1, a1, Ids(ns), n, v)
  BY <1>2, <1>0, LinkApart DEF a1, b1
<1>6. TextApart(b2, a2, Ids(ns), n, v)
  BY <1>2, <1>5, LinkApart DEF a2, b2
<1>7. TextApart(b3, a3, Ids(ns), n, v)
  BY <1>2, <1>6, LinkApart DEF a3, b3
<1>8. TextApart(b4, a4, Ids(ns), n, v)
  BY <1>2, <1>7, LinkApart DEF a4, b4
<1>9. CASE before = NULL
  BY <1>2, <1>3, <1>4, <1>8, <1>9, LinkApart DEF w, TextApart
<1>10. CASE before # NULL
  <2>1. before \in Ids(ns)
    BY <1>10 DEF before
  <2> QED
    BY <1>2, <1>3, <1>4, <1>8, <1>10, <2>1, LinkApart DEF w, TextApart
<1> QED
  BY <1>9, <1>10

\* The array with one more text node, for another text.
LEMMA AllocatesWithText ==
  ASSUME NEW ns, Arena(ns), NEW head \in Seq(Strings), NEW whole \in Seq(Strings), NEW depth \in Nat
  PROVE  Append(ns, BlankNode("text", "", "none", whole, depth))
           = WithText(Append(ns, BlankNode("text", "", "none", head, depth)), Len(ns) + 1, whole)
<1> DEFINE x == Len(ns) + 1
           y == Append(ns, BlankNode("text", "", "none", head, depth))
           z == Append(ns, BlankNode("text", "", "none", whole, depth))
<1>1. "text" \in NodeTypes /\ "" \in Strings /\ "none" \in Strings
  BY DEF NodeTypes, Strings
<1>2. /\ Allocated(y, ns, BlankNode("text", "", "none", head, depth))
      /\ Allocated(z, ns, BlankNode("text", "", "none", whole, depth))
  BY <1>1, Allocates
<1> HIDE DEF y, z, x
<1>4. y \in [Ids(y) -> Node] /\ z \in [Ids(y) -> Node] /\ x \in Ids(y)
  <2>1. Ids(z) = Ids(y) /\ Arena(y) /\ Arena(z) /\ x \in Ids(y)
    BY <1>2 DEF Allocated, x
  <2> QED
    BY <2>1, ArenaNodes
<1>3. z[x] = [y[x] EXCEPT !.text = whole]
  <2>1. y[x] \in Node /\ z[x] \in Node
    BY <1>4
  <2>2. /\ y[x] = BlankNode("text", "", "none", head, depth)
        /\ z[x] = BlankNode("text", "", "none", whole, depth)
    BY <1>2 DEF Allocated, x
  <2> DEFINE m == BlankNode("text", "", "none", head, depth)
             w == BlankNode("text", "", "none", whole, depth)
  <2>3. /\ w.type = m.type /\ w.name = m.name /\ w.attrs = m.attrs
        /\ w.text = whole /\ w.depth = m.depth /\ w.index = m.index
        /\ w.parent = m.parent /\ w.prev = m.prev /\ w.next = m.next
        /\ w.first = m.first /\ w.last = m.last
    BY DEF BlankNode
  <2> HIDE DEF m, w
  <2>4. m \in Node /\ w \in Node
    BY <2>1, <2>2 DEF m, w
  <2>5. w = [m EXCEPT !.text = whole]
    BY <2>3, <2>4 DEF Node
  <2> QED
    BY <2>2, <2>5 DEF m, w
<1>5. \A k \in Ids(y) : k # x => z[k] = y[k]
  BY <1>2 DEF Allocated, x
<1>6. z = [y EXCEPT ![x].text = whole]
  BY <1>3, <1>4, <1>5
<1> QED
  BY <1>6 DEF WithText, x, y, z

-----------------------------------------------------------------------------
(***************************************************************************)
(* What is left of a sequence from a position on.                          *)
(***************************************************************************)
\* A suffix, entry by entry.
LEMMA SuffixEntries ==
  ASSUME NEW S, NEW x \in Seq(S), NEW d \in 0..Len(x), NEW y, y = SubSeq(x, d + 1, Len(x))
  PROVE  y \in Seq(S) /\ Len(y) = Len(x) - d /\ \A i \in 1..Len(x) - d : y[i] = x[d + i]
<1>1. d \in Nat /\ Len(x) \in Nat /\ \A i \in 1..Len(x) : x[i] \in S
  OBVIOUS
<1>2. \A i \in d + 1 .. Len(x) : x[i] \in S
  BY <1>1
<1>3. /\ y \in Seq(S) /\ Len(y) = IF d + 1 <= Len(x) THEN Len(x) - (d + 1) + 1 ELSE 0
      /\ \A i \in 1..Len(x) - (d + 1) + 1 : y[i] = x[d + 1 + i - 1]
  BY <1>1, <1>2, SubSeqProperties
<1>4. Len(y) = Len(x) - d
  BY <1>1, <1>3
<1>5. ASSUME NEW i \in 1..Len(x) - d PROVE y[i] = x[d + i]
  <2>1. i \in 1..Len(x) - (d + 1) + 1 /\ d + 1 + i - 1 = d + i
    BY <1>1
  <2> QED
    BY <1>3, <2>1
<1> QED
  BY <1>3, <1>4, <1>5

\* What is dropped from the front of a text is dropped from its first piece, if that is
\* long enough.
LEMMA SuffixInTwo ==
  ASSUME NEW S, NEW head \in Seq(S), NEW tail \in Seq(S), NEW d \in 0..Len(head)
  PROVE  SubSeq(head \o tail, d + 1, Len(head \o tail)) = SubSeq(head, d + 1, Len(head)) \o tail
<1> DEFINE whole == head \o tail
           x == SubSeq(whole, d + 1, Len(whole))
           y == SubSeq(head, d + 1, Len(head))
<1>1. /\ whole \in Seq(S) /\ Len(whole) = Len(head) + Len(tail) /\ Len(head) \in Nat /\ Len(tail) \in Nat
      /\ \A i \in 1..Len(head) + Len(tail) : whole[i] = IF i <= Len(head) THEN head[i] ELSE tail[i - Len(head)]
  BY ConcatProperties
<1> HIDE DEF whole
<1>2. x \in Seq(S) /\ Len(x) = Len(whole) - d /\ \A i \in 1..Len(whole) - d : x[i] = whole[d + i]
  <2>1. d \in 0..Len(whole)
    BY <1>1
  <2> QED
    BY <1>1, <2>1, SuffixEntries
<1>3. y \in Seq(S) /\ Len(y) = Len(head) - d /\ \A i \in 1..Len(head) - d : y[i] = head[d + i]
  BY SuffixEntries
<1> HIDE DEF x, y
<1>4. /\ y \o tail \in Seq(S) /\ Len(y \o tail) = Len(y) + Len(tail)
      /\ \A i \in 1..Len(y) + Len(tail) : (y \o tail)[i] = IF i <= Len(y) THEN y[i] ELSE tail[i - Len(y)]
  BY <1>3, ConcatProperties
<1>5. Len(x) = Len(y \o tail)
  BY <1>1, <1>2, <1>3, <1>4
<1>6. ASSUME NEW i \in 1..Len(x) PROVE x[i] = (y \o tail)[i]
  <2>1. i \in 1..Len(whole) - d /\ d + i \in 1..Len(head) + Len(tail) /\ i \in 1..Len(y) + Len(tail)
    BY <1>1, <1>2, <1>3
  <2>2. x[i] = whole[d + i]
    BY <1>2, <2>1
  <2>3. CASE i <= Len(y)
    <3>1. i \in 1..Len(head) - d /\ d + i <= Len(head)
      BY <1>1, <1>3, <2>1, <2>3
    <3> QED
      BY <1>1, <1>3, <1>4, <2>1, <2>2, <2>3, <3>1
  <2>4. CASE ~ (i <= Len(y))
    <3>1. ~ (d + i <= Len(head)) /\ d + i - Len(head) = i - Len(y)
      BY <1>1, <1>3, <2>1, <2>4
    <3>2. whole[d + i] = tail[d + i - Len(head)]
      BY <1>1, <2>1, <3>1
    <3>3. (y \o tail)[i] = tail[i - Len(y)]
      BY <1>4, <2>1, <2>4
    <3> QED
      BY <2>2, <3>1, <3>2, <3>3
  <2> QED
    BY <2>3, <2>4
<1>7. x = y \o tail
  BY <1>2, <1>4, <1>5, <1>6, SeqEqual
<1> QED
  BY <1>7 DEF x, y, whole

\* More than the first piece may be dropped.
LEMMA SuffixAcross ==
  ASSUME NEW S, NEW head \in Seq(S), NEW tail \in Seq(S), NEW e \in 0..Len(tail)
  PROVE  SubSeq(head \o tail, Len(head) + e + 1, Len(head \o tail)) = SubSeq(tail, e + 1, Len(tail))
<1> DEFINE x == head \o tail
           f == Len(head) + e
           y == SubSeq(x, f + 1, Len(x))
           z == SubSeq(tail, e + 1, Len(tail))
<1>1. /\ x \in Seq(S) /\ Len(x) = Len(head) + Len(tail) /\ Len(head) \in Nat /\ Len(tail) \in Nat
      /\ \A i \in 1..Len(head) + Len(tail) : x[i] = IF i <= Len(head) THEN head[i] ELSE tail[i - Len(head)]
  BY ConcatProperties
<1> HIDE DEF x
<1>2. f \in 0..Len(x) /\ e \in Nat /\ f \in Nat
  BY <1>1
<1>3. z \in Seq(S) /\ Len(z) = Len(tail) - e /\ \A i \in 1..Len(tail) - e : z[i] = tail[e + i]
  BY SuffixEntries
<1> HIDE DEF f, z
<1>4. y \in Seq(S) /\ Len(y) = Len(x) - f /\ \A i \in 1..Len(x) - f : y[i] = x[f + i]
  BY <1>1, <1>2, SuffixEntries
<1> HIDE DEF y
<1>5. f = Len(head) + e /\ Len(y) = Len(z)
  BY <1>1, <1>2, <1>3, <1>4 DEF f
<1>6. ASSUME NEW i \in 1..Len(y) PROVE y[i] = z[i]
  <2> DEFINE k == f + i
  <2>1. i \in Nat /\ i \in 1..Len(x) - f /\ i \in 1..Len(tail) - e
    BY <1>3, <1>4, <1>5
  <2>2. y[i] = x[k] /\ z[i] = tail[e + i]
    BY <1>3, <1>4, <2>1
  <2>3. k \in 1..Len(head) + Len(tail) /\ ~ (k <= Len(head)) /\ k - Len(head) = e + i
    BY <1>1, <1>2, <1>5, <2>1
  <2> HIDE DEF k
  <2>4. x[k] = tail[k - Len(head)]
    BY <1>1, <2>3
  <2> QED
    BY <2>2, <2>3, <2>4
<1>7. y = z
  BY <1>3, <1>4, <1>5, <1>6, SeqEqual
<1> QED
  BY <1>7 DEF x, y, z, f

\* A text is a prefix and the suffix after it.
LEMMA Parted ==
  ASSUME NEW S, NEW x \in Seq(S), NEW d \in 0..Len(x)
  PROVE  SubSeq(x, 1, d) \in Seq(S) /\ SubSeq(x, 1, d) \o SubSeq(x, d + 1, Len(x)) = x
<1> DEFINE y == SubSeq(x, 1, d)
           z == SubSeq(x, d + 1, Len(x))
<1>1. d \in Nat /\ Len(x) \in Nat /\ d <= Len(x)
  OBVIOUS
<1>2. y \in Seq(S) /\ Len(y) = d /\ \A i \in 1..d : y[i] = x[i]
  <2>1. \A i \in 1..d : x[i] \in S
    BY <1>1
  <2>2. /\ y \in Seq(S) /\ Len(y) = IF 1 <= d THEN d - 1 + 1 ELSE 0
        /\ \A i \in 1..d - 1 + 1 : y[i] = x[1 + i - 1]
    BY <1>1, <2>1, SubSeqProperties
  <2>3. Len(y) = d
    BY <1>1, <2>2
  <2>4. ASSUME NEW i \in 1..d PROVE y[i] = x[i]
    <3>1. i \in 1..d - 1 + 1 /\ 1 + i - 1 = i
      BY <1>1
    <3> QED
      BY <2>2, <3>1
  <2> QED
    BY <2>2, <2>3, <2>4
<1>3. z \in Seq(S) /\ Len(z) = Len(x) - d /\ \A i \in 1..Len(x) - d : z[i] = x[d + i]
  BY SuffixEntries
<1> HIDE DEF y, z
<1>4. /\ y \o z \in Seq(S) /\ Len(y \o z) = Len(y) + Len(z)
      /\ \A i \in 1..Len(y) + Len(z) : (y \o z)[i] = IF i <= Len(y) THEN y[i] ELSE z[i - Len(y)]
  BY <1>2, <1>3, ConcatProperties
<1>5. Len(y \o z) = Len(x)
  BY <1>1, <1>2, <1>3, <1>4
<1>6. ASSUME NEW i \in 1..Len(y \o z) PROVE (y \o z)[i] = x[i]
  <2>1. i \in 1..Len(y) + Len(z) /\ i \in Nat
    BY <1>4
  <2>2. CASE i <= d
    BY <1>2, <1>4, <2>1, <2>2
  <2>3. CASE ~ (i <= d)
    <3>1. i - d \in 1..Len(x) - d /\ d + (i - d) = i
      BY <1>1, <1>2, <1>3, <2>1, <2>3
    <3>2. z[i - d] = x[i]
      BY <1>3, <3>1
    <3> QED
      BY <1>2, <1>4, <2>1, <2>3, <3>2
  <2> QED
    BY <2>2, <2>3
<1>7. y \o z = x
  BY <1>4, <1>5, <1>6, SeqEqual
<1> QED
  BY <1>2, <1>7 DEF y, z

\* The whole of a text.
LEMMA WholeSuffix ==
  ASSUME NEW S, NEW x \in Seq(S) PROVE SubSeq(x, 1, Len(x)) = x
<1> DEFINE y == SubSeq(x, 1, Len(x))
<1>1. 0 \in 0..Len(x)
  OBVIOUS
<1>2. y \in Seq(S) /\ Len(y) = Len(x) - 0 /\ \A i \in 1..Len(x) - 0 : y[i] = x[0 + i]
  BY <1>1, SuffixEntries
<1> HIDE DEF y
<1>3. Len(y) = Len(x) /\ \A i \in 1..Len(y) : y[i] = x[i]
  BY <1>2
<1>4. y = x
  BY <1>2, <1>3, SeqEqual
<1> QED
  BY <1>4 DEF y

=============================================================================
