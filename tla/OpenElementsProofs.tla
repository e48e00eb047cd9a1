------------------------- MODULE OpenElementsProofs -------------------------
(***************************************************************************)
(* Proofs about OpenElements.  The inductive invariant is StackOK of the   *)
(* stack (its type, its root, and the two caches) with the same            *)
(* classification of the entries waiting to be reopened and the nesting    *)
(* bound; every closing operation preserves StackOK because it is a        *)
(* truncation, and the adoption agency because it recomputes the caches.   *)
(***************************************************************************)
EXTENDS OpenElements, TreeLemmas

\* The component's entries are entries of a stack.
LEMMA EntriesOK == EntrySet(Entry)
BY DEF EntrySet, Entry

-----------------------------------------------------------------------------
IInv ==
  /\ StackOK(open, Entry)
  /\ reopen \in Seq(Entry)
  /\ \A i \in 1..Len(reopen) : Classified(reopen[i])
  /\ DepthBound

\* The stack of the root alone.
LEMMA InitIInv == Init => IInv
<1> SUFFICES ASSUME Init PROVE IInv
  OBVIOUS
<1> DEFINE s == <<RootEntry>>
<1>1. RootEntry \in Entry /\ RootEntry.kind = "Root" /\ RootEntry.mode = "InBody"
  BY DEF RootEntry, Entry, Kinds, Modes
<1>2. s \in Seq(Entry) /\ Len(s) = 1 /\ s[1] = RootEntry
  BY <1>1
<1>3. open.stack = s /\ open.mode = "InBody"
      /\ open.counts = [kind \in Kinds |-> IF kind = "Root" THEN 1 ELSE 0]
  BY DEF Init
<1>4. open \in OpenType
  BY <1>2 DEF Init, OpenType, StackType, Modes
<1>5. Rooted(s)
  BY <1>1, <1>2 DEF Rooted
<1>6. IsModeAt(s, 1, "InBody")
  BY <1>1, <1>2 DEF IsModeAt, ModeKinds
<1>7. ASSUME NEW kind \in Kinds PROVE open.counts[kind] = Cardinality(EntriesOfKind(s, kind))
  <2>1. CASE kind = "Root"
    <3>1. EntriesOfKind(s, kind) = {1}
      BY <1>1, <1>2, <2>1 DEF EntriesOfKind
    <3> QED
      BY <1>3, <2>1, <3>1, FS_Singleton
  <2>2. CASE kind # "Root"
    <3>1. EntriesOfKind(s, kind) = {}
      BY <1>1, <1>2, <2>2 DEF EntriesOfKind
    <3> QED
      BY <1>3, <2>2, <3>1, FS_EmptySet
  <2> QED
    BY <2>1, <2>2
<1>8. CachesAgree(open)
  BY <1>1, <1>2, <1>3, <1>6, <1>7 DEF CachesAgree, Top
<1>9. reopen \in Seq(Entry) /\ Len(reopen) = 0
  BY DEF Init
<1> QED
  BY <1>2, <1>3, <1>4, <1>5, <1>8, <1>9, MaxDepthAssumption
  DEF IInv, StackOK, StackType, OpenType, DepthBound

\* A handler that only closes elements keeps the invariant.
LEMMA ClosingKeepsIInv ==
  ASSUME IInv, StackOK(open', Entry), Len(open'.stack) <= Len(open.stack), UNCHANGED reopen
  PROVE  IInv'
<1>1. Len(open.stack) \in Nat /\ Len(open'.stack) \in Nat /\ Len(reopen) \in Nat
  BY DEF IInv, StackOK, OpenType, StackType
<1>2. Len(open'.stack) + Len(reopen) <= Len(open.stack) + Len(reopen)
  BY <1>1
<1>3. Len(open'.stack) + Len(reopen) <= MaxDepth + 1
  BY <1>1, <1>2, MaxDepthAssumption DEF IInv, DepthBound
<1> QED
  BY <1>3 DEF IInv, DepthBound, StackOK, OpenType, StackType, Rooted, CachesAgree, Top

\* A push within the limit.
LEMMA InsertKeepsIInv ==
  ASSUME IInv, NEW name \in Names, InsertElement(name)
  PROVE  IInv'
<1> DEFINE entry == NewEntry(name)
<1>1. entry \in Entry /\ Classified(entry)
  BY ClassifyKind DEF NewEntry, Entry, Classified, Modes
<1>2. StackOK(open, Entry) /\ open' = PushEntry(open, entry) /\ reopen' = reopen /\ reopen = <<>>
  BY DEF IInv, InsertElement, Idle
<1> HIDE DEF entry
<1>3. StackOK(open', Entry) /\ Len(open'.stack) = Len(open.stack) + 1
  BY <1>1, <1>2, EntriesOK, PushOK
<1>4. Len(open.stack) \in Nat /\ Len(open.stack) <= MaxDepth /\ Len(reopen) = 0
  BY <1>2 DEF InsertElement, StackOK, OpenType, StackType
<1>5. Len(open'.stack) + Len(reopen') <= MaxDepth + 1
  BY <1>2, <1>3, <1>4, MaxDepthAssumption
<1> QED
  BY <1>2, <1>3, <1>5 DEF IInv, DepthBound, StackOK, OpenType, StackType, Rooted, CachesAgree, Top

\* What is truncated waits to be reopened: the bound counts both.
LEMMA CloseFormattingKeepsIInv ==
  ASSUME IInv, NEW name \in Names, CloseFormatting(name)
  PROVE  IInv'
<1> DEFINE f == FindNamedInScope(open, name, "Standard")
           s == open.stack
           n == Len(s)
<1>1. StackOK(open, Entry) /\ s \in Seq(Entry) /\ n \in Nat /\ f > 1 /\ reopen = <<>>
  BY DEF IInv, CloseFormatting, Idle, StackOK, OpenType, StackType
<1>2. f \in 0..n
  BY <1>1, EntriesOK, FindNamedInScopeRange
<1>3. open' = CloseFrom(open, f) /\ reopen' = SubSeq(s, f + 1, n)
  BY DEF CloseFormatting
<1> HIDE DEF f
<1>4. open' = TruncateStack(open, f - 1)
  BY <1>1, <1>3 DEF CloseFrom
<1>5. StackOK(open', Entry) /\ Len(open'.stack) = f - 1
  <2>1. f - 1 \in Int /\ f - 1 \in 1..Len(open.stack)
    BY <1>1, <1>2
  <2> QED
    BY <1>1, <1>4, <2>1, EntriesOK, TruncateOK
<1>6. /\ reopen' \in Seq(Entry)
      /\ Len(reopen') = n - f
      /\ \A i \in 1..Len(reopen') : Classified(reopen'[i])
  <2> DEFINE high == SubSeq(s, f + 1, n)
  <2>1. high \in Seq(Entry) /\ Len(high) = n - f /\ \A i \in 1..n - f : high[i] = s[f + i]
    BY <1>1, <1>2
  <2>2. \A i \in 1..n - f : f + i \in 2..n
    BY <1>1, <1>2
  <2>3. \A i \in 2..n : Classified(s[i])
    BY <1>1 DEF StackOK, Rooted
  <2> HIDE DEF high, s, n
  <2>4. \A i \in 1..Len(high) : Classified(high[i])
    BY <2>1, <2>2, <2>3
  <2> QED
    BY <1>3, <2>1, <2>4 DEF high
<1>7. n + 0 <= MaxDepth + 1
  BY <1>1 DEF IInv, DepthBound
<1>8. Len(open'.stack) + Len(reopen') <= MaxDepth + 1
  BY <1>1, <1>2, <1>5, <1>6, <1>7, MaxDepthAssumption
<1> QED
  BY <1>5, <1>6, <1>8 DEF IInv, DepthBound, StackOK, OpenType, StackType, Rooted, CachesAgree, Top

\* One turn of the reopening loop pushes at most what it takes.
LEMMA ReopenKeepsIInv ==
  ASSUME IInv, ReopenNext
  PROVE  IInv'
<1> DEFINE entry == Head(reopen)
<1>1. StackOK(open, Entry) /\ reopen \in Seq(Entry) /\ reopen # <<>> /\ reopen' = Tail(reopen)
  BY DEF IInv, ReopenNext
<1>2. /\ entry \in Entry
      /\ Classified(entry)
      /\ reopen' \in Seq(Entry)
      /\ Len(reopen') = Len(reopen) - 1
      /\ Len(reopen) \in Nat
  <2>1. entry = reopen[1] /\ 1 \in 1..Len(reopen)
    BY <1>1
  <2> QED
    BY <1>1, <2>1 DEF IInv
<1>3. \A i \in 1..Len(reopen') : Classified(reopen'[i])
  <2> SUFFICES ASSUME NEW i \in 1..Len(reopen') PROVE Classified(reopen'[i])
    OBVIOUS
  <2>1. reopen'[i] = reopen[i + 1] /\ i + 1 \in 1..Len(reopen)
    BY <1>1, <1>2
  <2> QED
    BY <2>1 DEF IInv
<1>4. open' = PushEntry(open, entry) \/ open' = open
  BY DEF ReopenNext
<1> HIDE DEF entry
<1>5. StackOK(open', Entry) /\ Len(open'.stack) <= Len(open.stack) + 1
      /\ Len(open'.stack) \in Nat /\ Len(open.stack) \in Nat
  <2>1. CASE open' = PushEntry(open, entry)
    <3>1. StackOK(open', Entry) /\ Len(open'.stack) = Len(open.stack) + 1
      BY <1>1, <1>2, <2>1, EntriesOK, PushOK
    <3> QED
      BY <1>1, <3>1 DEF StackOK, OpenType, StackType
  <2>2. CASE open' = open
    BY <1>1, <2>2 DEF StackOK, OpenType, StackType
  <2> QED
    BY <1>4, <2>1, <2>2
<1>6. Len(open'.stack) + Len(reopen') <= MaxDepth + 1
  BY <1>2, <1>5, MaxDepthAssumption DEF IInv, DepthBound
<1> QED
  BY <1>2, <1>3, <1>5, <1>6 DEF IInv, DepthBound, StackOK, OpenType, StackType, Rooted, CachesAgree, Top

\* The adoption agency's stack has as many entries, or fewer.
LEMMA AdoptKeepsIInv ==
  ASSUME IInv, NEW name \in Names, AdoptFurthestBlock(name)
  PROVE  IInv'
<1> DEFINE s == open.stack
           n == Len(s)
           f == FindNamedInScope(open, name, "Standard")
           b == FurthestBlock(open, f)
           positions == ChainPositions(open, f, b)
           chain == [i \in 1..Len(positions) |-> s[positions[i]]]
<1>1. /\ StackOK(open, Entry) /\ s \in Seq(Entry) /\ n \in Nat /\ f > 1 /\ b # 0
      /\ \A i \in 2..n : Classified(s[i])
  BY DEF IInv, AdoptFurthestBlock, StackOK, StackType, Rooted
<1>2. f \in 0..n
  BY <1>1, EntriesOK, FindNamedInScopeRange
<1>3. open' = AdoptedStack(open, f, b, chain, s[b], s[f]) /\ reopen' = reopen
  BY DEF AdoptFurthestBlock
<1> HIDE DEF f
<1>4. b \in f + 1 .. n
  BY <1>1, <1>2, EntriesOK, FurthestBlockRange
<1> HIDE DEF b
<1>5. f \in Nat /\ f >= 2 /\ b \in Nat /\ f < b /\ b <= n
  BY <1>1, <1>2, <1>4
<1>6. Len(positions) \in Nat /\ Len(positions) <= b - f - 1 /\ \A i \in 1..Len(positions) : positions[i] \in 2..n
  <2> DEFINE P == {i \in f + 1 .. b - 1 : s[i].kind = "Formatting"}
  <2>1. P \subseteq 2..n
    BY <1>1, <1>5
  <2>2. positions \in Seq(P) /\ Len(positions) <= b - f - 1
    BY <1>5, ChainRange
  <2> HIDE DEF P, positions
  <2>3. Len(positions) \in Nat /\ \A i \in 1..Len(positions) : positions[i] \in P
    BY <2>2
  <2> QED
    BY <2>1, <2>2, <2>3
<1>7. chain \in Seq(Entry) /\ Len(chain) = Len(positions) /\ \A i \in 1..Len(chain) : Classified(chain[i])
  <2>1. \A i \in 2..n : s[i] \in Entry
    BY <1>1
  <2> HIDE DEF positions, s, n
  <2>2. chain \in [1..Len(positions) -> Entry]
    BY <1>6, <2>1
  <2>3. \A i \in 1..Len(positions) : Classified(chain[i])
    BY <1>1, <1>6
  <2>4. \A m \in Nat : \A c \in [1..m -> Entry] : c \in Seq(Entry) /\ Len(c) = m
    OBVIOUS
  <2>5. chain \in Seq(Entry) /\ Len(chain) = Len(positions)
    BY <1>6, <2>2, <2>4, Zenon
  <2> QED
    BY <2>3, <2>5, Zenon
<1>8. s[b] \in Entry /\ Classified(s[b]) /\ s[f] \in Entry /\ Classified(s[f])
  <2>1. b \in 2..n /\ f \in 2..n
    BY <1>1, <1>5
  <2> QED
    BY <1>1, <2>1
<1> HIDE DEF chain, positions
<1>9. StackOK(open', Entry) /\ Len(open'.stack) = f + Len(chain) + 1 + (n - b)
  <2>1. b <= Len(open.stack)
    BY <1>5
  <2> QED
    BY <1>1, <1>3, <1>5, <1>7, <1>8, <2>1, EntriesOK, AdoptOK DEF AdoptedOver
<1>10. Len(open'.stack) <= n
  <2> HIDE DEF n
  <2> QED
    BY <1>1, <1>5, <1>6, <1>7, <1>9
<1> QED
  BY <1>3, <1>9, <1>10, ClosingKeepsIInv

\* No call breaks the invariant.
LEMMA NextIInv == IInv /\ [Next]_vars => IInv'
<1> SUFFICES ASSUME IInv, [Next]_vars PROVE IInv'
  OBVIOUS
<1>1. StackOK(open, Entry)
  BY DEF IInv
<1>2. ASSUME NEW name \in Names, InsertElement(name) PROVE IInv'
  BY <1>2, InsertKeepsIInv
<1>3. CASE PopCurrent
  <2>1. Shrinks(open', open, Entry) /\ UNCHANGED reopen
    BY <1>1, <1>3, EntriesOK, PopShrinks DEF PopCurrent
  <2> QED
    BY <2>1, ClosingKeepsIInv DEF Shrinks
<1>4. ASSUME NEW kind \in Kinds, CloseKind(kind) PROVE IInv'
  <2>1. Shrinks(open', open, Entry) /\ UNCHANGED reopen
    BY <1>1, <1>4, EntriesOK, CloseLastKindShrinks, ClearBackToShrinks, PopIfCurrentShrinks,
       CloseListItemStartShrinks DEF CloseKind
  <2> QED
    BY <2>1, ClosingKeepsIInv DEF Shrinks
<1>5. ASSUME NEW kind \in Kinds, NEW scope \in Scopes, CloseKindInScope(kind, scope) PROVE IInv'
  <2>1. Shrinks(open', open, Entry) /\ UNCHANGED reopen
    BY <1>1, <1>5, EntriesOK, CloseInScopeShrinks DEF CloseKindInScope
  <2> QED
    BY <2>1, ClosingKeepsIInv DEF Shrinks
<1>6. ASSUME NEW name \in Names, CloseNamed(name) PROVE IInv'
  <2>1. Shrinks(open', open, Entry) /\ UNCHANGED reopen
    BY <1>1, <1>6, EntriesOK, CloseMatchingShrinks DEF CloseNamed
  <2> QED
    BY <2>1, ClosingKeepsIInv DEF Shrinks
<1>7. ASSUME NEW name \in Names, CloseFormatting(name) PROVE IInv'
  BY <1>7, CloseFormattingKeepsIInv
<1>8. CASE ReopenNext
  BY <1>8, ReopenKeepsIInv
<1>9. ASSUME NEW name \in Names, AdoptFurthestBlock(name) PROVE IInv'
  BY <1>9, AdoptKeepsIInv
<1>10. CASE UNCHANGED vars
  <2>1. Shrinks(open', open, Entry) /\ UNCHANGED reopen
    BY <1>1, <1>10, EntriesOK, UnchangedShrinks DEF vars
  <2> QED
    BY <2>1, ClosingKeepsIInv DEF Shrinks
<1> QED
  BY <1>2, <1>3, <1>4, <1>5, <1>6, <1>7, <1>8, <1>9, <1>10 DEF Next

\* The inductive invariant holds of every behaviour.
THEOREM Invariant == Spec => []IInv
<1>1. Init => IInv
  BY InitIInv
<1>2. IInv /\ [Next]_vars => IInv'
  BY NextIInv
<1> QED
  BY <1>1, <1>2, PTL DEF Spec

-----------------------------------------------------------------------------
\* The stack and its caches always have their type: no count goes below zero,
\* and the top entry a handler reads always exists.
THEOREM TypeCorrect == Spec => []TypeOK
<1>1. IInv => TypeOK
  BY DEF IInv, StackOK, StackType, OpenType, TypeOK
<1> QED
  BY <1>1, Invariant, PTL

\* The root is never popped, and no reopened or adopted entry changes kind.
THEOREM RootAlwaysAtBottom == Spec => []RootAtBottom
<1>1. IInv => RootAtBottom
  BY DEF IInv, StackOK, RootAtBottom
<1> QED
  BY <1>1, Invariant, PTL

\* For any set of names, nesting limit and Noah's Ark limit, the insertion mode
\* and the open-element counts that every handler of the tree builder decides
\* by are the ones the stack determines.
THEOREM CachesAlwaysExact == Spec => []CachesExact
<1>1. IInv => CachesExact
  BY DEF IInv, StackOK, CachesExact
<1> QED
  BY <1>1, Invariant, PTL

\* Reopening and the adoption agency never exceed the nesting limit, although
\* neither checks it.
THEOREM DepthAlwaysBounded == Spec => []DepthBound
<1>1. IInv => DepthBound
  BY DEF IInv
<1> QED
  BY <1>1, Invariant, PTL

\* A table-related mode is in force only inside an element it is named after.
THEOREM ModeAlwaysHasElement == Spec => []ModeHasElement
<1>1. ASSUME IInv PROVE ModeHasElement
  <2> SUFFICES ASSUME NEW kind \in ModeKinds, open.mode = ModeOf[kind]
               PROVE  KindIsOpen(open, kind)
    BY DEF ModeHasElement
  <2> DEFINE s == open.stack
             n == Len(s)
  <2>1. s \in Seq(Entry) /\ n \in Nat /\ n >= 1 /\ IsModeAt(s, n, open.mode)
    BY <1>1 DEF IInv, StackOK, OpenType, StackType, Rooted, CachesAgree, Top
  <2>2. open.mode # "InBody"
    BY ModeOfType
  <2>3. PICK i \in 1..n : s[i].kind \in ModeKinds /\ ModeOf[kind] = ModeOf[s[i].kind]
    BY <2>1, <2>2 DEF IsModeAt
  <2>4. s[i].kind = kind
    BY <2>3 DEF ModeOf, ModeKinds
  <2>5. i \in EntriesOfKind(s, kind) /\ kind \in Kinds
    BY <2>4 DEF EntriesOfKind, ModeKinds, Kinds
  <2>6. Cardinality(EntriesOfKind(s, kind)) # 0
    BY <2>1, <2>5, EntriesFinite, FS_EmptySet
  <2> QED
    BY <1>1, <2>5, <2>6 DEF KindIsOpen, IInv, StackOK, CachesAgree
<1> QED
  BY <1>1, Invariant, PTL

\* All of it together: whatever sequence of calls, what the handlers decide by is
\* what the stack says.
THEOREM StackCorrect == Spec => []StackSound
<1>1. TypeOK /\ RootAtBottom /\ CachesExact /\ DepthBound /\ ModeHasElement => StackSound
  BY DEF StackSound
<1> QED
  BY <1>1, TypeCorrect, RootAlwaysAtBottom, CachesAlwaysExact, DepthAlwaysBounded, ModeAlwaysHasElement, PTL
=============================================================================
