------------------------- MODULE AttributeSetProofs -------------------------
(***************************************************************************)
(* The attributes of an element for every tag, every fingerprint function  *)
(* and every size of the inline array.                                     *)
(*                                                                         *)
(* The inductive invariant says what the duplicate detector knows: the     *)
(* names it holds are those of the kept attributes, up to case, and the    *)
(* filter has the bits of all that are inline.  With it the look-up        *)
(* through filter, array or hash set answers as a search of the kept       *)
(* attributes would (LookupCorrect), so that every step is a step of       *)
(* AttributeList; that the first of a name wins follows there.             *)
(***************************************************************************)
EXTENDS AttributeSet, TLAPS

\* Fingerprints of names that are equal in lower case are equal.
LEMMA SameSeenIsFold ==
  ASSUME NEW m \in Names, NEW n \in Names
  PROVE  SameSeen(m, n) <=> Fold[m] = Fold[n]
BY FingerprintAssumption DEF SameSeen

\* Entry by entry, what a list with one attribute more is.
LEMMA AppendAttr ==
  ASSUME NEW S, NEW s \in Seq(S), NEW e \in S
  PROVE  /\ Append(s, e) \in Seq(S)
         /\ Len(Append(s, e)) = Len(s) + 1
         /\ \A i \in 1 .. Len(s) : Append(s, e)[i] = s[i]
         /\ Append(s, e)[Len(s) + 1] = e
OBVIOUS

\* The attribute that is looked at has the type of attributes.
LEMMA CurrentTyped ==
  ASSUME TypeOK, More
  PROVE  next \in 1 .. Len(attrs) /\ Current \in Attributes /\ Current.name \in Names
<1>1. next \in 1 .. Len(attrs)
  BY DEF TypeOK, More
<1>2. Current \in Attributes
  BY <1>1 DEF TypeOK, Current
<1> QED
  BY <1>1, <1>2 DEF Attributes

\* Keeping it leaves the list well-typed.
LEMMA KeptTyped ==
  ASSUME TypeOK
  PROVE  \A k \in 1 .. Len(kept) : kept[k] \in Attributes /\ kept[k].name \in Names
<1>1. \A k \in 1 .. Len(kept) : kept[k] \in Attributes
  BY DEF TypeOK
<1> QED
  BY <1>1 DEF Attributes

-----------------------------------------------------------------------------
(* Types. *)

\* Initially the types hold.
LEMMA TypeInit == Init => TypeOK
<1> SUFFICES ASSUME Init PROVE TypeOK
  OBVIOUS
<1>1. attrs \in Seq(Attributes)
  BY InputsAssumption DEF Init
<1>2. Len(attrs) \in Nat /\ next = 1 /\ finished = FALSE /\ store = "inline"
  BY <1>1 DEF Init
<1>3. kept \in Seq(Attributes) /\ inline \in Seq(Names) /\ Len(inline) = 0 /\ heap = {}
  BY DEF Init
<1>4. next \in Nat \ {0} /\ next <= Len(attrs) + 1
  BY <1>2
<1>5. Len(inline) <= InlineLimit /\ heap \subseteq Names
  BY <1>3, LimitAssumption
<1>6. finished \in BOOLEAN /\ store \in {"inline", "heap"}
  BY <1>2
<1> QED
  BY <1>1, <1>3, <1>4, <1>5, <1>6, Zenon DEF TypeOK

\* Every step keeps the types.
LEMMA TypeStep ==
  ASSUME TypeOK, [Next]_vars
  PROVE  TypeOK'
<1>1. CASE SkipDuplicate
  BY <1>1, CurrentTyped DEF SkipDuplicate, TypeOK
<1>2. CASE Accept
  <2>1. /\ kept' \in Seq(Attributes) /\ next' = next + 1
        /\ UNCHANGED <<attrs, finished>>
        /\ next \in 1 .. Len(attrs) /\ Current.name \in Names
    BY <1>2, CurrentTyped, AppendAttr DEF Accept, KeepAttribute, TypeOK
  <2>2. CASE InsertInline
    <3>1. inline' \in Seq(Names) /\ Len(inline') = Len(inline) + 1
      BY <2>1, <2>2, AppendAttr DEF InsertInline, TypeOK
    <3> QED
      BY <2>1, <2>2, <3>1, LimitAssumption DEF InsertInline, TypeOK
  <2>3. CASE Spill
    <3>1. heap' \subseteq Names
      BY <2>1, <2>3 DEF Spill, TypeOK
    <3> QED
      BY <2>1, <2>3, <3>1 DEF Spill, TypeOK
  <2>4. CASE InsertHeap
    BY <2>1, <2>4 DEF InsertHeap, TypeOK
  <2> QED
    BY <1>2, <2>2, <2>3, <2>4 DEF Accept
<1>3. CASE Finish
  BY <1>3 DEF Finish, TypeOK
<1>4. CASE UNCHANGED vars
  BY <1>4 DEF vars, TypeOK
<1> QED
  BY <1>1, <1>2, <1>3, <1>4 DEF Next

\* Every reachable state is well typed.
THEOREM TypeCorrect == Spec => []TypeOK
<1>1. TypeOK /\ [Next]_vars => TypeOK'
  BY TypeStep
<1> QED
  BY TypeInit, <1>1, PTL DEF Spec

-----------------------------------------------------------------------------
(* What the detector knows. *)

Known == SeenExact /\ BloomComplete

\* Initially nothing is known, and nothing is kept.
LEMMA KnownInit == Init => Known
BY DEF Init, Known, SeenExact, BloomComplete

\* Filter, array and hash set answer as a search of the kept attributes would.
LEMMA LookupCorrect ==
  ASSUME TypeOK, Known, NEW n \in Names
  PROVE  IsDuplicate(n) <=> \E k \in 1 .. Len(kept) : Fold[kept[k].name] = Fold[n]
<1>1. \A k \in 1 .. Len(kept) : kept[k].name \in Names
  BY KeptTyped
<1>2. \A i \in 1 .. Len(inline) : inline[i] \in Names
  BY DEF TypeOK
<1>4. CASE store = "heap"
  <2>1. IsDuplicate(n) <=> \E m \in heap : Fold[m] = Fold[n]
    BY <1>1, <1>4, SameSeenIsFold DEF IsDuplicate, InHeap, TypeOK
  <2>2. \A k \in 1 .. Len(kept) : \E m \in heap : Fold[m] = Fold[kept[k].name]
    BY <1>1, <1>4, SameSeenIsFold DEF Known, SeenExact, InHeap, TypeOK
  <2>3. \A m \in heap : \E k \in 1 .. Len(kept) : Fold[kept[k].name] = Fold[m]
    BY <1>4 DEF Known, SeenExact
  <2> QED
    BY <2>1, <2>2, <2>3
<1>5. CASE store = "inline"
  <2>1. InInline(n) <=> \E i \in 1 .. Len(inline) : Fold[inline[i]] = Fold[n]
    BY <1>1, <1>2, SameSeenIsFold DEF InInline
  <2>2. InInline(n) => Bits(n) \subseteq bloom
    <3>1. SUFFICES ASSUME NEW i \in 1 .. Len(inline), SameSeen(inline[i], n)
                   PROVE  Bits(n) \subseteq bloom
      BY DEF InInline
    <3>2. Bits(inline[i]) = Bits(n)
      BY <3>1 DEF SameSeen, Bits
    <3> QED
      BY <1>5, <3>2 DEF Known, BloomComplete
  <2>3. IsDuplicate(n) <=> InInline(n)
    BY <1>5, <2>2 DEF IsDuplicate
  <2>4. \A k \in 1 .. Len(kept) : \E i \in 1 .. Len(inline) : Fold[inline[i]] = Fold[kept[k].name]
    BY <1>1, <1>2, <1>5, SameSeenIsFold DEF Known, SeenExact, InInline
  <2>5. \A i \in 1 .. Len(inline) : \E k \in 1 .. Len(kept) : Fold[kept[k].name] = Fold[inline[i]]
    BY <1>5 DEF Known, SeenExact
  <2> QED
    BY <2>1, <2>3, <2>4, <2>5
<1> QED
  BY <1>4, <1>5 DEF TypeOK

\* A kept attribute is one that was kept before or the current one.
LEMMA KeptAfter ==
  ASSUME TypeOK, KeepAttribute
  PROVE  /\ Len(kept') = Len(kept) + 1 /\ kept'[Len(kept')] = Current
         /\ \A k \in 1 .. Len(kept) : k \in 1 .. Len(kept') /\ kept'[k] = kept[k]
         /\ \A k \in 1 .. Len(kept') : kept'[k] = Current \/ (k \in 1 .. Len(kept) /\ kept'[k] = kept[k])
<1>1. Current \in Attributes /\ kept \in Seq(Attributes) /\ kept' = Append(kept, Current)
  BY CurrentTyped DEF KeepAttribute, TypeOK
<1>2. Len(kept) \in Nat /\ Len(kept') = Len(kept) + 1 /\ kept'[Len(kept) + 1] = Current
  BY <1>1, AppendAttr
<1>3. \A k \in 1 .. Len(kept) : kept'[k] = kept[k]
  BY <1>1, AppendAttr
<1> QED
  BY <1>2, <1>3

\* Every step keeps what is known of the list kept.
LEMMA KnownStep ==
  ASSUME TypeOK, Known, [Next]_vars
  PROVE  Known'
<1>1. CASE Accept
  <2> USE <1>1
  <2>1. KeepAttribute /\ Current.name \in Names
    BY CurrentTyped DEF Accept, KeepAttribute
  <2> DEFINE n == Current.name
  <2>2. /\ Len(kept') = Len(kept) + 1 /\ kept'[Len(kept')].name = n
        /\ \A k \in 1 .. Len(kept) : k \in 1 .. Len(kept') /\ kept'[k] = kept[k]
        /\ \A k \in 1 .. Len(kept') : kept'[k].name = n \/ (k \in 1 .. Len(kept) /\ kept'[k] = kept[k])
        /\ Len(kept') \in 1 .. Len(kept')
    BY <2>1, KeptAfter DEF TypeOK
  <2>3. n \in Names /\ SameSeen(n, n)
    BY <2>1 DEF SameSeen
  <2> HIDE DEF n
  <2>4. CASE InsertInline
    <3>1. inline \in Seq(Names) /\ inline' = Append(inline, n) /\ store = "inline" /\ store' = "inline"
          /\ bloom' = bloom \union Bits(n)
      BY <2>4 DEF InsertInline, TypeOK, n
    <3>2. /\ Len(inline') \in 1 .. Len(inline') /\ inline'[Len(inline')] = n
          /\ \A i \in 1 .. Len(inline) : i \in 1 .. Len(inline') /\ inline'[i] = inline[i]
          /\ \A i \in 1 .. Len(inline') : inline'[i] = n \/ (i \in 1 .. Len(inline) /\ inline'[i] = inline[i])
      <4>1. Len(inline) \in Nat /\ Len(inline') = Len(inline) + 1 /\ inline'[Len(inline) + 1] = n
            /\ \A i \in 1 .. Len(inline) : inline'[i] = inline[i]
        BY <2>3, <3>1, AppendAttr
      <4> QED
        BY <4>1
    <3>3. \A k \in 1 .. Len(kept') : \E i \in 1 .. Len(inline') : SameSeen(inline'[i], kept'[k].name)
      <4>1. \A k \in 1 .. Len(kept) : \E i \in 1 .. Len(inline) : SameSeen(inline[i], kept[k].name)
        BY <3>1 DEF Known, SeenExact, InInline
      <4>2. \A k \in 1 .. Len(kept) : \E i \in 1 .. Len(inline') : SameSeen(inline'[i], kept[k].name)
        BY <3>2, <4>1
      <4> QED
        BY <2>2, <2>3, <3>2, <4>2
    <3>4. \A i \in 1 .. Len(inline') : \E k \in 1 .. Len(kept') : Fold[kept'[k].name] = Fold[inline'[i]]
      BY <2>2, <3>1, <3>2 DEF Known, SeenExact
    <3>5. \A i \in 1 .. Len(inline') : Bits(inline'[i]) \subseteq bloom'
      BY <3>1, <3>2 DEF Known, BloomComplete
    <3> QED
      BY <3>1, <3>3, <3>4, <3>5 DEF Known, SeenExact, BloomComplete, InInline, Bits
  <2>5. CASE Spill
    <3>1. store = "inline" /\ store' = "heap" /\ heap' = {inline[i] : i \in 1 .. Len(inline)} \union {n}
      BY <2>5 DEF Spill, n
    <3>2. \A k \in 1 .. Len(kept') : \E m \in heap' : SameSeen(m, kept'[k].name)
      <4>1. \A k \in 1 .. Len(kept) : \E i \in 1 .. Len(inline) : SameSeen(inline[i], kept[k].name)
        BY <3>1 DEF Known, SeenExact, InInline
      <4>2. \A k \in 1 .. Len(kept) : \E m \in heap' : SameSeen(m, kept[k].name)
        BY <3>1, <4>1
      <4>3. n \in heap'
        BY <3>1
      <4> QED
        BY <2>2, <2>3, <4>2, <4>3
    <3>3. \A m \in heap' : \E k \in 1 .. Len(kept') : Fold[kept'[k].name] = Fold[m]
      BY <2>2, <3>1 DEF Known, SeenExact
    <3> QED
      BY <3>1, <3>2, <3>3 DEF Known, SeenExact, BloomComplete, InHeap
  <2>6. CASE InsertHeap
    <3>1. store = "heap" /\ store' = "heap" /\ heap' = heap \union {n}
      BY <2>6 DEF InsertHeap, n
    <3>2. \A k \in 1 .. Len(kept') : \E m \in heap' : SameSeen(m, kept'[k].name)
      <4>1. \A k \in 1 .. Len(kept) : \E m \in heap : SameSeen(m, kept[k].name)
        BY <3>1 DEF Known, SeenExact, InHeap
      <4>2. n \in heap' /\ heap \subseteq heap'
        BY <3>1
      <4> QED
        BY <2>2, <2>3, <4>1, <4>2
    <3>3. \A m \in heap' : \E k \in 1 .. Len(kept') : Fold[kept'[k].name] = Fold[m]
      BY <2>2, <3>1 DEF Known, SeenExact
    <3> QED
      BY <3>1, <3>2, <3>3 DEF Known, SeenExact, BloomComplete, InHeap
  <2> QED
    BY <2>4, <2>5, <2>6 DEF Accept
<1>2. CASE SkipDuplicate \/ Finish \/ UNCHANGED vars
  <2>1. UNCHANGED <<kept, bloom, inline, store, heap>>
    BY <1>2 DEF SkipDuplicate, Finish, vars
  <2> QED
    BY <2>1 DEF Known, SeenExact, BloomComplete, InInline, InHeap
<1> QED
  BY <1>1, <1>2 DEF Next

\* The detector never forgets a kept name, not when the hash set takes over
\* either, knows no other, and its filter has no false negative.
THEOREM SeenCorrect == Spec => [](SeenExact /\ BloomComplete)
<1>1. TypeOK /\ Known /\ [Next]_vars => Known'
  BY KnownStep
<1>2. Known => SeenExact /\ BloomComplete
  BY DEF Known
<1> QED
  BY KnownInit, <1>1, <1>2, TypeCorrect, PTL DEF Spec

-----------------------------------------------------------------------------
(* The refinement. *)

\* Every step is a step of the plain list, or none.
LEMMA ListStep ==
  ASSUME TypeOK, Known, [Next]_vars
  PROVE  [List!Next]_(List!vars)
<1>1. More <=> List!More
  BY DEF More, List!More
<1>2. ASSUME More
      PROVE  IsDuplicate(Current.name) <=> List!Held(attrs[next])
  <2>1. Current.name \in Names
    BY <1>2, CurrentTyped
  <2> QED
    BY <2>1, LookupCorrect DEF List!Held, List!Same, Current
<1>3. CASE SkipDuplicate
  BY <1>1, <1>2, <1>3 DEF SkipDuplicate, List!Next, List!Skip
<1>4. CASE Accept
  BY <1>1, <1>2, <1>4 DEF Accept, KeepAttribute, Current, List!Next, List!Keep
<1>5. CASE Finish
  BY <1>1, <1>5 DEF Finish, List!Next, List!Finish
<1>6. CASE UNCHANGED vars
  BY <1>6 DEF vars, List!vars
<1> QED
  BY <1>3, <1>4, <1>5, <1>6 DEF Next

\* An element gets its attributes as AttributeList says, whatever the
\* fingerprints are and wherever the array ends.
THEOREM Implements == Spec => ImplementsList
<1>1. Init => List!Init
  BY InputsAssumption DEF Init, List!Init, Attributes, List!Attributes
<1>2. TypeOK /\ Known /\ [Next]_vars => [List!Next]_(List!vars)
  BY ListStep
<1>3. TypeOK /\ Known /\ [Next]_vars => Known'
  BY KnownStep
<1> QED
  BY KnownInit, <1>1, <1>2, <1>3, TypeCorrect, PTL DEF Spec, ImplementsList, List!Spec

-----------------------------------------------------------------------------
(* The first of a name wins. *)

Covered == \A i \in 1 .. next - 1 : \E k \in 1 .. Len(kept) : Fold[kept[k].name] = Fold[attrs[i].name]
Limited ==
  /\ Len(kept) <= MaxCount
  /\ finished => Len(kept) = MaxCount \/ next > Len(attrs)
FirstInv == List!NoDuplicate /\ List!FirstKept /\ List!OnlyFirstKept /\ Covered /\ Limited

\* Initially nothing was taken.
LEMMA FirstInit == Init => FirstInv
BY LimitAssumption
   DEF Init, FirstInv, List!NoDuplicate, List!FirstKept, List!OnlyFirstKept, Covered, Limited

\* A duplicate that is skipped was taken before.
LEMMA FirstSkip ==
  ASSUME TypeOK, FirstInv, List!Skip
  PROVE  FirstInv'
<1>1. /\ UNCHANGED <<attrs, kept, finished>> /\ next' = next + 1 /\ next \in 1 .. Len(attrs)
      /\ ~finished
  BY DEF List!Skip, List!More, TypeOK
<1>2. PICK h \in 1 .. Len(kept) : Fold[kept[h].name] = Fold[attrs[next].name]
  BY DEF List!Skip, List!Held, List!Same
<1>3. List!NoDuplicate'
  BY <1>1 DEF FirstInv, List!NoDuplicate, List!Same
<1>4. \A i \in 1 .. next' - 1 : i \in 1 .. next - 1 \/ i = next
  BY <1>1
<1>5. \A i \in 1 .. next - 1 : i \in 1 .. next' - 1
  BY <1>1
<1>6. List!OnlyFirstKept'
  BY <1>1, <1>5 DEF FirstInv, List!OnlyFirstKept, List!IsFirst, List!Same
<1>7. ~List!IsFirst(next)
  <2>1. PICK i \in 1 .. next - 1 : kept[h] = attrs[i]
    BY DEF FirstInv, List!OnlyFirstKept
  <2> QED
    BY <1>2, <2>1 DEF List!IsFirst, List!Same
<1>8. List!FirstKept'
  BY <1>1, <1>4, <1>7 DEF FirstInv, List!FirstKept, List!IsFirst, List!Same
<1>9. Covered'
  BY <1>1, <1>2, <1>4 DEF FirstInv, Covered
<1>10. Limited'
  BY <1>1 DEF FirstInv, Limited
<1> QED
  BY <1>3, <1>6, <1>8, <1>9, <1>10 DEF FirstInv

\* An attribute that is kept is the first of its name.
LEMMA FirstKeep ==
  ASSUME TypeOK, FirstInv, List!Keep
  PROVE  FirstInv'
<1>1. /\ UNCHANGED <<attrs, finished>> /\ next' = next + 1 /\ next \in 1 .. Len(attrs)
      /\ ~finished /\ Len(kept) < MaxCount /\ kept' = Append(kept, attrs[next])
      /\ attrs[next] \in Attributes /\ kept \in Seq(Attributes)
  BY DEF List!Keep, List!More, TypeOK
<1>2. /\ Len(kept) \in Nat /\ Len(kept') = Len(kept) + 1 /\ kept'[Len(kept) + 1] = attrs[next]
      /\ \A k \in 1 .. Len(kept) : kept'[k] = kept[k]
  BY <1>1, AppendAttr
<1>3. /\ Len(kept') \in 1 .. Len(kept') /\ kept'[Len(kept')] = attrs[next]
      /\ \A k \in 1 .. Len(kept) : k \in 1 .. Len(kept') /\ kept'[k] = kept[k]
      /\ \A k \in 1 .. Len(kept') : k = Len(kept') \/ k \in 1 .. Len(kept)
  BY <1>2
<1>4. \A k \in 1 .. Len(kept) : Fold[kept[k].name] # Fold[attrs[next].name]
  BY DEF List!Keep, List!Held, List!Same
<1>5. /\ \A i \in 1 .. next' - 1 : i \in 1 .. next - 1 \/ i = next
      /\ \A i \in 1 .. next - 1 : i \in 1 .. next' - 1
      /\ next \in 1 .. next' - 1
  BY <1>1
<1>6. List!NoDuplicate'
  <2>1. SUFFICES ASSUME NEW j \in 1 .. Len(kept'), NEW k \in 1 .. Len(kept'),
                        Fold[kept'[j].name] = Fold[kept'[k].name]
                 PROVE  j = k
    BY DEF List!NoDuplicate, List!Same
  <2>2. CASE j \in 1 .. Len(kept) /\ k \in 1 .. Len(kept)
    BY <1>3, <2>1, <2>2 DEF FirstInv, List!NoDuplicate, List!Same
  <2> QED
    BY <1>3, <1>4, <2>1, <2>2
<1>7. List!IsFirst(next)
  BY <1>4 DEF FirstInv, Covered, List!IsFirst, List!Same
<1>8. List!OnlyFirstKept'
  <2>1. SUFFICES ASSUME NEW k \in 1 .. Len(kept')
                 PROVE  \E i \in 1 .. next' - 1 : kept'[k] = attrs[i] /\ List!IsFirst(i)
    BY <1>1 DEF List!OnlyFirstKept, List!IsFirst, List!Same
  <2>2. CASE k = Len(kept')
    BY <1>3, <1>5, <1>7, <2>2
  <2>3. CASE k \in 1 .. Len(kept)
    BY <1>3, <1>5, <2>3 DEF FirstInv, List!OnlyFirstKept
  <2> QED
    BY <1>3, <2>2, <2>3
<1>9. List!FirstKept'
  <2>1. SUFFICES ASSUME NEW i \in 1 .. next' - 1, List!IsFirst(i)
                 PROVE  \E k \in 1 .. Len(kept') : kept'[k] = attrs[i]
    BY <1>1 DEF List!FirstKept, List!IsFirst, List!Same
  <2>2. CASE i = next
    BY <1>3, <2>2
  <2>3. CASE i \in 1 .. next - 1
    BY <1>3, <2>1, <2>3 DEF FirstInv, List!FirstKept
  <2> QED
    BY <1>5, <2>2, <2>3
<1>10. Covered'
  <2>1. SUFFICES ASSUME NEW i \in 1 .. next' - 1
                 PROVE  \E k \in 1 .. Len(kept') : Fold[kept'[k].name] = Fold[attrs[i].name]
    BY <1>1 DEF Covered
  <2>2. CASE i = next
    BY <1>3, <2>2
  <2>3. CASE i \in 1 .. next - 1
    BY <1>3, <2>3 DEF FirstInv, Covered
  <2> QED
    BY <1>5, <2>2, <2>3
<1>11. Limited'
  BY <1>1, <1>2, LimitAssumption DEF Limited
<1> QED
  BY <1>6, <1>8, <1>9, <1>10, <1>11 DEF FirstInv

\* So every step keeps the first of each name.
LEMMA FirstStep ==
  ASSUME TypeOK, FirstInv, [List!Next]_(List!vars)
  PROVE  FirstInv'
<1>1. CASE List!Finish
  <2>1. UNCHANGED <<attrs, next, kept>> /\ ~List!More /\ ~finished
    BY <1>1 DEF List!Finish
  <2>2. Limited'
    BY <2>1, LimitAssumption DEF FirstInv, Limited, List!More, TypeOK
  <2>3. List!NoDuplicate' /\ List!FirstKept' /\ Covered'
    BY <2>1 DEF FirstInv, List!NoDuplicate, List!FirstKept, List!IsFirst, List!Same, Covered
  <2>4. List!OnlyFirstKept'
    BY <2>1 DEF FirstInv, List!OnlyFirstKept, List!IsFirst, List!Same
  <2> QED
    BY <2>2, <2>3, <2>4 DEF FirstInv
<1>2. CASE UNCHANGED List!vars
  BY <1>2 DEF List!vars, FirstInv, List!NoDuplicate, List!FirstKept, List!OnlyFirstKept, List!IsFirst,
              List!Same, Covered, Limited
<1> QED
  BY <1>1, <1>2, FirstSkip, FirstKeep DEF List!Next

\* What the invariant says of each name.
LEMMA FirstInvImplies == TypeOK /\ FirstInv => FirstWins
<1> SUFFICES ASSUME TypeOK, FirstInv, finished, Len(kept) # MaxCount, NEW i \in 1 .. Len(attrs)
             PROVE  \E k \in 1 .. Len(kept) : Fold[kept[k].name] = Fold[attrs[i].name]
  BY DEF FirstWins, FirstInv, List!AllKept, List!Same
<1>1. i \in 1 .. next - 1
  BY DEF FirstInv, Limited, TypeOK
<1> QED
  BY <1>1 DEF FirstInv, Covered

\* Of every name the first occurrence wins, with its value, whatever its case
\* and however many names the tag has; only the count can leave a name out.
THEOREM FirstOccurrenceWins == Spec => []FirstWins
<1>1. TypeOK /\ Known /\ FirstInv /\ [Next]_vars => FirstInv'
  BY ListStep, FirstStep
<1>2. TypeOK /\ Known /\ [Next]_vars => Known'
  BY KnownStep
<1> QED
  BY KnownInit, FirstInit, <1>1, <1>2, FirstInvImplies, TypeCorrect, PTL DEF Spec
-----------------------------------------------------------------------------
(* The hashes that selectors are matched by. *)

ClassKept == {k \in 1 .. Len(kept) : Fold[kept[k].name] = "class"}
KeptClassBits == UNION {ClassBitsOf(kept[k]) : k \in ClassKept}

\* While attributes are taken the hashes are those of the kept ones and the
\* element holds nothing; afterwards it holds these hashes.
HashInv ==
  /\ classHash = KeptClassBits
  /\ \A k \in 1 .. Len(kept) :
       Fold[kept[k].name] = "id" /\ kept[k].value \notin {None, Empty}
         => idHash = IdHash[kept[k].value]
  /\ (\A k \in 1 .. Len(kept) : Fold[kept[k].name] # "id") => idHash = NoId
  /\ node.count > 0 => node.classHash = classHash /\ node.idHash = idHash
  /\ ~finished => node = NoAttrs

\* Initially there is no hash.
LEMMA HashInit == Init => HashInv
BY DEF Init, HashInv, KeptClassBits, ClassKept, NoAttrs

\* The class bits of the kept attributes grow by those of the one that is kept.
LEMMA ClassBitsAfter ==
  ASSUME TypeOK, KeepAttribute, classHash = KeptClassBits
  PROVE  classHash' = KeptClassBits'
<1>1. /\ Len(kept') \in 1 .. Len(kept') /\ kept'[Len(kept')] = Current
      /\ \A k \in 1 .. Len(kept) : k \in 1 .. Len(kept') /\ kept'[k] = kept[k]
      /\ \A k \in 1 .. Len(kept') : k = Len(kept') \/ (k \in 1 .. Len(kept) /\ kept'[k] = kept[k])
  BY KeptAfter DEF TypeOK
<1>2. classHash' = ClassHashWith(Current)
  BY DEF KeepAttribute
<1>3. ASSUME NEW b, b \in KeptClassBits'
      PROVE  b \in ClassHashWith(Current)
  <2>1. PICK k \in ClassKept' : b \in ClassBitsOf(kept'[k])
    BY <1>3 DEF KeptClassBits, ClassBitsOf
  <2>2. k \in 1 .. Len(kept') /\ Fold[kept'[k].name] = "class"
    BY <2>1 DEF ClassKept
  <2>3. CASE k = Len(kept')
    BY <1>1, <2>1, <2>2, <2>3 DEF ClassBitsOf, ClassHashWith
  <2>4. CASE k \in 1 .. Len(kept) /\ kept'[k] = kept[k]
    <3>1. k \in ClassKept /\ b \in ClassBitsOf(kept[k])
      BY <2>1, <2>2, <2>4 DEF ClassKept
    <3>2. b \in classHash
      BY <3>1 DEF KeptClassBits
    <3> QED
      BY <3>2 DEF ClassHashWith
  <2> QED
    BY <1>1, <2>2, <2>3, <2>4
<1>4. ASSUME NEW b, b \in ClassHashWith(Current)
      PROVE  b \in KeptClassBits'
  <2>1. CASE b \in classHash
    <3>1. PICK k \in ClassKept : b \in ClassBitsOf(kept[k])
      BY <2>1 DEF KeptClassBits
    <3>2. k \in ClassKept' /\ b \in ClassBitsOf(kept'[k])
      BY <1>1, <3>1 DEF ClassKept
    <3> QED
      BY <3>2 DEF KeptClassBits, ClassBitsOf
  <2>2. CASE /\ Fold[Current.name] = "class" /\ Current.value \notin {None, Empty}
             /\ b \in ClassBits[Current.value]
    <3>1. Len(kept') \in ClassKept' /\ b \in ClassBitsOf(kept'[Len(kept')])
      BY <1>1, <2>2 DEF ClassKept, ClassBitsOf
    <3> QED
      BY <3>1 DEF KeptClassBits, ClassBitsOf
  <2> QED
    BY <1>4, <2>1, <2>2 DEF ClassHashWith
<1> QED
  BY <1>2, <1>3, <1>4

\* Every step keeps the hashes those of the kept attributes.
LEMMA HashStep ==
  ASSUME TypeOK, Known, HashInv, [Next]_vars
  PROVE  HashInv'
<1>1. CASE Accept
  <2>1. KeepAttribute /\ ~IsDuplicate(Current.name) /\ Current.name \in Names /\ UNCHANGED <<node, finished>>
        /\ ~finished
    BY <1>1, CurrentTyped DEF Accept, KeepAttribute, More
  <2>2. classHash' = KeptClassBits'
    BY <2>1, ClassBitsAfter DEF HashInv
  <2>3. /\ Len(kept') \in 1 .. Len(kept') /\ kept'[Len(kept')] = Current
        /\ \A k \in 1 .. Len(kept) : k \in 1 .. Len(kept') /\ kept'[k] = kept[k]
        /\ \A k \in 1 .. Len(kept') : k = Len(kept') \/ (k \in 1 .. Len(kept) /\ kept'[k] = kept[k])
    BY <2>1, KeptAfter DEF TypeOK
  <2>4. idHash' = IdHashWith(Current)
    BY <2>1 DEF KeepAttribute
  <2>5. \A k \in 1 .. Len(kept) : Fold[kept[k].name] # Fold[Current.name]
    BY <2>1, LookupCorrect
  <2>6. \A k \in 1 .. Len(kept') :
          Fold[kept'[k].name] = "id" /\ kept'[k].value \notin {None, Empty}
            => idHash' = IdHash[kept'[k].value]
    <3>1. SUFFICES ASSUME NEW k \in 1 .. Len(kept'), Fold[kept'[k].name] = "id",
                          kept'[k].value \notin {None, Empty}
                   PROVE  idHash' = IdHash[kept'[k].value]
      OBVIOUS
    <3>2. CASE k = Len(kept')
      BY <2>3, <2>4, <3>1, <3>2 DEF IdHashWith
    <3>3. CASE k \in 1 .. Len(kept) /\ kept'[k] = kept[k]
      BY <2>4, <2>5, <3>1, <3>3 DEF IdHashWith, HashInv
    <3> QED
      BY <2>3, <3>2, <3>3
  <2>7. (\A k \in 1 .. Len(kept') : Fold[kept'[k].name] # "id") => idHash' = NoId
    BY <2>3, <2>4 DEF IdHashWith, HashInv
  <2>8. ~finished' /\ node' = NoAttrs /\ ~(node'.count > 0)
    BY <2>1 DEF HashInv, NoAttrs
  <2> QED
    BY <2>2, <2>6, <2>7, <2>8 DEF HashInv
<1>2. CASE Finish
  <2>1. /\ UNCHANGED <<kept, classHash, idHash>> /\ finished' /\ ~finished
        /\ node' = IF kept = <<>> THEN node
                   ELSE [count |-> Len(kept), classHash |-> classHash, idHash |-> idHash]
    BY <1>2 DEF Finish
  <2>2. node'.count > 0 => node'.classHash = classHash' /\ node'.idHash = idHash'
    BY <2>1 DEF HashInv, NoAttrs
  <2> QED
    BY <2>1, <2>2 DEF HashInv, KeptClassBits, ClassKept, ClassBitsOf
<1>3. CASE SkipDuplicate \/ UNCHANGED vars
  <2>1. UNCHANGED <<kept, classHash, idHash, node, finished>>
    BY <1>3 DEF SkipDuplicate, vars
  <2> QED
    BY <2>1 DEF HashInv, KeptClassBits, ClassKept, ClassBitsOf
<1> QED
  BY <1>1, <1>2, <1>3 DEF Next

\* What the element holds for its selectors is what its attributes say.
THEOREM HashesCorrect == Spec => []HashesOfKept
<1>1. TypeOK /\ Known /\ HashInv /\ [Next]_vars => HashInv'
  BY HashStep
<1>2. TypeOK /\ Known /\ [Next]_vars => Known'
  BY KnownStep
<1>3. HashInv => HashesOfKept
  BY DEF HashInv, HashesOfKept, KeptClassBits, ClassKept
<1> QED
  BY KnownInit, HashInit, <1>1, <1>2, <1>3, TypeCorrect, PTL DEF Spec

\* The detector, the attributes that are kept and the hashes of the element
\* agree in every state, for every tag, fingerprint and limit.
THEOREM AttributesExact == Spec => []KeptExact
<1>1. SeenExact /\ BloomComplete /\ FirstWins /\ HashesOfKept => KeptExact
  BY DEF KeptExact
<1> QED
  BY <1>1, SeenCorrect, FirstOccurrenceWins, HashesCorrect, PTL
=============================================================================
