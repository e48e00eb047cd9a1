---------------------------- MODULE AttributeSet ----------------------------
(***************************************************************************)
(* Setting the attributes of an element (set_attrs and set_attrs_from_raw  *)
(* in crates/fhp-tree/src/arena.rs) with the duplicate detector of         *)
(* crates/fhp-core/src/attr.rs: a bloom filter over fingerprints, a few    *)
(* names inline, and a hash set that takes over when they are full.        *)
(***************************************************************************)
EXTENDS Integers, Sequences

CONSTANTS
  Names, Values, Fold, MaxCount,
  Inputs,          \* Attributes of a tag, as sequences.
  Fingerprint,     \* ascii_ci_fingerprint of a name.
  BloomBits,       \* The bits of a fingerprint.
  InlineLimit,     \* INLINE_SEEN_ATTRIBUTES
  None, Empty,     \* No value, and a value that is empty.
  ClassBits,       \* The bits of the classes in a value.
  IdHash,          \* selector_hash of a value.
  NoId             \* The hash of an element without an id.

Attributes == [name : Names, value : Values]

ASSUME InputsAssumption == Inputs \subseteq Seq(Attributes)
ASSUME LimitAssumption == InlineLimit \in Nat /\ MaxCount \in Nat
\* The fingerprint is taken over the name in lower case.
ASSUME FingerprintAssumption ==
  \A m, n \in Names : Fold[m] = Fold[n] => Fingerprint[m] = Fingerprint[n]

VARIABLES
  attrs, next, kept, finished,
  bloom,           \* The bits of all names in inline.
  inline,          \* The names that were accepted first.
  store,           \* Where names are looked up, inline or in the heap.
  heap,            \* The names in the hash set, once there is one.
  classHash, idHash,   \* Of the attributes kept so far.
  node             \* What the element holds.

vars == <<attrs, next, kept, finished, bloom, inline, store, heap, classHash, idHash, node>>

NoAttrs == [count |-> 0, classHash |-> {}, idHash |-> NoId]
Current == attrs[next]

SameSeen(m, n) == Fingerprint[m] = Fingerprint[n] /\ Fold[m] = Fold[n]
Bits(name) == BloomBits[Fingerprint[name]]
InInline(name) == \E i \in 1 .. Len(inline) : SameSeen(inline[i], name)
InHeap(name) == \E m \in heap : SameSeen(m, name)

Init ==
  /\ attrs \in Inputs /\ next = 1 /\ kept = <<>> /\ finished = FALSE
  /\ bloom = {} /\ inline = <<>> /\ store = "inline" /\ heap = {}
  /\ classHash = {} /\ idHash = NoId
  /\ node = NoAttrs

-----------------------------------------------------------------------------
\* One attribute more than an element can count.
MoreThanCounted == ~ finished /\ next <= Len(attrs) /\ Len(kept) <= MaxCount
More == ~ finished /\ next <= Len(attrs) /\ Len(kept) < MaxCount

\* A name is found inline only when the filter has all of its bits.
IsDuplicate(name) ==
  IF store = "heap" THEN InHeap(name) ELSE Bits(name) \subseteq bloom /\ InInline(name)

\* update_selector_hashes
ClassHashWith(attr) ==
  IF Fold[attr.name] = "class" /\ attr.value \notin {None, Empty}
  THEN classHash \union ClassBits[attr.value] ELSE classHash
IdHashWith(attr) ==
  IF Fold[attr.name] = "id" /\ attr.value \notin {None, Empty} THEN IdHash[attr.value] ELSE idHash

\* The hashes are updated before the name is looked up.
SkipAfterHashing ==
  /\ More /\ IsDuplicate(Current.name)
  /\ classHash' = ClassHashWith(Current) /\ idHash' = IdHashWith(Current)
  /\ next' = next + 1
  /\ UNCHANGED <<attrs, kept, finished, bloom, inline, store, heap, node>>
SkipDuplicate ==
  /\ More /\ IsDuplicate(Current.name)
  /\ next' = next + 1
  /\ UNCHANGED <<attrs, kept, finished, bloom, inline, store, heap, classHash, idHash, node>>

KeepAttribute ==
  /\ More /\ ~IsDuplicate(Current.name)
  /\ kept' = Append(kept, Current)
  /\ classHash' = ClassHashWith(Current) /\ idHash' = IdHashWith(Current)
  /\ next' = next + 1
  /\ UNCHANGED <<attrs, finished, node>>

InsertInline ==
  /\ store = "inline" /\ Len(inline) < InlineLimit
  /\ inline' = Append(inline, Current.name)
  /\ bloom' = bloom \union Bits(Current.name)
  /\ UNCHANGED <<store, heap>>

\* The names that are inline move to the hash set with the new one.
Spill ==
  /\ store = "inline" /\ Len(inline) >= InlineLimit
  /\ store' = "heap"
  /\ heap' = {inline[i] : i \in 1 .. Len(inline)} \union {Current.name}
  /\ bloom' = bloom \union Bits(Current.name)
  /\ UNCHANGED inline

InsertHeap ==
  /\ store = "heap"
  /\ heap' = heap \union {Current.name}
  /\ UNCHANGED <<bloom, inline, store>>

Accept == KeepAttribute /\ (InsertInline \/ Spill \/ InsertHeap)

Finish ==
  /\ ~ finished /\ ~More
  /\ finished' = TRUE
  /\ node' = IF kept = <<>> THEN node
             ELSE [count |-> Len(kept), classHash |-> classHash, idHash |-> idHash]
  /\ UNCHANGED <<attrs, next, kept, bloom, inline, store, heap, classHash, idHash>>

Next == SkipDuplicate \/ Accept \/ Finish

Spec == Init /\ [][Next]_vars

-----------------------------------------------------------------------------
TypeOK ==
  /\ attrs \in Seq(Attributes) /\ kept \in Seq(Attributes)
  /\ next \in Nat \ {0} /\ next <= Len(attrs) + 1
  /\ finished \in BOOLEAN /\ store \in {"inline", "heap"}
  /\ inline \in Seq(Names) /\ Len(inline) <= InlineLimit
  /\ heap \subseteq Names

\* The detector knows exactly the names that were kept, in the place where it
\* looks for them, before the hash set takes over and after.
SeenExact ==
  /\ \A k \in 1 .. Len(kept) :
       IF store = "heap" THEN InHeap(kept[k].name) ELSE InInline(kept[k].name)
  /\ store = "heap" => \A m \in heap : \E k \in 1 .. Len(kept) : Fold[kept[k].name] = Fold[m]
  /\ store = "inline" => \A i \in 1 .. Len(inline) :
                   \E k \in 1 .. Len(kept) : Fold[kept[k].name] = Fold[inline[i]]

\* The filter has no false negatives while it is asked.
BloomComplete == store = "inline" => \A i \in 1 .. Len(inline) : Bits(inline[i]) \subseteq bloom

\* The hashes that selectors are matched by are those of the attributes that
\* the element has, not of a duplicate that was dropped; an element without a
\* class or an id has none.
ClassBitsOf(attr) ==
  IF attr.value \in {None, Empty} THEN {} ELSE ClassBits[attr.value]
HashesOfKept ==
  node.count > 0 =>
    /\ node.classHash = UNION {ClassBitsOf(kept[k]) :
                                 k \in {j \in 1 .. Len(kept) : Fold[kept[j].name] = "class"}}
    /\ \A k \in 1 .. Len(kept) : Fold[kept[k].name] = "id" /\ kept[k].value \notin {None, Empty}
                                   => node.idHash = IdHash[kept[k].value]
    /\ (\A k \in 1 .. Len(kept) : Fold[kept[k].name] # "id") => node.idHash = NoId

List == INSTANCE AttributeList

\* First wins: of every name that was looked at the element has the first
\* occurrence, no other, and none twice, and it lacks a name only at the limit.
FirstWins == List!NoDuplicate /\ List!FirstKept /\ List!OnlyFirstKept /\ List!AllKept

\* What the element holds for its selectors and what the detector knows are both
\* those of the attributes that were kept.
KeptExact == SeenExact /\ BloomComplete /\ FirstWins /\ HashesOfKept

\* The element gets its attributes in the steps that AttributeList allows:
\* filter, array and hash set together decide as a search of the kept ones.
ImplementsList == List!Spec
=============================================================================
