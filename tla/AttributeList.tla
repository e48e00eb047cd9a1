--------------------------- MODULE AttributeList ---------------------------
(***************************************************************************)
(* What the attributes of an element are: of the attributes that are       *)
(* written in a tag, the first of every name, in the order in which they   *)
(* are written, up to a limit (set_attrs and set_attrs_from_raw in         *)
(* crates/fhp-tree/src/arena.rs).  How duplicates are found is left to     *)
(* AttributeSet.                                                           *)
(***************************************************************************)
EXTENDS Integers, Sequences

CONSTANTS
  Names,       \* Attribute names as they are written.
  Values,      \* Values, one of them standing for none.
  Fold,        \* A name in lower case.
  MaxCount     \* u16::MAX

Attributes == [name : Names, value : Values]

VARIABLES
  attrs,       \* The attributes of the tag.
  next,        \* The one that is looked at next.
  kept,        \* The attributes of the element.
  finished

vars == <<attrs, next, kept, finished>>

Same(a, b) == Fold[a.name] = Fold[b.name]
Held(attr) == \E k \in 1 .. Len(kept) : Same(kept[k], attr)

Init == attrs \in Seq(Attributes) /\ next = 1 /\ kept = <<>> /\ finished = FALSE

More == ~ finished /\ next <= Len(attrs) /\ Len(kept) < MaxCount

Skip ==
  /\ More /\ Held(attrs[next])
  /\ next' = next + 1
  /\ UNCHANGED <<attrs, kept, finished>>

Keep ==
  /\ More /\ ~Held(attrs[next])
  /\ kept' = Append(kept, attrs[next])
  /\ next' = next + 1
  /\ UNCHANGED <<attrs, finished>>

Finish ==
  /\ ~ finished /\ ~More
  /\ finished' = TRUE
  /\ UNCHANGED <<attrs, next, kept>>

Next == Skip \/ Keep \/ Finish

Spec == Init /\ [][Next]_vars

-----------------------------------------------------------------------------
\* No name is held twice, however it is written.
NoDuplicate ==
  \A j, k \in 1 .. Len(kept) : Same(kept[j], kept[k]) => j = k

\* The first of a name is the one that is kept, with its value.
IsFirst(i) == \A j \in 1 .. i - 1 : ~Same(attrs[j], attrs[i])
FirstKept ==
  \A i \in 1 .. next - 1 : IsFirst(i) => \E k \in 1 .. Len(kept) : kept[k] = attrs[i]

\* Nothing is kept that was not first in the tag.
OnlyFirstKept ==
  \A k \in 1 .. Len(kept) : \E i \in 1 .. next - 1 : kept[k] = attrs[i] /\ IsFirst(i)

\* A name is left out only at the limit.
AllKept ==
  finished =>
    \/ Len(kept) = MaxCount
    \/ \A i \in 1 .. Len(attrs) : \E k \in 1 .. Len(kept) : Same(kept[k], attrs[i])
=============================================================================
