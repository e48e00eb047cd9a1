---------------------------- MODULE OpenElements ----------------------------
(***************************************************************************)
(* The open-elements stack as a component: any sequence of the calls the   *)
(* tree builder makes on it.  Two caches ride on the stack, the number of  *)
(* open entries of each kind and the insertion mode, and every handler     *)
(* decides by the caches, never by the stack itself.                       *)
(*                                                                         *)
(* close_formatting_element first truncates the stack and then reopens,    *)
(* one by one, the formatting entries it removed; `reopen` holds the       *)
(* removed entries its loop has still to visit.                            *)
(***************************************************************************)
EXTENDS OpenElementsOps

CONSTANTS
  Names,     \* Tag names that may be opened.
  NoahsArk   \* Identical formatting elements reopened by one end tag.

ASSUME NamesAssumption == RootName \notin Names
ASSUME NoahsArkAssumption == NoahsArk \in Nat

VARIABLES
  open,      \* [stack, counts, mode]: open_elements, kind_counts, insertion_mode.
  reopen     \* Entries close_formatting_element still has to reopen or drop.

vars == <<open, reopen>>

Entry == [name : Names \cup {RootName}, kind : Kinds, mode : Modes]

NewEntry(name) == [name |-> name, kind |-> Classify(name), mode |-> "InBody"]

RootEntry == [name |-> RootName, kind |-> "Root", mode |-> "InBody"]

Init ==
  /\ open = [stack  |-> <<RootEntry>>,
             counts |-> [kind \in Kinds |-> IF kind = "Root" THEN 1 ELSE 0],
             mode   |-> "InBody"]
  /\ reopen = <<>>

-----------------------------------------------------------------------------
\* A handler is running to completion while `reopen` is not empty.
Idle == reopen = <<>>

\* The last step of insert_element: an element opens unless it is void or
\* MaxDepth elements are open already.
InsertElement(name) ==
  /\ Idle
  /\ ~ IsVoid(name)
  /\ Len(open.stack) <= MaxDepth
  /\ open' = PushEntry(open, NewEntry(name))
  /\ UNCHANGED reopen

\* A pop of the current node by the handlers that know it is not the root.
PopCurrent ==
  /\ Idle
  /\ Len(open.stack) > 1
  /\ open' = PopOpenElement(open)
  /\ UNCHANGED reopen

CloseKind(kind) ==
  /\ Idle
  /\ open' \in {CloseLastKind(open, kind), ClearBackTo(open, kind),
                PopIfCurrent(open, kind), CloseListItemStart(open, kind)}
  /\ UNCHANGED reopen

CloseKindInScope(kind, scope) ==
  /\ Idle
  /\ open' = CloseInScope(open, kind, scope)
  /\ UNCHANGED reopen

CloseNamed(name) ==
  /\ Idle
  /\ open' = CloseMatching(open, name)
  /\ UNCHANGED reopen

\* close_formatting_element at stack index f, up to the loop that reopens:
\* no special element is open above f.
CloseFormatting(name) ==
  LET f == FindNamedInScope(open, name, "Standard")
  IN  /\ Idle
      /\ f > 1
      /\ Classify(name) = "Formatting"
      /\ FurthestBlock(open, f) = 0
      /\ open' = CloseFrom(open, f)
      /\ reopen' = SubSeq(open.stack, f + 1, Len(open.stack))

Identical(e1, e2) == e1.kind = "Formatting" /\ e1.name = e2.name

\* One turn of the reopening loop.  apply_noahs_ark keeps an entry when at
\* most NoahsArk identical ones are left, itself included.
ReopenNext ==
  LET entry == Head(reopen)
      left == {i \in 1..Len(reopen) : Identical(reopen[i], entry)}
  IN  /\ reopen # <<>>
      /\ reopen' = Tail(reopen)
      /\ open' = IF entry.kind = "Formatting" /\ Cardinality(left) <= NoahsArk
                 THEN PushEntry(open, entry)
                 ELSE open

\* The stack edit of adopt_furthest_block: the clones share name and kind with
\* the entries they replace.
AdoptFurthestBlock(name) ==
  LET f == FindNamedInScope(open, name, "Standard")
      b == FurthestBlock(open, f)
      positions == ChainPositions(open, f, b)
      chain == [i \in 1..Len(positions) |-> open.stack[positions[i]]]
  IN  /\ Idle
      /\ f > 1
      /\ Classify(name) = "Formatting"
      /\ b # 0
      /\ open' = AdoptedStack(open, f, b, chain, open.stack[b], open.stack[f])
      /\ UNCHANGED reopen

Next ==
  \/ \E name \in Names : InsertElement(name)
  \/ PopCurrent
  \/ \E kind \in Kinds : CloseKind(kind)
  \/ \E kind \in Kinds, scope \in Scopes : CloseKindInScope(kind, scope)
  \/ \E name \in Names : CloseNamed(name)
  \/ \E name \in Names : CloseFormatting(name)
  \/ ReopenNext
  \/ \E name \in Names : AdoptFurthestBlock(name)

Spec == Init /\ [][Next]_vars

-----------------------------------------------------------------------------
OpenType == [stack : Seq(Entry), counts : [Kinds -> Nat], mode : Modes]

TypeOK ==
  /\ open \in OpenType
  /\ reopen \in Seq(Entry)

\* The synthetic root is at the bottom of the stack and never popped, and every
\* entry above it, a reopened or adopted clone included, still has the kind its
\* name classifies to.
RootAtBottom == Rooted(open.stack) /\ \A i \in 1..Len(reopen) : Classified(reopen[i])

\* The caches agree with the stack: each entry's mode is the one the innermost
\* mode-changing element at or below it sets, the insertion mode is the top
\* entry's, and each count is the number of open entries of that kind.  Every
\* absence check (kind_is_open) and every dispatch on the mode reads the caches
\* only, so a stale one would close the wrong element or none.
CachesExact == CachesAgree(open)

\* The nesting limit counts elements being reopened too: reopening and
\* adoption push without the check insert_element makes, and must still never
\* exceed the MAX_DEPTH open elements the documentation promises.
DepthBound == Len(open.stack) + Len(reopen) <= MaxDepth + 1

\* A table-related insertion mode is only ever in force inside an element of
\* the kind it is named after: the handlers close "the last" such element and
\* reprocess the token, which would never end if there were none.
ModeHasElement ==
  \A kind \in ModeKinds : open.mode = ModeOf[kind] => KindIsOpen(open, kind)

\* Everything the handlers rely on when they decide by the caches.
StackSound == TypeOK /\ RootAtBottom /\ CachesExact /\ DepthBound /\ ModeHasElement
=============================================================================
