----------------------------- MODULE Traversal -----------------------------
(***************************************************************************)
(* The tree iterators (crates/fhp-tree/src/traverse.rs).  They hold a      *)
(* position in a tree they do not copy: `ahead` is what next() looks at,   *)
(* the current node for all but the breadth-first queue.                   *)
(***************************************************************************)
EXTENDS SelectorOps

CONSTANTS Documents  \* The arenas that are walked.

VARIABLES
  ns,       \* The document.
  kind,     \* Which iterator.
  start,    \* The node it was created for.
  ahead,
  yielded

vars == <<ns, kind, start, ahead, yielded>>

Kinds == {"depthFirst", "breadthFirst", "children", "ancestors", "siblings"}

At(n) == IF n = NULL THEN <<>> ELSE <<n>>

\* What the iterator looks at first.
Begin(doc, k, n) ==
  CASE k \in {"depthFirst", "breadthFirst"} -> <<n>>
    [] k = "children"  -> At(doc[n].first)
    [] k = "ancestors" -> At(doc[n].parent)
    [] k = "siblings"  -> At(doc[n].next)

Init ==
  /\ ns \in Documents
  /\ kind \in Kinds
  /\ start \in DOMAIN ns
  /\ ahead = Begin(ns, kind, start)
  /\ yielded = <<>>

\* The next node that is not a descendant of n, within the subtree of the start.
NextNonChild(n) ==
  LET climb[m \in DOMAIN ns] ==
        IF ns[m].next # NULL THEN ns[m].next
        ELSE IF ns[m].parent \in {NULL, start} THEN NULL
        ELSE climb[ns[m].parent]
  IN  climb[n]

\* A childless start is the whole subtree.
AfterDepthFirst(n) ==
  IF ns[n].first # NULL THEN ns[n].first
  ELSE IF n = start THEN NULL
  ELSE NextNonChild(n)

Yield == yielded' = Append(yielded, Head(ahead))

NextDepthFirst ==
  /\ kind = "depthFirst" /\ ahead # <<>>
  /\ ahead' = At(AfterDepthFirst(Head(ahead)))
  /\ Yield
  /\ UNCHANGED <<ns, kind, start>>

Enqueued(queue, n) == queue \o Children(ns, n)

NextBreadthFirst ==
  /\ kind = "breadthFirst" /\ ahead # <<>>
  /\ ahead' = Enqueued(Tail(ahead), Head(ahead))
  /\ Yield
  /\ UNCHANGED <<ns, kind, start>>

NextSibling ==
  /\ kind \in {"children", "siblings"} /\ ahead # <<>>
  /\ ahead' = At(ns[Head(ahead)].next)
  /\ Yield
  /\ UNCHANGED <<ns, kind, start>>

NextAncestor ==
  /\ kind = "ancestors" /\ ahead # <<>>
  /\ ahead' = At(ns[Head(ahead)].parent)
  /\ Yield
  /\ UNCHANGED <<ns, kind, start>>

Next == NextDepthFirst \/ NextBreadthFirst \/ NextSibling \/ NextAncestor

Spec == Init /\ [][Next]_vars

-----------------------------------------------------------------------------
Depth(n) == Cardinality(AncestorSet(ns, n))

Subtree == {n \in DOMAIN ns : InSubtree(ns, n, start)}

Promised ==
  CASE kind = "depthFirst"   -> SetToSortSeq(Subtree, LAMBDA m, n : Precedes(ns, m, n))
    [] kind = "breadthFirst" ->
         SetToSortSeq(Subtree, LAMBDA m, n : Depth(m) < Depth(n) \/ (Depth(m) = Depth(n) /\ Precedes(ns, m, n)))
    [] kind = "children"     ->
         SetToSortSeq({n \in DOMAIN ns : ns[n].parent = start}, LAMBDA m, n : Precedes(ns, m, n))
    [] kind = "ancestors"    -> SetToSortSeq(AncestorSet(ns, start), LAMBDA m, n : Precedes(ns, n, m))
    [] kind = "siblings"     ->
         SetToSortSeq({n \in DOMAIN ns : ns[start].parent # NULL /\ ns[n].parent = ns[start].parent /\ Precedes(ns, start, n)},
                      LAMBDA m, n : Precedes(ns, m, n))

\* An iterator never looks at a node beyond those it was created for, although
\* the links it follows lead further.
StaysInside == ToSet(ahead) \subseteq ToSet(Promised) \ ToSet(yielded)

\* It yields a prefix of the promised nodes, in their order.
YieldsInOrder == IsPrefix(yielded, Promised)

\* An iterator is at its end when it has yielded every promised node, and not before.
YieldsAll == ahead = <<>> <=> yielded = Promised

WalksExact == StaysInside /\ YieldsInOrder /\ YieldsAll
=============================================================================
