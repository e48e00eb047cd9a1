------------------------------ MODULE ArenaOps ------------------------------
(***************************************************************************)
(* The node arena of the tree (crates/fhp-tree/src/arena.rs): nodes live   *)
(* in one array, and the tree is the five links each node keeps.  `ns` is  *)
(* the array; node n of the code is ns[n + 1], and NodeId::NULL is 0.      *)
(*                                                                         *)
(* A node holds its type, name (elements), attrs, text (text nodes), the   *)
(* five links, `index`, the 1-based position among its element siblings,   *)
(* and `depth`, which adoption agency moves may leave stale.               *)
(***************************************************************************)
EXTENDS Integers, Sequences, FiniteSets

NULL == 0
RootId == 1

NodeTypes == {"element", "text", "comment", "doctype"}

BlankNode(type, name, attrs, text, depth) ==
  [type |-> type, name |-> name, attrs |-> attrs, text |-> text,
   depth |-> depth, index |-> 0, parent |-> NULL, prev |-> NULL,
   next |-> NULL, first |-> NULL, last |-> NULL]

IsElement(ns, n) == ns[n].type = "element"

\* A clone shares name and attributes with the original and has no children.
CloneElementShallow(ns, source, depth) ==
  Append(ns, BlankNode("element", ns[source].name, ns[source].attrs, <<>>, depth))

-----------------------------------------------------------------------------
\* The nodes from n to the last sibling, in order.
SiblingsFrom(ns, n) ==
  LET walk[m \in 0..Len(ns)] ==
        IF m = NULL THEN <<>> ELSE <<m>> \o walk[ns[m].next]
  IN  walk[n]

Children(ns, p) == SiblingsFrom(ns, ns[p].first)

ElementsFrom(ns, n) ==
  LET isElement(m) == IsElement(ns, m) IN SelectSeq(SiblingsFrom(ns, n), isElement)

\* The array with node m replaced by New(m), for every m; SubSeq makes the
\* function an explicit sequence.
UpdateNodes(ns, New(_)) == SubSeq([m \in DOMAIN ns |-> New(m)], 1, Len(ns))

\* Add `shift` to the index of every element from sibling n on.
ShiftElementIndices(ns, n, shift) ==
  LET later == {ElementsFrom(ns, n)[i] : i \in 1..Len(ElementsFrom(ns, n))}
      shifted(m) == IF m \in later THEN [ns[m] EXCEPT !.index = @ + shift] ELSE ns[m]
  IN  UpdateNodes(ns, shifted)

RecomputeElementIndices(ns, p) ==
  LET elements == ElementsFrom(ns, ns[p].first)
      positions(m) == {i \in DOMAIN ns : i <= Len(elements) /\ elements[i] = m}
      counted(m) == IF positions(m) = {} THEN ns[m]
                    ELSE [ns[m] EXCEPT !.index = CHOOSE i \in positions(m) : TRUE]
  IN  UpdateNodes(ns, counted)

-----------------------------------------------------------------------------
(***************************************************************************)
(* Link edits.  Each returns the whole array after every link is written.  *)
(***************************************************************************)
AppendSubtree(ns, p, c) ==
  LET last   == ns[p].last
      linked == [ns EXCEPT ![c].parent = p, ![c].prev = last, ![p].last = c]
  IN  IF last = NULL THEN [linked EXCEPT ![p].first = c]
                     ELSE [linked EXCEPT ![last].next = c]

InsertSubtreeBefore(ns, p, ref, c) ==
  LET previous == ns[ref].prev
      linked   == [ns EXCEPT ![c].parent = p, ![c].prev = previous, ![c].next = ref,
                             ![ref].prev = c]
  IN  IF previous = NULL THEN [linked EXCEPT ![p].first = c]
                         ELSE [linked EXCEPT ![previous].next = c]

Unlink(ns, x) ==
  LET parent   == ns[x].parent
      previous == ns[x].prev
      next     == ns[x].next
      forward  == IF previous = NULL THEN [ns EXCEPT ![parent].first = next]
                                     ELSE [ns EXCEPT ![previous].next = next]
      backward == IF next = NULL THEN [forward EXCEPT ![parent].last = previous]
                                 ELSE [forward EXCEPT ![next].prev = previous]
  IN  [backward EXCEPT ![x].parent = NULL, ![x].prev = NULL, ![x].next = NULL]

\* detach: later element siblings move up one index.
Detach(ns, x) ==
  IF ns[x].parent = NULL THEN ns
  ELSE IF IsElement(ns, x) THEN ShiftElementIndices(Unlink(ns, x), ns[x].next, -1)
  ELSE Unlink(ns, x)

\* Seeded fault: only the first child learns its new parent.
MoveFirstChild(ns, from, to) ==
  IF ns[from].first = NULL THEN ns
  ELSE [ns EXCEPT ![from].first = NULL, ![from].last = NULL,
                  ![to].first = ns[from].first, ![to].last = ns[from].last,
                  ![ns[from].first].parent = to, ![ns[from].first].next = NULL]

\* `to` has no children.
MoveChildren(ns, from, to) ==
  LET adopted(m) == IF ns[m].parent = from THEN [ns[m] EXCEPT !.parent = to] ELSE ns[m]
      moved == UpdateNodes(ns, adopted)
  IN  IF ns[from].first = NULL THEN ns
      ELSE [moved EXCEPT ![from].first = NULL, ![from].last = NULL,
                         ![to].first = ns[from].first, ![to].last = ns[from].last]

-----------------------------------------------------------------------------
(***************************************************************************)
(* Depths.  A stored depth is exact for a node allocated after the last    *)
(* move that shifted depths (n > stale.before) and for the nodes that were *)
(* open during it (stale.exact); before = 0 stands for None.               *)
(***************************************************************************)
NotStale == [before |-> 0, exact |-> {}]

SetDepthBelowParent(ns, n) == [ns EXCEPT ![n].depth = ns[ns[n].parent].depth + 1]

\* Number of proper ancestors.
TrueDepth(ns, n) ==
  LET depth[m \in 1..Len(ns)] ==
        IF ns[m].parent = NULL THEN 0 ELSE depth[ns[m].parent] + 1
  IN  depth[n]

ExactDepth(ns, stale, n) ==
  LET climb[m \in 1..Len(ns)] ==
        IF m > stale.before \/ m \in stale.exact THEN ns[m].depth
        ELSE IF ns[m].parent = NULL THEN 0
        ELSE climb[ns[m].parent] + 1
  IN  climb[n]

RefreshDepths(ns, root, stale) ==
  LET depth[m \in 1..Len(ns)] ==
        IF m = root \/ ns[m].parent = NULL THEN ns[m].depth
        ELSE depth[ns[m].parent] + 1
  IN  IF stale = NotStale THEN ns
      ELSE LET refreshed(m) == [ns[m] EXCEPT !.depth = depth[m]] IN UpdateNodes(ns, refreshed)

-----------------------------------------------------------------------------
(***************************************************************************)
(* Well-formed trees.                                                      *)
(***************************************************************************)
\* The five links of every node agree with those of its neighbours.
LinksAgree(ns) ==
  \A n \in 1..Len(ns) :
    LET m == ns[n]
    IN  /\ m.next # NULL => ns[m.next].prev = n /\ ns[m.next].parent = m.parent
        /\ m.prev # NULL => ns[m.prev].next = n /\ ns[m.prev].parent = m.parent
        /\ m.first # NULL => ns[m.first].parent = n /\ ns[m.first].prev = NULL
        /\ m.last # NULL => ns[m.last].parent = n /\ ns[m.last].next = NULL
        /\ m.first = NULL <=> m.last = NULL
        /\ m.parent # NULL /\ m.prev = NULL => ns[m.parent].first = n
        /\ m.parent # NULL /\ m.next = NULL => ns[m.parent].last = n
        /\ m.parent = NULL => m.prev = NULL /\ m.next = NULL

\* Every node but the root hangs below the root, and no parent chain is longer
\* than the number of nodes.
RootedAt(ns, root) ==
  LET reaches[fuel \in 0..Len(ns)] ==
        IF fuel = 0 THEN {root}
        ELSE LET above == reaches[fuel - 1]
             IN  {n \in 1..Len(ns) : n = root \/ ns[n].parent \in above}
  IN  ns[root].parent = NULL /\ reaches[Len(ns)] = 1..Len(ns)

\* Element children are numbered from 1 in order, other nodes not at all.
IndicesAgree(ns) ==
  \A n \in 1..Len(ns) :
    LET elements == ElementsFrom(ns, ns[n].first)
    IN  /\ \A i \in 1..Len(elements) : ns[elements[i]].index = i
        /\ ~ IsElement(ns, n) => ns[n].index = 0

\* The descendants of `top`, itself included, in document order.
DocumentOrder(ns, top) ==
  LET order[n \in 1..Len(ns)] ==
        LET kids == Children(ns, n)
            below[i \in 0..Len(kids)] == IF i = 0 THEN <<>> ELSE below[i - 1] \o order[kids[i]]
        IN  <<n>> \o below[Len(kids)]
  IN  order[top]
=============================================================================
