--------------------------- MODULE XPathSelecting ---------------------------
(***************************************************************************)
(* XPath expressions (crates/fhp-selector/src/xpath/ast.rs), what they     *)
(* yield from one context node (xpath/eval.rs), and Selection::xpath       *)
(* (src/lib.rs).  The matched nodes of a selection are the context nodes,  *)
(* one after the other; positions share a cache of each parent's child and *)
(* the nodes visited so far.                                               *)
(***************************************************************************)
EXTENDS SelectorOps

CONSTANT
  Cases  \* For each case the arenas of the selections and the expressions.

VARIABLES
  ns,       \* The document.
  expr,     \* The expression.
  roots,    \* The context nodes, in document order.
  pending,  \* Those still to be evaluated.
  cache,    \* positioned_children: for each parent its child at the position.
  visited,
  found,    \* Nodes, or text nodes, found so far.
  results,  \* The answer.
  answered

vars == <<ns, expr, roots, pending, cache, visited, found, results, answered>>

InOrder(S) == SetToSortSeq(S, LAMBDA m, n : Precedes(ns, m, n))

-----------------------------------------------------------------------------
(***************************************************************************)
(* Expressions are records: [axis |-> "descendant", step], a sequence of   *)
(* steps [axis |-> "path", steps], [axis |-> "parent"], and the text of    *)
(* another one [axis |-> "text", inner].  A step is [test, predicate]; a   *)
(* name test [interned, name] compares by Tag when the name has one, by    *)
(* spelling otherwise; a predicate is [kind] with its value or position.   *)
(***************************************************************************)
AnyName == [interned |-> FALSE, name |-> "*"]

IsPositioned(e) == e.axis = "descendant" /\ e.step.predicate.kind = "position"

\* The expression whose nodes are asked for, or asked for their text.
Target(e) == IF e.axis = "text" THEN e.inner ELSE e

-----------------------------------------------------------------------------
\* The synthetic root passes no name test, and * excludes it.
MatchesName(doc, n, test) ==
  /\ IsElement(doc, n)
  /\ IF test = AnyName THEN doc[n].depth > 0
     ELSE IF test.interned THEN TagOf(doc[n]) = test.name
     ELSE TagOf(doc[n]) = "unknown" /\ doc[n].name = test.name

MatchesPredicate(doc, n, predicate, position) ==
  CASE predicate.kind = "none"     -> TRUE
    [] predicate.kind = "equals"   -> predicate.value \in doc[n].attrs.titles
    [] predicate.kind = "contains" -> \E v \in doc[n].attrs.titles : HasSubstring(v, predicate.value)
    [] predicate.kind = "exists"   -> doc[n].attrs.titles # {}
    [] predicate.kind = "position" -> position = predicate.k

\* dfs_collect: the nodes of a subtree that pass, in document order.
DfsCollect(doc, root, step) ==
  LET passes(n) == MatchesName(doc, n, step.test) /\ MatchesPredicate(doc, n, step.predicate, 0)
  IN  SelectSeq(WalkOrder(doc, root), passes)

Matching(doc, nodes, test) == LET matches(n) == MatchesName(doc, n, test) IN SelectSeq(nodes, matches)

\* nth_matching_child, NULL when there is none.
NthMatchingChild(doc, parent, test, k) ==
  IF k \in DOMAIN Matching(doc, Children(doc, parent), test) THEN Matching(doc, Children(doc, parent), test)[k]
  ELSE NULL

\* A context node without a parent is in the first position.
HasPositionWithinParent(doc, n, test, k) ==
  IF doc[n].parent = NULL THEN k = 1 ELSE NthMatchingChild(doc, doc[n].parent, test, k) = n

RECURSIVE PositionedBelow(_, _, _, _)

\* collect_positioned_descendants: each child in turn, then what is below it.
PositionedBelow(doc, parent, test, k) ==
  FoldLeft(LAMBDA nodes, child :
             nodes \o (IF child = NthMatchingChild(doc, parent, test, k) THEN <<child>> ELSE <<>>)
                   \o PositionedBelow(doc, child, test, k),
           <<>>, Children(doc, parent))

FromContext(doc, root, test, k) ==
  IF MatchesName(doc, root, test) /\ HasPositionWithinParent(doc, root, test, k) THEN <<root>> ELSE <<>>

PositionedDescendants(doc, root, test, k) ==
  IF k = 0 THEN <<>> ELSE FromContext(doc, root, test, k) \o PositionedBelow(doc, root, test, k)

-----------------------------------------------------------------------------
(***************************************************************************)
(* Absolute paths, step by step over the children of what was found.       *)
(***************************************************************************)
ChildrenOfAll(doc, nodes) == FlattenSeq([i \in DOMAIN nodes |-> ElementChildren(doc, nodes[i])])

\* Children of a parent are contiguous, so the position is counted along the run.
PositionAmong(doc, run, i) == Cardinality({j \in 1..i : \A l \in j..i : doc[run[l]].parent = doc[run[i]].parent})

Passing(doc, run, predicate) ==
  FoldLeft(LAMBDA passed, i :
             IF MatchesPredicate(doc, run[i], predicate, PositionAmong(doc, run, i))
             THEN Append(passed, run[i]) ELSE passed,
           <<>>, [i \in DOMAIN run |-> i])

ApplyStep(doc, candidates, step) == Passing(doc, Matching(doc, candidates, step.test), step.predicate)

EvaluatePath(doc, root, steps) ==
  FoldLeft(LAMBDA nodes, step : ApplyStep(doc, ChildrenOfAll(doc, nodes), step), <<root>>, steps)

-----------------------------------------------------------------------------
\* collect_direct_text_children
TextChildren(doc, n) == LET isText(m) == doc[m].type = "text" IN SelectSeq(Children(doc, n), isText)
TextsOf(doc, nodes) == FlattenSeq([i \in DOMAIN nodes |-> TextChildren(doc, nodes[i])])

ParentOf(doc, root) == IF doc[root].parent = NULL THEN <<>> ELSE <<doc[root].parent>>

EvaluateNodes(doc, root, e) ==
  CASE e.axis = "parent" -> ParentOf(doc, root)
    [] e.axis = "path"   -> EvaluatePath(doc, root, e.steps)
    [] e.axis = "descendant" /\ ~ IsPositioned(e) -> DfsCollect(doc, root, e.step)
    [] IsPositioned(e)   -> PositionedDescendants(doc, root, e.step.test, e.step.predicate.k)

\* evaluate, with the nodes of text() for their strings.
Evaluate(doc, root, e) ==
  IF e.axis = "text" THEN TextsOf(doc, EvaluateNodes(doc, root, e.inner)) ELSE EvaluateNodes(doc, root, e)

-----------------------------------------------------------------------------
(***************************************************************************)
(* A selection asked for an expression.                                    *)
(***************************************************************************)
\* A selection lists elements of the document, each once, in document order.
Begin(case) ==
  /\ ns \in case.documents
  /\ expr \in case.expressions
  /\ \E S \in SUBSET {n \in DOMAIN ns : IsDocumentElement(ns, n)} \union {{RootId}} : roots = InOrder(S)
  /\ pending = roots
  /\ cache = [p \in {} |-> NULL] /\ visited = {}
  /\ found = <<>> /\ results = <<>>
  /\ answered = FALSE

Init == \E c \in DOMAIN Cases : Begin(Cases[c])

Positioning == IsPositioned(Target(expr)) /\ Len(roots) > 1

EvaluateRoot ==
  /\ pending # <<>> /\ ~ Positioning
  /\ found' = found \o Evaluate(ns, Head(pending), expr)
  /\ pending' = Tail(pending)
  /\ UNCHANGED <<ns, expr, roots, cache, visited, results, answered>>

Test == Target(expr).step.test
Wanted == Target(expr).step.predicate.k

\* Position 0 is never met.
NothingAtZero ==
  /\ pending # <<>> /\ Positioning /\ Wanted = 0
  /\ pending' = <<>>
  /\ UNCHANGED <<ns, expr, roots, cache, visited, found, results, answered>>

SkipVisited ==
  /\ pending # <<>> /\ Positioning /\ Wanted # 0
  /\ Head(pending) \in visited
  /\ pending' = Tail(pending)
  /\ UNCHANGED <<ns, expr, roots, cache, visited, found, results, answered>>

Remembered(map, p, n) == IF p \in DOMAIN map THEN map ELSE map @@ (p :> n)

\* Seeded fault: the cache holds whether the first root asked for is the child.
CacheVerdict(map, n) ==
  Remembered(map, ns[n].parent,
             IF NthMatchingChild(ns, ns[n].parent, Test, Wanted) = n THEN n ELSE NULL)

\* positioned_child: the parent of a matching root is scanned once.
CacheFor(map, n) == Remembered(map, ns[n].parent, NthMatchingChild(ns, ns[n].parent, Test, Wanted))

CacheAfter(n) == IF MatchesName(ns, n, Test) /\ ns[n].parent # NULL THEN CacheFor(cache, n) ELSE cache

IsPositionedRoot(n) ==
  MatchesName(ns, n, Test) /\ IF ns[n].parent = NULL THEN Wanted = 1 ELSE cache'[ns[n].parent] = n

RECURSIVE CollectOnce(_, _, _)
\* collect_positioned_descendants_once: children visited before are counted, but
\* neither listed nor entered again.
CollectOnce(seen, list, parent) ==
  FoldLeft(LAMBDA so, child :
             IF child \in so.seen THEN so
             ELSE CollectOnce(so.seen \union {child},
                              IF child = NthMatchingChild(ns, parent, Test, Wanted) THEN Append(so.list, child)
                              ELSE so.list,
                              child),
           [seen |-> seen, list |-> list], Children(ns, parent))

Collected(so) == visited' = so.seen /\ found' = so.list

VisitRoot ==
  /\ pending # <<>> /\ Positioning /\ Wanted # 0
  /\ Head(pending) \notin visited
  /\ cache' = CacheAfter(Head(pending))
  /\ Collected(CollectOnce(visited \union {Head(pending)},
                           IF IsPositionedRoot(Head(pending)) THEN Append(found, Head(pending)) ELSE found,
                           Head(pending)))
  /\ pending' = Tail(pending)
  /\ UNCHANGED <<ns, expr, roots, results, answered>>

Candidates == IF Positioning /\ expr.axis = "text" THEN TextsOf(ns, found) ELSE found

\* The first occurrence of each node.
WithoutDuplicates(nodes) ==
  FoldLeft(LAMBDA list, n : IF n \in ToSet(list) THEN list ELSE Append(list, n), <<>>, nodes)

\* A position over several roots needs no filter, unless text is extracted.
Answer ==
  /\ pending = <<>> /\ ~ answered
  /\ results' = IF Positioning /\ expr.axis # "text" THEN Candidates ELSE WithoutDuplicates(Candidates)
  /\ answered' = TRUE
  /\ UNCHANGED <<ns, expr, roots, pending, cache, visited, found>>

Next == EvaluateRoot \/ NothingAtZero \/ SkipVisited \/ VisitRoot \/ Answer

Spec == Init /\ [][Next]_vars

-----------------------------------------------------------------------------
(***************************************************************************)
(* What an expression selects from a context node, by the parents alone.   *)
(***************************************************************************)
SameNameBefore(n, test) ==
  {m \in DOMAIN ns : ns[m].parent = ns[n].parent /\ MatchesName(ns, m, test) /\ ~ Precedes(ns, n, m)}

Meets(n, step) ==
  /\ MatchesName(ns, n, step.test)
  /\ MatchesPredicate(ns, n, step.predicate, Cardinality(SameNameBefore(n, step.test)))

RECURSIVE Reached(_, _)
Reached(root, steps) ==
  IF steps = <<>> THEN {root}
  ELSE {n \in DOMAIN ns : Meets(n, Last(steps)) /\ ns[n].parent \in Reached(root, Front(steps))}

NodesFrom(root, e) ==
  CASE e.axis = "parent"     -> {ns[root].parent} \ {NULL}
    [] e.axis = "path"       -> Reached(root, e.steps)
    [] e.axis = "descendant" -> {n \in DOMAIN ns : InSubtree(ns, n, root) /\ Meets(n, e.step)}

Denoted ==
  LET nodes == UNION {NodesFrom(root, Target(expr)) : root \in ToSet(roots)}
  IN  IF expr.axis = "text" THEN {n \in DOMAIN ns : ns[n].type = "text" /\ ns[n].parent \in nodes} ELSE nodes

\* Every cached child of a parent is its child at the wanted position.
CacheSound ==
  \A p \in DOMAIN cache : \A n \in DOMAIN ns :
    cache[p] = n <=>
      /\ ns[n].parent = p /\ MatchesName(ns, n, Test)
      /\ Cardinality(SameNameBefore(n, Test)) = Wanted

TypeOK ==
  /\ IsSuffix(pending, roots)
  /\ visited \union ToSet(found) \union ToSet(results) \subseteq DOMAIN ns
  /\ DOMAIN cache \subseteq DOMAIN ns
  /\ answered => pending = <<>>

\* Whatever the roots share, an answer has exactly the nodes the expression
\* denotes, each of them once.
AnswersExact ==
  answered => ToSet(results) = Denoted /\ Len(results) = Cardinality(Denoted)

\* "Results are deduplicated in document order" (Selection::xpath).
InDocumentOrder == answered => results = InOrder(ToSet(results))
=============================================================================
