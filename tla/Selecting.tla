----------------------------- MODULE Selecting -----------------------------
(***************************************************************************)
(* A selection (select_all_list and select_all_list_roots of               *)
(* crates/fhp-selector/src/matcher.rs): the subtrees of the roots are      *)
(* walked one after the other, and the memo tables are shared by all       *)
(* candidates of all roots.  `agenda` is the recursion of the collector:   *)
(* the nodes it comes to next, each with the filter of its ancestors.      *)
(***************************************************************************)
EXTENDS SelectorOps

CONSTANT
  Cases  \* For each case the arenas, the selector lists, the nodes given as roots,
         \* and how many of them at most.

ASSUME CasesAssumption == \A c \in DOMAIN Cases : Cases[c].length \in Nat

VARIABLES
  ns,       \* The document.
  list,     \* The selectors.
  roots,    \* The roots given.
  begun,    \* How many of them were begun or skipped.
  agenda,
  memos,    \* One memo for each selector.
  done,     \* The roots whose subtree was collected.
  results

vars == <<ns, list, roots, begun, agenda, memos, done, results>>

RootSequences(doc, case) == UNION {[1..m -> case.roots \intersect DOMAIN doc] : m \in 1..case.length}

Begin(case) ==
  /\ ns \in case.documents
  /\ list \in case.lists
  /\ roots \in RootSequences(ns, case)
  /\ begun = 0
  /\ agenda = <<>>
  /\ memos = [k \in DOMAIN list |-> EmptyMemo]
  /\ done = {}
  /\ results = <<>>

Init == \E c \in DOMAIN Cases : Begin(Cases[c])

IsCovered(n) == n \in done \/ \E m \in ToSet(Ancestors(ns, n)) : m \in done

Entry(n) == [node |-> n, ancestors |-> FilterOfAncestors(ns, n)]

\* A root below an earlier one adds nothing.
WalkOf(n) == IF IsCovered(n) THEN <<>> ELSE <<Entry(n)>>

BeginRoot ==
  /\ agenda = <<>>
  /\ begun < Len(roots)
  /\ begun' = begun + 1
  /\ agenda' = WalkOf(roots[begun + 1])
  /\ UNCHANGED <<ns, list, roots, memos, done, results>>

\* A walk that ends marks its root as done.
Continue(rest) ==
  /\ agenda' = rest
  /\ done' = IF rest = <<>> THEN done \union {roots[begun]} ELSE done

SkipDone ==
  /\ agenda # <<>>
  /\ Head(agenda).node \in done
  /\ Continue(Tail(agenda))
  /\ UNCHANGED <<ns, list, roots, begun, memos, results>>

EntriesBelow(entry, kids, filter) ==
  [i \in DOMAIN kids |-> [node |-> kids[i], ancestors |-> filter]]

Visited(entry, verdict) ==
  /\ memos' = verdict.memos
  /\ results' = IF verdict.found THEN Append(results, entry.node) ELSE results
  /\ Continue(EntriesBelow(entry, Children(ns, entry.node), FilterWith(entry.ancestors, ns[entry.node]))
              \o Tail(agenda))
  /\ UNCHANGED <<ns, list, roots, begun>>

Visit ==
  /\ agenda # <<>>
  /\ Head(agenda).node \notin done
  /\ Visited(Head(agenda), Consider(ns, Head(agenda).node, list, memos, Head(agenda).ancestors, Strategy(list)))

Next == BeginRoot \/ SkipDone \/ Visit

Spec == Init /\ [][Next]_vars

-----------------------------------------------------------------------------
(***************************************************************************)
(* Which elements a selector matches, from the parents of the nodes and    *)
(* their attributes alone.                                                 *)
(***************************************************************************)
InOrder(S) == SetToSortSeq(S, LAMBDA m, n : Precedes(ns, m, n))

Siblings(n) == InOrder(ElementSiblings(ns, n))

RECURSIVE Satisfies(_, _)
Has(n, part) ==
  CASE part.kind \in {"tag", "unknown"} -> ns[n].name = part.name
    [] part.kind = "class" -> part.name \in Classes(ns[n])
    [] part.kind = "id"    -> part.name \in ns[n].attrs.ids
    [] part.kind = "universal" -> TRUE
    [] part.kind = "attr"  -> \E v \in ns[n].attrs.titles : AttrMatches(part.op, v, part.value)
    [] part.kind = "first" -> n = Siblings(n)[1]
    [] part.kind = "last"  -> n = Siblings(n)[Len(Siblings(n))]
    [] part.kind = "nth"   -> \E k \in 0..Len(ns) + Abs(part.b) : PositionIn(Siblings(n), n) = part.a * k + part.b
    [] part.kind = "not"   -> ~ Satisfies(n, part.inner)
Satisfies(n, compound) == IsDocumentElement(ns, n) /\ \A part \in compound : Has(n, part)

Reaches(combinator, n, m) ==
  CASE combinator = "descendant" -> m \in AncestorSet(ns, n)
    [] combinator = "child"      -> m = ns[n].parent
    [] combinator = "sibling"    -> m \in ElementSiblings(ns, n) /\ Precedes(ns, m, n)
    [] combinator = "adjacent"   -> /\ m \in ElementSiblings(ns, n)
                                    /\ PositionIn(Siblings(n), n) = PositionIn(Siblings(n), m) + 1

\* Elements that the links from i on lead to, one after the other.
ChainHolds(n, chain, i) ==
  \E w \in [i - 1..Len(chain) -> DOMAIN ns] :
    /\ w[i - 1] = n
    /\ \A j \in i..Len(chain) :
         Satisfies(w[j], chain[j].compound) /\ Reaches(chain[j].combinator, w[j - 1], w[j])

Selected(n) == \E k \in DOMAIN list : Satisfies(n, list[k].subject) /\ ChainHolds(n, list[k].chain, 1)

SelectedBelow(j) ==
  InOrder({n \in DOMAIN ns : /\ InSubtree(ns, n, roots[j])
                             /\ \A i \in 1..j - 1 : ~ InSubtree(ns, n, roots[i])
                             /\ Selected(n)})

Expected == FoldLeft(LAMBDA found, j : found \o SelectedBelow(j), <<>>, [j \in DOMAIN roots |-> j])

-----------------------------------------------------------------------------
TypeOK ==
  /\ begun \in 0..Len(roots)
  /\ done \subseteq ToSet(roots)
  /\ \A i \in DOMAIN agenda : agenda[i].node \in DOMAIN ns
  /\ ToSet(results) \subseteq DOMAIN ns
  /\ \A k \in DOMAIN list : DOMAIN memos[k] \subseteq (DOMAIN ns) \X (DOMAIN list[k].chain)

\* "Memo entries depend only on the node, not on the traversal root" (matcher.rs):
\* whatever was visited before, an entry says whether the rest of the chain holds.
MemoSound ==
  \A k \in DOMAIN list : \A key \in DOMAIN memos[k] :
    memos[k][key] = ChainHolds(key[1], list[k].chain, key[2])

\* "A filter never rejects a node that has a matching ancestor" (bloom.rs), also
\* below a root whose own ancestors are not walked.
FilterNeverRejectsMatch ==
  \A i \in DOMAIN agenda : \A k \in DOMAIN list :
    ChainHolds(agenda[i].node, list[k].chain, 1) =>
      MaySatisfy(agenda[i].ancestors, RequiredBy(list[k]))

Finished == agenda = <<>> /\ begun = Len(roots)

\* The results are the selected nodes of every root's subtree, each once, root after
\* root and in document order within a root.
SelectsExactly ==
  /\ IsPrefix(results, Expected)
  /\ Finished => results = Expected

\* select_first and select_all agree, though only one of them uses the filter.
FirstIsHead ==
  Finished /\ Len(roots) = 1 =>
    SelectFirst(ns, roots[1], list) = (IF results = <<>> THEN NULL ELSE results[1])
=============================================================================
