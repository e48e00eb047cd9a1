---------------------------- MODULE SelectorOps ----------------------------
(***************************************************************************)
(* Documents as queries see them (crates/fhp-selector): the arena of       *)
(* ArenaOps, whose root is a synthetic element of depth 0, and for every   *)
(* element the tag and the hashes that are cached for selectors; and, on   *)
(* them, the selector matcher (matcher.rs) and its ancestor filter         *)
(* (bloom.rs).                                                             *)
(*                                                                         *)
(* The attributes of an element are a record: `classes`, the names in its  *)
(* class attribute, one after the other and perhaps twice;                 *)
(* `ids`, empty or the id; `titles`, empty or the value of a title         *)
(* attribute, a sequence of characters.                                    *)
(***************************************************************************)
EXTENDS ArenaOps, SequencesExt

CONSTANTS
  KnownNames,  \* Element names that have a Tag of their own.
  ClassBit,    \* ClassBit[c]: the bit of class_hash set for class c.
  IdHash       \* IdHash[i]: the hash of id i; 0 also stands for no id.

NoAttrs == [classes |-> <<>>, ids |-> {}, titles |-> {}]

RootNode == BlankNode("element", "#document", NoAttrs, <<>>, 0)

TagOf(node) == IF node.name \in KnownNames THEN node.name ELSE "unknown"

\* update_selector_hashes: the cached summaries of the class and id attributes.
Classes(node) == {node.attrs.classes[i] : i \in DOMAIN node.attrs.classes}
ClassHash(node) == {ClassBit[c] : c \in Classes(node)}
IdHashOf(node) == IF node.attrs.ids = {} THEN 0 ELSE IdHash[CHOOSE i \in node.attrs.ids : TRUE]

\* The synthetic root, text, comments and doctypes are no elements of a document.
IsDocumentElement(ns, n) == IsElement(ns, n) /\ ns[n].depth > 0

HasSubstring(value, part) ==
  \E i \in 0..Len(value) - Len(part) : SubSeq(value, i + 1, i + Len(part)) = part

-----------------------------------------------------------------------------
\* The proper ancestors of n from its parent to the root.
Ancestors(ns, n) ==
  LET climb[m \in 0..Len(ns)] ==
        IF m = NULL THEN <<>> ELSE <<m>> \o climb[ns[m].parent]
  IN  climb[ns[n].parent]

\* The nearest element among the siblings in front of n, and behind n.
PrevElementSibling(ns, n) ==
  LET nearest[m \in 0..Len(ns)] ==
        IF m = NULL \/ (m # NULL /\ IsDocumentElement(ns, m)) THEN m ELSE nearest[ns[m].prev]
  IN  nearest[ns[n].prev]

NextElementSibling(ns, n) ==
  LET nearest[m \in 0..Len(ns)] ==
        IF m = NULL \/ (m # NULL /\ IsDocumentElement(ns, m)) THEN m ELSE nearest[ns[m].next]
  IN  nearest[ns[n].next]

ElementChildren(ns, p) ==
  LET isElement(m) == IsElement(ns, m) IN SelectSeq(Children(ns, p), isElement)

-----------------------------------------------------------------------------
(***************************************************************************)
(* Document order and kinship, defined by the parents alone, for the       *)
(* reference definitions queries are checked against.                      *)
(***************************************************************************)
RECURSIVE AncestorSet(_, _)
AncestorSet(ns, n) ==
  IF ns[n].parent = NULL THEN {} ELSE {ns[n].parent} \union AncestorSet(ns, ns[n].parent)

InSubtree(ns, n, root) == n = root \/ root \in AncestorSet(ns, n)

ElementSiblings(ns, n) ==
  {m \in 1..Len(ns) : ns[n].parent # NULL /\ ns[m].parent = ns[n].parent /\ IsDocumentElement(ns, m)}

PositionIn(seq, x) == CHOOSE i \in DOMAIN seq : seq[i] = x

Precedes(ns, m, n) ==
  LET order == DocumentOrder(ns, RootId) IN PositionIn(order, m) < PositionIn(order, n)

\* Append a node below p, as append_child does, with its depth and index.
AddNode(ns, p, node) ==
  RecomputeElementIndices(
    AppendSubtree(Append(ns, [node EXCEPT !.depth = ns[p].depth + 1]), p, Len(ns) + 1), p)

-----------------------------------------------------------------------------
(***************************************************************************)
(* Selectors.  A selector has a subject, a compound, and a chain of links  *)
(* that are walked from the subject to the left, each a combinator and a   *)
(* compound.  A compound is a set of parts an element must satisfy.        *)
(***************************************************************************)
Tag(name)         == [kind |-> "tag", name |-> name]
UnknownTag(name)  == [kind |-> "unknown", name |-> name]
Class(name)       == [kind |-> "class", name |-> name]
Id(name)          == [kind |-> "id", name |-> name]
Universal         == [kind |-> "universal"]
Attr(op, value)   == [kind |-> "attr", op |-> op, value |-> value]
FirstChild        == [kind |-> "first"]
LastChild         == [kind |-> "last"]
NthChild(a, b)    == [kind |-> "nth", a |-> a, b |-> b]
Not(compound)     == [kind |-> "not", inner |-> compound]

Combinators == {"descendant", "child", "adjacent", "sibling"}
Link(combinator, compound) == [combinator |-> combinator, compound |-> compound]
Selector(subject, chain) == [subject |-> subject, chain |-> chain]

-----------------------------------------------------------------------------
(***************************************************************************)
(* Compounds, tested with the cached hashes and indices.                   *)
(***************************************************************************)
\* An id that hashes to the sentinel 0 is never rejected by its hash.
IdHashRejects(node, hash) == hash # 0 /\ IdHashOf(node) # hash

HasClass(node, name) == ClassBit[name] \in ClassHash(node) /\ name \in Classes(node)
HasId(node, name) == ~ IdHashRejects(node, IdHash[name]) /\ name \in node.attrs.ids

\* contains_html_space_token
HasToken(value, token) ==
  token # <<>> /\ \E i \in 1..Len(value) : \E j \in i..Len(value) :
    /\ SubSeq(value, i, j) = token
    /\ \A k \in i..j : value[k] # " "
    /\ i = 1 \/ value[i - 1] = " "
    /\ j = Len(value) \/ value[j + 1] = " "

AttrMatches(op, actual, value) ==
  CASE op = "exists"     -> TRUE
    [] op = "equals"     -> actual = value
    [] op = "includes"   -> HasToken(actual, value)
    [] op = "startsWith" -> value # <<>> /\ IsPrefix(value, actual)
    [] op = "endsWith"   -> value # <<>> /\ IsSuffix(value, actual)
    [] op = "substring"  -> value # <<>> /\ HasSubstring(actual, value)

Abs(n) == IF n < 0 THEN -n ELSE n

\* Seeded fault: the sign of the quotient is not looked at.
MultipleOf(a, b, index) == IF a = 0 THEN index = b ELSE (index - b) % Abs(a) = 0

\* index = a * k + b for some k >= 0, with one division.
MatchesNth(a, b, index) ==
  IF a = 0 THEN index = b
  ELSE (index - b) % Abs(a) = 0 /\ (index = b \/ (index > b <=> a > 0))

IsFirstElementChild(ns, n) == ns[n].parent # NULL /\ PrevElementSibling(ns, n) = NULL
IsLastElementChild(ns, n) == ns[n].parent # NULL /\ NextElementSibling(ns, n) = NULL

RECURSIVE MatchCompound(_, _, _)
MatchSimple(ns, n, part) ==
  CASE part.kind = "tag"       -> part.name \in KnownNames /\ TagOf(ns[n]) = part.name
    [] part.kind = "unknown"   -> TagOf(ns[n]) = "unknown" /\ ns[n].name = part.name
    [] part.kind = "class"     -> HasClass(ns[n], part.name)
    [] part.kind = "id"        -> HasId(ns[n], part.name)
    [] part.kind = "universal" -> TRUE
    [] part.kind = "attr"      -> \E v \in ns[n].attrs.titles : AttrMatches(part.op, v, part.value)
    [] part.kind = "first"     -> IsFirstElementChild(ns, n)
    [] part.kind = "last"      -> IsLastElementChild(ns, n)
    [] part.kind = "nth"       -> ns[n].parent # NULL /\ MatchesNth(part.a, part.b, ns[n].index)
    [] part.kind = "not"       -> ~ MatchCompound(ns, n, part.inner)

MatchCompound(ns, n, compound) ==
  IsDocumentElement(ns, n) /\ \A part \in compound : MatchSimple(ns, n, part)

-----------------------------------------------------------------------------
(***************************************************************************)
(* The chain, matched from right to left with a memo: memo[<<n, i>>] is    *)
(* what match_chain found for node n and link i.  An answer carries the    *)
(* memo after it.                                                          *)
(***************************************************************************)
EmptyMemo == [key \in {} |-> FALSE]
Verdict(found, memo) == [found |-> found, memo |-> memo]

Key(n, i) == <<n, i>>
Known(memo, n, i) == Key(n, i) \in DOMAIN memo

Remember(answer, n, i) == [answer EXCEPT !.memo = (Key(n, i) :> answer.found) @@ @]

RECURSIVE MatchChain(_, _, _, _, _)

\* Is m the element link i asks for, and does the rest of the chain match it?
TryLink(ns, chain, m, i, memo) ==
  IF m # NULL /\ MatchCompound(ns, m, chain[i].compound) THEN MatchChain(ns, chain, m, i + 1, memo)
  ELSE Verdict(FALSE, memo)

TryAncestors(ns, chain, n, i, memo) ==
  FoldLeft(LAMBDA answer, m : IF answer.found THEN answer ELSE TryLink(ns, chain, m, i, answer.memo),
           Verdict(FALSE, memo), Ancestors(ns, n))

\* The element siblings in front of n, the first one first.
EarlierElements(ns, n) ==
  LET earlier[m \in 0..Len(ns)] ==
        IF PrevElementSibling(ns, m) = NULL THEN <<>>
        ELSE Append(earlier[PrevElementSibling(ns, m)], PrevElementSibling(ns, m))
  IN  earlier[n]

LastKnown(memo, nodes, i) ==
  LET known == {j \in DOMAIN nodes : Known(memo, nodes[j], i)}
  IN  IF known = {} THEN 0 ELSE CHOOSE j \in known : \A k \in known : k <= j

\* Forward from the last sibling whose value is known, or else from the first,
\* whose value is FALSE; the value of every sibling on the way is remembered.
WalkSiblings(ns, chain, nodes, from, i, start) ==
  FoldLeft(LAMBDA answer, j :
             Remember(IF answer.found THEN answer ELSE TryLink(ns, chain, nodes[j], i, answer.memo),
                      nodes[j + 1], i),
           start, [j \in 1..Len(nodes) - from |-> from + j - 1])

TrySiblings(ns, chain, earlier, n, i, memo, known) ==
  IF earlier = <<>> THEN Verdict(FALSE, memo)
  ELSE IF known = 0 THEN WalkSiblings(ns, chain, Append(earlier, n), 1, i, Verdict(FALSE, memo))
  ELSE WalkSiblings(ns, chain, Append(earlier, n), known, i,
                    Verdict(memo[Key(earlier[known], i)], memo))

MatchLink(ns, chain, n, i, memo, earlier) ==
  CASE chain[i].combinator = "descendant" -> TryAncestors(ns, chain, n, i, memo)
    [] chain[i].combinator = "child"      -> TryLink(ns, chain, ns[n].parent, i, memo)
    [] chain[i].combinator = "adjacent"   -> TryLink(ns, chain, PrevElementSibling(ns, n), i, memo)
    [] chain[i].combinator = "sibling"    ->
         TrySiblings(ns, chain, earlier, n, i, memo, LastKnown(memo, earlier, i))

MatchChain(ns, chain, n, i, memo) ==
  IF i > Len(chain) THEN Verdict(TRUE, memo)
  ELSE IF Known(memo, n, i) THEN Verdict(memo[Key(n, i)], memo)
  ELSE Remember(MatchLink(ns, chain, n, i, memo, EarlierElements(ns, n)), n, i)

\* SelectorMatcher::matches
Matches(ns, n, selector, memo) ==
  IF MatchCompound(ns, n, selector.subject) THEN MatchChain(ns, selector.chain, n, 1, memo)
  ELSE Verdict(FALSE, memo)

-----------------------------------------------------------------------------
(***************************************************************************)
(* The ancestor filter: what the ancestors of a node may offer, and what   *)
(* the ancestors of every match must offer.                                *)
(***************************************************************************)
IdBits == 64
IdBit(hash) == hash % IdBits

EmptyFilter == [tags |-> {}, classes |-> {}, ids |-> {}]

Union(f, g) ==
  [tags |-> f.tags \union g.tags, classes |-> f.classes \union g.classes, ids |-> f.ids \union g.ids]

Offers(node) ==
  IF node.type # "element" THEN EmptyFilter
  ELSE [tags |-> {TagOf(node)}, classes |-> ClassHash(node),
        ids |-> IF IdHashOf(node) = 0 THEN {} ELSE {IdBit(IdHashOf(node))}]

FilterWith(filter, node) == Union(filter, Offers(node))

FilterOfAncestors(ns, n) ==
  FoldLeft(LAMBDA filter, m : FilterWith(filter, ns[m]), EmptyFilter, Ancestors(ns, n))

PartRequires(part) ==
  CASE part.kind = "tag" /\ part.name \in KnownNames -> [EmptyFilter EXCEPT !.tags = {part.name}]
    [] part.kind = "class" -> [EmptyFilter EXCEPT !.classes = {ClassBit[part.name]}]
    [] part.kind = "id" /\ IdHash[part.name] # 0 -> [EmptyFilter EXCEPT !.ids = {IdBit(IdHash[part.name])}]
    [] OTHER -> EmptyFilter

\* Seeded fault: siblings on the way are required among the ancestors too.
RequiresEvery(link) == TRUE

\* Only these combinators lead to an ancestor.
Requires(link) == link.combinator \in {"descendant", "child"}

RequiredBy(selector) ==
  FoldLeft(LAMBDA required, link :
             IF Requires(link)
             THEN FoldSet(LAMBDA part, f : Union(f, PartRequires(part)), required, link.compound)
             ELSE required,
           EmptyFilter, selector.chain)

MaySatisfy(filter, required) ==
  /\ required.tags \subseteq filter.tags
  /\ required.classes \subseteq filter.classes
  /\ required.ids \subseteq filter.ids

-----------------------------------------------------------------------------
(***************************************************************************)
(* SelectionCollector::new: how a list of selectors is looked for.         *)
(***************************************************************************)
LonePart(selector, kind) ==
  selector.chain = <<>> /\ \E part \in selector.subject : selector.subject = {part} /\ part.kind = kind

HasDescendantCombinator(selector) == \E i \in DOMAIN selector.chain : selector.chain[i].combinator = "descendant"

Strategy(list) ==
  CASE Len(list) # 1 -> "list"
    [] LonePart(list[1], "tag") -> "tag"
    [] LonePart(list[1], "id") -> "id"
    [] HasDescendantCombinator(list[1]) /\ RequiredBy(list[1]) # EmptyFilter -> "filtered"
    [] OTHER -> "simple"

\* Does one of the selectors match n?  The first that does is the last one tried.
MatchesAny(ns, n, list, memos) ==
  FoldLeft(LAMBDA answer, k :
             IF answer.found THEN answer
             ELSE LET one == Matches(ns, n, list[k], answer.memos[k])
                  IN  [found |-> one.found, memos |-> [answer.memos EXCEPT ![k] = one.memo]],
           [found |-> FALSE, memos |-> memos], [k \in DOMAIN list |-> k])

Unmatched(memos) == [found |-> FALSE, memos |-> memos]

\* One node of the walk, with the filter of its ancestors.
Consider(ns, n, list, memos, filter, strategy) ==
  CASE ~ IsDocumentElement(ns, n) -> Unmatched(memos)
    [] strategy = "filtered" /\ ~ MaySatisfy(filter, RequiredBy(list[1])) -> Unmatched(memos)
    [] strategy \in {"tag", "id"} ->
         [found |-> \A part \in list[1].subject : MatchSimple(ns, n, part), memos |-> memos]
    [] OTHER -> MatchesAny(ns, n, list, memos)

WalkOrder(ns, root) == DocumentOrder(ns, root)

\* select_first_list: the walk without a filter, up to the first match.
SelectFirst(ns, root, list) ==
  FoldLeft(LAMBDA answer, n :
             IF answer.node # NULL THEN answer
             ELSE LET verdict == Consider(ns, n, list, answer.memos, EmptyFilter,
                                          IF Strategy(list) = "filtered" THEN "simple" ELSE Strategy(list))
                  IN  [node |-> IF verdict.found THEN n ELSE NULL, memos |-> verdict.memos],
           [node |-> NULL, memos |-> [k \in DOMAIN list |-> EmptyMemo]], WalkOrder(ns, root)).node
=============================================================================
