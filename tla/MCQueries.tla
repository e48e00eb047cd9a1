----------------------------- MODULE MCQueries -----------------------------
(***************************************************************************)
(* Bounded instances of the queries on small documents: selections by CSS  *)
(* selectors, by XPath expressions, the tree iterators and the index.      *)
(* `asked` is the case in question; the other machines rest on the         *)
(* document that is only a root.                                           *)
(***************************************************************************)
EXTENDS Selecting

CONSTANT XPathCases

VARIABLES
  asked,
  xdoc, expr, xroots, pending, cache, visited, found, answer, answered,
  wdoc, kind, start, wahead, yielded,
  idoc, iahead, id_map, class_map, tag_map

selectVars == vars
xpathVars  == <<xdoc, expr, xroots, pending, cache, visited, found, answer, answered>>
walkVars   == <<wdoc, kind, start, wahead, yielded>>
indexVars  == <<idoc, iahead, id_map, class_map, tag_map>>

-----------------------------------------------------------------------------
(***************************************************************************)
(* Small documents.                                                        *)
(***************************************************************************)
\* "x" and "y" share a bit; ids "i" and "j" a hash, "k" their bit; "z" hashes to 0.
MCClassBit == [c \in {"x", "y"} |-> 7]
MCIdHash == [i \in {"i", "j", "k", "z"} |-> IF i = "z" THEN 0 ELSE IF i = "k" THEN 65 ELSE 1]

\* A document from the parents of its nodes, in the order they are allocated and
\* appended.
Build(parents, nodes) ==
  FoldLeft(LAMBDA doc, i : AddNode(doc, parents[i], nodes[i]), <<RootNode>>, [i \in DOMAIN nodes |-> i])

\* Every tree of n nodes below the root, in document order ...
LastBranch(parents) ==
  LET up[i \in 1..Len(parents) + 1] == IF i = 1 THEN {1} ELSE {i} \union up[parents[i - 1]]
  IN  up[Len(parents) + 1]
TreeOrders[n \in Nat] ==
  IF n = 0 THEN {<<>>}
  ELSE UNION {{Append(parents, p) : p \in LastBranch(parents)} : parents \in TreeOrders[n - 1]}

\* ... or in every order in which parents come first.
AnyOrders(n) == {p \in [1..n -> 1..n] : \A i \in 1..n : p[i] <= i}

\* Only elements have children.
Fits(parents, nodes) == \A i \in DOMAIN nodes : parents[i] > 1 => nodes[parents[i] - 1].type = "element"

DocumentsOf(orders, kinds, n) ==
  UNION {{Build(p, nodes) : p \in {q \in orders : Fits(q, nodes)}} : nodes \in [1..n -> kinds]}

Element(name, attrs) == BlankNode("element", name, attrs, <<>>, 0)
Text == BlankNode("text", "", NoAttrs, <<"t">>, 0)
A == Element("a", NoAttrs)
B == Element("b", NoAttrs)
Titled(value) == Element("a", [NoAttrs EXCEPT !.titles = {value}])

OnlyRoot == <<RootNode>>

-----------------------------------------------------------------------------
(***************************************************************************)
(* Selectors.                                                              *)
(***************************************************************************)
Lone(part) == <<Selector({part}, <<>>)>>
Links(compounds) == {Link(c, compound) : c \in Combinators, compound \in compounds}

\* Chains of two links between elements of two names.
Chains ==
  [documents |-> DocumentsOf(TreeOrders[4], {A, B}, 4),
   lists     |-> {<<Selector({Tag("a")}, chain)>> : chain \in [1..2 -> Links({{Tag("a")}, {Tag("b")}})]},
   roots     |-> {1},
   length    |-> 1]

\* Classes and ids whose hashes collide, an id that hashes to 0, an unknown name.
FilterParts == {Tag("a"), UnknownTag("u"), Class("x"), Id("i"), Id("j"), Id("z")}

Filters ==
  [documents |->
     DocumentsOf(AnyOrders(3),
       {Element("u", [NoAttrs EXCEPT !.classes = <<"x">>]), Element("a", [NoAttrs EXCEPT !.ids = {"i"}]),
        Element("a", [NoAttrs EXCEPT !.ids = {"z"}, !.classes = <<"y">>])}, 3),
   lists     |->
     {<<Selector({Universal}, <<Link("sibling", {p}), Link("descendant", {q})>>)>> : p, q \in FilterParts}
       \union {<<Selector({Universal}, <<Link("descendant", {p})>>), Selector({q}, <<>>)>> : p, q \in FilterParts}
       \union {Lone(p) : p \in FilterParts},
   roots     |-> {1, 3},
   length    |-> 1]

\* The tests of single elements: positions, attribute values, negations.
Values == {<<>>, <<"p">>, <<"q">>, <<"p", "q">>, <<"p", " ">>}

Parts ==
  [documents |->
     DocumentsOf(TreeOrders[4], {A, Text}, 4) \union DocumentsOf(TreeOrders[2], {A, B}, 2) \union
     DocumentsOf(TreeOrders[1], {Titled(v) : v \in UNION {[1..m -> {"p", "q", " "}] : m \in 0..3}}, 1),
   lists     |->
     {Lone(p) : p \in {FirstChild, LastChild, Not({FirstChild}), Not({Tag("a")}), Not({Not({LastChild})})}
                  \union {NthChild(a, b) : a \in -2..2, b \in -3..3}
                  \union {Attr(op, v) : op \in {"exists", "equals", "includes", "startsWith", "endsWith", "substring"},
                                         v \in Values}},
   roots     |-> {1},
   length    |-> 1]

\* Several roots, in any order, nested or not, in documents in any order.
Roots ==
  [documents |-> DocumentsOf(AnyOrders(4), {A}, 4),
   lists     |->
     {Lone(Tag("a")), <<Selector({Tag("a")}, <<Link("descendant", {Tag("a")})>>)>>,
      <<Selector({Tag("a")}, <<Link("sibling", {FirstChild}), Link("child", {Tag("a")})>>)>>,
      <<Selector({LastChild}, <<>>), Selector({FirstChild}, <<>>)>>},
   roots     |-> 1..5,
   length    |-> 2]

NoSelection == [documents |-> {OnlyRoot}, lists |-> {Lone(Universal)}, roots |-> {1}, length |-> 1]

MCCases == [chains |-> Chains, filters |-> Filters, parts |-> Parts, roots |-> Roots]

-----------------------------------------------------------------------------
(***************************************************************************)
(* XPath expressions.                                                      *)
(***************************************************************************)
XPath == INSTANCE XPathSelecting WITH
  Cases <- XPathCases, ns <- xdoc, roots <- xroots, results <- answer

NameTest(name) == [interned |-> name \in KnownNames, name |-> name]
NameA == NameTest("a")
NameB == NameTest("b")
AnyName == [interned |-> FALSE, name |-> "*"]

Descendant(test, predicate) == [axis |-> "descendant", step |-> [test |-> test, predicate |-> predicate]]
AbsolutePath(steps) == [axis |-> "path", steps |-> steps]
TextExtract(e) == [axis |-> "text", inner |-> e]
Parent == [axis |-> "parent"]
NoPredicate == [kind |-> "none"]
Position(k) == [kind |-> "position", k |-> k]

\* Positions among siblings of one name, with and without text.
Positions == {Descendant(NameA, Position(k)) : k \in 0..2}

PositionCase ==
  [documents   |-> DocumentsOf(TreeOrders[4], {A, B}, 4),
   expressions |-> Positions \union {TextExtract(e) : e \in Positions}]

\* Names, * and attributes.
DescendantCase ==
  [documents   |->
     DocumentsOf(AnyOrders(3), {A, Element("u", NoAttrs), Titled(<<"p", "q">>), Titled(<<>>)}, 3),
   expressions |->
     {Descendant(test, predicate) :
        test \in {NameA, NameTest("u"), AnyName},
        predicate \in {NoPredicate, [kind |-> "exists"]}
                        \union {[kind |-> "equals", value |-> v] : v \in {<<>>, <<"p", "q">>}}}
       \union {Descendant(NameA, [kind |-> "contains", value |-> v]) : v \in {<<>>, <<"q">>, <<"q", "p">>}}]

\* Paths of two steps, the parent axis and text().
StepTo(test, predicate) == [test |-> test, predicate |-> predicate]
Paths ==
  {AbsolutePath(<<StepTo(NameA, p), StepTo(NameA, q)>>) : p, q \in {NoPredicate, Position(1), Position(2)}}
  \union {AbsolutePath(<<StepTo(NameB, NoPredicate)>>)}

PathCase ==
  [documents   |-> DocumentsOf(TreeOrders[4], {A, Text}, 4) \union DocumentsOf(TreeOrders[3], {A, B}, 3),
   expressions |-> Paths \union {Parent, TextExtract(Descendant(NameA, NoPredicate)), TextExtract(Parent)}
                     \union {TextExtract(path) : path \in Paths}]

NoExpression == [documents |-> {OnlyRoot}, expressions |-> {Parent}]

MCXPathCases == [positions |-> PositionCase, descendants |-> DescendantCase, paths |-> PathCase]

\* The absolute path /a on every tree of four elements named a: elements of the
\* same depth under different parents, and elements inside elements.
OrderCase ==
  [order |-> [documents   |-> DocumentsOf(TreeOrders[4], {A}, 4),
              expressions |-> {AbsolutePath(<<StepTo(NameA, NoPredicate)>>)}]]

NoCases == [c \in {} |-> {}]

-----------------------------------------------------------------------------
(***************************************************************************)
(* Iterators and the index.                                                *)
(***************************************************************************)
\* Every tree of five elements, and of two nodes with text.
WalkedDocuments ==
  DocumentsOf(AnyOrders(5), {A}, 5) \union DocumentsOf(AnyOrders(2), {A, Text}, 2) \union {OnlyRoot}

Walk == INSTANCE Traversal WITH Documents <- WalkedDocuments, ns <- wdoc, ahead <- wahead

\* Documents of three nodes in every order, with ids and classes that collide, are
\* repeated or are missing.
IndexedDocuments ==
  DocumentsOf(AnyOrders(3),
    {Text, Element("u", [NoAttrs EXCEPT !.classes = <<"x", "y", "x", "x">>]),
     Element("a", [NoAttrs EXCEPT !.ids = {"i"}, !.titles = {<<"i">>}]),
     Element("a", [NoAttrs EXCEPT !.ids = {"j"}, !.classes = <<"y", "y">>, !.titles = {<<"j">>}]),
     Element("b", [NoAttrs EXCEPT !.ids = {"z"}, !.classes = <<"x">>])}, 3) \union {OnlyRoot}

Index == INSTANCE Lookups WITH
  Documents <- IndexedDocuments, ns <- idoc, ahead <- iahead,
  Names <- {"unknown", "a", "b", "i", "j", "z", "x", "y"}

-----------------------------------------------------------------------------
QueriesInit ==
  /\ asked \in DOMAIN Cases \union DOMAIN XPathCases
       \union (IF Cases = NoCases THEN {} ELSE {"walk", "index"})
  /\ Begin(IF asked \in DOMAIN Cases THEN Cases[asked] ELSE NoSelection)
  /\ asked \notin DOMAIN XPathCases => xroots = <<>>
  /\ XPath!Begin(IF asked \in DOMAIN XPathCases THEN XPathCases[asked] ELSE NoExpression)
  /\ asked # "walk" => wdoc = OnlyRoot /\ kind = "children" /\ start = RootId
  /\ Walk!Init
  /\ asked # "index" => idoc = OnlyRoot
  /\ Index!Init

SelectStep ==
  asked \in DOMAIN Cases /\ Next /\ UNCHANGED <<asked, xpathVars, walkVars, indexVars>>
XPathStep ==
  asked \in DOMAIN XPathCases /\ XPath!Next /\ UNCHANGED <<asked, selectVars, walkVars, indexVars>>
WalkStep ==
  asked = "walk" /\ Walk!Next /\ UNCHANGED <<asked, selectVars, xpathVars, indexVars>>
IndexStep ==
  asked = "index" /\ Index!Next /\ UNCHANGED <<asked, selectVars, xpathVars, walkVars>>

QueriesNext == SelectStep \/ XPathStep \/ WalkStep \/ IndexStep

QueriesSpec == QueriesInit /\ [][QueriesNext]_<<asked, selectVars, xpathVars, walkVars, indexVars>>

\* Neither the memo nor the filter of ancestors changes what a selector means, and
\* select_first, which goes without the filter, finds the head of what is selected.
ShortcutsSound == MemoSound /\ FilterNeverRejectsMatch /\ FirstIsHead

\* An answer has what the expression denotes, each node once, and so has the
\* cache that the context nodes share.
PathsExact == XPath!TypeOK /\ XPath!AnswersExact /\ XPath!CacheSound

InDocumentOrder == XPath!InDocumentOrder

\* What an iterator yields and what the index lists is in order, and nothing is
\* missing in the end.
WalksExact == Walk!WalksExact /\ Index!LookupsExact
===========================================================================
