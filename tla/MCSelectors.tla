---------------------------- MODULE MCSelectors ----------------------------
(***************************************************************************)
(* The three ways a query gets its expression: the cache of selectors, the *)
(* parser of selectors and that of XPath.  One of them acts, the others    *)
(* rest in one initial state.                                              *)
(***************************************************************************)
EXTENDS SelectorCache, TLC

CONSTANTS
  MaxMissed,  \* Most insertions into the cache.
  CssLength,  \* Longest selector that is built up token by token.
  XPathLength \* Longest such XPath.

VARIABLES acting, cssInput, sample, cssEdited, xpathInput, xpathEdited

cssVars == <<cssInput, sample, cssEdited>>
xpathVars == <<xpathInput, xpathEdited>>

-----------------------------------------------------------------------------
(***************************************************************************)
(* Six texts, one of them overlong and one invalid, in a cache for three.  *)
(***************************************************************************)
MCSelectors == {"p", "q", "r", "s", "a b", "?"}
MCOverlong == {"a b"}
MCLists == {"<p>", "<q>", "<r>", "<s>", "<a b>"}
MCParsedAs ==
  [css \in MCSelectors |->
     CASE css = "p" -> "<p>" [] css = "q" -> "<q>" [] css = "r" -> "<r>" [] css = "s" -> "<s>"
       [] css = "a b" -> "<a b>" [] css = "?" -> "invalid"]

-----------------------------------------------------------------------------
(***************************************************************************)
(* Selectors of every kind, up to each limit and past it.                  *)
(***************************************************************************)
DigitValues == [digit \in {"0", "1"} |-> IF digit = "0" THEN 0 ELSE 1]
SelectorLimits == [branches |-> 2, combinators |-> 2, parts |-> 6, depth |-> 2]

Id(text) == <<<<text>>>>
X == <<"tag", Id("x")>>
Coded == <<<<"code", "1">>, <<"0">>, <<"x">>>>
Spaced == <<<<"x">>, <<" ">>>>
Odd == <<<<"-">>, <<"\\">>, <<"x">>>>
Negation(parts) == <<"not", parts>>
NthPairs == {<<2, 1>>, <<2, 0>>, <<0, 10>>, <<-1, 10>>, <<10, -11>>, <<-11, 0>>, <<1, 0>>, <<0, 0>>}

SampleParts ==
  {X, <<"tag", Coded>>, <<"tag", Id("n")>>, <<"universal">>, <<"first-child">>, <<"last-child">>}
  \union {<<kind, ident>> : kind \in {"id", "class"}, ident \in {Id("x"), Coded, Spaced, Odd}}
  \union {<<"attr", Id("x")>>, <<"attr", Id("not"), "=", <<>>>>, <<"attr", Id("x"), "~", <<<<"]">>, <<"\"">>>>>>,
          <<"attr", Id("x"), "^", Odd>>, <<"attr", Id("x"), "$", Coded>>, <<"attr", Id("x"), "*", Spaced>>}
  \union {Negation(<<X>>), Negation(<<<<"universal">>, Negation(<<X>>)>>),
          Negation(<<Negation(<<Negation(<<X>>)>>)>>)}

Subject(parts) == [subject |-> parts, chain |-> <<>>]
Times(part, n) == [i \in 1..n |-> part]
Class == <<"class", Id("x")>>
Linked(combinators) ==
  [subject |-> <<X>>, chain |-> [i \in DOMAIN combinators |-> <<combinators[i], <<<<"tag", Id("n")>>>>>>]]

SampleSelectors ==
  {Subject(<<part>>) : part \in SampleParts}
  \union {Subject(Times(Class, n)) : n \in 6..7}
  \union {Subject(Times(Negation(<<Class>>), 3)), Subject(<<X, Class, <<"first-child">>>>)}
  \union {Linked(<<"+">>), Linked(<<"~", " ">>), Linked(<<" ", ">", "~">>)}

SampleNumbers == {<<Subject(<<<<"nth-child", number[1], number[2]>>>>)>> : number \in NthPairs}

SampleLists ==
  {<<selector>> : selector \in SampleSelectors} \union SampleNumbers
  \union {Times(Subject(<<X>>), n) : n \in 2..3}
  \union {<<Linked(<<" ">>), Subject(Times(Class, 4))>>, <<Linked(<<" ">>), Subject(Times(Class, 5))>>}

Css == INSTANCE SelectorParser WITH
  Letters <- {"x"}, DigitValue <- DigitValues, Limits <- SelectorLimits,
  MaxEscapeDigits <- 2, IntLimit <- 11, MaxLength <- CssLength, MaxRun <- 2,
  Samples <- SampleLists, input <- cssInput, edited <- cssEdited

-----------------------------------------------------------------------------
(***************************************************************************)
(* Expressions of every kind with every predicate.                         *)
(***************************************************************************)
SamplePredicates ==
  {<<"none">>, <<"exists", "id">>, <<"equals", "id", "'v'">>, <<"contains", "id", "'v'">>, <<"position", "2">>}
SampleSteps == {<<"step", "a", predicate>> : predicate \in SamplePredicates}
SampleNodes ==
  {<<"descendant", "a", predicate>> : predicate \in SamplePredicates}
  \union {<<"wildcard", predicate>> : predicate \in {q \in SamplePredicates : q[1] \in {"none", "equals", "exists"}}}
  \union {<<"path", step>> : step \in SampleSteps}
  \union {<<"path", step, <<"step", "id", <<"none">>>>>> : step \in SampleSteps}
SampleExpressions == SampleNodes \union {<<"parent">>} \union {<<"text", e>> : e \in SampleNodes}

XPath == INSTANCE XPathParser WITH
  Names <- {"a", "id"}, Values <- {"'v'"}, Numbers <- {"2"}, MaxLength <- XPathLength,
  Samples <- SampleExpressions, input <- xpathInput, edited <- xpathEdited

-----------------------------------------------------------------------------
SelectorsInit ==
  /\ acting \in {"cache", "css", "xpath"}
  /\ acting # "cache" => asked = "p"
  /\ Init
  /\ acting # "css" => cssInput = <<>> /\ sample = <<>>
  /\ Css!Init
  /\ acting # "xpath" => xpathInput = <<>>
  /\ XPath!Init

CacheStep ==
  acting = "cache" /\ Next /\ Len(missed') <= MaxMissed /\ UNCHANGED <<acting, cssVars, xpathVars>>
CssStep == acting = "css" /\ Css!Next /\ UNCHANGED <<acting, vars, xpathVars>>
XPathStep == acting = "xpath" /\ XPath!Next /\ UNCHANGED <<acting, vars, cssVars>>

SelectorsNext == CacheStep \/ CssStep \/ XPathStep

SelectorsSpec == SelectorsInit /\ [][SelectorsNext]_<<acting, vars, cssVars, xpathVars>>

\* A selector is accepted exactly if it is one within the limits, and it means
\* what is written: nothing of it is ignored (parse_selector).
SelectorsMean == Css!SelectorsMean

\* An XPath expression means what is written (parse_xpath).
PathsMean == XPath!PathsMean
===========================================================================
