----------------------------- MODULE MCNesting -----------------------------
(***************************************************************************)
(* Bounded instances of the nesting limit: the stack of open elements by   *)
(* itself, under any sequence of calls, and the whole builder with         *)
(* documents deeper than the limit, built, written and read again.         *)
(* `acting` is the one that moves; the other rests.                        *)
(***************************************************************************)
EXTENDS OpenElements

CONSTANTS OuterLoops, Alphabets, Describable

VARIABLES acting, scenario, b, raw, fed, finished, heard

Builder == INSTANCE TreeBuilder

builderVars == <<scenario, b, raw, fed, finished, heard>>

-----------------------------------------------------------------------------
\* One name of each sort a rule tells apart.
MCNames == {"b", "i", "div", "p", "li", "table", "tr", "td", "select"}

Plain(names) == {[name |-> name, attrs |-> "none"] : name \in names}

Opened(names) == [i \in 1..Len(names) |-> [type |-> "start", name |-> names[i], attrs |-> "none"]]

\* Adoption, fostering and reopening at the limit.
Limit ==
  [openings |-> {<<>>, Opened(<<"b", "i", "div", "p">>), Opened(<<"b", "i", "i">>),
                 Opened(<<"b", "table", "tbody">>)},
   starts   |-> Plain({"b", "i", "p", "div", "table", "td", "select", "option"}),
   ends     |-> {"b", "i", "p", "table", "select"},
   texts    |-> {<<"x">>},
   others   |-> {},
   length   |-> 4]

\* Elements that no text describes: what is written is built differently.
Nested ==
  [openings |-> {<<>>},
   starts   |-> Plain({"table", "tr", "td", "a", "pre", "b", "select", "option"}),
   ends     |-> {"table", "a", "pre", "b", "select"},
   texts    |-> {<<"lf", "ref_lt">>, <<"sp">>},
   others   |-> {},
   length   |-> 5]

Depths == [limit |-> Limit, nested |-> Nested]

None == {}

-----------------------------------------------------------------------------
NestingInit ==
  /\ acting \in {"stack", "builder"}
  /\ Init
  /\ Builder!Init
  /\ acting = "stack" => scenario = "nested"

StackStep   == acting = "stack" /\ Next /\ UNCHANGED <<acting, builderVars>>
BuilderStep == acting = "builder" /\ Builder!Next /\ UNCHANGED <<acting, vars>>

NestingNext == StackStep \/ BuilderStep

NestingSpec == NestingInit /\ [][NestingNext]_<<acting, vars, builderVars>>

\* Whatever tree the limit makes, its text is that of the text it is written as.
TextSurvives == Builder!TextSurvives
===========================================================================
