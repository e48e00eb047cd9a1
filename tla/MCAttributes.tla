---------------------------- MODULE MCAttributes ----------------------------
(***************************************************************************)
(* Attributes: the region of a tag is split into them, an element gets     *)
(* them, and those of a <meta> declare the encoding.  One of the three     *)
(* acts, the others rest in one initial state.                             *)
(***************************************************************************)
EXTENDS AttributeSet

VARIABLES
  acting,
  region, pos, stage, name, yielded,     \* RawAttributes
  sample, at, found, ended               \* MetaPrescan

rawVars == <<region, pos, stage, name, yielded>>
metaVars == <<sample, at, found, ended>>

UpTo(S, n) == UNION {[1..k -> S] : k \in 0..n}

-----------------------------------------------------------------------------
(***************************************************************************)
(* Up to five attributes of five names, two of them written in two ways,   *)
(* two with the same fingerprint, whose bits are those of two others; two  *)
(* names fit inline and an element holds four attributes.                  *)
(***************************************************************************)
MCFold == [class |-> "class", CLASS |-> "class", id |-> "id", ID |-> "id",
           a |-> "a", b |-> "b", c |-> "c"]
MCFingerprint == [class |-> 1, CLASS |-> 1, id |-> 2, ID |-> 2, a |-> 3, b |-> 3, c |-> 4]
MCBloomBits == << {1, 2}, {3}, {1, 3}, {4} >>
MCClassBits == [x |-> {1}, y |-> {2}]
MCIdHash == [x |-> 7, y |-> 8]
Written == [name : {"class", "CLASS", "id", "ID"}, value : {"x", "y"}]
             \union [name : {"class", "ID"}, value : {"none", "empty"}]
             \union [name : {"a", "b", "c"}, value : {"none"}]
MCInputs ==
  UNION {[1..n -> Written] : n \in 1..3}
    \union {s \o t : s \in [1..2 -> {w \in Written : w.value = "none"}],
                     t \in [1..3 -> {w \in Written : w.value # "y"}]}

-----------------------------------------------------------------------------
(***************************************************************************)
(* Every region of up to four bytes, and what four pieces of attributes    *)
(* make together.                                                          *)
(***************************************************************************)
RegionBytes == {"a", "=", "/", ">", "dq", "sq", "sp"}
Pieces == {<<"a">>, <<"=">>, <<"a", "=">>, <<"sp", "=", "sp">>, <<"sp">>, <<"/">>,
           <<"dq", "a", "dq">>, <<"sq", ">", "dq">>}
MCRegions == UpTo(RegionBytes, 4) \union {a \o b \o c \o d : a, b, c, d \in Pieces}

Raw == INSTANCE RawAttributes WITH Regions <- MCRegions, attrs <- yielded, MaxCode <- 9

-----------------------------------------------------------------------------
(***************************************************************************)
(* Up to four pieces of markup before a <meta>, with three ways to go on   *)
(* after it, and every <meta> of four pieces, most of them longer than the *)
(* limit.                                                                  *)
(***************************************************************************)
Glued(pieces) ==
  LET upTo[k \in 0..Len(pieces)] == IF k = 0 THEN <<>> ELSE upTo[k - 1] \o pieces[k]
  IN  upTo[Len(pieces)]

Before == {<<"<">>, <<"<", "a">>, <<"!">>, <<"-">>, <<">">>, <<"/">>, <<"dq">>, <<"sp">>, <<"a", "=">>}
UMeta == <<"<", "m", "e", "sp", "c", "h", "=", "u", ">">>
OneMeta == <<"<", "m", "e", "/", "c", "h", "=", "1", ">">>
After == {<<"-", "-", ">">> \o OneMeta, <<"dq", ">">> \o OneMeta}

Inside == {<<"sp">>, <<"/">>, <<">">>, <<"dq">>, <<"=">>, <<"sp", "c", "h">>,
           <<"sp", "c", "h", "=", "w">>, <<"c", "h", "=", "x">>, <<"sp", "q", "=", "t">>,
           <<"sp", "n", "=", "dq", "c", "h", "c", "h", "=", "w", "dq">>}
MCSamples ==
  {Glued(pieces) \o UMeta \o after : pieces \in UpTo(Before, 4), after \in After}
    \union {<<"<", "m", "e">> \o Glued(pieces) : pieces \in UpTo(Inside, 4)}

Meta == INSTANCE MetaPrescan WITH
  Inputs <- MCSamples, PRESCAN_LIMIT <- 24, input <- sample, pos <- at, MaxCode <- 9

-----------------------------------------------------------------------------
AttributesInit ==
  /\ acting \in {"set", "raw", "meta"}
  /\ acting # "set" => attrs = <<[name |-> "a", value |-> "none"]>>
  /\ Init
  /\ acting # "raw" => region = <<>>
  /\ Raw!Init
  /\ acting # "meta" => sample = UMeta \o <<"dq", ">">> \o OneMeta
  /\ Meta!Init

SetStep == acting = "set" /\ Next /\ UNCHANGED <<acting, rawVars, metaVars>>
RawStep == acting = "raw" /\ Raw!Next /\ UNCHANGED <<acting, vars, metaVars>>
MetaStep == acting = "meta" /\ Meta!Next /\ UNCHANGED <<acting, vars, rawVars>>

AttributesNext == SetStep \/ RawStep \/ MetaStep

\* The caller of RawAttrs iterates to the end.
Iterates == acting = "raw" /\ Raw!Next

AttributesSpec ==
  AttributesInit /\ [][AttributesNext]_<<acting, vars, rawVars, metaVars>> /\ WF_rawVars(Iterates)

\* The iterator yields what the automaton sees, and comes to an end (RawAttrs).
RegionSplit == [](Raw!RegionSound) /\ (acting = "raw" => Raw!Ends)

\* The first <meta> that declares an encoding decides (prescan_meta).
PrescanExact == Meta!PrescanExact
=============================================================================
