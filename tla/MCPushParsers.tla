--------------------------- MODULE MCPushParsers ---------------------------
(***************************************************************************)
(* Bounded instances of the two push parsers: StreamParser behind a source *)
(* that is read, and EarlyStopParser fed in pieces.  `acting` is the one   *)
(* that moves; the other rests.                                            *)
(***************************************************************************)
EXTENDS StreamParser

CONSTANT Settings

VARIABLES acting, scenario, early, input, first, finished

Early == INSTANCE EarlyStop WITH p <- early

earlyVars == <<scenario, early, input, first, finished>>

-----------------------------------------------------------------------------
(***************************************************************************)
(* Sources.                                                                *)
(***************************************************************************)
UpTo(S, n) == UNION {[1 .. m -> S] : m \in 0 .. n}

\* Declarations before and after text and tags, with and without a BOM.
Declared == UpTo({"x", "E", "esc", "<meta>", "<p>"}, 4)
Replaced == {s \o <<"<dead>", "x">> : s \in UpTo({"x", "E", "<p>"}, 2)}
WithBom  == {<<"B1", "B2">> \o s : s \in UpTo({"E", "<meta>", "x"}, 2)} \union {<<"B1">>, <<"B2", "B1">>}

\* Text beyond the limits.
Long == UpTo({"x", "E"}, 4) \union {<<"x", "x", "x", "x", "x", "x">>, <<"x", "x", "E", "x", "x", "x">>}

LongSources == {[units |-> s, limit |-> 4, bufSize |-> 0] : s \in Long}

TinySources == {[units |-> s, limit |-> 1, bufSize |-> 0] : s \in UpTo({"x", "E"}, 2)}

MCSources ==
  {[units |-> s, limit |-> 9, bufSize |-> 3] : s \in Declared \union Replaced \union WithBom}
    \union LongSources \union TinySources

-----------------------------------------------------------------------------
(***************************************************************************)
(* Inputs of the early-stop parser.                                        *)
(***************************************************************************)
Single(S) == {<<unit>> : unit \in S}

Setup(limit, after, elements, texts, openings, chunks, length) ==
  [limit |-> limit, after |-> after, wanted |-> [elements |-> elements, texts |-> texts],
   openings |-> openings, chunks |-> chunks, length |-> length]

Paragraph == {<<RootName, "p">>}

\* Encodings: declarations, shifts, BOMs and bytes that are not ASCII.
Encodings ==
  Setup(6, FALSE, Paragraph, {<<"y">>, <<"j">>},
        {<<"x">>, <<"esc">>, <<"B1">>, <<"B1", "B2">>},
        Single({"x", "E", "esc", "<meta>", "<dead>", "<p>"})
          \union {<<"x", "<p>">>, <<"<meta>", "E">>, <<"<dead>", "x">>},
        5)

\* A pending element while the encoding is still open.
Pending ==
  Setup(7, TRUE, Paragraph, {},
        {<<"<p>">>, <<"x", "<dead>">>, <<"<p>", "<dead>", "x">>},
        Single({"x", "E", "<meta>", "<dead>", "<p>", "</p>", "<div>"}),
        4)

\* Nodes that handlers create besides the one they return: implied table parts,
\* clones of misnested elements, and text held back in tables.
Created ==
  Setup(30, FALSE, {<<"p", "b">>, <<"tbody", "tr">>, <<"div", "b">>}, {<<"sp">>, <<"x", "x">>},
        {<<"<b>">>, <<"<table>">>, <<"x">>},
        Single({"<b>", "</b>", "<p>", "</p>", "<div>", "<table>", "<td>", "x", "sp"}),
        4)

\* Elements that adoption and fostering close or move.
Closed ==
  Setup(30, TRUE, {<<"b", "div">>, <<"div", "b">>, <<"p", "b">>, <<"table", "tbody">>}, {},
        {<<"<b>">>, <<"<table>">>, <<"<b>", "<div>">>},
        Single({"<b>", "</b>", "<div>", "</div>", "<table>", "</table>", "<td>", "x"}),
        4)

\* Input near the limit.
Limited ==
  Setup(4, FALSE, Paragraph, {},
        {<<"x">>, <<"E">>, <<"<div>">>},
        Single({"x", "E", "<p>", "<div>"}) \union {<<"E", "<p>", "E">>, <<"<p>", "x", "x">>},
        5)

MCSettings ==
  [encodings |-> Encodings, pending |-> Pending, created |-> Created, closed |-> Closed,
   limited |-> Limited]

\* Blanks in a column group, which other text closes.
Blanks ==
  [blanks |-> Setup(30, FALSE, {}, {<<"sp">>}, {<<"<table>", "<colgroup>">>}, Single({"sp", "x"}), 5)]

-----------------------------------------------------------------------------
PushInit ==
  /\ acting \in {"stream", "early"}
  /\ Init
  /\ Early!Init
  /\ acting = "stream" => scenario = CHOOSE s \in DOMAIN Settings : TRUE
  /\ acting = "early" => source = CHOOSE s \in Sources : TRUE

StreamStep == acting = "stream" /\ Next /\ UNCHANGED <<acting, earlyVars>>
EarlyStep  == acting = "early" /\ Early!Next /\ UNCHANGED <<acting, vars>>

\* Whether a read is enabled takes TLC exponentially long to find out: that reading
\* goes on is assumed, and that the parse returns is checked, for tiny sources.
\* A pending read is answered in the end.
PushSpec ==
  /\ PushInit
  /\ [][StreamStep \/ EarlyStep]_<<acting, vars, earlyVars>>
  /\ WF_vars(/\ acting = "stream" /\ source \in TinySources
             /\ (ReadSome \/ ReadEnd) /\ UNCHANGED <<acting, earlyVars>>)

FirstMatchDelivered == Early!FirstMatchDelivered
StopsAtFirstMatch   == Early!StopsAtFirstMatch
MatchIsPrompt       == Early!MatchIsPrompt
StreamReturns       == acting = "stream" /\ source \in TinySources => ParseReturns
===========================================================================
