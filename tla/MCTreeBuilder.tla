--------------------------- MODULE MCTreeBuilder ---------------------------
(***************************************************************************)
(* Bounded instances of the tree builder.  Each scenario has an alphabet   *)
(* of tags and character runs that meet in one group of rules, and         *)
(* openings that bring the builder into the situations these rules are     *)
(* for.                                                                    *)
(***************************************************************************)
EXTENDS TreeBuilder

Plain(names) == {[name |-> name, attrs |-> "none"] : name \in names}

Opened(names) == [i \in 1..Len(names) |-> StartTag(names[i], "none")]

Letters == {<<"x">>, <<"y">>}

\* Misnested formatting elements around blocks.
Formatting ==
  [openings |-> {<<>>, Opened(<<"b", "i", "div">>)},
   starts   |-> Plain({"b", "i", "div", "p"}),
   ends     |-> {"b", "i", "p"},
   texts    |-> Letters,
   others   |-> {},
   length   |-> 5]

\* Adoption with a chain of clones, Noah's Ark, and nested anchors.
Adoption ==
  [openings |-> {Opened(<<"b", "i", "em", "u", "div", "p">>),
                 Opened(<<"b", "i", "i", "i", "i", "b">>),
                 Opened(<<"a", "div", "b", "section">>),
                 Opened(<<"div", "b", "div", "i", "div", "b", "p">>)},
   starts   |-> Plain({"a", "b", "div"}) \cup {[name |-> "b", attrs |-> "class"]},
   ends     |-> {"a", "b", "i", "div"},
   texts    |-> Letters,
   others   |-> {},
   length   |-> 4]

\* Leading newlines, raw text and escapes.
Markup ==
  [openings |-> {<<>>},
   starts   |-> Plain({"pre", "listing", "script", "p", "b", "br"}),
   ends     |-> {"pre", "listing", "script", "p", "b"},
   texts    |-> {<<"lf", "x">>, <<"cr", "lf">>, <<"ref_lt">>, <<"lt">>},
   others   |-> {CommentToken},
   length   |-> 4]

\* Sections, implied sections, fostered elements and text.
Tables ==
  [openings |-> {<<>>, Opened(<<"table">>), Opened(<<"b", "table", "tr">>),
                 Opened(<<"p", "table", "tbody", "tr", "td", "table">>)},
   starts   |-> Plain({"table", "tr", "td", "a", "form"}) \cup {[name |-> "input", attrs |-> "hidden"]},
   ends     |-> {"table", "tr", "a", "p"},
   texts    |-> {<<"sp">>, <<"x">>},
   others   |-> {},
   length   |-> 4]

\* Select, column groups and captions, in and out of tables.
Contexts ==
  [openings |-> {<<>>, Opened(<<"select", "optgroup">>), Opened(<<"table", "td", "select">>),
                 Opened(<<"table", "colgroup">>), Opened(<<"option", "select">>)},
   starts   |-> Plain({"select", "option", "optgroup", "tr", "input", "col", "colgroup", "script", "caption"}),
   ends     |-> {"select", "option", "optgroup", "td", "colgroup", "table", "script"},
   texts    |-> {<<"sp", "x">>},
   others   |-> {},
   length   |-> 4]

\* Character runs cut in pieces: leading newlines, table and column-group text.
Runs ==
  [openings |-> {<<>>, Opened(<<"pre">>), Opened(<<"table">>), Opened(<<"table", "colgroup">>)},
   starts   |-> Plain({"table", "b", "pre", "tr", "colgroup"}),
   ends     |-> {"table", "pre", "b"},
   texts    |-> {<<"sp", "x", "lf">>, <<"cr", "lf", "x">>, <<"lf", "sp">>, <<"ref_lf", "lf", "x">>,
                 <<"ref_cr", "lf">>, <<"cr">>},
   others   |-> {},
   length   |-> 3]

\* Comments and doctypes, before, in and after the body.
Bodies ==
  [openings |-> {<<>>, Opened(<<"html", "body">>), Opened(<<"html", "body", "table", "tr">>)},
   starts   |-> Plain({"body", "html", "p", "li", "ul", "h1", "br", "dt"}),
   ends     |-> {"body", "html", "p", "br", "li", "h2", "dd", "table"},
   texts    |-> {<<"sp">>, <<"x">>},
   others   |-> {CommentToken, DoctypeToken},
   length   |-> 3]

\* Fostered and blank text in and around tables.
TableMarkup ==
  [openings |-> {<<>>},
   starts   |-> Plain({"table", "tr", "td", "b", "pre", "br"}),
   ends     |-> {"table", "b", "pre", "td"},
   texts    |-> {<<"lf", "x">>, <<"sp">>},
   others   |-> {},
   length   |-> 5]

Misnesting == [formatting |-> Formatting, adoption |-> Adoption, markup |-> Markup]

Structures ==
  [tables |-> Tables, contexts |-> Contexts, runs |-> Runs, bodies |-> Bodies, markup |-> TableMarkup]

Written == {"markup"}
===========================================================================
