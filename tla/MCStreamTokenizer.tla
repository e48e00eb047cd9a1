-------------------------- MODULE MCStreamTokenizer --------------------------
(***************************************************************************)
(* Bytes and openings of the streaming tokenizer's runs.                   *)
(***************************************************************************)
EXTENDS StreamTokenizer

UpTo(S, n) == UNION {[1 .. m -> S] : m \in 1 .. n}

\* Comments, declarations and CDATA sections.
CommentBytes == {"<", "!", "-", ">", "a"}
CommentChunks == UpTo(CommentBytes, 2)
CommentOpenings == CommentChunks \union {<<"<", "!", "-", "-">>}

\* CDATA sections.
CDataChunks   == UpTo({"<", "[", "]", ">", "c"}, 2)
CDataOpenings == {<<"<", "!">>, <<"a", "<", "!", "[", "c", "[">>}

\* Tags, quoted values and self-closing slashes.
TagChunks   == UpTo({"<", "=", "sq", "dq", ">", "/", "sp"}, 2)
TagOpenings == {<<"<", "a">>, <<"<", "a", "sp", "a", "=">>, <<"<", "a", "sp", "a", "=", "sq">>}

\* Script data with its escapes.
ScriptChunks   == {<<"<">>, <<"-">>, <<"<", "s">>, <<"c", ">">>, <<"-", ">">>, <<"<", "/">>,
                   <<"s", "c", ">">>, <<"!", "-", "-">>, <<"<", "/", "s", "c", ">">>}
Escaped        == <<"<", "s", "c", ">", "<", "!", "-", "-">>
ScriptOpenings == {<<"<", "s", "c", ">">>, <<"<", "s", "c", ">", "<", "!", "-">>, Escaped,
                   Escaped \o <<"<", "s">>}

\* Raw text, RCDATA and plaintext.
ElementChunks   == UpTo({"<", "/", "t", "y", ">", "p"}, 2)
ElementOpenings == {<<"<", "t", ">">>, <<"<", "y", "y", ">">>, <<"<", "p", ">">>, <<"<">>}

\* An end tag of a text element that outgrows the buffer.
CloseChunks   == UpTo({"<", "/", "t", "sp", "sq", ">"}, 2)
CloseOpenings == {<<"<", "t", ">", "sp", "sp", "sp", "&">>, <<"<", "t", ">", "<", "/", "t">>, <<"<", "t", ">", "&", "<", "/", "t", "sp", "sp", "sp">>}

\* Markup that outgrows the buffer.
OverlongChunks   == UpTo({"<", "a", "sq", "-", ">"}, 2) \union {<<"L">>, <<"C">>}
OverlongOpenings == {<<"<", "a", "sp", "a", "=", "a">>, <<"<", "!", "-", "-">>, <<"<", "?">>}

\* Character references and characters of two bytes.
TextChunks   == UpTo({"&", "#", "1", "t", ";", "L", "C"}, 1)
                  \union {<<"&", "#">>, <<"1", "1">>, <<"t", ";">>, <<"1", ";">>, <<"L", "C">>}
Zeros == <<"0", "0", "0", "0", "0", "0", "0", "0", "0", "0">>
TextOpenings == {<<"a", "a", "&", "#">>, <<"&", "a", "a", "a", "a", "a">>, <<"&", "#">> \o Zeros}

Input(openings, chunks, length) == [openings |-> openings, chunks |-> chunks, length |-> length]

Markups ==
  [comments |-> Input(CommentOpenings, CommentChunks, 5),
   cdata    |-> Input(CDataOpenings, CDataChunks, 5),
   tags     |-> Input(TagOpenings, TagChunks, 5),
   scripts  |-> Input(ScriptOpenings, ScriptChunks, 8),
   elements |-> Input(ElementOpenings, ElementChunks, 5)]

Oversized ==
  [close      |-> Input(CloseOpenings, CloseChunks, 5),
   overlong   |-> Input(OverlongOpenings, OverlongChunks, 5),
   references |-> Input(TextOpenings, TextChunks, 5)]
=============================================================================
