---------------------------- MODULE TreeBuilder ----------------------------
(***************************************************************************)
(* The tree builder as a machine: it is fed the tokens of a document one   *)
(* by one, in any order the tokenizer can produce, and then finished; and  *)
(* the serializer that writes the document.                                *)
(***************************************************************************)
EXTENDS TreeBuilderOps

CONSTANTS
  Alphabets,  \* For each scenario the openings, one of which begins the document,
              \* and what may follow: start tags [name, attrs], names of end tags,
              \* character runs, other tokens; and how many of them at most.
  Describable \* Scenarios all of whose trees are those of some HTML text.

ASSUME DescribableAssumption == Describable \subseteq DOMAIN Alphabets

ASSUME AlphabetsAssumption ==
  \A s \in DOMAIN Alphabets :
    /\ Alphabets[s].length \in Nat
    /\ Alphabets[s].openings \subseteq Seq(Tokens)
    /\ \A tag \in Alphabets[s].starts : StartTag(tag.name, tag.attrs) \in Tokens
    /\ \A name \in Alphabets[s].ends : EndTag(name) \in Tokens
    /\ \A content \in Alphabets[s].texts : Text(content) \in Tokens
    /\ Alphabets[s].others \subseteq Tokens

VARIABLES
  scenario,   \* What is fed.
  b,          \* The builder.
  raw,        \* Raw-text element the tokenizer is in, "" outside one.
  fed,        \* Tokens fed after the opening.
  finished,   \* finish() was called.
  heard       \* History: the characters fed, references decoded.

vars == <<scenario, b, raw, fed, finished, heard>>

StartTags == Alphabets[scenario].starts
EndTags   == Alphabets[scenario].ends
Texts     == Alphabets[scenario].texts
Others    == Alphabets[scenario].others
MaxTokens == Alphabets[scenario].length

Init ==
  /\ scenario \in DOMAIN Alphabets
  /\ \E opening \in Alphabets[scenario].openings : b = FoldLeft(Process, EmptyBuilder, opening)
  /\ raw = ""
  /\ fed = 0
  /\ finished = FALSE
  /\ heard = <<>>

-----------------------------------------------------------------------------
Feed(token) ==
  /\ ~ finished
  /\ fed < MaxTokens
  /\ fed' = fed + 1
  /\ b' = Process(b, token)
  /\ UNCHANGED <<scenario, finished>>

\* The tokenizer enters raw text whatever the builder does with the tag.
FeedStartTag ==
  \E tag \in StartTags :
    /\ raw = ""
    /\ Feed(StartTag(tag.name, tag.attrs))
    /\ raw' = IF OpensRawText(tag.name) THEN tag.name ELSE ""
    /\ UNCHANGED heard

\* In raw text only the matching end tag is a tag, and plaintext has none.
FeedEndTag ==
  \E name \in EndTags :
    /\ raw \in {"", name} \ {"plaintext"}
    /\ Feed(EndTag(name))
    /\ raw' = ""
    /\ UNCHANGED heard

\* References are decoded only in text the tokenizer does not treat as raw.
FeedText ==
  \E content \in Texts :
    /\ raw # "" => Decoded(content) = content
    /\ Feed(Text(content))
    /\ heard' = heard \o Decoded(content)
    /\ UNCHANGED raw

FeedOther ==
  \E token \in Others :
    /\ raw = ""
    /\ Feed(token)
    /\ UNCHANGED <<raw, heard>>

Finish ==
  /\ ~ finished
  /\ finished' = TRUE
  /\ b' = FinishBuilder(b)
  /\ UNCHANGED <<scenario, raw, fed, heard>>

Next == FeedStartTag \/ FeedEndTag \/ FeedText \/ FeedOther \/ Finish

Spec == Init /\ [][Next]_vars

-----------------------------------------------------------------------------
(***************************************************************************)
(* What must hold of the builder between any two tokens.                   *)
(***************************************************************************)
NodeIds == 1..Len(b.nodes)
Elements == {n \in NodeIds : IsElement(b.nodes, n)}

TypeOK ==
  /\ \A n \in NodeIds :
       /\ b.nodes[n].type \in NodeTypes
       /\ b.nodes[n].type # "text" => b.nodes[n].text = <<>>
       /\ b.nodes[n].depth \in Nat
       /\ {b.nodes[n].parent, b.nodes[n].prev, b.nodes[n].next,
           b.nodes[n].first, b.nodes[n].last} \subseteq 0..Len(b.nodes)
  /\ b.stale.before \in 0..Len(b.nodes)
  /\ b.stale.exact \subseteq NodeIds
  /\ \A i \in 1..Len(b.open.stack) :
       /\ b.open.stack[i].id \in Elements
       /\ b.open.stack[i].kind \in Kinds
       /\ b.open.stack[i].mode \in Modes
       /\ b.open.stack[i].children \in Nat
  /\ b.open.mode \in Modes
  /\ b.newline_skip \in {"None", "Newline", "LineFeedAfterCr"}
  /\ {b.after_body, b.last_text, b.flushed, b.ret} \subseteq 0..Len(b.nodes)
  /\ scenario \in DOMAIN Alphabets
  /\ raw = "" \/ OpensRawText(raw)
  /\ fed \in 0..MaxTokens
  /\ finished \in BOOLEAN

-----------------------------------------------------------------------------
(***************************************************************************)
(* The tree.                                                               *)
(***************************************************************************)
\* Fostering and adoption relink nodes in the middle of the tree, and never
\* break a link, lose a node or make a cycle.
TreeLinked == LinksAgree(b.nodes) /\ RootedAt(b.nodes, RootId)

\* The element index of every node is its position among its element siblings,
\* and the child count an open entry caches is the number of element children
\* it has: the next child takes its index from that count alone.
IndicesExact ==
  /\ IndicesAgree(b.nodes)
  /\ \A i \in 1..Len(b.open.stack) :
       LET entry == b.open.stack[i]
       IN  entry.children = Len(ElementsFrom(b.nodes, b.nodes[entry.id].first))

\* Depths read mid-parse are exact although adoption leaves stored ones stale;
\* those of open elements are stored exact, and after finish all are.
DepthsExact ==
  \A n \in NodeIds :
    /\ ExactDepth(b.nodes, b.stale, n) = TrueDepth(b.nodes, n)
    /\ n \in OpenIds(b) \/ finished => b.nodes[n].depth = TrueDepth(b.nodes, n)

\* The parent of an open element is open too and further down the stack, as
\* the depth repair of the adoption agency assumes.
OpenParents ==
  \A i \in 2..Len(b.open.stack) :
    \E j \in 1..i - 1 : b.open.stack[j].id = b.nodes[b.open.stack[i].id].parent

\* An open table is the last element child of its parent, as the index shift
\* of foster parenting assumes.
FosterTargetLast ==
  \A i \in 1..Len(b.open.stack) :
    LET table == b.open.stack[i].id
    IN  b.open.stack[i].kind = "Table" => Len(ElementsFrom(b.nodes, table)) = 1

\* The stack's caches agree with it through every handler.
CachesExact == Rooted(b.open.stack) /\ CachesAgree(b.open)

\* What queries read of a position: it is never one off, however often elements
\* were moved, and however late a stale depth is repaired.
NumbersExact == IndicesExact /\ DepthsExact

\* At most MaxDepth elements are open, and no node is deeper than MaxDepth + 1.
DepthBound ==
  /\ Len(b.open.stack) <= MaxDepth + 1
  /\ \A n \in NodeIds : TrueDepth(b.nodes, n) <= MaxDepth + 1

\* The tree, and the stack of open elements that describes a branch of it: no
\* token, at no depth, breaks a link, loses a node, makes a cycle, leaves a cache
\* of the stack wrong or nests deeper than the limit.
TreeSound == TypeOK /\ TreeLinked /\ OpenParents /\ CachesExact /\ DepthBound

\* Comments after the body go to an element that is still open, and
\* whitespace is held back only while a table part is the current node.
DeferredContentHasTarget ==
  /\ b.after_body # NULL => b.after_body \in OpenIds(b)
  /\ b.pending # <<>> /\ ~ finished =>
       CurrentNodeIsTablePart(b.open) /\ IsBlank(b.pending) /\ ~ b.foster_run

-----------------------------------------------------------------------------
(***************************************************************************)
(* Characters.                                                             *)
(***************************************************************************)
TextBelow(ns, top) ==
  FoldLeft(LAMBDA text, n : text \o ns[n].text, <<>>, DocumentOrder(ns, top))

\* All characters inserted or held back for insertion.
AllText == TextBelow(b.nodes, RootId) \o IF finished THEN <<>> ELSE b.pending

\* The rules for newlines drop and replace characters.
HasNewlines == \E content \in Texts : ToSet(content) \intersect {"lf", "cr", "ref_lf", "ref_cr"} # {}

\* Without tables, misnested tags are repaired around the text: the document
\* reads exactly as it was written, in the same order.
TextInOrder == ~ HasNewlines => AllText = heard

Occurrences(text, c) == Cardinality({i \in DOMAIN text : text[i] = c})

\* Foster parenting moves text in front of the table, and still no character
\* is lost or doubled, held-back whitespace included.
TextKept ==
  ~ HasNewlines =>
  /\ Len(AllText) = Len(heard)
  /\ \A c \in ToSet(heard) : Occurrences(AllText, c) = Occurrences(heard, c)

-----------------------------------------------------------------------------
(***************************************************************************)
(* Structure the insertion modes enforce, away from the nesting limit (at  *)
(* the limit an element's content goes to the current node).               *)
(***************************************************************************)
ParentKind(n) == Classify(b.nodes[b.nodes[n].parent].name)

\* Sections are children of tables, rows of sections and cells of rows, and a
\* table part has no other children than sections, blank text, comments and the
\* few elements HTML keeps there: everything else was fostered.
TableStructure ==
  \A n \in NodeIds \ {RootId} :
    LET name   == b.nodes[n].name
        kind   == Classify(name)
        parent == ParentKind(n)
    IN  /\ kind = "Cell" => parent = "Row"
        /\ kind = "Row" => parent = "TableBody"
        /\ kind \in {"TableBody", "Caption", "ColGroup"} => parent = "Table"
        /\ kind = "Column" => parent = "ColGroup"
        /\ parent \in TablePartKinds =>
             CASE IsElement(b.nodes, n) ->
                    \/ kind \in TableSectionKinds
                    \/ name \in {"script", "style", "input", "form"}
               [] OTHER -> IsBlank(b.nodes[n].text)

\* The elements inside a select are options, their groups and scripts.
SelectContent ==
  \A s \in Elements : Classify(b.nodes[s].name) = "Select" =>
    \A n \in (Elements \cap ToSet(DocumentOrder(b.nodes, s))) \ {s} :
      Classify(b.nodes[n].name) \in {"Option", "OptGroup"} \/ b.nodes[n].name = "script"

\* Fostering, implied sections and closed options keep the structure that HTML
\* gives tables and selects, and what is fostered or deferred has a place to go.
StructureKept == TableStructure /\ SelectContent /\ FosterTargetLast /\ DeferredContentHasTarget

-----------------------------------------------------------------------------
(***************************************************************************)
(* The next token, whatever it is.                                         *)
(***************************************************************************)
\* Reprocessing a tag ends: once as many elements are closed as were open, the
\* tag closes no further one (a column group only if it is the current node).
\* The handlers call themselves again after a close that may not have happened.
ReprocessEnds ==
  LET settled(o, kind) == kind = "None" \/ (kind = "ColGroup" /\ ~ IsCurrentKind(o, kind))
  IN  /\ \A tag \in StartTags :
           LET o == SettleStartTag(b.open, tag.name)
           IN  settled(o, StartTagCloses(o, tag.name))
      /\ \A name \in EndTags :
           LET o == SettleEndTag(b.open, name)
           IN  settled(o, EndTagCloses(o, name))

OpenNamed(o, name) == {i \in 1..Len(o.stack) : o.stack[i].name = name}

\* A formatting end tag with fewer than OuterLoops special elements open above
\* the element it names leaves exactly one element of that name fewer open,
\* however many identical ones adoption cloned or reopened.
EndTagClosesOne ==
  \A name \in EndTags \cap FormattingNames :
    LET f == FindNamedInScope(b.open, name, "Standard")
        specials == {i \in f + 1 .. Len(b.open.stack) : IsSpecial(b.open.stack[i].name)}
    IN  /\ f # 0
        /\ Cardinality(specials) < OuterLoops
        /\ b.open.mode \notin {"InSelect", "InColumnGroup"}
        => Cardinality(OpenNamed(HandleCloseTag(b, name).open, name)) =
             Cardinality(OpenNamed(b.open, name)) - 1

\* What a token leaves for later ones: not what it reports to an observer.
Lasting(c) == [c EXCEPT !.ret = NULL, !.created = <<>>, !.flushed = NULL]

\* Where a character run is cut into tokens does not change the tree.
TextChunkInvariant ==
  \A content \in Texts : \A cut \in 1..Len(content) - 1 :
    LET head == SubSeq(content, 1, cut)
        tail == SubSeq(content, cut + 1, Len(content))
    IN  Lasting(HandleText(HandleText(b, head), tail)) = Lasting(HandleText(b, content))

-----------------------------------------------------------------------------
(***************************************************************************)
(* Steps, and what they report to an incremental observer.                 *)
(***************************************************************************)
\* A closed element is final: later tokens never reopen it, change its children
\* or the text in it.
ClosedSubtreeFrozen ==
  [][\A n \in NodeIds \ OpenIds(b) :
       /\ n \notin OpenIds(b')
       /\ Children(b'.nodes, n) = Children(b.nodes, n)
       /\ b.nodes[n].parent \notin OpenIds(b) => b'.nodes[n].text = b.nodes[n].text]_vars

\* The elements the last token created: those it lists and the one it returns.
Reported == b.created \o IF b.ret # NULL /\ b.ret \in Elements THEN <<b.ret>> ELSE <<>>

\* Every element a token creates is reported to the observer exactly once.
EveryElementReported ==
  [][~ finished' =>
       /\ ToSet(Reported)' = Elements' \ Elements
       /\ Cardinality(ToSet(Reported)') = Len(Reported)']_vars

\* The elements a token created are reported in document order, the returned
\* one last, so that the first match is the first in the document.
ReportedInDocumentOrder ==
  ~ finished =>
    LET order == DocumentOrder(b.nodes, RootId)
        position(n) == CHOOSE i \in 1..Len(order) : order[i] = n
    IN  \A i, j \in 1..Len(Reported) :
          i < j => position(Reported[i]) < position(Reported[j])

-----------------------------------------------------------------------------
(***************************************************************************)
(* The serializer (NodeRef::write_outer_html): the document that was built *)
(* is written out, and what was written is tokenized and built again.      *)
(* HTML is a sequence of tokens as they stand in the text.  "lt" is a <    *)
(* and "ref_lt" its character reference, which stand for all that is       *)
(* escaped.                                                                *)
(***************************************************************************)
\* Seeded fault: nothing is escaped.
Unescaped(text) == text

Escaped(text) == [i \in DOMAIN text |-> IF text[i] = "lt" THEN "ref_lt" ELSE text[i]]

\* The text of a raw-text element is written as it is.
TextHtml(ns, n) ==
  Text(IF OpensRawText(ns[ns[n].parent].name) THEN ns[n].text ELSE Escaped(ns[n].text))

\* Seeded fault: the first newline is written once.
NoExtraNewline(ns, n) == <<>>

\* The parser drops a newline right after these start tags.
ExtraNewline(ns, n) ==
  LET first == ns[n].first
  IN  IF /\ DropsLeadingNewline(ns[n].name)
         /\ first # NULL /\ ns[first].type = "text" /\ ns[first].text[1] \in {"lf", "cr"}
      THEN <<Text(<<"lf">>)>>
      ELSE <<>>

EndOf(name, content) == IF IsVoid(name) THEN <<>> ELSE Append(content, EndTag(name))

\* html[m] is the outer HTML of m, which is written between the tags of its parent.
InnerHtml(ns, n, html) ==
  FoldLeft(LAMBDA written, child : written \o html[child], <<>>, Children(ns, n))

ElementHtml(ns, n, html) ==
  <<StartTag(ns[n].name, ns[n].attrs)>>
    \o EndOf(ns[n].name, ExtraNewline(ns, n) \o InnerHtml(ns, n, html))

OuterHtml(ns, n) ==
  LET html[m \in DOMAIN ns] ==
        CASE ns[m].type = "text"    -> <<TextHtml(ns, m)>>
          [] ns[m].type = "comment" -> <<CommentToken>>
          [] ns[m].type = "doctype" -> <<DoctypeToken>>
          [] OTHER                  -> IF m = RootId THEN InnerHtml(ns, m, html) ELSE ElementHtml(ns, m, html)
  IN  html[n]

-----------------------------------------------------------------------------
(***************************************************************************)
(* Parsing what was written.  A < outside raw text may begin a tag, and a  *)
(* reference in raw text is none: either is other text than was meant.     *)
(***************************************************************************)
CharRead(c, inRaw) ==
  CASE c = "ref_lt" /\ inRaw   -> "misread"
    [] c = "lt" /\ ~ inRaw     -> "misread"
    [] OTHER                   -> c

Reading == [inRaw |-> FALSE, tokens |-> <<>>]

ReadToken(reading, token) ==
  IF token.type = "text"
  THEN [reading EXCEPT !.tokens =
          Append(@, Text([i \in DOMAIN token.content |-> CharRead(token.content[i], reading.inRaw)]))]
  ELSE [inRaw |-> token.type = "start" /\ OpensRawText(token.name),
        tokens |-> Append(reading.tokens, token)]

Parsed(html) ==
  FinishBuilder(FoldLeft(Process, EmptyBuilder, FoldLeft(ReadToken, Reading, html).tokens)).nodes

Again == Parsed(OuterHtml(b.nodes, RootId))

-----------------------------------------------------------------------------
\* Text next to text is one text.
ContinuesText(ns, n) == ns[n].type = "text" /\ ns[n].prev # NULL /\ ns[ns[n].prev].type = "text"

WithNode(ns, shape, n) ==
  IF ContinuesText(ns, n) THEN [shape EXCEPT ![Len(shape)].text = @ \o ns[n].text]
  ELSE Append(shape, [type |-> ns[n].type, name |-> ns[n].name, attrs |-> ns[n].attrs,
                      text |-> ns[n].text, depth |-> ns[n].depth])

Shape(ns) == FoldLeft(LAMBDA shape, n : WithNode(ns, shape, n), <<>>, DocumentOrder(ns, RootId))

\* Parsing what to_html wrote gives the document back, leading newlines and raw
\* text included, but for text nodes that become one.  HTML itself has trees that
\* no text describes.
RoundTrip == finished /\ scenario \in Describable => Shape(Again) = Shape(b.nodes)

\* Whatever the tree, its text_content is what the parsed output has: fostering,
\* adoption and the nesting limit never move or change text a second time.
TextSurvives == finished => TextBelow(Again, RootId) = TextBelow(b.nodes, RootId)
=============================================================================
