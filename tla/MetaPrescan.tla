---------------------------- MODULE MetaPrescan ----------------------------
(***************************************************************************)
(* Looking for a <meta> that declares the encoding in the first bytes of a *)
(* document (prescan_meta in crates/fhp-encoding/src/detect.rs).  The code *)
(* jumps from markup to markup; what it finds must not depend on where a   *)
(* sample of the document ends, and nothing that only looks like a <meta>  *)
(* may be taken for one.                                                   *)
(*                                                                         *)
(* The words are shorter than in HTML: "me" is meta, "ch" charset, "q"     *)
(* http-equiv, "t" content-type, "n" content, and u, w, x, 1 are labels.   *)
(***************************************************************************)
EXTENDS TokenizerOps

CONSTANTS
  Inputs,          \* Documents, as sequences of byte classes.
  PRESCAN_LIMIT

VARIABLES
  input,
  pos,             \* Where the search goes on.
  found,           \* The encoding, or none.
  ended

vars == <<input, pos, found, ended>>

Letters == {"a", "c", "e", "h", "m", "n", "q", "t", "u", "w", "x"}
MetaTag == <<"<", "m", "e">>
Charset == <<"c", "h">>
HttpEquiv == <<"q">>
ContentType == <<"t">>
Content == <<"n">>

\* Encoding::for_label
Label(value) ==
  CASE value = <<"u">> -> "utf-8" [] value = <<"w">> -> "utf-16" [] value = <<"1">> -> "windows-1252"
    [] value = <<"x">> -> "x-user-defined" [] OTHER -> "none"
ForLabel(value) == Label(SelectSeq(value, LAMBDA byte : byte \notin Space))

\* A document that an ASCII scan can read is not UTF-16.
Remap(encoding) ==
  CASE encoding = "utf-16" -> "utf-8" [] encoding = "x-user-defined" -> "windows-1252"
    [] OTHER -> encoding

-----------------------------------------------------------------------------
(* What one <meta> declares. *)

SkipSpaces(d, p) == Find(d, p, {d[i] : i \in DOMAIN d} \ Space)

\* The first place at or after p where word stands, or the length.
FindWord(d, p, word) ==
  LET places == {k \in p .. Len(d) - Len(word) : Slice(d, k, k + Len(word)) = word}
  IN  IF places = {} THEN Len(d) ELSE Min(places)

\* The value of a charset parameter that begins at p.
Parameter(content, p) ==
  IF ByteAt(content, p) \in Quotes
  THEN LET end == Find(content, p + 1, {ByteAt(content, p)})
       IN  IF end = Len(content) THEN "none" ELSE ForLabel(Slice(content, p + 1, end))
  ELSE ForLabel(Slice(content, p, Find(content, p, Space \union {";"})))

\* extract_charset_from_content
RECURSIVE CharsetFrom(_, _)
CharsetAfter(content, p) ==
  IF ByteAt(content, p) = "=" THEN Parameter(content, SkipSpaces(content, p + 1))
  ELSE CharsetFrom(content, p)
CharsetFrom(content, p) ==
  LET at == FindWord(content, p, Charset)
  IN  IF at = Len(content) THEN "none"
      ELSE CharsetAfter(content, SkipSpaces(content, at + Len(Charset)))

Absent == <<"absent">>
NoSlots == [charset |-> Absent, equiv |-> Absent, content |-> Absent]
SlotOf(name) ==
  CASE name = Charset -> "charset" [] name = HttpEquiv -> "equiv" [] name = Content -> "content"
    [] OTHER -> "none"
\* A later attribute replaces an earlier one.
LastWins(slots, attr) ==
  LET slot == SlotOf(attr.name)
  IN  IF slot = "none" THEN slots ELSE [slots EXCEPT ![slot] = attr.value]
\* get_or_insert: a first occurrence without a value counts, too.
FirstOfMeta(slots, attr) ==
  LET slot == SlotOf(attr.name)
  IN  IF slot = "none" \/ slots[slot] # Absent THEN slots ELSE [slots EXCEPT ![slot] = attr.value]
MetaAttributes(region) == FoldLeft(FirstOfMeta, NoSlots, ScannedAttrs(region))

DeclaredBy(slots) ==
  CASE slots.charset \notin {Absent, NoValue} -> ForLabel(slots.charset)
    [] slots.charset = NoValue                -> "none"
    [] OTHER ->
         IF slots.equiv = ContentType /\ slots.content \notin {Absent, NoValue}
         THEN CharsetFrom(slots.content, 0) ELSE "none"
MetaEncoding(region) == DeclaredBy(MetaAttributes(region))

-----------------------------------------------------------------------------
(* The search. *)

Haystack == Slice(input, 0, PRESCAN_LIMIT)
End == Len(Haystack)
Lt == Find(Haystack, pos, {"<"})
Markup == From(Haystack, Lt)

IsComment(m) == IsPrefix(<<"<", "!", "-", "-">>, m)
IsMeta(m) == IsPrefix(MetaTag, m) /\ ByteAt(m, Len(MetaTag)) \in Space \union {"/"}
IsTag(m) == ByteAt(m, 1) \in Letters \/ (ByteAt(m, 1) = "/" /\ ByteAt(m, 2) \in Letters)
IsDeclaration(m) == ByteAt(m, 1) \in {"!", "/", "?"}

\* As long as there is none, the length of the markup stands for no end.
TagNameEnd(m) == Find(m, 0, Space \union {">"})
FindTagEnd(m, from) ==
  FoldLeft(LAMBDA at, i :
             IF at.end < Len(m) \/ (m[i] = ">" /\ ~GtIsLiteral(at.state))
             THEN [at EXCEPT !.end = Min({@, i - 1})]
             ELSE [at EXCEPT !.state = ScanStep(@, m[i])],
           [state |-> "before_name", end |-> Len(m)],
           [k \in 1 .. Len(m) - from |-> from + k]).end

Init == input \in Inputs /\ pos = 0 /\ found = "none" /\ ended = FALSE

Searching == ~ended /\ Lt < End
GoOn(to) == pos' = to /\ UNCHANGED <<input, found, ended>>
Stop == ended' = TRUE /\ UNCHANGED <<input, pos, found>>

\* Nothing more begins, or what begins does not end.
NoMarkup == ~ended /\ Lt = End /\ Stop

\* The opener's dashes close a comment, too.
EndOfComment(m) == FindWord(m, 2, <<"-", "-", ">">>)
SkipComment(m) ==
  /\ Searching /\ IsComment(m)
  /\ IF EndOfComment(m) = Len(m) THEN Stop ELSE GoOn(Lt + EndOfComment(m) + 3)

Cut(m) == Searching /\ Len(m) = 1 /\ Stop

ReadMeta(m) ==
  /\ Searching /\ IsMeta(m)
  /\ \E gt \in {FindTagEnd(m, Len(MetaTag))} :
       IF gt = Len(m) THEN Stop
       ELSE \E encoding \in {MetaEncoding(Slice(m, Len(MetaTag), gt))} :
              /\ pos' = Lt + gt + 1
              /\ found' = Remap(encoding) /\ ended' = (encoding # "none")
              /\ UNCHANGED input

SkipTag(m) ==
  /\ Searching /\ IsTag(m) /\ ~IsMeta(m)
  /\ \E gt \in {FindTagEnd(m, TagNameEnd(m))} : IF gt = Len(m) THEN Stop ELSE GoOn(Lt + gt + 1)

SkipDeclaration(m) ==
  /\ Searching /\ IsDeclaration(m) /\ ~IsComment(m) /\ ~IsTag(m)
  /\ \E gt \in {Find(m, 0, {">"})} : IF gt = Len(m) THEN Stop ELSE GoOn(Lt + gt + 1)

SkipText(m) ==
  /\ Searching /\ Len(m) > 1 /\ ~IsDeclaration(m) /\ ~IsTag(m)
  /\ GoOn(Lt + 1)

Next ==
  \/ NoMarkup \/ Cut(Markup) \/ SkipComment(Markup) \/ ReadMeta(Markup)
  \/ SkipTag(Markup) \/ SkipDeclaration(Markup) \/ SkipText(Markup)

Spec == Init /\ [][Next]_vars

-----------------------------------------------------------------------------
(***************************************************************************)
(* The same search as an automaton that sees every byte once and never     *)
(* looks ahead: what it has found cannot change when more bytes follow.    *)
(***************************************************************************)
Start == [at |-> "text", word |-> <<>>, scan |-> "before_name", found |-> "none"]
Move(s, at) == [s EXCEPT !.at = at, !.word = <<>>, !.scan = "before_name"]
Grow(s, byte) == [s EXCEPT !.word = Append(@, byte)]

\* What the first attribute with a name says.
FirstValue(attrs, name) ==
  LET which == {i \in DOMAIN attrs : attrs[i].name = name}
  IN  IF which = {} THEN Absent ELSE attrs[Min(which)].value

\* The parameter behind the first "charset" that has a "=".
Spaces(d, from, to) == \A i \in from + 1 .. to : d[i] \in Space
FirstParameter(content) ==
  LET begins == {j \in 0 .. Len(content) - 1 :
                   /\ ByteAt(content, j) = "="
                   /\ \E i \in 0 .. j - 2 : Slice(content, i, i + 2) = Charset /\ Spaces(content, i + 2, j)}
  IN  IF begins = {} THEN "none" ELSE Parameter(content, SkipSpaces(content, Min(begins) + 1))

Declares(attrs) ==
  LET charset == FirstValue(attrs, Charset)
      content == FirstValue(attrs, Content)
  IN  IF charset # Absent THEN (IF charset = NoValue THEN "none" ELSE ForLabel(charset))
      ELSE IF FirstValue(attrs, HttpEquiv) = ContentType /\ content \notin {Absent, NoValue}
           THEN FirstParameter(content) ELSE "none"
Evaluated(s) == [Move(s, "text") EXCEPT !.found = Remap(Declares(ScannedAttrs(s.word)))]

AfterLt(s, byte) ==
  CASE byte \in Letters -> Grow(Move(s, "name"), byte)
    [] byte = "/"       -> Move(s, "slash")
    [] byte = "!"       -> Move(s, "bang")
    [] byte = "?"       -> Move(s, "bogus")
    [] byte = "<"       -> Move(s, "lt")
    [] OTHER            -> Move(s, "text")
SeeDeclaration(s, byte, next) == IF byte = ">" THEN Move(s, "text") ELSE Move(s, next)
SeeComment(s, byte) ==
  CASE byte = "-" -> IF Len(s.word) < 2 THEN Grow(s, byte) ELSE s
    [] byte = ">" /\ Len(s.word) = 2 -> Move(s, "text")
    [] OTHER -> Move(s, "comment")
\* Only the name of a <meta> ends at a slash.
SeeTagName(s, byte) ==
  CASE byte = ">" -> Move(s, "text")
    [] s.word = Tail(MetaTag) /\ byte \in Space \union {"/"} -> Grow(Move(s, "meta"), byte)
    [] byte \in Space -> Move(s, "attrs")
    [] OTHER -> Grow(s, byte)
SeeAttrs(s, byte) ==
  IF byte = ">" /\ ~GtIsLiteral(s.scan)
  THEN IF s.at = "meta" THEN Evaluated(s) ELSE Move(s, "text")
  ELSE [s EXCEPT !.scan = ScanStep(@, byte), !.word = IF s.at = "meta" THEN Append(@, byte) ELSE @]
SeeByte(s, byte) ==
  IF s.found # "none" THEN s
  ELSE CASE s.at = "text"    -> IF byte = "<" THEN Move(s, "lt") ELSE s
         [] s.at = "lt"      -> AfterLt(s, byte)
         [] s.at = "slash"   -> IF byte \in Letters THEN Move(s, "end_name") ELSE SeeDeclaration(s, byte, "bogus")
         [] s.at = "end_name" -> CASE byte = ">" -> Move(s, "text")
                                   [] byte \in Space -> Move(s, "attrs")
                                   [] OTHER -> s
         [] s.at = "bang"    -> SeeDeclaration(s, byte, IF byte = "-" THEN "dash" ELSE "bogus")
         [] s.at = "dash"    -> IF byte = "-" THEN [Move(s, "comment") EXCEPT !.word = <<"-", "-">>]
                                ELSE SeeDeclaration(s, byte, "bogus")
         [] s.at = "bogus"   -> SeeDeclaration(s, byte, "bogus")
         [] s.at = "comment" -> SeeComment(s, byte)
         [] s.at = "name"    -> SeeTagName(s, byte)
         [] OTHER            -> SeeAttrs(s, byte)
Seen(bytes) == FoldLeft(SeeByte, Start, bytes)

-----------------------------------------------------------------------------
TypeOK ==
  /\ pos \in 0 .. End
  /\ found \in {"none", "utf-8", "windows-1252"}
  /\ ended \in BOOLEAN

\* The search finds what the automaton finds: a declaration in a <meta> that
\* is one, the first of them, and the same in every longer sample.
FoundOnce == ended => found = Seen(Haystack).found

\* The search goes on in text, or right after a "<" that is text; never in
\* the middle of a comment, a tag or a quoted value.
BetweenMarkup == ~ended => Seen(Slice(Haystack, 0, pos)).at \in {"text", "lt"}

\* What is found is what is declared, and nothing is mistaken for a declaration.
PrescanExact == TypeOK /\ FoundOnce /\ BetweenMarkup
=============================================================================
