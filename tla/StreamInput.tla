---------------------------- MODULE StreamInput ----------------------------
(***************************************************************************)
(* What the push parsers (crates/fhp-tree/src/streaming.rs) do with bytes  *)
(* before the tree builder sees tokens: sniff the encoding of the first    *)
(* PrescanLimit units, decode the rest, and cut decoded text into tokens.  *)
(*                                                                         *)
(* A unit of raw input is a whole tag or comment, or a single byte of      *)
(* text: "x", "sp", "E" (not ASCII), "esc" (0x1B), or "B1" and "B2", the   *)
(* two bytes of a BOM.  Cutting inside a tag is StreamTokenizer's subject. *)
(* A unit of decoded text is a tag, or a character.                        *)
(***************************************************************************)
EXTENDS TreeBuilderOps

CONSTANT PrescanLimit   \* PRESCAN_LIMIT: raw input buffered for detection.

\* Enough for a BOM.
ASSUME PrescanLimitAssumption == PrescanLimit \in Nat /\ PrescanLimit >= 2

\* Tags with the token they become.  "<meta>" declares a legacy encoding with
\* shift sequences, "<dead>" a label of the replacement encoding.
MarkupTokens ==
  LET start(name) == StartTag(name, "none")
  IN  ("<b>" :> start("b")) @@ ("</b>" :> EndTag("b")) @@
      ("<p>" :> start("p")) @@ ("</p>" :> EndTag("p")) @@
      ("<div>" :> start("div")) @@ ("</div>" :> EndTag("div")) @@
      ("<td>" :> start("td")) @@ ("<table>" :> start("table")) @@
      ("</table>" :> EndTag("table")) @@ ("<colgroup>" :> start("colgroup")) @@
      ("<meta>" :> start("meta")) @@ ("<dead>" :> start("meta")) @@
      ("<!-- -->" :> CommentToken)

IsMarkup(unit) == unit \in DOMAIN MarkupTokens

RawUnits == DOMAIN MarkupTokens \union {"x", "sp", "E", "esc", "B1", "B2"}

IsAscii(unit) == unit \notin {"E", "B1", "B2"}

-----------------------------------------------------------------------------
(***************************************************************************)
(* Encodings.                                                              *)
(***************************************************************************)
HasBom(units) == Len(units) >= 2 /\ units[1] = "B1" /\ units[2] = "B2"

BomLen(units) == IF HasBom(units) THEN 2 ELSE 0

Declarations(window) == SelectSeq(window, LAMBDA unit : unit \in {"<meta>", "<dead>"})

\* detect: the BOM, else the first declaration in the prescan window, else
\* UTF-8.
Detect(units) ==
  LET window   == SubSeq(units, 1, IF Len(units) < PrescanLimit THEN Len(units) ELSE PrescanLimit)
      declares == Declarations(window)
  IN  IF HasBom(units) \/ declares = <<>> THEN "utf8"
      ELSE IF Head(declares) = "<meta>" THEN "legacy" ELSE "replacement"

\* A decoder: its encoding, whether a shift sequence is in force, whether the
\* replacement encoding has written its one character, and decoded_size.
NewDecoder(encoding) == [encoding |-> encoding, shifted |-> FALSE, spent |-> FALSE, size |-> 0]

NoDecoder == NewDecoder("none")

Encoded(decoder) == decoder.encoding # "none"

\* One character of UTF-8 output per unit; the shift sequence yields none.
DecodeUnit(decoder, unit) ==
  CASE decoder.encoding = "replacement" -> IF decoder.spent THEN <<>> ELSE <<"fffd">>
    [] decoder.encoding = "legacy" /\ unit = "esc" -> <<>>
    [] decoder.encoding = "legacy" /\ unit # "esc" /\ decoder.shifted -> <<"j">>
    [] OTHER -> IF IsAscii(unit) THEN <<unit>>
                ELSE IF decoder.encoding = "legacy" THEN <<"y">> ELSE <<"fffd">>

AfterUnit(decoder, unit) ==
  [decoder EXCEPT
     !.spent   = @ \/ decoder.encoding = "replacement",
     !.shifted = IF decoder.encoding = "legacy" /\ unit = "esc" THEN ~ @ ELSE @]

\* The decoder after the units, and what it wrote.
Decode(decoder, units) ==
  LET step(run, unit) == [decoder |-> AfterUnit(run.decoder, unit),
                          output  |-> run.output \o DecodeUnit(run.decoder, unit)]
  IN  FoldLeft(step, [decoder |-> decoder, output |-> <<>>], units)

\* UTF-8 bytes of a character; a tag counts as one, like its raw form.
SizeOf(unit) == CASE unit \in {"fffd", "j"} -> 3 [] unit = "y" -> 2 [] OTHER -> 1

SizeOfAll(units) == FoldLeft(LAMBDA size, unit : size + SizeOf(unit), 0, units)

\* The units that fit into a number of bytes, cut at a character boundary.
Fitting(units, room) ==
  SubSeq(units, 1, Cardinality({n \in 1..Len(units) : SizeOfAll(SubSeq(units, 1, n)) <= room}))

-----------------------------------------------------------------------------
(***************************************************************************)
(* Tokens: text waits until the next tag or the end of input.              *)
(***************************************************************************)
TextRun(held) == IF held = <<>> THEN <<>> ELSE <<Text(held)>>

\* The tokens complete after the units, and the text still held back.
Tokenized(held, units) ==
  LET step(run, unit) ==
        IF IsMarkup(unit)
        THEN [tokens |-> run.tokens \o TextRun(run.held) \o <<MarkupTokens[unit]>>, held |-> <<>>]
        ELSE [run EXCEPT !.held = Append(@, unit)]
  IN  FoldLeft(step, [tokens |-> <<>>, held |-> held], units)

\* The whole input as one text, as the one-shot parser decodes it.
DecodeAll(input, encoding) ==
  Decode(NewDecoder(encoding), SubSeq(input, BomLen(input) + 1, Len(input))).output
=============================================================================
