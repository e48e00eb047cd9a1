---------------------------- MODULE TokenizerOps ----------------------------
(***************************************************************************)
(* The one-shot tokenizer of fhp-tokenizer (extract.rs, lib.rs,            *)
(* entity.rs) and the tag grammar it shares with fhp-core (attr.rs).       *)
(*                                                                         *)
(* Input is a sequence of byte classes.  Offsets are those of the code:    *)
(* offset i is the (i+1)-th byte.  The keywords of the grammar are shorter *)
(* than in HTML, but each has at least two bytes wherever the code can be  *)
(* interrupted inside it:                                                  *)
(*    <<"s","c">>  script            <<"t">>  title (RCDATA)               *)
(*    <<"y","y">>  style (raw text)  <<"p">>  plaintext                    *)
(*    "!do"        <!DOCTYPE         "![c["   <![CDATA[                    *)
(* A letter stands for both cases.  "L" followed by "C" is one two-byte    *)
(* character; alone each of them is an invalid byte, decoded to "R".       *)
(***************************************************************************)
EXTENDS Integers, SequencesExt

Alpha    == {"a", "c", "d", "o", "p", "s", "t", "x", "y"}
Digits   == {"0", "1"}
Space    == {"sp"}
Quotes   == {"dq", "sq"}
Script    == <<"s", "c">>
Style     == <<"y", "y">>
Title     == <<"t">>
Plaintext == <<"p">>
NoTag     == <<>>
RawNames    == {Script, Style}
RcNames     == {Title}
DoctypeWord == <<"d", "o">>
CDataWord   == <<"[", "c", "[">>

ByteAt(d, i) == IF i >= 0 /\ i < Len(d) THEN d[i + 1] ELSE "none"
From(d, i)   == SubSeq(d, i + 1, Len(d))
Slice(d, i, j) == SubSeq(d, i + 1, Min({j, Len(d)}))
\* memchr: the first offset at or after i of a byte in S, or the length.
Find(d, i, S) ==
  LET hits == {k \in i .. Len(d) - 1 : d[k + 1] \in S}
  IN  IF hits = {} THEN Len(d) ELSE Min(hits)

-----------------------------------------------------------------------------
(* Lossy UTF-8 decoding and character references. *)

\* String::from_utf8_lossy: a complete character stays, any other byte of one
\* becomes U+FFFD.
RECURSIVE Lossy(_)
Lossy(d) ==
  CASE d = <<>> -> <<>>
    [] d # <<>> /\ d[1] = "L" /\ ByteAt(d, 1) = "C" -> <<"L", "C">> \o Lossy(From(d, 2))
    [] OTHER -> <<IF d[1] \in {"L", "C"} THEN "R" ELSE d[1]>> \o Lossy(Tail(d))

\* Length of the longest valid UTF-8 prefix.
Utf8PrefixLen(d) ==
  LET bad == {k \in 0 .. Len(d) - 1 :
                \/ d[k + 1] = "L" /\ ByteAt(d, k + 1) # "C"
                \/ d[k + 1] = "C" /\ ByteAt(d, k - 1) # "L"}
  IN  IF bad = {} THEN Len(d) ELSE Min(bad)

CONSTANT MaxCode   \* stands for u32::MAX in the accumulation of a number
ASSUME MaxCodeAssumption == MaxCode \in Nat

\* NumericEntityState: the value of a digit run, read with overflow detection.
NoNumber == [hex |-> FALSE, value |-> -1, overflow |-> FALSE]
NewNumber(hex) == [hex |-> hex, value |-> 0, overflow |-> FALSE]
AcceptsDigit(n, b) == b \in Digits \union (IF n.hex THEN {"a", "c", "d"} ELSE {})
DigitValue(b) == CASE b = "0" -> 0 [] b = "1" -> 1 [] b = "a" -> 10 [] b = "c" -> 12 [] OTHER -> 13
PushDigit(n, b) ==
  LET value == n.value * (IF n.hex THEN 16 ELSE 10) + DigitValue(b)
  IN  CASE n.overflow      -> n
        [] value > MaxCode -> [n EXCEPT !.overflow = TRUE]
        [] OTHER           -> [n EXCEPT !.value = value]
\* The character a number decodes to: null and overflow give U+FFFD.
NumberChar(n) == IF n.overflow \/ n.value = 0 THEN "R" ELSE "#" \o ToString(n.value)

\* The digits after "&#" or "&#x" at offset i, and where they end; i itself
\* when there are none.
DigitsEnd(d, i, hex) ==
  Min({k \in i .. Len(d) : k = Len(d) \/ ~AcceptsDigit(NewNumber(hex), d[k + 1])})
NumberIn(d, start, end, hex) ==
  [digits |-> end > start, end |-> end,
   number |-> FoldLeft(PushDigit, NewNumber(hex), Slice(d, start, end))]
NumberAt(d, i) ==
  IF ByteAt(d, i) = "x" THEN NumberIn(d, i + 1, DigitsEnd(d, i + 1, TRUE), TRUE)
  ELSE NumberIn(d, i, DigitsEnd(d, i, FALSE), FALSE)

\* The named references: "t" also without its semicolon, "ta" only with it.
LegacyNames == {<<"t">>}
ExactNames  == {<<"t">>, <<"t", "a">>}
NamedChar(name) == IF name = <<"t">> THEN "E1" ELSE "E2"

Longest(names) ==
  IF names = {} THEN <<>> ELSE CHOOSE m \in names : \A o \in names : Len(o) <= Len(m)
\* longest_named_prefix: the complete name when a semicolon ends it, else the
\* longest legacy prefix, empty when there is none.
LongestNamedPrefix(d, i, end) ==
  IF ByteAt(d, end) = ";" /\ Slice(d, i, end) \in ExactNames THEN Slice(d, i, end)
  ELSE Longest({m \in LegacyNames : IsPrefix(m, Slice(d, i, end))})
NameRunEnd(d, i) == Find(d, i, {d[k] : k \in 1 .. Len(d)} \ (Alpha \union Digits))

NoReference == [used |-> 0, char |-> "none"]
NumericReference(d, i, n) ==
  IF ~n.digits THEN NoReference
  ELSE [used |-> n.end - i + (IF ByteAt(d, n.end) = ";" THEN 1 ELSE 0), char |-> NumberChar(n.number)]
NamedReference(name, after, inAttribute) ==
  IF \/ name = <<>>
     \/ after # ";" /\ name \notin LegacyNames
     \/ inAttribute /\ after \in Alpha \union Digits \union {"="}
  THEN NoReference
  ELSE [used |-> Len(name) + (IF after = ";" THEN 1 ELSE 0), char |-> NamedChar(name)]
\* decode_reference for the body at offset i, just after the "&": the
\* character and the number of bytes consumed, none when it is not a reference.
DecodeNamed(d, i, name, inAttribute) == NamedReference(name, ByteAt(d, i + Len(name)), inAttribute)
DecodeReference(d, i, inAttribute) ==
  IF ByteAt(d, i) = "#" THEN NumericReference(d, i, NumberAt(d, i + 1))
  ELSE DecodeNamed(d, i, LongestNamedPrefix(d, i, NameRunEnd(d, i)), inAttribute)

\* decode_entities: every reference replaced, everything else copied.
RECURSIVE DecodeFrom(_, _, _)
DecodeRest(d, i, r, inAttribute) ==
  IF r.used > 0 THEN <<r.char>> \o DecodeFrom(d, i + 1 + r.used, inAttribute)
  ELSE <<d[i + 1]>> \o DecodeFrom(d, i + 1, inAttribute)
DecodeFrom(d, i, inAttribute) ==
  IF i >= Len(d) THEN <<>>
  ELSE DecodeRest(d, i, IF d[i + 1] = "&" THEN DecodeReference(d, i + 1, inAttribute) ELSE NoReference,
                  inAttribute)
DecodeEntities(d) == DecodeFrom(d, 0, FALSE)

-----------------------------------------------------------------------------
(* The attribute grammar inside a tag (TagScanState). *)

ScanStep(s, b) ==
  CASE s = "name" -> IF b \in Space \union {"/"} THEN "before_name" ELSE "name"
    [] s = "before_name" -> IF b \in Space \union {"/"} THEN "before_name" ELSE "attr"
    [] s \in {"attr", "after_attr"} ->
         CASE b \in Space -> "after_attr"
           [] b = "/"     -> "before_name"
           [] b = "="     -> "before_value"
           [] OTHER       -> "attr"
    [] s = "before_value" ->
         CASE b \in Space  -> "before_value"
           [] b \in Quotes -> b
           [] OTHER        -> "unquoted"
    [] s = "unquoted" -> IF b \in Space THEN "before_name" ELSE "unquoted"
    [] s \in Quotes   -> IF b = s THEN "before_name" ELSE s
ScanAdvance(s, bytes) == FoldLeft(ScanStep, s, bytes)
GtIsLiteral(s) == s \in Quotes
TagNameOffset(markup) == IF ByteAt(markup, 1) = "/" THEN 2 ELSE 1

(* Classification of "<". *)

Starts(prefix, rest) == IsPrefix(prefix, rest)
\* classify_lt: what the "<" at the head of rest begins; "undecided" only
\* before the end of input.  off is where a bogus comment's data starts.
ClassifyLt(rest, atEof) ==
  LET next == ByteAt(rest, 1)
      body == From(rest, 2)
      Kind(k, n) == [kind |-> k, off |-> n]
      \* A proper prefix of a keyword that may still be completed.
      partial == \E w \in {<<"-", "-">>, DoctypeWord, CDataWord} :
                   Len(body) < Len(w) /\ IsPrefix(body, w)
  IN  CASE next = "none" -> Kind(IF atEof THEN "text" ELSE "undecided", 0)
        [] next = "!" ->
             CASE Starts(<<"-", "-">>, body) -> Kind("comment", 0)
               [] Starts(DoctypeWord, body)  -> Kind("doctype", 0)
               [] Starts(CDataWord, body)    -> Kind("cdata", 0)
               [] partial /\ ~atEof          -> Kind("undecided", 0)
               [] OTHER                      -> Kind("bogus", 2)
        [] next = "?" -> Kind("bogus", 1)
        [] next = "/" ->
             CASE body = <<>>      -> Kind(IF atEof THEN "text" ELSE "undecided", 0)
               [] body # <<>> /\ body[1] \in Alpha -> Kind("tag", 0)
               [] body # <<>> /\ body[1] = ">"     -> Kind("empty_end", 0)
               [] OTHER            -> Kind("bogus", 2)
        [] next \in Alpha -> Kind("tag", 0)
        [] OTHER -> Kind("text", 0)

(* Script data escapes and end tags of text elements. *)

\* The name at offset n of rest, followed by a byte that ends a tag name.
StartsTagNamed(rest, n, name) ==
  Slice(rest, n, n + Len(name)) = name /\ ByteAt(rest, n + Len(name)) \in {">", "/"} \union Space
IsEndTagAt(d, i, name) == ByteAt(d, i + 1) = "/" /\ StartsTagNamed(From(d, i), 2, name)

\* "<" in script text: the next escape state and whether it ends the script.
ScriptLt(esc, d, i) ==
  LET rest == From(d, i)
  IN  CASE /\ esc = "plain"
           /\ Starts(<<"<", "!", "-", "-">>, rest)
           /\ ByteAt(rest, 4) # ">" /\ Slice(rest, 4, 6) # <<"-", ">">> ->
             [esc |-> "escaped", closes |-> FALSE]
        [] IsEndTagAt(d, i, Script) ->
             IF esc = "double" THEN [esc |-> "escaped", closes |-> FALSE]
             ELSE [esc |-> "plain", closes |-> TRUE]
        [] esc = "escaped" /\ StartsTagNamed(rest, 1, Script) -> [esc |-> "double", closes |-> FALSE]
        [] OTHER -> [esc |-> esc, closes |-> FALSE]
\* ">" in script text: "-->" leaves the escapes.
ScriptGt(esc, d, i) ==
  IF esc # "plain" /\ i >= 2 /\ Slice(d, i - 2, i) = <<"-", "-">> THEN "plain" ELSE esc

-----------------------------------------------------------------------------
(* Tokens and the parser driven by delimiter positions (extract.rs). *)

TextToken(s)       == [kind |-> "text", name |-> <<>>, data |-> s]
TagToken(kind, name, attrs) == [kind |-> kind, name |-> name, data |-> attrs]
DataToken(kind, s) == [kind |-> kind, name |-> <<>>, data |-> s]

NewParser(decode) ==
  [mode |-> "data", cursor |-> 0, open |-> 0, textTag |-> NoTag, scan |-> "name",
   scanPos |-> 0, bogus |-> 0, esc |-> "plain", decode |-> decode, out |-> <<>>]

Emit(p, token) == [p EXCEPT !.out = Append(@, token)]
\* flush_text_impl and flush_text_raw_impl: text from the cursor to pos.
EmitNonEmpty(p, s, raw) ==
  IF s = <<>> THEN p ELSE Emit(p, TextToken(IF p.decode /\ ~raw THEN DecodeEntities(s) ELSE s))
FlushText(p, d, pos, raw) == [EmitNonEmpty(p, Slice(d, p.cursor, pos), raw) EXCEPT !.cursor = pos]

BeginTag(p, d, pos) ==
  [p EXCEPT !.mode = "tag", !.open = pos, !.scan = "name",
            !.scanPos = pos + TagNameOffset(From(d, pos))]
EnterMarkup(p, d, pos, lt) ==
  CASE lt.kind = "tag" -> BeginTag(p, d, pos)
    [] lt.kind \in {"comment", "cdata", "doctype"} -> [p EXCEPT !.mode = lt.kind, !.open = pos]
    [] lt.kind = "bogus" -> [p EXCEPT !.mode = "bogus", !.bogus = pos + lt.off]
    [] lt.kind = "empty_end" -> [p EXCEPT !.cursor = pos + 3]
    [] OTHER -> p

\* The bytes between two quotes are walked only when their state is needed.
ScanTo(p, d, pos) ==
  [p EXCEPT !.scan = ScanAdvance(@, Slice(d, p.scanPos, pos)), !.scanPos = pos]
QuoteInTag(p, d, pos, b) ==
  IF GtIsLiteral(p.scan)
  THEN [p EXCEPT !.scan = IF b = @ THEN "before_name" ELSE @, !.scanPos = pos + 1]
  ELSE [ScanTo(p, d, pos) EXCEPT !.scan = ScanStep(@, b), !.scanPos = pos + 1]
SelfClosing(p, d, close) == ByteAt(d, close - 1) = "/" /\ ScanTo(p, d, close).scan # "unquoted"

\* The tag name ends at a space, a slash or the end of the tag.
NameEnd(d, start, close) == Min({Find(d, start, Space \union {"/"}), close})
EnterTextElement(p, name) ==
  CASE name = Plaintext    -> [p EXCEPT !.mode = "plaintext"]
    [] name \in RawNames   -> [p EXCEPT !.mode = "rawtext", !.textTag = name, !.esc = "plain"]
    [] name \in RcNames    -> [p EXCEPT !.mode = "rcdata", !.textTag = name]
    [] OTHER               -> p
EndTag(p, d, close) ==
  LET name == Slice(d, p.open + 2, NameEnd(d, p.open + 2, close))
  IN  Emit([p EXCEPT !.textTag = NoTag, !.esc = "plain"], TagToken("close", name, <<>>))
StartTag(p, d, close) ==
  LET nameEnd == NameEnd(d, p.open + 1, close)
      attrEnd == IF SelfClosing(p, d, close) THEN close - 1 ELSE close
      name    == Slice(d, p.open + 1, nameEnd)
  IN  EnterTextElement(Emit(p, TagToken("open", name, Slice(d, nameEnd, attrEnd))), name)
FinishTag(p, close) ==
  [p EXCEPT !.cursor = close + 1, !.mode = IF @ = "tag" THEN "data" ELSE @]
InTag(p, d, pos, b) ==
  CASE b \in Quotes -> QuoteInTag(p, d, pos, b)
    [] b = ">" /\ ~GtIsLiteral(p.scan) ->
         FinishTag(IF ByteAt(d, p.open + 1) = "/" THEN EndTag(p, d, pos) ELSE StartTag(p, d, pos), pos)
    [] OTHER -> p

EndSpecial(p, close) == [p EXCEPT !.cursor = close + 1, !.mode = "data"]
\* Where the comment's data ends if the ">" at pos closes it, -1 otherwise.
CommentEnd(p, d, pos) ==
  CASE Slice(d, pos - 2, pos) = <<"-", "-">> -> pos - 2
    [] pos - 3 >= p.open + 4 /\ Slice(d, pos - 3, pos) = <<"-", "-", "!">> -> pos - 3
    [] OTHER -> -1
InComment(p, d, pos, b) ==
  LET end == IF b = ">" THEN CommentEnd(p, d, pos) ELSE -1
  IN  IF end = -1 THEN p
      ELSE EndSpecial(Emit(p, DataToken("comment", Slice(d, p.open + 4, end))), pos)
InCData(p, d, pos, b) ==
  IF b = ">" /\ Slice(d, pos - 2, pos) = <<"]", "]">>
  THEN EndSpecial(Emit(p, DataToken("cdata", Slice(d, p.open + 2 + Len(CDataWord), pos - 2))), pos)
  ELSE p
\* Surrounding spaces are trimmed.
DoctypeContent(p, d, end) ==
  LET s    == Slice(d, p.open + 2 + Len(DoctypeWord), end)
      kept == {k \in 1 .. Len(s) : s[k] \notin Space}
  IN  IF kept = {} THEN <<>> ELSE SubSeq(s, Min(kept), Max(kept))
InDoctype(p, d, pos, b) ==
  IF b = ">" THEN EndSpecial(Emit(p, DataToken("doctype", DoctypeContent(p, d, pos))), pos) ELSE p
InBogus(p, d, pos, b) ==
  IF b = ">" THEN EndSpecial(Emit(p, DataToken("comment", Slice(d, p.bogus, pos))), pos) ELSE p

\* text_element_close: only the matching end tag is markup; a script also
\* tracks its escapes.
CloseElementAt(p, d, pos) == BeginTag(FlushText(p, d, pos, p.mode = "rawtext"), d, pos)
InScript(p, d, pos, b, lt) ==
  CASE b = "<" /\ lt.closes  -> CloseElementAt([p EXCEPT !.esc = lt.esc], d, pos)
    [] b = "<" /\ ~lt.closes -> [p EXCEPT !.esc = lt.esc]
    [] b = ">" -> [p EXCEPT !.esc = ScriptGt(@, d, pos)]
    [] OTHER   -> p
InTextElement(p, d, pos, b) ==
  CASE p.textTag = Script -> InScript(p, d, pos, b, ScriptLt(p.esc, d, pos))
    [] p.textTag # Script /\ b = "<" /\ IsEndTagAt(d, pos, p.textTag) -> CloseElementAt(p, d, pos)
    [] OTHER -> p

InDataAt(p, d, pos, b, lt) ==
  IF b # "<" \/ lt.kind = "text" THEN p ELSE EnterMarkup(FlushText(p, d, pos, FALSE), d, pos, lt)
InData(p, d, pos, b) == InDataAt(p, d, pos, b, ClassifyLt(From(d, pos), TRUE))

OnDelimiter(p, d, pos) ==
  LET b == d[pos + 1]
  IN  CASE p.mode = "data"    -> InData(p, d, pos, b)
        [] p.mode = "tag"     -> InTag(p, d, pos, b)
        [] p.mode = "comment" -> InComment(p, d, pos, b)
        [] p.mode = "doctype" -> InDoctype(p, d, pos, b)
        [] p.mode = "cdata"   -> InCData(p, d, pos, b)
        [] p.mode = "bogus"   -> InBogus(p, d, pos, b)
        [] p.mode \in {"rawtext", "rcdata"} -> InTextElement(p, d, pos, b)
        [] p.mode = "plaintext" -> p

\* A partial terminator at the end of input is not part of the comment.
EofCommentContent(p, d) ==
  LET data == From(d, p.open + 4)
      n    == Len(data)
      trim == CASE IsSuffix(<<"-", "-", "!">>, data) -> 3
                [] IsSuffix(<<"-", "-">>, data)      -> 2
                [] IsSuffix(<<"-">>, data)           -> 1
                [] OTHER                             -> 0
  IN  SubSeq(data, 1, n - trim)
FlushTrailing(p, d) ==
  CASE p.mode \in {"data", "rcdata"}       -> FlushText(p, d, Len(d), FALSE)
    [] p.mode \in {"rawtext", "plaintext"} -> FlushText(p, d, Len(d), TRUE)
    [] p.mode = "tag"     -> p
    [] p.mode = "comment" -> Emit(p, DataToken("comment", EofCommentContent(p, d)))
    [] p.mode = "cdata"   -> Emit(p, DataToken("cdata", From(d, p.open + 2 + Len(CDataWord))))
    [] p.mode = "doctype" -> Emit(p, DataToken("doctype", DoctypeContent(p, d, Len(d))))
    [] p.mode = "bogus"   -> Emit(p, DataToken("comment", From(d, p.bogus)))

\* The structural index: offsets of "<", ">" and quotes, in order.
Delimiters(d) == SelectSeq([i \in 1 .. Len(d) |-> i - 1],
                           LAMBDA i : d[i + 1] \in {"<", ">"} \union Quotes)
\* tokenize_with: one pass over the delimiters of the whole input.
OnDelimiters(d, decode) ==
  FoldLeft(LAMBDA p, pos : OnDelimiter(p, d, pos), NewParser(decode), Delimiters(d))
TokenizeText(d, decode) == FlushTrailing(OnDelimiters(d, decode), d).out
Tokenize(d, decode) == TokenizeText(Lossy(d), decode)

\* tokenize_prefix: the complete markup at the start of an input that goes on.
PrefixStop(p, end, lt) ==
  [consumed |-> p.cursor, end |-> end, markup |-> p.mode # "data", lt |-> lt, out |-> p.out,
   tag |-> IF end # "text_element" THEN NoTag ELSE IF p.mode = "plaintext" THEN Plaintext ELSE p.textTag]
RECURSIVE PrefixFrom(_, _, _)
\* In data: "<" at pos begins lt.
PrefixInData(p, d, ds, pos, lt) ==
  CASE d[pos + 1] # "<" \/ lt.kind = "text" -> PrefixFrom(p, d, Tail(ds))
    [] d[pos + 1] = "<" /\ lt.kind = "undecided" -> PrefixStop(p, "undecided", pos)
    [] OTHER -> PrefixFrom(EnterMarkup(FlushText(p, d, pos, FALSE), d, pos, lt), d, Tail(ds))
\* In markup: a text element ends the prefix.
PrefixInMarkup(q, d, ds) ==
  IF q.mode \in {"rawtext", "rcdata", "plaintext"} THEN PrefixStop(q, "text_element", 0)
  ELSE PrefixFrom(q, d, Tail(ds))
PrefixFrom(p, d, ds) ==
  CASE ds = <<>> -> PrefixStop(p, "end", 0)
    [] ds # <<>> /\ p.mode = "data" -> PrefixInData(p, d, ds, Head(ds), ClassifyLt(From(d, Head(ds)), FALSE))
    [] ds # <<>> /\ p.mode # "data" -> PrefixInMarkup(OnDelimiter(p, d, Head(ds)), d, ds)
TokenizePrefix(d, decode) == PrefixFrom(NewParser(decode), d, Delimiters(d))

-----------------------------------------------------------------------------
(***************************************************************************)
(* The attributes of a tag as its byte automaton sees them (TagScanState   *)
(* of fhp-core/attr.rs, ScanStep above), gathered byte by byte.            *)
(* RawAttributes shows that the iterator of the code yields the same.      *)
(***************************************************************************)
NoValue == <<"none">>   \* The value of an attribute without "=".

\* The states of the automaton: the i-th before and the next after byte i.
ScanStates(region) == FoldLeft(LAMBDA states, byte : Append(states, ScanStep(Last(states), byte)),
                         <<"before_name">>, region)

\* No ">" of the region would have ended the tag.
WellFormedBy(region, scan) ==
  \A i \in DOMAIN region : region[i] = ">" => GtIsLiteral(scan[i])
WellFormed(region) == WellFormedBy(region, ScanStates(region))

InName(before, after) == before = "attr" /\ after = "attr"
BeginsAttr(before, after) == before \in {"before_name", "after_attr"} /\ after = "attr"
BeginsValue(before, after) == before # "before_value" /\ after = "before_value"
InValue(before, after) == after = "unquoted" \/ (GtIsLiteral(before) /\ after = before)

\* The attributes after one more byte.
Gather(found, before, after, byte) ==
  LET last == Len(found)
  IN  CASE BeginsAttr(before, after)  -> Append(found, [name |-> <<byte>>, value |-> NoValue])
        [] InName(before, after)      -> [found EXCEPT ![last].name = Append(@, byte)]
        [] BeginsValue(before, after) -> [found EXCEPT ![last].value = <<>>]
        [] InValue(before, after)     -> [found EXCEPT ![last].value = Append(@, byte)]
        [] OTHER                      -> found
ScannedBy(region, scan) ==
  FoldLeft(LAMBDA found, i : Gather(found, scan[i], scan[i + 1], region[i]), <<>>,
           [i \in DOMAIN region |-> i])
ScannedAttrs(region) == ScannedBy(region, ScanStates(region))

-----------------------------------------------------------------------------
\* Adjacent text tokens are one run of text.
JoinText(tokens) ==
  FoldLeft(LAMBDA acc, k :
             IF acc # <<>> /\ k.kind = "text" /\ Last(acc).kind = "text"
             THEN Append(Front(acc), TextToken(Last(acc).data \o k.data))
             ELSE Append(acc, k),
           <<>>, tokens)
=============================================================================
