-------------------------- MODULE SelectorParser --------------------------
(***************************************************************************)
(* The CSS selector parser (crates/fhp-selector/src/parser.rs).  An input  *)
(* is a sequence of tokens: a word of the grammar (a keyword, the name of  *)
(* a pseudo-class) or a single character.  A name is a sequence of pieces, *)
(* each a token or the code point of an escape.                            *)
(*                                                                         *)
(* A parser is a record of what is left of the input, what was read since  *)
(* the last construct began, the two counters of the source and the limits *)
(* in force.                                                               *)
(***************************************************************************)
EXTENDS Integers, Sequences, SequencesExt

CONSTANTS
  Letters,          \* Parts of words that are no keyword and no hexadecimal digit.
  DigitValue,       \* The digits, each with its value.
  Limits,           \* Greatest numbers of branches, combinators and parts, and depth of :not().
  MaxEscapeDigits,  \* Digits one escape takes (6).
  IntLimit,         \* Numbers are in -IntLimit .. IntLimit - 1 (an i32).
  MaxLength,        \* Longest input that is built up token by token.
  MaxRun,           \* Most digits in a row in the text of a sample.
  Samples           \* Selector lists, within the limits or not.

Space == " "
Newline == "\n"
Blanks == {Space, Newline}
Backslash == "\\"
Quotes == {"\"", "'"}
Digits == DOMAIN DigitValue
PseudoNames == {"first-child", "last-child", "nth-child", "not"}
Keywords == PseudoNames \union {"odd", "even", "n"}
IdentTokens == Letters \union Keywords \union Digits \union {"-"}
Attribute == {"=", "~", "^", "$", "*"}

Tokens ==
  IdentTokens \union Blanks \union Quotes \union {Backslash}
  \union Attribute \union {"#", ".", "[", "]", ":", ">", "+", ",", "(", ")"}

\* A word that begins with a hexadecimal digit does not follow an escape.
IsInput(tokens) ==
  \A i \in 1..Len(tokens) - 1 :
    tokens[i] = Backslash \/ tokens[i] \in Digits => tokens[i + 1] \notin {"first-child", "even"}

Unlimited == [branches |-> 100, combinators |-> 100, parts |-> 100, depth |-> 100]

-----------------------------------------------------------------------------
(***************************************************************************)
(* The scanner: each operator fails once the parser has failed.            *)
(***************************************************************************)
Failed == [ok |-> FALSE, rest |-> <<>>, got |-> <<>>, parts |-> 0, depth |-> 0, max |-> Unlimited]

\* The longest prefix of tokens from the set, up to n of them.
RunOf(tokens, set, n) ==
  SubSeq(tokens, 1, CHOOSE k \in 0..Len(tokens) :
    /\ k <= n /\ \A i \in 1..k : tokens[i] \in set
    /\ k = n \/ k = Len(tokens) \/ tokens[k + 1] \notin set)

DigitRun(tokens) == RunOf(tokens, Digits, Len(tokens))

\* An odd number of backslashes before a character that a backslash can escape.
IsEscaped(tokens, i) ==
  tokens[i] # Newline /\ Len(RunOf(Reverse(SubSeq(tokens, 1, i - 1)), {Backslash}, i)) % 2 = 1

TrimEnd(tokens) ==
  LET kept == {i \in DOMAIN tokens : tokens[i] \notin Blanks \/ IsEscaped(tokens, i)}
  IN  IF kept = {} THEN <<>> ELSE SubSeq(tokens, 1, CHOOSE i \in kept : \A j \in kept : j <= i)

Advance(p, n) == IF p.ok THEN [p EXCEPT !.rest = SubSeq(@, n + 1, Len(@))] ELSE p
SkipWhitespace(p) == Advance(p, Len(RunOf(p.rest, Blanks, Len(p.rest))))

IsEof(p) == p.ok /\ p.rest = <<>>
PeekIn(p, set) == p.ok /\ p.rest # <<>> /\ p.rest[1] \in set
Peek(p, token) == PeekIn(p, {token})

\* Seeded fault: a missing token is tolerated.
Tolerate(p, token) == IF Peek(p, token) THEN Advance(p, 1) ELSE p

Expect(p, token) == IF Peek(p, token) THEN Advance(p, 1) ELSE Failed

Parser(tokens, max) ==
  SkipWhitespace([ok |-> TRUE, rest |-> TrimEnd(tokens), got |-> <<>>, parts |-> 0, depth |-> 0, max |-> max])

StartsEscape(p) == Peek(p, Backslash) /\ Len(p.rest) > 1 /\ p.rest[2] # Newline
StartsTypeSelector(p) == PeekIn(p, Letters \union Keywords) \/ StartsEscape(p)

Got(p, value) == IF p.ok THEN [p EXCEPT !.got = Append(@, value)] ELSE p
Fresh(p) == [p EXCEPT !.got = <<>>]

\* What q read is one more value of p.
Adding(p, q) == IF q.ok THEN [q EXCEPT !.got = Append(p.got, @)] ELSE Failed

\* Everything read becomes one construct of the given kind.
Built(p, kind) == IF p.ok THEN [p EXCEPT !.got = <<kind>> \o @] ELSE p

\* The character at the position is taken as it stands.
NextChar(p) == Advance(Got(p, <<p.rest[1]>>), 1)

\* One blank after the digits ends the escape.
AfterDigits(p) == IF PeekIn(p, Blanks) THEN Advance(p, 1) ELSE p

ReadEscape(p) ==
  LET digits == RunOf(p.rest, Digits, MaxEscapeDigits)
  IN  IF digits = <<>> THEN NextChar(p)
      ELSE AfterDigits(Advance(Got(p, <<"code">> \o digits), Len(digits)))

RECURSIVE ReadPieces(_)
ReadPieces(p) ==
  IF PeekIn(p, IdentTokens) THEN ReadPieces(NextChar(p))
  ELSE IF StartsEscape(p) THEN ReadPieces(ReadEscape(Advance(p, 1)))
  ELSE p

NotEmpty(p) == IF p.got = <<>> THEN Failed ELSE p

ReadIdent(p) == IF p.ok THEN Adding(p, NotEmpty(ReadPieces(Fresh(p)))) ELSE p

RECURSIVE ReadQuoted(_, _)
ReadQuoted(p, quote) ==
  IF IsEof(p) THEN Failed
  ELSE IF Peek(p, quote) THEN Advance(p, 1)
  ELSE IF ~ Peek(p, Backslash) THEN ReadQuoted(NextChar(p), quote)
  ELSE IF StartsEscape(p) THEN ReadQuoted(ReadEscape(Advance(p, 1)), quote)
  ELSE ReadQuoted(Advance(p, 2), quote)  \* an escaped newline, or the end

RECURSIVE ReadBare(_)
ReadBare(p) ==
  IF IsEof(p) \/ PeekIn(p, {"]"} \union Blanks) THEN p
  ELSE IF StartsEscape(p) THEN ReadBare(ReadEscape(Advance(p, 1)))
  ELSE ReadBare(NextChar(p))

ValueAt(p) ==
  IF PeekIn(p, Quotes) THEN Adding(p, ReadQuoted(Fresh(Advance(p, 1)), p.rest[1]))
  ELSE IF p.ok THEN Adding(p, NotEmpty(ReadBare(Fresh(p))))
  ELSE p

ReadValue(p) == ValueAt(SkipWhitespace(p))

-----------------------------------------------------------------------------
(***************************************************************************)
(* Simple selectors.                                                       *)
(***************************************************************************)
AttrValue(p, op) == Expect(SkipWhitespace(ReadValue(Got(p, op))), "]")

AttrOperator(p) ==
  IF Peek(p, "]") THEN Advance(p, 1)
  ELSE IF Peek(p, "=") THEN AttrValue(Advance(p, 1), "=")
  ELSE IF PeekIn(p, Attribute) THEN AttrValue(Expect(Advance(p, 1), "="), p.rest[1])
  ELSE Failed

ParseAttrSelector(p) ==
  Built(AttrOperator(SkipWhitespace(ReadIdent(SkipWhitespace(Expect(p, "["))))), "attr")

Magnitude(digits) == FoldLeft(LAMBDA value, digit : 10 * value + DigitValue[digit], 0, digits)

GotInt(p, number, sign) ==
  IF sign * number \in -IntLimit..IntLimit - 1 THEN Got(p, sign * number) ELSE Failed

NumberAt(p, digits, sign) ==
  IF p.ok /\ digits # <<>> THEN GotInt(Advance(p, Len(digits)), Magnitude(digits), sign) ELSE Failed

ReadInt(p, sign) == NumberAt(p, DigitRun(p.rest), sign)

SignAt(p) == IF Peek(p, "-") THEN -1 ELSE 1
AfterSign(p) == IF PeekIn(p, {"-", "+"}) THEN Advance(p, 1) ELSE p

\* What follows the n.
ParseOffset(p) ==
  IF PeekIn(p, {"-", "+"}) THEN ReadInt(SkipWhitespace(AfterSign(p)), SignAt(p)) ELSE Got(p, 0)

StepOrNumber(p, hasNumber) ==
  IF Peek(p, "n") THEN ParseOffset(SkipWhitespace(Advance(p, 1)))
  ELSE IF p.ok /\ hasNumber THEN [p EXCEPT !.got = Front(@) \o <<0, Last(@)>>]
  ELSE Failed

NumberOrSign(p, sign) == IF PeekIn(p, Digits) THEN ReadInt(p, sign) ELSE Got(p, sign)
ParseStepAndOffset(p, sign) == StepOrNumber(NumberOrSign(p, sign), PeekIn(p, Digits))

PeekKeyword(p, keyword) == Peek(p, keyword) /\ ~ PeekIn(Advance(p, 1), IdentTokens \ {"-"})

ParseNth(p) ==
  IF PeekKeyword(p, "odd") THEN Got(Got(Advance(p, 1), 2), 1)
  ELSE IF PeekKeyword(p, "even") THEN Got(Got(Advance(p, 1), 2), 0)
  ELSE ParseStepAndOffset(AfterSign(p), SignAt(p))

ParseNthChild(p) == Expect(SkipWhitespace(ParseNth(SkipWhitespace(Expect(p, "(")))), ")")

Nested(p) == [p EXCEPT !.depth = @ + 1]

Unnested(p) == IF p.ok THEN [p EXCEPT !.depth = @ - 1] ELSE p

PushSimplePart(p, part) ==
  IF part.ok /\ part.parts < part.max.parts THEN Adding(p, [part EXCEPT !.parts = @ + 1]) ELSE Failed

StartsSimple(p) == PeekIn(p, {"#", ".", "[", ":", "*"}) \/ StartsTypeSelector(p)

\* The compound inside :not( and the parts around it are the same grammar.
RECURSIVE ParseParts(_)

ParseCompoundSelector(p) == IF p.ok THEN Adding(p, NotEmpty(ParseParts(Fresh(p)))) ELSE p

ParseNot(p) ==
  IF p.depth >= p.max.depth THEN Failed
  ELSE Expect(SkipWhitespace(Unnested(ParseCompoundSelector(Nested(SkipWhitespace(Expect(p, "(")))))), ")")

\* What follows a name in the grammar of pseudo-classes.
AfterName(p, name) ==
  CASE ~ p.ok \/ name \notin {<<<<known>>>> : known \in PseudoNames} -> Failed
    [] name = <<<<"nth-child">>>> -> ParseNthChild(Got(p, "nth-child"))
    [] name = <<<<"not">>>>       -> ParseNot(Got(p, "not"))
    [] OTHER                      -> Got(p, name[1][1])

Named(p) == AfterName(Fresh(p), IF p.ok THEN p.got[1] ELSE <<>>)
ParsePseudo(p) == Named(ReadIdent(p))

\* The three kinds that are a name behind a sign or none.
KindOfName == [sign \in {"#", "."} |-> IF sign = "#" THEN "id" ELSE "class"]
ParseName(p) ==
  IF PeekIn(p, {"#", "."}) THEN Got(Advance(p, 1), KindOfName[p.rest[1]]) ELSE Got(p, "tag")

SimpleAt(p) ==
  CASE Peek(p, "[") -> ParseAttrSelector(p)
    [] Peek(p, ":") -> ParsePseudo(Advance(p, 1))
    [] Peek(p, "*") -> Got(Advance(p, 1), "universal")
    [] OTHER        -> ReadIdent(ParseName(p))

\* Type and universal selectors come first.
ParseParts(p) ==
  IF ~ StartsSimple(p) THEN p
  ELSE IF p.got # <<>> /\ ~ PeekIn(p, {"#", ".", "[", ":"}) THEN Failed
  ELSE ParseParts(PushSimplePart(p, SimpleAt(Fresh(p))))

-----------------------------------------------------------------------------
(***************************************************************************)
(* Selectors: compounds and combinators from the left to the right, then   *)
(* turned around.                                                          *)
(***************************************************************************)
RECURSIVE ParseChain(_)

Combine(p, combinator) ==
  IF Len(p.got) \div 2 >= p.max.combinators THEN Failed ELSE ParseChain(Got(p, combinator))

CombineAt(p, hadWhitespace) ==
  IF PeekIn(p, {">", "+", "~"}) THEN Combine(SkipWhitespace(Advance(p, 1)), p.rest[1])
  ELSE IF hadWhitespace /\ StartsSimple(p) THEN Combine(p, Space)
  ELSE p

AfterCompound(p) == CombineAt(SkipWhitespace(p), PeekIn(p, Blanks))

ParseChain(p) == AfterCompound(ParseCompoundSelector(p))

\* The subject is the last compound; the links lead from it to the left.
SelectorOf(got) ==
  [subject |-> got[Len(got)],
   chain |-> [i \in 1..Len(got) \div 2 |-> <<got[Len(got) - 2 * i + 1], got[Len(got) - 2 * i]>>]]

GotSelector(p, chain) == Adding(p, IF chain.ok THEN [chain EXCEPT !.got = SelectorOf(@)] ELSE chain)
ParseComplexSelector(p) == GotSelector(p, ParseChain(Fresh(SkipWhitespace(p))))

RECURSIVE ParseSelectorList(_)
AfterSelector(p) ==
  IF ~ Peek(p, ",") THEN p
  ELSE IF Len(p.got) >= p.max.branches THEN Failed
  ELSE ParseSelectorList(Advance(p, 1))

ParseSelectorList(p) == AfterSelector(SkipWhitespace(ParseComplexSelector(p)))

Invalid == <<>>

Complete(p) == IF IsEof(SkipWhitespace(p)) THEN p.got ELSE Invalid

\* parse_selector: the branches, or Invalid.
ParseWithin(tokens, max) == Complete(ParseSelectorList(Parser(tokens, max)))
ParseSelector(tokens) == ParseWithin(tokens, Limits)

\* parse_single_selector: one branch, or Invalid.
ParseSingleSelector(tokens) == Complete(ParseComplexSelector(Parser(tokens, Limits)))

-----------------------------------------------------------------------------
(***************************************************************************)
(* The inputs and what is expected of the parser: an input is built up     *)
(* from nothing, or it is one edit away from a text of a selector.  A part *)
(* is a tuple that begins with its kind.                                   *)
(***************************************************************************)
Joined(left, right) == {l \o r : l \in left, r \in right}
JoinedAll(texts) == FoldLeft(Joined, {<<>>}, texts)

\* White space around a token means nothing, unless it is a combinator.
Padded(token) == {<<token>>} \union {<<Space, token, Space>> : t \in {token} \ {Space}}

CodeText(piece) == <<Backslash>> \o Tail(piece) \o <<Space>>

IdentPiece(piece) ==
  IF piece[1] = "code" THEN CodeText(piece)
  ELSE IF piece[1] \in IdentTokens \ {"-"} THEN piece
  ELSE <<Backslash>> \o piece

ValuePiece(piece) ==
  IF piece[1] = "code" THEN CodeText(piece)
  ELSE IF piece[1] \in {"\"", Backslash} THEN <<Backslash>> \o piece
  ELSE piece

IdentText(ident) == FlattenSeq([i \in DOMAIN ident |-> IdentPiece(ident[i])])
ValueText(value) == <<"\"">> \o FlattenSeq([i \in DOMAIN value |-> ValuePiece(value[i])]) \o <<"\"">>

-----------------------------------------------------------------------------
(***************************************************************************)
(* The texts of an+b.  A number out of range has none.                     *)
(***************************************************************************)
DigitRuns == UNION {[1..n -> Digits] : n \in 1..MaxRun + 1}
AbsOf(n) == IF n < 0 THEN -n ELSE n
RunsOf(n) == {run \in DigitRuns : n \in -IntLimit..IntLimit - 1 /\ Magnitude(run) = AbsOf(n)}
NamedSigns(n) == {<<sign>> : sign \in {s \in {"+", "-"} : n = 0 \/ (s = "-" <=> n < 0)}}
Signs(n) == NamedSigns(n) \union {s \in {<<>>} : n >= 0}

StepTexts(a) == Joined(Joined(Signs(a), RunsOf(a) \union {s \in {<<>>} : AbsOf(a) = 1}), {<<"n">>})
OffsetTexts(b) == Joined(NamedSigns(b), RunsOf(b)) \union {s \in {<<>>} : b = 0}

NthTexts(a, b) ==
  Joined(StepTexts(a), OffsetTexts(b))
  \union UNION {Joined(Signs(b), RunsOf(b)) : z \in {0} \intersect {a}}
  \union {s \in {<<"odd">>} : a = 2 /\ b = 1}
  \union {s \in {<<"even">>} : a = 2 /\ b = 0}

-----------------------------------------------------------------------------
AttrText(part) ==
  CASE Len(part) = 2  -> <<"[">> \o IdentText(part[2]) \o <<"]">>
    [] part[3] = "="  -> <<"[">> \o IdentText(part[2]) \o <<"=">> \o ValueText(part[4]) \o <<"]">>
    [] OTHER          -> <<"[">> \o IdentText(part[2]) \o <<part[3], "=">> \o ValueText(part[4]) \o <<"]">>

RECURSIVE PartTexts(_)
CompoundTexts(parts) == JoinedAll([i \in DOMAIN parts |-> PartTexts(parts[i])])
PartTexts(part) ==
  CASE part[1] = "tag"       -> {IdentText(part[2])}
    [] part[1] = "id"        -> {<<"#">> \o IdentText(part[2])}
    [] part[1] = "class"     -> {<<".">> \o IdentText(part[2])}
    [] part[1] = "universal" -> {<<"*">>}
    [] part[1] = "attr"      -> {AttrText(part)}
    [] part[1] = "nth-child" -> Joined(Joined({<<":", "nth-child", "(">>}, NthTexts(part[2], part[3])), {<<")">>})
    [] part[1] = "not"       -> Joined(Joined({<<":", "not", "(">>}, CompoundTexts(part[2])), {<<")">>, <<Space, ")">>})
    [] OTHER                 -> {<<":", part[1]>>}

SelectorTextsOf(selector) ==
  LET links == Reverse(selector.chain)
  IN  Joined(JoinedAll([i \in DOMAIN links |-> Joined(CompoundTexts(links[i][2]), Padded(links[i][1]))]),
             CompoundTexts(selector.subject))

TextsOf(list) ==
  Joined(SelectorTextsOf(list[1]),
         JoinedAll([i \in 1..Len(list) - 1 |-> Joined(Padded(","), SelectorTextsOf(list[i + 1]))]))

-----------------------------------------------------------------------------
VARIABLES
  input,
  sample,  \* The list the input is a text of, or Invalid.
  edited   \* Was the text of a sample changed?

vars == <<input, sample, edited>>

HasLongRun(tokens) == \E i \in 0..Len(tokens) - MaxRun - 1 : \A k \in 1..MaxRun + 1 : tokens[i + k] \in Digits

Init ==
  /\ edited = FALSE
  /\ \/ input = <<>> /\ sample = Invalid
     \/ sample \in Samples /\ input \in TextsOf(sample) /\ ~ HasLongRun(input)

Extend ==
  /\ ~ edited /\ sample = Invalid /\ Len(input) < MaxLength
  /\ \E token \in Tokens : input' = Append(input, token)
  /\ UNCHANGED <<sample, edited>>

Insert == \E i \in 1..Len(input) + 1, token \in Tokens : input' = InsertAt(input, i, token)
Delete == \E i \in DOMAIN input : input' = RemoveAt(input, i)
Replace == \E i \in DOMAIN input, token \in Tokens : input' = [input EXCEPT ![i] = token]

Edit ==
  /\ sample # Invalid
  /\ sample' = Invalid /\ edited' = TRUE
  /\ Insert \/ Delete \/ Replace

Next == (Extend \/ Edit) /\ IsInput(input')

Spec == Init /\ [][Next]_vars

-----------------------------------------------------------------------------
RECURSIVE PartsIn(_), DepthOf(_)
PartsIn(parts) ==
  FoldLeft(LAMBDA n, part : n + 1 + (IF part[1] = "not" THEN PartsIn(part[2]) ELSE 0), 0, parts)
DepthOf(parts) ==
  FoldLeft(LAMBDA n, part : IF part[1] = "not" /\ 1 + DepthOf(part[2]) > n THEN 1 + DepthOf(part[2]) ELSE n,
           0, parts)

Compounds(selector) == <<selector.subject>> \o [i \in DOMAIN selector.chain |-> selector.chain[i][2]]
AllCompounds(list) == FlattenSeq([i \in DOMAIN list |-> Compounds(list[i])])

WithinLimits(list) ==
  /\ Len(list) <= Limits.branches
  /\ \A i \in DOMAIN list : Len(list[i].chain) <= Limits.combinators
  /\ FoldLeft(LAMBDA n, parts : n + PartsIn(parts), 0, AllCompounds(list)) <= Limits.parts
  /\ \A i \in DOMAIN AllCompounds(list) : DepthOf(AllCompounds(list)[i]) <= Limits.depth

Unbounded == ParseWithin(input, Unlimited)

\* Without blanks, backslashes and quotes.
Written(tokens) ==
  LET isWritten(token) == token \notin Blanks \union Quotes \union {Backslash} IN SelectSeq(tokens, isWritten)

WellFormed(list) ==
  \A i \in DOMAIN list : list[i].subject # <<>> /\ \A k \in DOMAIN list[i].chain :
    list[i].chain[k][1] \in {Space, ">", "+", "~"} /\ list[i].chain[k][2] # <<>>

\* Every text of a selector means that selector, whose chain is read from the
\* right to the left (parse_complex_selector, parse_nth, read_ident, read_value).
SampleParsed(list) == sample # Invalid => list = sample

IsTextOf(tokens, list) ==
  list # Invalid => Written(tokens) \in {Written(text) : text \in TextsOf(list)}

\* An accepted input is, but for blanks, quotes and escapes, a text of what it
\* stands for: no part of a selector is silently ignored (parse_selector).
NothingIgnored(list) == WellFormed(list) /\ IsTextOf(input, list)

\* A limit rejects exactly the selectors that exceed it: parts are counted over
\* the whole list with what :not() holds, depth is that of the nesting and not
\* the number of :not() (push_simple_part, push_combinator, parse_pseudo).
Limited(list) == IF list # Invalid /\ WithinLimits(list) THEN list ELSE Invalid

\* The blanks trimmed before parsing are those the parser would skip at the end:
\* counting backslashes backwards agrees with reading escapes forwards (is_escaped).
Untrimmed == [ok |-> TRUE, rest |-> input, got |-> <<>>, parts |-> 0, depth |-> 0, max |-> Limits]
ParsedUntrimmed == Complete(ParseSelectorList(SkipWhitespace(Untrimmed)))

\* parse_single_selector accepts exactly the lists of one branch and reads them as
\* parse_selector does: no second branch is dropped.
OnlyOne(list) == IF Len(list) = 1 THEN list ELSE Invalid

\* What is accepted is exactly what is written, within exactly the limits.
SelectorsMean ==
  /\ IsInput(input) /\ (edited => sample = Invalid)
  /\ \A list \in {Unbounded} :
       /\ SampleParsed(list) /\ NothingIgnored(list)
       /\ ParseSelector(input) = Limited(list)
       /\ ParsedUntrimmed = Limited(list)
       /\ ParseSingleSelector(input) = OnlyOne(Limited(list))
===========================================================================
