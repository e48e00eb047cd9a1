---------------------------- MODULE XPathParser ----------------------------
(***************************************************************************)
(* The XPath parser (crates/fhp-selector/src/xpath/parser.rs).  An input   *)
(* is a sequence of tokens, a kind and a text each: names and numbers are  *)
(* the runs read_ident and read_number take, a string comes with its       *)
(* quotes, and everything else stands for itself.  A name begins with a    *)
(* letter.  Two words in a row would be one word, and a quote after an     *)
(* unclosed one would close it, so neither is an input.                    *)
(*                                                                         *)
(* A parser is a record of what is left of the input and of what was read  *)
(* since the last construct began.                                         *)
(***************************************************************************)
EXTENDS Integers, Sequences, SequencesExt

CONSTANTS
  Names,      \* Tag and attribute names.
  Values,     \* String literals.
  Numbers,    \* Numbers that fit into a usize.
  MaxLength,  \* Longest input that is built up token by token.
  Samples     \* Expressions whose texts are edited.

Punctuation == {"/", "*", "..", "[", "]", "@", "=", ",", ")"}
Calls == {"contains(", "position()", "text()"}

Sign(text) == <<"sign", text>>
Slash == Sign("/")
Space == <<"space", " ">>
TooLarge == <<"number", "2^64">>
Unclosed == <<"unclosed", "'">>

Tokens ==
  {Sign(text) : text \in Punctuation \union Calls} \union {Space, TooLarge, Unclosed}
  \union {<<"name", text>> : text \in Names}
  \union {<<"string", text>> : text \in Values}
  \union {<<"number", text>> : text \in Numbers}

IsWord(token) == token[1] \in {"name", "number"} \/ token[2] \in Calls

IsInput(tokens) ==
  /\ \A i \in 1..Len(tokens) - 1 : ~ (IsWord(tokens[i]) /\ IsWord(tokens[i + 1]))
  /\ \A i, j \in DOMAIN tokens : i < j /\ tokens[i] = Unclosed => tokens[j][1] \notin {"string", "unclosed"}

-----------------------------------------------------------------------------
(***************************************************************************)
(* The scanner: each operator fails once the parser has failed.            *)
(***************************************************************************)
Parser(tokens) == [ok |-> TRUE, rest |-> tokens, got |-> <<>>]
Failed == [ok |-> FALSE, rest |-> <<>>, got |-> <<>>]

SkipSpaces(tokens) ==
  LET visible == {i \in DOMAIN tokens : tokens[i] # Space}
  IN  IF visible = {} THEN <<>> ELSE SubSeq(tokens, CHOOSE i \in visible : \A j \in visible : i <= j, Len(tokens))

Trim(tokens) == Reverse(SkipSpaces(Reverse(SkipSpaces(tokens))))

SkipWhitespace(p) == [p EXCEPT !.rest = SkipSpaces(@)]

StartsWith(p, tokens) == p.ok /\ IsPrefix(tokens, p.rest)
Peek(p, text) == StartsWith(p, <<Sign(text)>>)
AtText(p) == StartsWith(p, <<Slash, Sign("text()")>>)
IsEof(p) == p.ok /\ p.rest = <<>>

Advance(p, n) == IF p.ok THEN [p EXCEPT !.rest = SubSeq(@, n + 1, Len(@))] ELSE p

Expect(p, text) == IF Peek(p, text) THEN Advance(p, 1) ELSE Failed

Read(p, kinds) ==
  IF p.ok /\ p.rest # <<>> /\ p.rest[1][1] \in kinds
  THEN [p EXCEPT !.rest = Tail(@), !.got = Append(@, p.rest[1][2])]
  ELSE Failed

ReadIdent(p) == Read(p, {"name", "number"})
ReadStringLiteral(p) == Read(p, {"string"})
ReadNumber(p) == IF StartsWith(p, <<TooLarge>>) THEN Failed ELSE Read(p, {"number"})

-----------------------------------------------------------------------------
(***************************************************************************)
(* Predicates.                                                             *)
(***************************************************************************)
NoPredicate == <<"none">>

\* Everything read since p becomes one construct of the given kind.
Built(p, kind) == IF p.ok THEN [p EXCEPT !.got = <<<<kind>> \o @>>] ELSE p

AttrPredicate(p) ==
  LET named == SkipWhitespace(ReadIdent(Expect(p, "@")))
  IN  IF Peek(named, "=") THEN Built(ReadStringLiteral(SkipWhitespace(Advance(named, 1))), "equals")
      ELSE Built(named, "exists")

ContainsPredicate(p) ==
  LET named == ReadIdent(Expect(SkipWhitespace(Expect(p, "contains(")), "@"))
      value == ReadStringLiteral(SkipWhitespace(Expect(SkipWhitespace(named), ",")))
  IN  Built(Expect(SkipWhitespace(value), ")"), "contains")

PositionPredicate(p) ==
  Built(ReadNumber(SkipWhitespace(Expect(SkipWhitespace(Expect(p, "position()")), "="))), "position")

PredicateBody(p) ==
  IF Peek(p, "contains(") THEN ContainsPredicate(p)
  ELSE IF Peek(p, "position()") THEN PositionPredicate(p)
  ELSE IF Peek(p, "@") THEN AttrPredicate(p)
  ELSE Built(ReadNumber(p), "position")

Fresh(p) == [p EXCEPT !.got = <<>>]

\* What q read is added to what p had read.
Adding(p, q) == IF p.ok /\ q.ok THEN [q EXCEPT !.got = p.got \o @] ELSE Failed

Bracketed(p) == Expect(SkipWhitespace(PredicateBody(SkipWhitespace(Expect(p, "[")))), "]")

OptionalPredicate(p) ==
  IF Peek(p, "[") THEN Adding(p, Bracketed(Fresh(p)))
  ELSE IF p.ok THEN [p EXCEPT !.got = Append(@, NoPredicate)]
  ELSE p

-----------------------------------------------------------------------------
(***************************************************************************)
(* Expressions.                                                            *)
(***************************************************************************)
\* A wildcard takes predicates of attributes only, but for contains.
WildcardPredicates == {"none", "equals", "exists"}

ParseDescendantWildcard(p) ==
  LET step == OptionalPredicate(p)
  IN  IF step.ok /\ step.got[1][1] \in WildcardPredicates THEN Built(step, "wildcard") ELSE Failed

ParseDescendant(p) ==
  IF Peek(SkipWhitespace(p), "*") THEN ParseDescendantWildcard(Advance(SkipWhitespace(p), 1))
  ELSE Built(OptionalPredicate(ReadIdent(SkipWhitespace(p))), "descendant")

ParseStep(p) == Adding(p, Built(OptionalPredicate(ReadIdent(Fresh(p))), "step"))

RECURSIVE ParseSteps(_)
\* Seeded fault: text() is taken for one more step.
AfterSlash(p) == IF Peek(p, "/") THEN ParseSteps(Advance(p, 1)) ELSE p

\* Another step follows a slash that does not begin /text().
AfterStep(p) == IF Peek(p, "/") /\ ~ AtText(p) THEN ParseSteps(Advance(p, 1)) ELSE p

\* The loop of parse_absolute_path: it also ends in front of a step.
ParseSteps(p) ==
  IF IsEof(SkipWhitespace(p)) \/ AtText(SkipWhitespace(p)) THEN SkipWhitespace(p)
  ELSE AfterStep(ParseStep(SkipWhitespace(p)))

ParseAbsolutePath(p) ==
  LET steps == ParseSteps(p) IN IF steps.ok /\ steps.got # <<>> THEN Built(steps, "path") ELSE Failed

ParseExpression(p) ==
  IF Peek(p, "..") THEN Built(Advance(p, 1), "parent")
  ELSE IF StartsWith(p, <<Slash, Slash>>) THEN ParseDescendant(Advance(p, 2))
  ELSE IF Peek(p, "/") THEN ParseAbsolutePath(Advance(p, 1))
  ELSE Failed

Invalid == <<"invalid">>

Complete(p) == IF IsEof(p) THEN p.got[1] ELSE Invalid

\* parse_xpath: the expression, perhaps its text(), and nothing else.
ParseXPath(tokens) ==
  LET p == ParseExpression(Parser(Trim(tokens)))
  IN  IF Trim(tokens) = <<>> THEN Invalid
      ELSE IF AtText(p) THEN Complete(Built(SkipWhitespace(Advance(p, 2)), "text"))
      ELSE Complete(p)

-----------------------------------------------------------------------------
(***************************************************************************)
(* The inputs: built up from nothing, or one edit away from the text of an *)
(* expression.                                                             *)
(***************************************************************************)
VARIABLES
  input,
  edited   \* Was the text of a sample changed?

vars == <<input, edited>>

WordToken(text) == IF text \in Names THEN <<"name", text>> ELSE <<"number", text>>

TextOfPredicate(predicate) ==
  CASE predicate[1] = "none"     -> <<>>
    [] predicate[1] = "exists"   -> <<Sign("["), Sign("@"), WordToken(predicate[2]), Sign("]")>>
    [] predicate[1] = "equals"   -> <<Sign("["), Sign("@"), WordToken(predicate[2]), Sign("="),
                                      <<"string", predicate[3]>>, Sign("]")>>
    [] predicate[1] = "contains" -> <<Sign("["), Sign("contains("), Sign("@"), WordToken(predicate[2]),
                                      Sign(","), <<"string", predicate[3]>>, Sign(")"), Sign("]")>>
    [] predicate[1] = "position" -> <<Sign("["), Sign("position()"), Sign("="), WordToken(predicate[2]), Sign("]")>>

TextOfStep(step) == <<Slash, WordToken(step[2])>> \o TextOfPredicate(step[3])

RECURSIVE TextOf(_)
TextOf(e) ==
  CASE e[1] = "parent"     -> <<Sign("..")>>
    [] e[1] = "wildcard"   -> <<Slash, Slash, Sign("*")>> \o TextOfPredicate(e[2])
    [] e[1] = "descendant" -> <<Slash>> \o TextOfStep(e)
    [] e[1] = "path"       -> FlattenSeq([i \in 1..Len(e) - 1 |-> TextOfStep(e[i + 1])])
    [] e[1] = "text"       -> TextOf(e[2]) \o <<Slash, Sign("text()")>>

Init ==
  /\ input \in {<<>>} \union {TextOf(e) : e \in Samples}
  /\ edited = FALSE

Extend ==
  /\ ~ edited /\ Len(input) < MaxLength
  /\ \E token \in Tokens : input' = Append(input, token)
  /\ UNCHANGED edited

Insert ==
  \E i \in 1..Len(input) + 1, token \in Tokens : input' = InsertAt(input, i, token)
Delete ==
  \E i \in DOMAIN input : input' = RemoveAt(input, i)
Replace ==
  \E i \in DOMAIN input, token \in Tokens : input' = [input EXCEPT ![i] = token]

Edit ==
  /\ ~ edited /\ Len(input) > MaxLength
  /\ edited' = TRUE
  /\ Insert \/ Delete \/ Replace

Next == (Extend \/ Edit) /\ IsInput(input')

Spec == Init /\ [][Next]_vars

-----------------------------------------------------------------------------
Accepted == ParseXPath(input) # Invalid

Visible(tokens) == LET isVisible(token) == token # Space IN SelectSeq(tokens, isVisible)

\* A number in brackets is a position.
Spelled(tokens) ==
  LET isBare(i) == tokens[i][1] = "number" /\ i > 1 /\ tokens[i - 1] = Sign("[")
  IN  FlattenSeq([i \in DOMAIN tokens |->
        IF isBare(i) THEN <<Sign("position()"), Sign("="), tokens[i]>> ELSE <<tokens[i]>>])

\* A slash that ends a path, and nothing else, is dropped.
EndsWithSlash(tokens, e) ==
  \/ e[1] = "path" /\ tokens = Append(TextOf(e), Slash)
  \/ e[1] = "text" /\ e[2][1] = "path" /\ tokens = TextOf(e[2]) \o <<Slash, Slash, Sign("text()")>>

\* The texts of all expressions are accepted, and mean the expression.
SamplesParsed == \A e \in Samples : input = TextOf(e) => ParseXPath(input) = e

\* An accepted input is the text of the expression it stands for, but for spaces
\* and the last slash of a path: no part of a query is silently ignored.
NothingIgnored ==
  Accepted =>
    \/ Spelled(Visible(input)) = TextOf(ParseXPath(input))
    \/ EndsWithSlash(Spelled(Visible(input)), ParseXPath(input))

\* Spaces at the ends never matter.
TypeOK ==
  /\ IsInput(input)
  /\ ParseXPath(input)[1] \in {"invalid", "parent", "wildcard", "descendant", "path", "text"}
  /\ ParseXPath(<<Space>> \o input \o <<Space>>) = ParseXPath(input)

\* What is accepted is what is written, and what may be written is accepted.
PathsMean == TypeOK /\ SamplesParsed /\ NothingIgnored
=============================================================================
