----------------------------- MODULE EarlyStop -----------------------------
(***************************************************************************)
(* EarlyStopParser (crates/fhp-tree/src/streaming.rs) fed an input in      *)
(* arbitrary pieces and then finished, and what it must deliver: the first *)
(* match of its predicate in the whole input, wherever the input was cut.  *)
(* A parser `p` is a record:                                               *)
(*   limit     max_input_size                                              *)
(*   after     whether it stops after the matching element, else when the  *)
(*             matching node is created                                    *)
(*   wanted    the predicate: <<parent name, name>> of elements, and       *)
(*             contents of texts, that match                               *)
(*   b         the tree builder (TreeBuilderOps)                           *)
(*   held      text the tokenizer holds back                               *)
(*   decoder   NoDecoder until the encoding is decided                     *)
(*   buf       initial_buf: raw input kept for detection                   *)
(*   ascii     prescan_processed_ascii                                     *)
(*   pending   pending_match, NULL for None                                *)
(*   found     the matched node, NULL for None                             *)
(*   seen      seen_input_size                                             *)
(*   terminal, failed   terminal; an error in the current call             *)
(***************************************************************************)
EXTENDS StreamInput

CONSTANT
  Settings  \* For each scenario the limit, the mode and the predicate of the parser,
            \* the openings, one of which is fed first, the chunks that may
            \* follow, and the units these have at most.

VARIABLES
  scenario,  \* How the parser is set up and what it is fed.
  p,         \* The parser.
  input,     \* History: every unit passed to feed.
  first,     \* History: length of the opening.
  finished   \* finish() was called.

vars == <<scenario, p, input, first, finished>>

Predicate(q, ns, n) ==
  \/ ns[n].type = "element" /\ <<ns[ns[n].parent].name, ns[n].name>> \in q.wanted.elements
  \/ ns[n].type = "text" /\ ns[n].text \in q.wanted.texts

NewEarlyStop(s) ==
  [limit |-> s.limit, after |-> s.after, wanted |-> s.wanted,
   b |-> EmptyBuilder, held |-> <<>>, decoder |-> NoDecoder, buf |-> <<>>, ascii |-> 0,
   pending |-> NULL, found |-> NULL, seen |-> 0, terminal |-> FALSE, failed |-> FALSE]

Matched(q) == q.found # NULL

Halted(q) == Matched(q) \/ q.failed

-----------------------------------------------------------------------------
(***************************************************************************)
(* Showing nodes to the predicate.                                         *)
(***************************************************************************)
OptionSeq(n) == IF n = NULL THEN <<>> ELSE <<n>>

FirstMatch(q, nodes) ==
  LET hits == SelectSeq(nodes, LAMBDA n : Predicate(q, q.b.nodes, n))
  IN  IF hits = <<>> THEN NULL ELSE hits[1]

\* Seeded fault: a later match replaces the pending one.
TakeLatest(q, nodes) ==
  IF q.after THEN [q EXCEPT !.pending = IF FirstMatch(q, nodes) = NULL THEN @ ELSE FirstMatch(q, nodes)]
                  ELSE [q EXCEPT !.found = FirstMatch(q, nodes)]

TakeMatch(q, nodes) ==
  IF q.pending # NULL THEN q
  ELSE IF q.after THEN [q EXCEPT !.pending = FirstMatch(q, nodes)]
                       ELSE [q EXCEPT !.found = FirstMatch(q, nodes)]

CompletePending(q) ==
  IF q.found = NULL /\ q.pending # NULL /\ q.pending \notin OpenIds(q.b)
  THEN [q EXCEPT !.found = q.pending] ELSE q

CheckEarlyNodes(q, nodes) == CompletePending(TakeMatch(q, nodes))

\* The text node of a run is stable, and reported, when the run has ended.
ReportRun(q, last_text) ==
  CheckEarlyNodes([q EXCEPT !.b.flushed = NULL],
                  OptionSeq(IF q.b.flushed = NULL THEN last_text ELSE q.b.flushed))

FinishObservedRun(q) ==
  ReportRun([q EXCEPT !.b = EndTextRun([@ EXCEPT !.flushed = NULL])], q.b.last_text)

-----------------------------------------------------------------------------
(***************************************************************************)
(* Tokens.                                                                 *)
(***************************************************************************)
EndRunBefore(q, token) == IF token.type = "text" THEN q ELSE FinishObservedRun(q)

\* Implied elements and clones come before the element of the token itself.
ReportCreatedNodes(q, token) ==
  CheckEarlyNodes([q EXCEPT !.b.flushed = NULL],
                  OptionSeq(q.b.flushed) \o q.b.created \o
                    IF token.type = "text" THEN <<>> ELSE OptionSeq(q.b.ret))

ProcessNext(q, token) ==
  IF Matched(q) THEN q ELSE ReportCreatedNodes([q EXCEPT !.b = Process(@, token)], token)

\* Nothing after the match is processed.
ProcessEarlyToken(q, token) ==
  IF Matched(q) THEN q ELSE ProcessNext(EndRunBefore(q, token), token)

ProcessTokens(q, run) ==
  FoldLeft(ProcessEarlyToken, [q EXCEPT !.held = run.held], run.tokens)

ProcessAndCheck(q, units) == ProcessTokens(q, Tokenized(q.held, units))

-----------------------------------------------------------------------------
(***************************************************************************)
(* Segments.  Before the encoding is decided a segment is one ASCII byte,  *)
(* later it reaches to the next ">".                                       *)
(***************************************************************************)
\* A match wins over the size error; otherwise the decoded size is committed.
Account(q, decoded, before) ==
  IF Matched(q) THEN [q EXCEPT !.decoder = decoded.decoder]
  ELSE IF before.decoder.size + SizeOfAll(decoded.output) > q.limit
  THEN [q EXCEPT !.failed = TRUE]
  ELSE [q EXCEPT !.decoder = [decoded.decoder EXCEPT !.size = @ + SizeOfAll(decoded.output)]]

\* Only what fits into the limit is processed.
Admitted(q, decoded) == Fitting(decoded.output, q.limit - q.decoder.size)

DecodedSegment(q, segment) ==
  IF Encoded(q.decoder) THEN Decode(q.decoder, segment)
                        ELSE [decoder |-> q.decoder, output |-> segment]

CountSegment(q, decoded, before) ==
  IF Encoded(before.decoder) THEN Account(q, decoded, before) ELSE [q EXCEPT !.ascii = @ + 1]

VisitDecoded(q, decoded) ==
  CountSegment(ProcessAndCheck(q, IF Encoded(q.decoder) THEN Admitted(q, decoded) ELSE decoded.output),
               decoded, q)

VisitSegment(q, segment) ==
  IF Halted(q) THEN q ELSE VisitDecoded(q, DecodedSegment(q, segment))

\* The units cut after every tag.
Segments(units) ==
  LET ends == {n \in 1..Len(units) : IsMarkup(units[n]) \/ n = Len(units)}
      from(n) == 1 + Max({0} \union {m \in ends : m < n})
      cuts == SetToSortSeq(ends, <)
  IN  [i \in 1..Len(cuts) |-> SubSeq(units, from(cuts[i]), cuts[i])]

-----------------------------------------------------------------------------
(***************************************************************************)
(* The stages of one feed.                                                 *)
(***************************************************************************)
\* The first byte of the prescan buffer that is not processed eagerly.
EagerEnd(q) ==
  SelectInSubSeq(q.buf, q.ascii + 1, Len(q.buf), LAMBDA u : ~ IsAscii(u) \/ u = "esc")

\* Seeded fault: nothing is processed before the prescan buffer is full.
EagerWhenFull(q) ==
  IF Len(q.buf) < PrescanLimit THEN <<>>
  ELSE [i \in 1..EagerEnd(q) - 1 - q.ascii |-> <<q.buf[q.ascii + i]>>]

\* The unprocessed ASCII prefix of the prescan buffer, byte by byte.
EagerUnits(q) ==
  LET stop == EagerEnd(q)
      last == IF stop = 0 THEN Len(q.buf) ELSE stop - 1
  IN  [i \in 1..last - q.ascii |-> <<q.buf[q.ascii + i]>>]

\* Whether the encoding the consumed prefix selects decodes it to itself.
PrefixSurvives(q) ==
  LET consumed == SubSeq(q.buf, 1, q.ascii)
  IN  Decode(NewDecoder(Detect(consumed)), SubSeq(consumed, BomLen(consumed) + 1, q.ascii)).output
        = SubSeq(consumed, BomLen(consumed) + 1, q.ascii)

DiscardPrescanWork(q) ==
  [q EXCEPT !.b = EmptyBuilder, !.held = <<>>, !.ascii = 0, !.pending = NULL, !.found = NULL]

\* Decide the encoding, and keep the eager work if the decoder agrees with it.
\* The ASCII prefix cannot exceed the limit: raw input never does.
Decide(q, processed) ==
  LET bom     == BomLen(q.buf)
      ascii   == SubSeq(q.buf, bom + 1, processed)
      primed  == Decode(NewDecoder(Detect(q.buf)), ascii)
  IN  IF primed.output = ascii
      THEN [q EXCEPT !.decoder = [primed.decoder EXCEPT !.size = Len(ascii)]]
      ELSE [DiscardPrescanWork(q) EXCEPT !.decoder = NewDecoder(Detect(q.buf))]

Processed(q) == IF q.ascii > BomLen(q.buf) THEN q.ascii ELSE BomLen(q.buf)

\* What flush_initial_buf still has to decode after the decision.
Undecoded(q) ==
  LET from == IF q.ascii > BomLen(q.buf) THEN q.ascii ELSE BomLen(q.buf)
  IN  SubSeq(q.buf, from + 1, Len(q.buf))

Flushing(q, decided) ==
  [p |-> [decided EXCEPT !.buf = <<>>],
   segments |-> Segments(Undecoded([q EXCEPT !.ascii = decided.ascii]))]

Flush(q) == Flushing(q, Decide(q, Processed(q)))

Idle(q) == [p |-> q, segments |-> <<>>]

Full(q) == Len(q.buf) >= PrescanLimit

\* The parser and the segments it has to visit in a stage.  The match found in
\* the eager work stands only if the prefix survives decoding.
StageWork(q, stage, rest) ==
  CASE stage = "bom" -> IF ~ Encoded(q.decoder) /\ HasBom(q.buf) THEN Flush(q) ELSE Idle(q)
    [] stage = "prescan" -> IF Encoded(q.decoder) THEN Idle(q)
                            ELSE [p |-> q, segments |-> EagerUnits(q)]
    [] stage = "flush" ->
         IF Encoded(q.decoder) \/ (Matched(q) /\ PrefixSurvives(q)) \/ (~ Matched(q) /\ ~ Full(q))
         THEN Idle(q) ELSE Flush(q)
    [] stage = "rest" -> IF Encoded(q.decoder) THEN [p |-> q, segments |-> Segments(rest)] ELSE Idle(q)
    [] stage = "decide" -> IF Encoded(q.decoder) \/ Matched(q) THEN Idle(q) ELSE Flush(q)

VisitAll(work) == FoldLeft(VisitSegment, work.p, work.segments)

RunStages(q, stages, rest) ==
  FoldLeft(LAMBDA r, stage : VisitAll(StageWork(r, stage, rest)), q, stages)

\* feed_active: the chunk fills the prescan buffer first.
FeedActive(q, chunk) ==
  LET take == IF Encoded(q.decoder) THEN 0 ELSE Min({PrescanLimit - Len(q.buf), Len(chunk)})
  IN  RunStages([q EXCEPT !.buf = @ \o SubSeq(chunk, 1, take)],
                <<"bom", "prescan", "flush", "rest">>,
                SubSeq(chunk, take + 1, Len(chunk)))

\* The bytes that do not fit are an error, unless a match makes them irrelevant.
AfterFeed(q, size, consumed) ==
  IF Matched(q) THEN [q EXCEPT !.seen = @ + consumed]
  ELSE [q EXCEPT !.seen = @ + IF q.failed THEN consumed ELSE size,
                 !.terminal = q.failed \/ consumed < size,
                 !.failed = FALSE]

FeedSome(q, chunk, consumed) ==
  AfterFeed(IF consumed = 0 THEN q ELSE FeedActive(q, SubSeq(chunk, 1, consumed)),
            Len(chunk), consumed)

Remaining(q) == IF q.seen > q.limit THEN 0 ELSE q.limit - q.seen

\* A parser that failed or has its match does not change.
FeedParser(q, chunk) ==
  IF q.terminal \/ Matched(q) \/ chunk = <<>> THEN q
  ELSE FeedSome(q, chunk, Min({Len(chunk), Remaining(q)}))

-----------------------------------------------------------------------------
(***************************************************************************)
(* The end of input.                                                       *)
(***************************************************************************)
FinishTokenizer(q) ==
  IF Halted(q) THEN q ELSE ProcessTokens(q, [held |-> <<>>, tokens |-> TextRun(q.held)])

FinishRun(q) == IF Halted(q) THEN q ELSE FinishObservedRun(q)

\* The end of input closes every open element.
EndPending(q) ==
  IF q.after /\ ~ Halted(q) THEN [q EXCEPT !.found = q.pending] ELSE q

EndDocument(q) == [q EXCEPT !.b = FinishBuilder(@)]

\* finish: an error is returned, otherwise the match or the whole document.
FinishParser(q) ==
  IF q.terminal THEN q
  ELSE EndDocument(EndPending(FinishRun(FinishTokenizer(RunStages(q, <<"decide">>, <<>>)))))

-----------------------------------------------------------------------------
Setting == Settings[scenario]

Init ==
  /\ scenario \in DOMAIN Settings
  /\ \E opening \in Setting.openings :
       p = FeedParser(NewEarlyStop(Setting), opening) /\ input = opening /\ first = Len(opening)
  /\ finished = FALSE

FeedChunk ==
  /\ ~ finished
  /\ \E chunk \in Setting.chunks :
       /\ Len(input) + Len(chunk) <= first + Setting.length
       /\ p' = FeedParser(p, chunk)
       /\ input' = input \o chunk
  /\ UNCHANGED <<scenario, first, finished>>

Finish ==
  /\ ~ finished
  /\ finished' = TRUE
  /\ p' = FinishParser(p)
  /\ UNCHANGED <<scenario, input, first>>

Next == FeedChunk \/ Finish

Spec == Init /\ [][Next]_vars

-----------------------------------------------------------------------------
(***************************************************************************)
(* Reading the input as one document, independently of how the builder     *)
(* reports nodes: after every tag and at the end of every text run, the    *)
(* nodes that are new in the tree are judged in document order.            *)
(***************************************************************************)
NewMatches(r) ==
  SelectSeq(DocumentOrder(r.b.nodes, RootId), LAMBDA n : n > r.known /\ Predicate(r, r.b.nodes, n))

Complete(r) == r.match # NULL /\ (~ r.after \/ r.match \notin OpenIds(r.b))

\* Judge the nodes the reader has not judged yet.
Judge(r) ==
  LET new == NewMatches(r)
      seen == [r EXCEPT !.match = IF @ = NULL /\ new # <<>> THEN Head(new) ELSE @,
                        !.known = Len(r.b.nodes)]
  IN  [seen EXCEPT !.done = Complete(seen)]

ReadTag(r, token) == IF r.done THEN r ELSE Judge([r EXCEPT !.b = Process(@, token)])

ReadToken(r, token) ==
  IF token.type = "text"
  THEN IF r.done THEN r ELSE [r EXCEPT !.b = HandleText(@, token.content)]
  ELSE ReadTag(IF r.done THEN r ELSE Judge([r EXCEPT !.b = EndTextRun(@)]), token)

\* The raw and the decoded units that are within the limits.
Within(units) == SubSeq(units, 1, Min({Len(units), p.limit}))

DecodedOf(units) == DecodeAll(units, Detect(units))

TooLarge(units) == Len(units) > p.limit \/ SizeOfAll(DecodedOf(units)) > p.limit

\* A reader looks for what the parser looks for.
Unread == [after |-> p.after, wanted |-> p.wanted, b |-> EmptyBuilder, known |-> 1, match |-> NULL, done |-> FALSE]

\* The reader after the complete tokens of some decoded text.
ReadTokens(text) == FoldLeft(ReadToken, Unread, Tokenized(<<>>, text).tokens)

\* The end of input ends the last text run and closes every element.
ReadEnd(r, text) ==
  LET last  == Tokenized(<<>>, text).held
      ended == Judge([r EXCEPT !.b = EndTextRun(IF last = <<>> THEN @ ELSE HandleText(@, last))])
  IN  IF r.done THEN r ELSE [ended EXCEPT !.done = ended.match # NULL]

\* A replacement label has no say over a match that is complete before it.
BeforeDead(units) ==
  LET at == SelectInSeq(units, LAMBDA unit : unit = "<dead>")
  IN  IF Detect(units) = "replacement" THEN SubSeq(units, 1, at - 1) ELSE <<>>

\* The prefix every encoding decodes to itself.
EagerPrefix(units) ==
  LET stop == SelectInSeq(units, LAMBDA unit : ~ IsAscii(unit) \/ unit = "esc")
  IN  IF stop = 0 THEN units ELSE SubSeq(units, 1, stop - 1)

Result(kind, node, ns) == [kind |-> kind, node |-> node, nodes |-> ns]

ResultOf(r) ==
  IF r.done THEN Result("matched", r.match, FinishBuilder(r.b).nodes)
            ELSE Result("done", NULL, FinishBuilder(r.b).nodes)

ResultAtEnd(r, units, text) ==
  IF r.done THEN ResultOf(r)
  ELSE IF TooLarge(units) THEN Result("error", NULL, <<>>)
  ELSE ResultOf(ReadEnd(r, text))

\* The reader of the first of the texts that completes a match, or of the last.
ReadEither(texts) ==
  FoldLeft(LAMBDA r, text : IF r.done THEN r ELSE ReadTokens(text), Unread, texts)

SpecifiedFor(units, text) ==
  ResultAtEnd(ReadEither(<<Within(EagerPrefix(BeforeDead(units))), text>>), units, text)

\* What parsing the units must deliver.
Specified(units) == SpecifiedFor(units, Fitting(DecodedOf(Within(units)), p.limit))

Delivered ==
  IF p.terminal \/ p.failed THEN Result("error", NULL, <<>>)
  ELSE Result(IF Matched(p) THEN "matched" ELSE "done", p.found, p.b.nodes)

-----------------------------------------------------------------------------
TypeOK ==
  /\ {p.pending, p.found} \subseteq 0..Len(p.b.nodes)
  /\ Len(p.buf) <= PrescanLimit
  /\ p.ascii \in 0..PrescanLimit
  /\ p.seen \in 0..Len(input)
  /\ p.terminal \in BOOLEAN
  /\ finished \in BOOLEAN

\* "A parser that stops at the first node matching a predicate": whatever the
\* chunks, the result is the first match of the input read as a whole, with the
\* tree up to it; an error only if input beyond the limit was needed; and the
\* whole document if nothing matches.
StopsAtFirstMatch == finished => Delivered = Specified(input)

\* A match is reported by the feed that completes it: at once while all input
\* is ASCII, although the encoding is not known, and always once it is known.
MatchIsPrompt ==
  LET plain == \A i \in 1..Len(input) : IsAscii(input[i]) /\ input[i] # "esc"
      text  == Fitting(DecodedOf(Within(input)), p.limit)
  IN  (plain \/ Encoded(p.decoder)) /\ ReadTokens(text).done => Matched(p)

Whole(text) ==
  FoldLeft(Process, EmptyBuilder,
           Tokenized(<<>>, text).tokens \o TextRun(Tokenized(<<>>, text).held))

\* The subtree of an element delivered as complete is what the whole input, the
\* part after the match included, would have made it.
SubtreeFinal ==
  LET outline(ns, top) ==
        [i \in 1..Len(DocumentOrder(ns, top)) |->
           LET n == DocumentOrder(ns, top)[i] IN <<n, ns[n].name, ns[n].text>>]
  IN  finished /\ Matched(p) /\ p.after /\ Detect(input) # "replacement" =>
        outline(p.b.nodes, p.found) = outline(Whole(DecodedOf(input)).nodes, p.found)

\* The match delivered is the first one, and nothing of its element is missing.
FirstMatchDelivered == StopsAtFirstMatch /\ SubtreeFinal
=============================================================================
