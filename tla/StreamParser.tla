---------------------------- MODULE StreamParser ----------------------------
(***************************************************************************)
(* StreamParser (crates/fhp-tree/src/streaming.rs) and the loops that feed *)
(* it from a source: AsyncParser, AsyncStdParser, and the chunk iterator   *)
(* of parse_stream_with_limit.  A parser `p` is a record like that of      *)
(* EarlyStop without the match: limit, b, held, decoder, buf, seen,        *)
(* terminal and failed.                                                    *)
(***************************************************************************)
EXTENDS StreamInput

CONSTANTS
  Sources,     \* Sources [units, limit, bufSize]: what one holds, and the arguments
               \* of with_max_input_size and with_buf_size.
  BlockSize    \* PROCESS_BLOCK_SIZE: raw units decoded at a time.

ASSUME BlockSizeAssumption == BlockSize \in Nat \ {0}
ASSUME SourcesAssumption ==
  \A s \in Sources : s.limit \in Nat /\ s.bufSize \in Nat /\ s.units \in Seq(RawUnits)

VARIABLES source, unread, result,  \* As in Parse.
          p                        \* The parser.

vars == <<source, unread, result, p>>

Running == [kind |-> "running", nodes |-> <<>>]
TooLargeError == [kind |-> "too_large", nodes |-> <<>>]
ReadError == [kind |-> "read_error", nodes |-> <<>>]

BufSize == Max({1, source.bufSize})

NewStreamParser(limit) ==
  [limit |-> limit, b |-> EmptyBuilder, held |-> <<>>, decoder |-> NoDecoder, buf |-> <<>>,
   seen |-> 0, terminal |-> FALSE, failed |-> FALSE]

-----------------------------------------------------------------------------
ProcessTokens(q, run) == [q EXCEPT !.b = FoldLeft(Process, @, run.tokens), !.held = run.held]

\* The block is only processed if its text is within the limit.
ProcessDecoded(q, decoded) ==
  IF q.decoder.size + SizeOfAll(decoded.output) > q.limit THEN [q EXCEPT !.failed = TRUE]
  ELSE ProcessTokens([q EXCEPT !.decoder = [decoded.decoder EXCEPT !.size = @ + SizeOfAll(decoded.output)]],
                     Tokenized(q.held, decoded.output))

DecodeAndProcess(q, block) == IF q.failed THEN q ELSE ProcessDecoded(q, Decode(q.decoder, block))

Blocks(units) ==
  [i \in 1..(Len(units) + BlockSize - 1) \div BlockSize |->
     SubSeq(units, (i - 1) * BlockSize + 1, Min({i * BlockSize, Len(units)}))]

\* Seeded fault: the rest of the chunk is detected again.
DecideLast(q, rest) ==
  [q |-> [q EXCEPT !.decoder = NewDecoder(Detect(rest)), !.buf = <<>>],
   blocks |-> <<SubSeq(q.buf, BomLen(q.buf) + 1, Len(q.buf))>> \o Blocks(rest)]

\* flush_initial_buf: the prescan buffer comes before the rest of the chunk.
DecideEncoding(q, rest) ==
  [q |-> [q EXCEPT !.decoder = NewDecoder(Detect(q.buf)), !.buf = <<>>],
   blocks |-> <<SubSeq(q.buf, BomLen(q.buf) + 1, Len(q.buf))>> \o Blocks(rest)]

\* What is decoded once the prescan buffer took its part of the chunk.
DecodingWork(q, rest) ==
  IF Encoded(q.decoder) THEN [q |-> q, blocks |-> Blocks(rest)]
  ELSE IF Len(q.buf) < PrescanLimit THEN [q |-> q, blocks |-> <<>>]
  ELSE DecideEncoding(q, rest)

ProcessAll(work) == FoldLeft(DecodeAndProcess, work.q, work.blocks)

FeedActive(q, chunk) ==
  LET take == IF Encoded(q.decoder) THEN 0 ELSE Min({PrescanLimit - Len(q.buf), Len(chunk)})
  IN  ProcessAll(DecodingWork([q EXCEPT !.buf = @ \o SubSeq(chunk, 1, take)],
                              SubSeq(chunk, take + 1, Len(chunk))))

EndFeed(q) == [q EXCEPT !.terminal = q.failed]

CheckedFeed(q, chunk) ==
  IF q.seen > q.limit THEN [q EXCEPT !.terminal = TRUE] ELSE EndFeed(FeedActive(q, chunk))

Feed(q, chunk) ==
  IF q.terminal \/ chunk = <<>> THEN q
  ELSE CheckedFeed([q EXCEPT !.seen = @ + Len(chunk)], chunk)

FlushInitial(q) == IF Encoded(q.decoder) THEN q ELSE ProcessAll(DecideEncoding(q, <<>>))

FinishTokenizer(q) == ProcessTokens(q, [held |-> <<>>, tokens |-> TextRun(q.held)])

FinishText(q) == FinishTokenizer(FlushInitial(q))

\* What finish returns.
ResultOf(q) ==
  IF q.failed \/ q.terminal THEN TooLargeError
  ELSE [kind |-> "document", nodes |-> FinishBuilder(q.b).nodes]

-----------------------------------------------------------------------------
Init ==
  /\ source \in Sources
  /\ unread = source.units
  /\ result = Running
  /\ p = NewStreamParser(source.limit)

\* Seeded fault: an error of the parser does not end the loop.
KeepReading(q) == Running

\* A terminal parser error stops reads from the source immediately.
AfterRead(q) == IF q.terminal THEN TooLargeError ELSE Running

\* The source delivers some of its bytes, at most a buffer full.
ReadSome ==
  /\ result = Running
  /\ \E n \in 1..Min({BufSize, Len(unread)}) :
       /\ unread' = SubSeq(unread, n + 1, Len(unread))
       /\ p' = Feed(p, SubSeq(unread, 1, n))
  /\ result' = AfterRead(p')
  /\ UNCHANGED source

\* Seeded fault: the end of the source is fed as an empty chunk.
FeedEmptyRead ==
  /\ result = Running
  /\ unread = <<>>
  /\ p' = Feed(p, <<>>)
  /\ result' = AfterRead(p')
  /\ UNCHANGED <<source, unread>>

\* Nothing was read: the end of the source.
ReadEnd ==
  /\ result = Running
  /\ unread = <<>>
  /\ p' = FinishText(p)
  /\ result' = ResultOf(p')
  /\ UNCHANGED <<source, unread>>

ReadFails ==
  /\ result = Running
  /\ result' = ReadError
  /\ UNCHANGED <<source, unread, p>>

Next == ReadSome \/ ReadEnd \/ ReadFails

\* A pending read is answered in the end; that it may fail is not relied on.
Spec == Init /\ [][Next]_vars /\ WF_vars(ReadSome \/ ReadEnd)

-----------------------------------------------------------------------------
TypeOK ==
  /\ Len(p.buf) < PrescanLimit
  /\ Encoded(p.decoder) => p.buf = <<>>
  /\ p.decoder.size \in 0..source.limit
  /\ p.terminal \in BOOLEAN

\* Decoding and parsing everything at once.
OneShot(units, limit) ==
  LET text == DecodeAll(units, Detect(units))
      run  == Tokenized(<<>>, text)
  IN  IF Len(units) > limit \/ SizeOfAll(text) > limit THEN TooLargeError
      ELSE [kind |-> "document",
            nodes |-> FinishBuilder(FoldLeft(Process, EmptyBuilder, run.tokens \o TextRun(run.held))).nodes]

P == INSTANCE Parse

\* However the bytes arrive, the loop returns what parsing all of them at once
\* returns, and an error only for a source that failed or exceeded a limit.
ImplementsParse == P!Spec

\* The parse ends, whatever the source holds.
ParseReturns == P!Returns

\* "A terminal parser error stops reads from the source immediately": no more
\* than one buffer is read beyond the limit.
StopsReading == Len(source.units) - Len(unread) <= source.limit + BufSize

\* What is buffered, decoded and read stays within the limits.
ReadsBounded == TypeOK /\ StopsReading
=============================================================================
