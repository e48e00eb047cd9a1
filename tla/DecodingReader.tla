--------------------------- MODULE DecodingReader ---------------------------
(***************************************************************************)
(* DecodingReader (crates/fhp-encoding/src/stream.rs): a reader that       *)
(* decodes the bytes of an inner reader.  Each read of the caller runs     *)
(* decoder passes and inner reads until something is written.              *)
(*                                                                         *)
(* Raw bytes: "a" is a character; "L" followed by "T" is one of two bytes, *)
(* three in UTF-8, and malformed alone; "M" followed by "N" at the start   *)
(* is a BOM, and malformed elsewhere.                                      *)
(***************************************************************************)
EXTENDS Integers, SequencesExt

CONSTANTS
  Inputs,           \* What the inner reader may hold.
  ChunkSize,        \* CHUNK_SIZE: capacity of raw_buf.
  MinDirectOutput,  \* MIN_DIRECT_OUTPUT: the smallest buffer to decode into, no less
                    \* than the longest character: three bytes here, four in UTF-8.
  Capacities,       \* Sizes of the buffers callers pass to read.
  MaxErrors         \* Bound on the errors of the inner reader.

VARIABLES
  source,    \* What the inner reader still holds.
  errors,    \* Errors of the inner reader so far.
  raw,       \* raw_buf[raw_pos..raw_len].
  decoder,   \* The decoder's internal state.
  pending,   \* pending[pending_pos..pending_len].
  eof, finished,
  capacity,  \* Length of the buffer of the read in progress, Idle without one.
  pc,        \* "idle", "decode" or "fill" in decode_into, "copy" after it.
  failed,    \* The last read returned an error.
  misused,   \* The decoder was called after its last input, or its output
             \* did not take a whole character.
  promised   \* History: what the caller must still receive, the decoded input
             \* less the number of bytes it took.

vars == <<source, errors, raw, decoder, pending, eof, finished, capacity, pc, failed, misused, promised>>

Idle == -1

Character == <<"c1", "c2", "c3">>
Replacement == <<"r1", "r2", "r3">>

-----------------------------------------------------------------------------
(***************************************************************************)
(* The decoder of encoding_rs.                                             *)
(***************************************************************************)
NewDecoder == [held |-> "none", started |-> FALSE]

\* One turn: the bytes written, the input consumed and the decoder after it.
Turn(written, used, held) ==
  [written |-> written, used |-> used, decoder |-> [held |-> held, started |-> TRUE]]

\* A held lead byte that is not completed is malformed, and the byte after it
\* is decoded on its own.
DecodeByte(d, byte) ==
  CASE d.held = "L" -> IF byte = "T" THEN Turn(Character, 1, "none") ELSE Turn(Replacement, 0, "none")
    [] d.held = "M" -> IF byte = "N" THEN Turn(<<>>, 1, "none") ELSE Turn(Replacement, 0, "none")
    [] OTHER ->
         CASE byte = "a" -> Turn(<<"a">>, 1, "none")
           [] byte = "L" \/ (byte = "M" /\ ~ d.started) -> Turn(<<>>, 1, byte)
           [] OTHER -> Turn(Replacement, 1, "none")

\* At the end of the last input a held byte is malformed.
DecodeEnd(d) == Turn(IF d.held = "none" THEN <<>> ELSE Replacement, 0, "none")

PassTurn(run, turn, room) ==
  IF Len(run.written) + Len(turn.written) > room THEN [run EXCEPT !.full = TRUE]
  ELSE [run EXCEPT !.written = @ \o turn.written,
                   !.left = SubSeq(@, turn.used + 1, Len(@)),
                   !.decoder = turn.decoder]

PassStep(run, room, last) ==
  IF run.full THEN run
  ELSE IF run.left # <<>> THEN PassTurn(run, DecodeByte(run.decoder, Head(run.left)), room)
  ELSE IF last THEN PassTurn(run, DecodeEnd(run.decoder), room)
  ELSE run

\* decode_to_utf8: decode until the input or the room is exhausted.
DecodePass(d, input, room, last) ==
  FoldLeft(LAMBDA run, i : PassStep(run, room, last),
           [written |-> <<>>, left |-> input, decoder |-> d, full |-> FALSE],
           [i \in 1..2 * Len(input) + 1 |-> i])

DecodedWhole(input) == DecodePass(NewDecoder, input, 3 * Len(input), TRUE).written

-----------------------------------------------------------------------------
Init ==
  /\ source \in Inputs
  /\ errors = 0
  /\ raw = <<>>
  /\ decoder = NewDecoder
  /\ pending = <<>>
  /\ eof = FALSE
  /\ finished = FALSE
  /\ capacity = Idle
  /\ pc = "idle"
  /\ failed = FALSE
  /\ misused = FALSE
  /\ promised = DecodedWhole(source)

\* Where a pass writes: the caller's buffer if it is large enough.
Room(c) == IF c >= MinDirectOutput THEN c ELSE MinDirectOutput

StartRead ==
  /\ capacity = Idle
  /\ capacity' \in Capacities
  /\ pc' = IF capacity' = 0 \/ pending # <<>> THEN "copy" ELSE "decode"
  /\ failed' = FALSE
  /\ UNCHANGED <<source, errors, raw, decoder, pending, eof, finished, misused, promised>>

\* Only a pass that took all of the last input finishes the decoder.
FinishedAfter(pass) == IF pass.full THEN finished ELSE eof

\* A pass without output reads on; one with output is returned or copied.
AfterPass(pass) ==
  /\ raw' = pass.left
  /\ decoder' = pass.decoder
  /\ finished' = FinishedAfter(pass)
  /\ misused' = (misused \/ finished \/ (pass.written = <<>> /\ pass.full))
  /\ pending' = pass.written
  /\ pc' = IF pass.written = <<>> /\ ~ finished' THEN "fill" ELSE "copy"
  /\ UNCHANGED <<source, errors, eof, capacity, failed, promised>>

Pass == AfterPass(DecodePass(decoder, raw, Room(capacity), eof))

DecodeOnce == pc = "decode" /\ ~ finished /\ Pass

\* The end of the stream was reached by an earlier read.
AtEnd ==
  /\ pc = "decode"
  /\ finished
  /\ pc' = "copy"
  /\ UNCHANGED <<source, errors, raw, decoder, pending, eof, finished, capacity, failed, misused, promised>>

\* Seeded fault: an empty read is not taken for the end.
FillEndless ==
  /\ pc = "fill"
  /\ \E n \in 0..Len(source) :
       /\ n <= ChunkSize
       /\ n = 0 => source = <<>>
       /\ raw' = SubSeq(source, 1, n)
       /\ source' = SubSeq(source, n + 1, Len(source))
  /\ pc' = "decode"
  /\ UNCHANGED <<errors, decoder, pending, eof, finished, capacity, failed, misused, promised>>

\* The inner reader delivers some bytes, or its end.
Fill ==
  /\ pc = "fill"
  /\ \E n \in 0..Len(source) :
       /\ n <= ChunkSize
       /\ n = 0 => source = <<>>
       /\ raw' = SubSeq(source, 1, n)
       /\ source' = SubSeq(source, n + 1, Len(source))
       /\ eof' = (n = 0)
  /\ pc' = "decode"
  /\ UNCHANGED <<errors, decoder, pending, finished, capacity, failed, misused, promised>>

\* The inner reader fails: so does the read, which the caller may repeat.
FillFails ==
  /\ pc = "fill"
  /\ errors < MaxErrors
  /\ errors' = errors + 1
  /\ failed' = TRUE
  /\ pc' = "idle"
  /\ capacity' = Idle
  /\ UNCHANGED <<source, raw, decoder, pending, eof, finished, misused, promised>>

\* What is left of a sequence once the caller took what is pending.
Untaken(bytes) == IF capacity < Len(pending) THEN SubSeq(bytes, capacity + 1, Len(bytes))
                  ELSE SubSeq(bytes, Len(pending) + 1, Len(bytes))

\* The caller takes what fits into its buffer: everything if it is large enough.
Copy ==
  /\ pc = "copy"
  /\ pending' = Untaken(pending)
  /\ promised' = Untaken(promised)
  /\ pc' = "idle"
  /\ capacity' = Idle
  /\ UNCHANGED <<source, errors, raw, decoder, eof, finished, failed, misused>>

Next == StartRead \/ DecodeOnce \/ AtEnd \/ Fill \/ FillFails \/ Copy

\* A read that was started goes on as long as the inner reader answers, and the
\* caller goes on reading into a buffer that is not empty.
Continues == DecodeOnce \/ AtEnd \/ Fill \/ Copy
Reading == StartRead /\ capacity' # 0
Spec ==
  /\ Init /\ [][Next]_vars
  /\ WF_vars(Continues)
  /\ SF_vars(Reading)

-----------------------------------------------------------------------------
TypeOK ==
  /\ errors \in 0..MaxErrors
  /\ Len(raw) <= ChunkSize
  /\ decoder.held \in {"none", "L", "M"}
  /\ {eof, finished, failed, misused} \subseteq BOOLEAN
  /\ capacity \in Capacities \union {Idle}
  /\ pc \in {"idle", "decode", "fill", "copy"}

\* "It always fits at least one decoded character, so a pass into it that writes
\* nothing has consumed all of its input", and the decoder "must not be called
\* again" after it accepted the final input (stream.rs).
DecoderContract == ~ misused

\* What is decoded is what comes next of the decoded input, whatever the sizes of
\* the passes, of the inner reads and of the buffers.
PendingPromised == IsPrefix(pending, promised)

B == INSTANCE ByteStream WITH
       Streams <- Seq({"a", "c1", "c2", "c3", "r1", "r2", "r3"}), rest <- promised

\* The reader is a reader of the decoded input: a read of the caller delivers
\* something until all of it was delivered, also when the bytes at hand are an
\* incomplete character, and an error of the inner reader loses nothing.
ImplementsRead == B!Spec

\* Reading on reaches the end of the stream.
EndReached == <>(finished /\ pending = <<>>)

\* The decoder is used as it has to be, and what is decoded comes next.
ReaderSound == TypeOK /\ DecoderContract /\ PendingPromised
=============================================================================
