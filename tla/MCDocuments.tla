---------------------------- MODULE MCDocuments ----------------------------
(***************************************************************************)
(* What documents are made of and from: an arena that is linked through    *)
(* its public operations, a document that is parsed again and again, and   *)
(* the two ways bytes are decoded for it.  One of them acts, the others    *)
(* rest in one initial state.                                              *)
(***************************************************************************)
EXTENDS ArenaApi, Sequences, TLC

VARIABLES
  acting,
  arena, root, phase, tokens, taking, built, run, nextToken, outcome,       \* Reparsing
  bytes, bom, encoding, max, rest, decoded, capacity, verdict,              \* ByteDecoding
  source, errors, raw, decoder, pending, eof, finished, room, pc, failed, misused, promised

reparseVars == <<arena, root, phase, tokens, taking, built, run, nextToken, outcome>>
decodeVars == <<bytes, bom, encoding, max, rest, decoded, capacity, verdict>>
readerVars == <<source, errors, raw, decoder, pending, eof, finished, room, pc, failed, misused, promised>>

UpTo(S, n) == UNION {[1..k -> S] : k \in 0..n}

-----------------------------------------------------------------------------
(***************************************************************************)
(* Runs of text of up to three tokens, and text around every other token.  *)
(***************************************************************************)
TokenOf(kind, text) == [kind |-> kind, text |-> text]
Texts ==
  {TokenOf("text", <<"x">>), TokenOf("text", <<"y", "x">>),
   TokenOf("cdata", <<"y">>), TokenOf("reference", <<"z">>)}
Markup == {TokenOf("element", <<>>), TokenOf("comment", <<"c">>), TokenOf("custom", <<"n">>)}

TokenInputs ==
  UpTo(Texts, 3) \union UpTo(Texts \union Markup, 2)
  \union {<<before, markup, after>> : before, after \in Texts, markup \in Markup}

Reparse == INSTANCE Reparsing WITH
  Inputs <- TokenInputs, MaxInputSize <- 7,
  input <- tokens, next <- nextToken, result <- outcome

-----------------------------------------------------------------------------
(***************************************************************************)
(* All inputs of up to six bytes, with limits around their sizes.         *)
(***************************************************************************)
ByteInputs == UpTo({"A", "L", "C"}, 6)

Decode == INSTANCE ByteDecoding WITH
  Inputs <- ByteInputs, BomLengths <- {0, 2}, Limits <- {3, 6, 7, 9, 20},
  MaxRepresentable <- 12, BufferSize <- 4,
  input <- bytes, result <- verdict

-----------------------------------------------------------------------------
(***************************************************************************)
(* Streams of up to four bytes, with and without a BOM, read in chunks of  *)
(* two into buffers smaller and larger than a character.                   *)
(***************************************************************************)
\* The streams that are read to their end under fairness.
EndedInputs == {<<>>, <<"L">>, <<"M">>, <<"M", "N">>, <<"a", "L", "T">>, <<"L", "L", "a">>, <<"L", "a", "a">>}

StreamInputs ==
  UpTo({"a", "L", "T"}, 4) \union {<<"M", "N">> \o s : s \in UpTo({"a", "L", "M", "N"}, 2)}
    \union UpTo({"M", "N", "a"}, 3)

Reader == INSTANCE DecodingReader WITH
  Inputs <- StreamInputs, ChunkSize <- 2, MinDirectOutput <- 4,
  Capacities <- {0, 1, 3, 4, 5}, MaxErrors <- 1, capacity <- room

-----------------------------------------------------------------------------
DocumentsInit ==
  /\ acting \in {"arena", "reparse", "decode", "reader", "fair_reader"}
  /\ Init
  /\ Reparse!Init
  /\ acting # "decode" => bytes = <<>> /\ bom = 0 /\ encoding = "utf-8" /\ max = 3
  /\ Decode!Init
  /\ acting \notin {"reader", "fair_reader"} => source = <<>>
  /\ acting = "fair_reader" => source \in EndedInputs
  /\ Reader!Init

\* Ids are given out in order.
InOrder(ids) == \A n \in ids, m \in Nodes : m < n => m \in ids

ArenaStep ==
  acting = "arena" /\ Next /\ InOrder(allocated') /\ UNCHANGED <<acting, reparseVars, decodeVars, readerVars>>
ReparseStep ==
  acting = "reparse" /\ Reparse!Next /\ UNCHANGED <<acting, vars, decodeVars, readerVars>>
DecodeStep ==
  acting = "decode" /\ Decode!Next /\ UNCHANGED <<acting, vars, reparseVars, readerVars>>
ReaderStep ==
  acting \in {"reader", "fair_reader"} /\ Reader!Next /\ UNCHANGED <<acting, vars, reparseVars, decodeVars>>

DocumentsNext == ArenaStep \/ ReparseStep \/ DecodeStep \/ ReaderStep

\* The fairness of DecodingReader.
Continues == acting = "fair_reader" /\ Reader!Continues
Reading == acting = "fair_reader" /\ Reader!Reading

DocumentsSpec ==
  /\ DocumentsInit /\ [][DocumentsNext]_<<acting, vars, reparseVars, decodeVars, readerVars>>
  /\ WF_readerVars(Continues) /\ SF_readerVars(Reading)

\* After any parses and failures a document is what its last input says
\* (Document::reparse), and the text of its nodes is never out of reach, moved in
\* vain or copied twice.
ReparseExact == Reparse!ImplementsAtomicReparse /\ [](Reparse!TextSound)

\* Decoding under a limit agrees with decoding character by character
\* (decode_bytes_with_limit).
DecodingExact == Decode!DecodingExact

\* The reader is a reader of the decoded input that reaches its end (stream.rs).
ReadsToEnd == Reader!ImplementsRead /\ [](Reader!ReaderSound) /\ (acting = "fair_reader" => Reader!EndReached)
===========================================================================
