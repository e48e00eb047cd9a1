--------------------------- MODULE AtomicReparse ---------------------------
(***************************************************************************)
(* What a document that is parsed again and again promises: its content is *)
(* that of the last input alone, nothing after a failure, and what it was  *)
(* when an input is refused.                                               *)
(***************************************************************************)
EXTENDS Integers, Sequences

CONSTANTS
  Inputs,
  MaxInputSize,
  SizeOf(_),   \* The size of an input.
  NodesOf(_)   \* The nodes an input stands for.

VARIABLES
  content,  \* The nodes of the document, Busy while it is rebuilt.
  asked,    \* The input asked for last.
  answer    \* What the last call returned.

Busy == <<>>

Init == content = NodesOf(<<>>) /\ asked = <<>> /\ answer = "ok"

Begin ==
  /\ content # Busy
  /\ asked' \in Inputs /\ SizeOf(asked') <= MaxInputSize
  /\ content' = Busy
  /\ answer' = "none"

Refuse ==
  /\ content # Busy
  /\ asked' \in Inputs /\ SizeOf(asked') > MaxInputSize
  /\ answer' = "too_large"
  /\ UNCHANGED content

Replace ==
  /\ content = Busy
  /\ content' = NodesOf(asked)
  /\ answer' = "ok"
  /\ UNCHANGED asked

Fail ==
  /\ content = Busy
  /\ content' = NodesOf(<<>>)
  /\ answer' = "failed"
  /\ UNCHANGED asked

Next == Begin \/ Refuse \/ Replace \/ Fail

Spec == Init /\ [][Next]_<<content, asked, answer>>
=============================================================================
