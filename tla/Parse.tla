------------------------------- MODULE Parse -------------------------------
(***************************************************************************)
(* What an incremental parser promises: it takes bytes from a source, and  *)
(* in the end returns the document the one-shot parser would build from    *)
(* all of them, or an error.                                               *)
(***************************************************************************)
EXTENDS Integers, Sequences

CONSTANTS
  Sources,        \* Sources [units, limit]: what one holds, and how much of it is accepted.
  OneShot(_, _)   \* What parsing all the units at once returns, given a limit.

VARIABLES
  source,  \* The source.
  unread,  \* The part that has not been read.
  result   \* What the parser returned, Running before.

Running == [kind |-> "running", nodes |-> <<>>]
TooLargeError == [kind |-> "too_large", nodes |-> <<>>]
ReadError == [kind |-> "read_error", nodes |-> <<>>]

Outcome(units) == OneShot(units, source.limit)

Init ==
  /\ source \in Sources
  /\ unread = source.units
  /\ result = Running

TakeBytes ==
  /\ result = Running
  /\ \E n \in 1..Len(unread) : unread' = SubSeq(unread, n + 1, Len(unread))
  /\ UNCHANGED <<source, result>>

\* The error may come as soon as what was read exceeds a limit.
Refuse ==
  /\ result = Running
  /\ \E n \in 1..Len(unread) :
       /\ unread' = SubSeq(unread, n + 1, Len(unread))
       /\ Outcome(SubSeq(source.units, 1, Len(source.units) - Len(unread'))) = TooLargeError
  /\ result' = TooLargeError
  /\ UNCHANGED source

Return ==
  /\ result = Running
  /\ unread = <<>>
  /\ result' = Outcome(source.units)
  /\ UNCHANGED <<source, unread>>

SourceFails ==
  /\ result = Running
  /\ result' = ReadError
  /\ UNCHANGED <<source, unread>>

Next == TakeBytes \/ Refuse \/ Return \/ SourceFails

Spec == Init /\ [][Next]_<<source, unread, result>>

\* The parser returns: at the latest when the source has ended.
Returns == <>(result # Running)
=============================================================================
