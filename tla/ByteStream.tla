----------------------------- MODULE ByteStream -----------------------------
(***************************************************************************)
(* What std::io::Read promises of a stream of bytes: every read delivers   *)
(* the next bytes, at least one unless the stream has ended, or fails and  *)
(* delivers nothing; nothing is lost, repeated or reordered.               *)
(***************************************************************************)
EXTENDS Integers, Sequences

CONSTANTS Streams,    \* Contents a stream may have.
          Capacities  \* Sizes of the buffers callers pass to read.

VARIABLES rest,     \* The bytes not delivered yet.
          capacity, \* Size of the buffer of the read in progress, else Idle.
          failed    \* The last read returned an error.

Idle == -1

Init == rest \in Streams /\ capacity = Idle /\ failed = FALSE

StartRead ==
  /\ capacity = Idle
  /\ capacity' \in Capacities
  /\ failed' = FALSE
  /\ UNCHANGED rest

\* Only the end of the stream, or an empty buffer, delivers nothing.
Deliver ==
  /\ capacity # Idle
  /\ \E n \in 0..Len(rest) :
       /\ n <= capacity
       /\ n = 0 => rest = <<>> \/ capacity = 0
       /\ rest' = SubSeq(rest, n + 1, Len(rest))
  /\ capacity' = Idle
  /\ UNCHANGED failed

Fail == capacity # Idle /\ capacity' = Idle /\ failed' = TRUE /\ UNCHANGED rest

Next == StartRead \/ Deliver \/ Fail

Spec == Init /\ [][Next]_<<rest, capacity, failed>>
=============================================================================
