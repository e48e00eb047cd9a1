---------------------------- MODULE ByteDecoding ----------------------------
(***************************************************************************)
(* Decoding the input of parse_bytes and reparse_bytes under a limit       *)
(* (decode_bytes_with_limit in crates/fhp-tree/src/lib.rs).  Malformed     *)
(* input and other encodings grow when they are decoded, so that the limit *)
(* is checked again and again.                                             *)
(*                                                                         *)
(* Bytes are A, a character of its own, L, which begins a character of     *)
(* three bytes, and C, which continues one.  In another encoding every     *)
(* byte is a character, of as many bytes of UTF-8 as Width says.           *)
(***************************************************************************)
EXTENDS Integers, Sequences, SequencesExt

CONSTANTS
  Inputs,             \* Bytes, without the BOM that was taken off.
  BomLengths,         \* How long that BOM may be.
  Limits,             \* What a caller may ask for.
  MaxRepresentable,   \* MAX_REPRESENTABLE_INPUT_SIZE
  BufferSize          \* The buffer of decode_with_limit, a widest character fits into it.

Width == [A |-> 1, L |-> 2, C |-> 3]

VARIABLES
  input,
  bom,       \* The length of its BOM.
  encoding,
  max,       \* The limit of the caller.
  rest,      \* What has not been decoded.
  decoded,   \* A character and its size for everything decoded.
  capacity,  \* Of the buffer of the decoded text.
  result     \* running, too_large, or how the text is handed on.

vars == <<input, bom, encoding, max, rest, decoded, capacity, result>>

EffectiveMax == Min({max, MaxRepresentable})

Chars(text) == <<text, Len(text)>>
Replacement == <<<<"U+FFFD">>, 3>>
Size(characters) == FoldLeft(LAMBDA size, character : size + character[2], 0, characters)

Drop(bytes, n) == SubSeq(bytes, n + 1, Len(bytes))

\* The capacity of a String that comes to hold size bytes: at least doubled, and
\* never a first buffer of less than 8.
StringGrown(allocated, size) == IF size <= allocated THEN allocated ELSE Max({8, 2 * allocated, size})

-----------------------------------------------------------------------------
(***************************************************************************)
(* str::from_utf8: the character a byte sequence begins with, and the      *)
(* length of the longest part of one when it does not begin with any.      *)
(***************************************************************************)
Whole == <<"L", "C", "C">>

LengthAt(bytes) == IF bytes[1] = "A" THEN 1 ELSE IF IsPrefix(Whole, bytes) THEN 3 ELSE 0

RECURSIVE ValidUpTo(_)
ValidUpTo(bytes) ==
  IF bytes = <<>> \/ LengthAt(bytes) = 0 THEN 0
  ELSE LengthAt(bytes) + ValidUpTo(Drop(bytes, LengthAt(bytes)))

\* error_len: all of a truncated character at the end is one error.
ErrorLen(bytes) == IF IsPrefix(<<"L", "C">>, bytes) THEN 2 ELSE 1

IsValid(bytes) == ValidUpTo(bytes) = Len(bytes)

-----------------------------------------------------------------------------
Init ==
  /\ input \in Inputs /\ bom \in BomLengths
  /\ encoding \in {"utf-8", "other"}
  /\ max \in Limits
  /\ rest = input /\ decoded = <<>>
  /\ capacity = 0 /\ result = "begin"

\* ensure_input_size
RefuseRaw ==
  /\ result = "begin" /\ bom + Len(input) > EffectiveMax
  /\ result' = "too_large"
  /\ UNCHANGED <<input, bom, encoding, max, rest, decoded, capacity>>

Fits == result = "begin" /\ bom + Len(input) <= EffectiveMax

\* Valid UTF-8 is not copied.
Borrow ==
  /\ Fits /\ encoding = "utf-8" /\ IsValid(input)
  /\ result' = "borrowed"
  /\ UNCHANGED <<input, bom, encoding, max, rest, decoded, capacity>>

Allocate ==
  /\ Fits /\ (encoding = "utf-8" => ~ IsValid(input))
  /\ capacity' = Min({Len(input), EffectiveMax})
  /\ result' = "running"
  /\ UNCHANGED <<input, bom, encoding, max, rest, decoded>>

Exceeds(added) == Size(decoded) + Size(added) > EffectiveMax

TooLarge ==
  /\ result' = "too_large"
  /\ UNCHANGED <<rest, decoded, capacity>>

Valid == SubSeq(rest, 1, ValidUpTo(rest))
AfterValid == Drop(rest, Len(Valid))
Text(bytes) == IF bytes = <<>> THEN <<>> ELSE <<Chars(bytes)>>

SkipInvalid(bytes) == Drop(bytes, ErrorLen(bytes))

\* Seeded fault: the replacement comes before the valid text.
ReplacementFirst == (IF AfterValid = <<>> THEN <<>> ELSE <<Replacement>>) \o Text(Valid)

\* What the next round of decode_utf8_with_limit appends.
Round == Text(Valid) \o (IF AfterValid = <<>> THEN <<>> ELSE <<Replacement>>)

\* The first n pieces of the round.
Pushed(n) == SubSeq(Round, 1, n)

\* push_limited for one piece after the other, until one exceeds the limit.
DecodeUtf8 ==
  /\ result = "running" /\ encoding = "utf-8"
  /\ \E n \in 0..Len(Round) :
       /\ ~ Exceeds(Pushed(n))
       /\ decoded' = decoded \o Pushed(n)
       /\ capacity' = FoldLeft(LAMBDA c, i : StringGrown(c, Size(decoded \o Pushed(i))), capacity, [i \in 1..n |-> i])
       /\ \/ /\ n < Len(Round) /\ Exceeds(Pushed(n + 1))
             /\ result' = "too_large" /\ UNCHANGED rest
          \/ /\ n = Len(Round)
             /\ rest' = IF AfterValid = <<>> THEN <<>> ELSE SkipInvalid(AfterValid)
             /\ result' = IF AfterValid = <<>> THEN "owned" ELSE "running"
  /\ UNCHANGED <<input, bom, encoding, max>>

Decoded(bytes) == [i \in DOMAIN bytes |-> <<bytes[i], Width[bytes[i]]>>]

Grown(size) == Min({Max({capacity * 2, size}), EffectiveMax})

\* The decoder fills the buffer, or takes all that is left.
Reads(n) ==
  /\ Size(Decoded(SubSeq(rest, 1, n))) <= BufferSize
  /\ n < Len(rest) => Size(Decoded(SubSeq(rest, 1, n + 1))) > BufferSize

DecodeChunk ==
  /\ result = "running" /\ encoding = "other"
  /\ \E n \in 0..Len(rest) :
       /\ Reads(n)
       /\ \/ Exceeds(Decoded(SubSeq(rest, 1, n))) /\ TooLarge
          \/ /\ ~ Exceeds(Decoded(SubSeq(rest, 1, n)))
             /\ decoded' = decoded \o Decoded(SubSeq(rest, 1, n))
             /\ capacity' = IF Size(decoded') > capacity THEN Grown(Size(decoded')) ELSE capacity
             /\ rest' = Drop(rest, n)
             /\ result' = IF n = Len(rest) THEN "owned" ELSE "running"
  /\ UNCHANGED <<input, bom, encoding, max>>

Next == RefuseRaw \/ Borrow \/ Allocate \/ DecodeUtf8 \/ DecodeChunk

Spec == Init /\ [][Next]_vars

-----------------------------------------------------------------------------
(***************************************************************************)
(* Decoding character by character, as encoding_rs does.                   *)
(***************************************************************************)
RECURSIVE Characters(_)
Characters(bytes) ==
  IF bytes = <<>> THEN <<>>
  ELSE IF LengthAt(bytes) > 0 THEN <<SubSeq(bytes, 1, LengthAt(bytes))>> \o Characters(Drop(bytes, LengthAt(bytes)))
  ELSE <<Replacement[1]>> \o Characters(Drop(bytes, IF IsPrefix(<<"L", "C">>, bytes) THEN 2 ELSE 1))

SizeOfCharacters(bytes) ==
  FoldLeft(LAMBDA size, c : size + IF c = Replacement[1] THEN 3 ELSE Len(c), 0, Characters(bytes))

TrueSize == IF encoding = "utf-8" THEN SizeOfCharacters(input) ELSE Size(Decoded(input))

\* Slices of the input are split for comparison.
RECURSIVE Split(_)
Split(characters) ==
  IF characters = <<>> THEN <<>>
  ELSE (IF Head(characters) = Replacement THEN <<Replacement[1]>> ELSE Characters(Head(characters)[1]))
         \o Split(Tail(characters))

Ended == result \notin {"begin", "running"}

\* An input is refused exactly when it is too large before or after decoding.
RefusedExactly ==
  Ended => (result = "too_large" <=> bom + Len(input) > EffectiveMax \/ TrueSize > EffectiveMax)

\* The decoded text is what the reference decoder gives, and it is shared with
\* the input only if nothing had to be replaced.
DecodesExactly ==
  /\ result = "borrowed" => encoding = "utf-8" /\ Replacement[1] \notin ToSet(Characters(input))
  /\ result = "owned" => IF encoding = "utf-8" THEN Split(decoded) = Characters(input) ELSE decoded = Decoded(input)

\* The decoded text never exceeds the limit, not even on the way to an error, and
\* has room where it is.  For another encoding no more than the limit is requested;
\* a String of malformed UTF-8 doubles, and stays below twice the limit.
WithinLimit ==
  /\ Size(decoded) <= capacity /\ Size(decoded) <= EffectiveMax
  /\ encoding = "other" => capacity <= EffectiveMax
  /\ encoding = "utf-8" => capacity < Max({9, 2 * EffectiveMax})

TypeOK ==
  /\ IsSuffix(rest, input)
  /\ result \in {"begin", "running", "too_large", "borrowed", "owned"}
  /\ result = "owned" => rest = <<>>
  /\ result # "too_large" => Size(decoded) <= 3 * (Len(input) - Len(rest))

\* What is decoded, refused and asked for is as it should be.
DecodingExact == TypeOK /\ RefusedExactly /\ DecodesExactly /\ WithinLimit
=============================================================================
