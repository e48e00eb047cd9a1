--------------------------- MODULE RawAttributes ---------------------------
(***************************************************************************)
(* Splitting the attribute region of a tag into attributes (RawAttrs in    *)
(* crates/fhp-core/src/attr.rs).  Where a tag ends is decided by another   *)
(* implementation of the same grammar, the byte automaton TagScanState;    *)
(* the two must see the same attributes.                                   *)
(***************************************************************************)
EXTENDS TokenizerOps

CONSTANT Regions   \* The regions to split, as sequences of byte classes.

VARIABLES
  region,
  pos,       \* Where the iterator stands.
  stage,     \* What it reads next.
  name,      \* The name just read.
  attrs      \* The attributes yielded so far.

vars == <<region, pos, stage, name, attrs>>

EndOfRegion == Len(region)
Bytes == {region[i] : i \in DOMAIN region}

SkipWhitespace == Find(region, pos, Bytes \ Space)

IsAttrNameEnd(byte) == byte \in Space \union {"=", "/", ">"}

Init == region \in Regions /\ pos = 0 /\ stage = "space" /\ name = <<>> /\ attrs = <<>>

\* next() returns None at the end of the region.
Begin ==
  /\ stage = "space"
  /\ pos' = SkipWhitespace
  /\ stage' = IF pos' = EndOfRegion THEN "ended" ELSE "name"
  /\ UNCHANGED <<region, name, attrs>>

\* A leading "=" belongs to the name.
FirstNameByte == IF region[pos + 1] = "=" THEN pos + 1 ELSE pos
AttrNameEnd == Find(region, FirstNameByte, {b \in Bytes : IsAttrNameEnd(b)})

ReadName ==
  /\ stage = "name" /\ AttrNameEnd # pos
  /\ pos' = AttrNameEnd /\ name' = Slice(region, pos, AttrNameEnd)
  /\ stage' = "equals"
  /\ UNCHANGED <<region, attrs>>

\* Seeded fault: the stray byte is not skipped.
KeepStray ==
  /\ stage = "name" /\ AttrNameEnd = pos
  /\ pos' = pos /\ stage' = "space"
  /\ UNCHANGED <<region, name, attrs>>
\* A stray "/", or a ">" in a malformed region.
SkipStray ==
  /\ stage = "name" /\ AttrNameEnd = pos
  /\ pos' = pos + 1 /\ stage' = "space"
  /\ UNCHANGED <<region, name, attrs>>

Yield(value, next) ==
  /\ attrs' = Append(attrs, [name |-> name, value |-> value])
  /\ pos' = next /\ stage' = "space"
  /\ UNCHANGED <<region, name>>

YieldBoolean ==
  /\ stage = "equals" /\ ByteAt(region, SkipWhitespace) # "="
  /\ Yield(NoValue, SkipWhitespace)

ReadEquals ==
  /\ stage = "equals" /\ ByteAt(region, SkipWhitespace) = "="
  /\ pos' = SkipWhitespace + 1 /\ stage' = "value"
  /\ UNCHANGED <<region, name, attrs>>

\* A value whose closing quote is missing runs to the end.
YieldQuoted(start) ==
  /\ stage = "value" /\ ByteAt(region, start) \in Quotes
  /\ \E end \in {Find(region, start + 1, {ByteAt(region, start)})} :
       Yield(Slice(region, start + 1, end), Min({end + 1, EndOfRegion}))

YieldUnquoted(start) ==
  /\ stage = "value" /\ ByteAt(region, start) \notin Quotes
  /\ \E end \in {Find(region, start, Space \union {">"})} : Yield(Slice(region, start, end), end)

Next ==
  \/ Begin \/ ReadName \/ SkipStray \/ YieldBoolean \/ ReadEquals
  \/ YieldQuoted(SkipWhitespace) \/ YieldUnquoted(SkipWhitespace)

\* The caller iterates to the end.
Spec == Init /\ [][Next]_vars /\ WF_vars(Next)

-----------------------------------------------------------------------------
TypeOK ==
  /\ pos \in 0 .. EndOfRegion
  /\ stage \in {"space", "name", "equals", "value", "ended"}
  /\ \A i \in DOMAIN attrs : attrs[i].name # <<>>

\* The iterator and the automaton, written twice, agree on every name and
\* value of a region that the tokenizer can cut out: what the automaton
\* treats as quoted is a value for the iterator too, and nothing else is.
AgreesWithScan == stage = "ended" /\ WellFormed(region) => attrs = ScannedAttrs(region)

\* Between two attributes the iterator never stands where the automaton is
\* waiting for a value, or inside one that has more bytes.
BetweenAttrs(state, byte) ==
  \/ state \in {"before_name", "after_attr"}
  \/ state = "attr" /\ byte = "/"
  \/ state = "unquoted" /\ byte \in Space
AtBoundary ==
  stage = "space" /\ pos < EndOfRegion /\ WellFormed(region) => BetweenAttrs(ScanStates(region)[pos + 1], region[pos + 1])

\* What is yielded is what the automaton sees, with every step of the way.
RegionSound == TypeOK /\ AgreesWithScan /\ AtBoundary

\* The loop ends for every region, malformed ones with a ">" included.
Ends == <>(stage = "ended")
=============================================================================
