--------------------------- MODULE SelectorCache ---------------------------
(***************************************************************************)
(* The cache of parsed selectors (parse_selector_cached and SelectorCache  *)
(* of crates/fhp-selector/src/lib.rs).  Each thread has one of its own, so *)
(* its requests come one after the other.  The map and the queue of keys   *)
(* are changed in separate statements and must stay in step.               *)
(***************************************************************************)
EXTENDS Integers, Sequences, FiniteSets

CONSTANTS
  Selectors,    \* The selector texts.
  Lists,        \* The parsed selectors.
  SyntaxError,  \* What parse_selector answers for a syntax error.
  Overlong,     \* The texts of more than MAX_CACHED_SELECTOR_LEN bytes.
  ParsedAs,     \* The answer of parse_selector for each text.
  Capacity      \* SELECTOR_CACHE_CAPACITY.

ASSUME ParseAssumption == SyntaxError \notin Lists /\ ParsedAs \in [Selectors -> Lists \union {SyntaxError}]
ASSUME CapacityAssumption == Capacity \in Nat \ {0}

VARIABLES
  map,     \* The parsed selectors by text.
  order,   \* The keys, the oldest first.
  missed,  \* History: the texts that were parsed and inserted, oldest first.
  asked,   \* The text of the last request ...
  answer   \* ... and its answer.

vars == <<map, order, missed, asked, answer>>

Init ==
  /\ map = [css \in {} |-> SyntaxError]
  /\ order = <<>>
  /\ missed = <<>>
  /\ asked \in Selectors
  /\ answer = ParsedAs[asked]

Cached == DOMAIN map

\* HashMap::insert
WithEntry(entries, css, list) ==
  [key \in DOMAIN entries \union {css} |-> IF key = css THEN list ELSE entries[key]]

Without(entries, css) == [key \in DOMAIN entries \ {css} |-> entries[key]]

Full == Cardinality(Cached) >= Capacity

\* Seeded fault: the new key takes over the evicted entry.
EvictAndRecycle ==
  /\ order' = Append(Tail(order), asked')
  /\ map' = WithEntry(Without(map, Head(order)), asked', map[Head(order)])

\* A full cache forgets its oldest key.
EvictOldest ==
  /\ order' = Append(Tail(order), asked')
  /\ map' = WithEntry(Without(map, Head(order)), asked', answer')

KeepAll ==
  /\ order' = Append(order, asked')
  /\ map' = WithEntry(map, asked', answer')

\* SelectorCache::insert
Insert ==
  IF asked' \in Cached THEN map' = WithEntry(map, asked', answer') /\ UNCHANGED order
  ELSE IF Full /\ order # <<>> THEN EvictOldest
  ELSE KeepAll

TooLong(css) == css \in Overlong

\* A text that is too long is neither looked up nor stored.
ParseOverlong(css) ==
  /\ TooLong(css)
  /\ asked' = css /\ answer' = ParsedAs[css]
  /\ UNCHANGED <<map, order, missed>>

Hit(css) ==
  /\ ~ TooLong(css) /\ css \in Cached
  /\ asked' = css /\ answer' = map[css]
  /\ UNCHANGED <<map, order, missed>>

\* A syntax error is not stored.
MissInvalid(css) ==
  /\ ~ TooLong(css) /\ css \notin Cached /\ ParsedAs[css] = SyntaxError
  /\ asked' = css /\ answer' = SyntaxError
  /\ UNCHANGED <<map, order, missed>>

Miss(css) ==
  /\ ~ TooLong(css) /\ css \notin Cached /\ ParsedAs[css] # SyntaxError
  /\ asked' = css /\ answer' = ParsedAs[css]
  /\ Insert
  /\ missed' = Append(missed, css)

Request(css) == ParseOverlong(css) \/ Hit(css) \/ MissInvalid(css) \/ Miss(css)

Next == \E css \in Selectors : Request(css)

Spec == Init /\ [][Next]_vars

-----------------------------------------------------------------------------
TypeOK ==
  /\ map \in [Cached -> Lists] /\ Cached \subseteq Selectors \ Overlong
  /\ order \in Seq(Selectors)
  /\ missed \in Seq(Selectors)
  /\ asked \in Selectors
  /\ answer \in Lists \union {SyntaxError}

\* The queue holds exactly the keys of the map, each once, and there are never
\* more than Capacity.
InStep ==
  /\ Cached = {order[i] : i \in DOMAIN order}
  /\ \A i, j \in DOMAIN order : order[i] = order[j] => i = j
  /\ Len(order) <= Capacity

\* Whatever was requested before, the cache is not visible in an answer.
AnswersExact == answer = ParsedAs[asked]

\* The cache holds the texts that were inserted last, in that order.
HoldsLatest ==
  /\ Len(missed) >= Len(order)
  /\ Len(order) = Capacity \/ Len(order) = Len(missed)
  /\ \A i \in DOMAIN order : order[i] = missed[Len(missed) - Len(order) + i]

\* The cache is not visible in an answer, its map and its queue agree, and what it
\* forgets is the oldest (parse_selector_cached).
CacheExact == AnswersExact /\ InStep /\ HoldsLatest
=============================================================================
