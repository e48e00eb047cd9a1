# A TLA+ model of fast_html_parser

This directory specifies the parser in TLA+, from raw bytes to the answer of a
query, checks it with TLC on small instances, and proves with TLAPS what holds
of five of its machines, the tree builder among them, for every value of their
constants. Paths below are
relative to `crates/` of the repository. `PROJECT.json` holds the
machine-readable side: which lines each definition stands for, the runs, the
seeded faults, the hazards and the theorems.

1. The system - 2. Modules - 3. Correspondence with the code - 4. Runs -
5. Fairness and liveness - 6. Refinements - 7. Disagreements with the docs -
8. Proofs - 9. Not modelled - 10. What is left - 11. Checking

## 1. The system

Bytes become a queryable document in stages; each keeps state of its own.

| Part | State | Operations | What makes it correct |
|---|---|---|---|
| Encoding (`fhp-encoding/src/{detect,decode,stream}.rs`) | `DecodingReader`: raw and pending buffers, `eof`, `finished` | `detect`, `read`, bounded decode | the declared encoding is found whatever the sample; output equals decoding the whole input; the end is reported once, after the decoder flushed |
| One-shot tokenizer (`fhp-tokenizer/src/{structural,extract,entity,lib}.rs`) | position, raw-text element | `tokenize`, prefix tokenization | tokens of the HTML subset the crate documents |
| Streaming tokenizer (`fhp-tokenizer/src/streaming.rs`) | residual bytes, split scanner, numeric-reference state, raw-text element | `feed`, `finish` | tokens do not depend on how the input is cut; the residual stays bounded |
| Attributes (`fhp-core/src/attr.rs`, `fhp-tree/src/arena.rs`) | an iterator over a tag's bytes; the duplicate detector (filter, array, hash set) | `RawAttrs::next`, `set_attrs*` | the attributes the tag scanner saw; the first of every name, whatever collides |
| Stack of open elements (`fhp-tree/src/builder.rs`) | `open_elements`, `open_kinds`, `insertion_mode` | push, pop, truncate, searches and closes by scope, adoption's edit | caches equal the stack; the root is never popped; at most `MAX_DEPTH` open |
| Tree builder (`fhp-tree/src/builder.rs`) | the stack, text-run state, comment target, created and flushed nodes | `process`, `finish` | a linked tree, exact indices and depths, HTML structure, no text lost, every node reported |
| Arena (`fhp-tree/src/arena.rs`) | nodes with five links, depths, element indices, source, slab | append, insert before, detach, move children, text storage | an ordered tree, whatever order the links were written in |
| Push parser (`fhp-tree/src/streaming.rs`, `StreamParser`), its tokio, async-std and chunk-iterator loops (`async_parser.rs`, `async_std_parser.rs`) | prescan buffer, decoder, sizes, `terminal`; a read buffer | `feed`, `finish`, the loops | equals the one-shot parse; nothing after an error; stops reading |
| Early-stop parser (`fhp-tree/src/streaming.rs`, `EarlyStopParser`) | the same, plus eager prescan work, `pending_match`, `found` | `feed`, `finish` | delivers the first match, whatever the chunks, as early as promised; a match wins over later errors |
| Documents (`fhp-tree/src/lib.rs`) | arena and root | `parse*`, `reparse*` | a failed reparse leaves the old document (size) or an empty one |
| Traversal and serialization (`fhp-tree/src/{traverse,lib}.rs`) | iterator positions | five iterators, `outer_html`, `text_content` | exactly the promised nodes; what is written parses to the same document |
| Selectors (`fhp-selector/src/{matcher,bloom,lib,parser}.rs`) | parser position and counters, match memo, ancestor filter, per-thread cache, index maps | parse, `select*`, `find_by_*`, `DocumentIndex` | what is written is what is meant; memo, filter, cache and index never change an answer |
| XPath (`fhp-selector/src/xpath`) | parser position, position cache, visited nodes | parse, `xpath` | the nodes the expression denotes, once each |
| SIMD kernels (`fhp-simd/src`), tables (`fhp-core/src`), facade (`fast-html-parser/src/lib.rs`) | none | byte masks, lookups, re-exports | - |

Within one parse the program is sequential, and the caches of selectors are per
thread; the async adapters are a read loop around `StreamParser::feed`, during
which the source decides when and how much is read. The hard behaviour is of
other kinds, listed line by line under `hazards` in `PROJECT.json`:

* **cuts**: bytes arrive in any number of chunks, character data in any number
  of tokens, and none of it may change the document or the first match;
* **caches over a structure edited in the middle**: the insertion mode, open
  counts, child counts, element indices, lazily repaired depths and the last text
  node are kept by increments, while adoption and foster parenting splice the
  stack and the tree; memo tables, the ancestor filter, position caches, the
  selector cache and index maps are kept next to what they are derived from;
* **speculation**: the early-stop parser builds a tree from the ASCII prefix
  before the encoding is known, and may have to throw it away;
* **long legal sequences**: any tag may follow any other, public arena calls come
  in any order, documents are parsed again after a failure;
* **handlers that close something and start over** with the same tag;
* **limits**: nesting, residual bytes, raw and decoded sizes, selector complexity
  and cache capacity, each with a rule for what happens beyond it;
* **two implementations of one grammar**: the tag scanner and the attribute
  iterator; the one-shot and the streaming tokenizer; trimming backwards and
  reading escapes forwards;
* **partial failure**: an error of the inner reader, of the source, of a reparse.

Data flows by calls: reader -> decoder -> tokenizer -> `process` -> handlers ->
stack and arena -> queries. Nothing flows back, except that an early-stop parser
reads the builder's reports (`created_elements`, the returned node, the flushed
text) and `is_open`. The tokenizer chooses raw text by the tag name alone,
without asking the builder.

## 2. Modules

Operators of the code, without state, are separate from the machines that use
them (`*Ops`) where several machines do, and the abstract specifications are modules of their own.

| Module | Models | Checked in |
|---|---|---|
| `OpenElementsOps` | element categories, scopes and each stack primitive as a function on `[stack, counts, mode]` | |
| `OpenElements` | the stack as a machine under any sequence of the handlers' calls | `MCNesting` |
| `OpenElementsProofs` | its proofs | |
| `ArenaOps` | links, indices and the stale-depth mark of the builder's operations; what a correct tree is | |
| `TreeBuilderOps` | `process` and `finish` with all handlers, as functions from builder to builder | |
| `TreeBuilder` | the builder fed tokens one by one; the serializer composed with it, and `text_content` | `MCTreeBuilder`, `MCNesting` |
| `SequenceFold`, `TreeLemmas`, `TreeBuilderProofs` | proofs: what folds keep; the arena's operations and the stack's primitives one by one, and the stack as a branch of the tree; the builder | |
| `ArenaApi`, `ArenaApiProofs` | the public operations on an arena, in any order | `MCDocuments` |
| `TokenizerOps` | the one-shot tokenizer over byte classes, references, the tag grammar and the scanner's view of attributes | |
| `TokenStream` | abstract: an incremental tokenizer | |
| `StreamTokenizer` | the streaming tokenizer (split scanner, flushes, compacted number) and the machine, in two variants in step | `MCStreamTokenizer` |
| `StreamInput` | what both push parsers do with bytes before the builder | |
| `Parse` | abstract: an incremental parse of a source, for any function that parses everything at once | |
| `StreamParser`, `StreamParserProofs` | `StreamParser` and the read loops | `MCPushParsers` |
| `EarlyStop` | `EarlyStopParser`, composed with the builder, and what it must deliver | `MCPushParsers` |
| `MetaPrescan` | the search for a declaring `<meta>` | `MCAttributes` |
| `RawAttributes` | the iterator over a tag's attribute region | `MCAttributes` |
| `AttributeList` | abstract: the attributes of an element | |
| `AttributeSet`, `AttributeSetProofs` | `set_attrs` with filter, array and hash set | `MCAttributes` |
| `ByteDecoding` | decoding under a limit | `MCDocuments` |
| `ByteStream` | abstract: `std::io::Read` | |
| `DecodingReader` | the decoding reader | `MCDocuments` |
| `AtomicReparse` | abstract: a document that is parsed again | |
| `Reparsing` | `reparse*`, the reuse of the arena, text kept in the source or in the slab | `MCDocuments` |
| `Traversal` | the five iterators | `MCQueries` |
| `Lookups` | `find_by_*` and `DocumentIndex` | `MCQueries` |
| `SelectorOps` | documents as queries see them, matching with its memo, the ancestor filter | |
| `Selecting` | `select_all` over several roots, `select_first` | `MCQueries` |
| `XPathSelecting` | XPath evaluation, `Selection::xpath` | `MCQueries` |
| `SelectorParser`, `XPathParser` | the two parsers over tokens | `MCSelectors` |
| `SelectorCache`, `SelectorCacheProofs` | the per-thread cache | `MCSelectors` |

Compositions: `EarlyStop` and `StreamParser` run the real `TreeBuilderOps`
behind `StreamInput`; the serializer in `TreeBuilder` feeds what it writes to the
tokenizer's raw-text rule and the builder again; `StreamTokenizer` drives the parser of
`TokenizerOps`; `Selecting`, `XPathSelecting`, `Traversal` and `Lookups` all read
documents built with `ArenaOps`; `RawAttributes` and `MetaPrescan` are compared
with the scanner of `TokenizerOps`.

An MC module holds the small sets of one family of machines. Where it holds
several (`MCNesting`, `MCPushParsers`, `MCQueries`, `MCSelectors`, `MCDocuments`,
`MCAttributes`), a variable (`acting`, or `asked` in `MCQueries`) is chosen
initially and only that machine moves; the others rest in one initial state, on
which their invariants hold trivially. One exploration is thus the union of the
machines' own state spaces, without their product.

## 3. Correspondence with the code

**Stack.** `open.stack` is `open_elements` (root first), `open.counts` is
`open_kinds`, `open.mode` is `insertion_mode`; each entry carries the mode in
force once it is on top, as `OpenElement::insertion_mode` does. Each primitive
is an action: `InsertElement` is the guarded push at the end of
`insert_element`; `CloseKind`, `CloseKindInScope` and `CloseNamed` stand for the
closes by kind, scope and name; `AdoptFurthestBlock` for the stack edit of
`adopt_furthest_block` with `rebuild_stack_state`. `close_formatting_element`
truncates and then reopens in a loop: `CloseFormatting` is the truncation,
`ReopenNext` one turn of the loop, and `reopen` the entries left to visit; the
other actions wait for the loop, as the call is synchronous. The machine takes
the calls in any order, a superset of what the handlers do.

**Builder.** A node is a record with its type, name, attributes, text, five
links, depth and element index; ids are positions in `nodes` and 1 is the
synthetic root. Operations on several nodes write the links the way the code
does, one by one. A handler is one operator with the handler's guards in the
code's order. Where a handler closes an element and calls itself with the same
tag, `SettleStartTag` and `SettleEndTag` repeat the close as long as the code
would recurse; `ReprocessEnds` checks that it never does so forever.
`TreeBuilder` feeds the tokens a tokenizer can produce: after a raw-text start
tag only text and the matching end tag follow (`raw`). Characters are the
classes the rules tell apart (`sp`, `lf`, `cr`, `x`, references to newlines, `lt`
and `ref_lt` where escaping matters); attributes are one of none, `class` and
`type=hidden`, which is what Noah's Ark and hidden inputs in tables read.

**Tokenizers.** Input is a sequence of byte classes. Keywords are shorter than in
HTML but keep at least two bytes wherever the code can be interrupted inside
them. Tokens carry their bytes, attributes as raw bytes of the tag.
`StreamTokenizer` has the state of the struct: residual, last safe position,
the open construct, the raw element, overflow and close-overflow flags, the
compacted number. The limits (`MaxResidual`, `MaxRawResidual`, `TextTail`,
`MaxCode`) are constants.

**Push parsers.** A unit of raw input is a whole tag, or a byte of text; cutting
inside a tag is the streaming tokenizer's subject. Decoders are external: what
they make of an `E` (a byte that is not ASCII), an ESC and a BOM. `EarlyStop`
states what must be delivered independently of chunks, buffers and eager work:
a reader takes all tokens of the decoded input one by one and stops at the first
node that matches (`Specified`).

**Documents.** `ArenaApi` has one action per public operation; `append_child`
succeeds under its assertions and otherwise changes nothing. `Reparsing` follows
`take`, the build, `finish` and the guard that is dropped when a parse panics;
text in the source is a reference to it, other text is in the slab, and text that
must move before the source is there is a pending gap. `DecodingReader` has one
action per decoder pass and per inner read.

**Queries.** A walk over a subtree is an agenda of nodes with the filter of
their ancestors. The memo is a function from (node, link) to the recorded value,
shared by all candidates and roots as in the code. Hashes are constants, chosen
to collide. Parsers work on tokens: a keyword, or a character; every operator of
the grammar is the function of the same name in the code, from parser to parser,
with the counters for the limits.

Operators marked `Seeded fault`, or that stand directly before the definition
they are a variant of and are used by nothing else, are not part of the model:
each is the definition after it with one plausible mistake, and putting it in
that place makes a run fail. That is how it was established that each property
can fail (`mutants` in `PROJECT.json`).

## 4. Runs

All passing runs are explored completely. `CHECK_DEADLOCK FALSE` is set in each,
as every machine stops: builders and parsers are consumed by `finish`, an
iterator or a query ends.

| Run | Question | Bounds |
|---|---|---|
| `nesting` | Do the stack's caches, root and limit survive every sequence of calls, and what becomes of documents deeper than the limit? | stack: one name per sort, `MaxDepth` 4, `NoahsArk` 1; builder: 4 tokens after openings up to the limit, 5 from none |
| `misnesting` | Do misnested formatting tags, anchors and blocks leave a linked tree within the limit, with exact indices and depths, text in order, one close per end tag, clones reported in document order? | 5 tokens over b, i, div, p; 4 tokens after openings of up to 8; 4 over pre, listing, script, br |
| `structures` | Are table sections, select content, column groups and comments where they belong, is text kept and independent of its cuts, are closed subtrees final and all elements reported, is written HTML read back? | 3 or 4 tokens after openings of up to 6, 5 for the written scenario; runs of 1 to 3 characters |
| `tokens` | Is the streaming tokenizer the one-shot tokenizer, and does it emit what no later byte can change? | inputs of 5 bytes beyond the opening (8 in scripts), in chunks of one or two bytes or pieces of the escape sequences |
| `tokenizer_limits` | What happens to constructs that outgrow the buffer? | residual limits 6 and 7, tail 5; 5 bytes beyond openings near the limit |
| `push_parsers` | Do both parsers deliver what the whole input says, promptly, within limits, and does the loop return? | sources of up to 6 units in reads of up to 3, prescan window 3, decode blocks of 2; early stop: 4 or 5 units in 5 settings |
| `queries` | Are selections, XPath answers, walks and lookups exactly what they mean? | every tree of 3 or 4 nodes below the root (5 for walks), allocated in document order or any order; chains of two links; two roots in any order |
| `selectors` | Is the cache invisible, and do both parsers accept exactly what is written and mean it? | 6 texts, capacity 3, 7 insertions; every token sequence up to 3 (CSS) or 4 (XPath), and every edit of one token of a sample of each construct and limit |
| `documents` | Do public arena calls, reparses, bounded decoding and the reader keep their promises? | 5 nodes; documents of up to 3 tokens parsed again and again with errors and panics in between; 6 bytes; streams of 4 bytes with one error, buffers of 0 to 5 |
| `attributes` | From the bytes of a tag to the attributes of an element, and to a declared encoding | up to 5 attributes of 5 names, 2 inline, 4 kept; every region of 4 bytes and of 4 pieces; `<meta>` behind up to 4 pieces of markup, sample limit 24 |
| `early_column_blanks` | (violation) see section 7 | 5 characters after `<table><colgroup>` |
| `xpath_order` | (violation) see section 7 | trees of 4 elements, several context nodes |

Why these bounds reach the interesting cases. The builder's openings put it into
the situation a group of rules is written for, so that four or five further
tokens cover every pair and triple of rules from there; `MaxDepth` is 20 where
the limit must not hide a rule, 8 in `misnesting`, where the longest openings
reach it, and 4 where it is the question, since it is only compared with a
length. `OuterLoops` (8) and `NoahsArk` (3) are the code's
values; eight turns of the outer loop are not reached. The tokenizer's limits are
lowered to where five bytes cross them, with the proportions the code needs: the
tail is longer than a reference prefix, the raw limit longer than an end tag's
name. The prescan window and read buffer of the push parsers are smaller than
the inputs, so that a decision falls inside, at and after every chunk boundary.
Four nodes below the root are the fewest that have a chain of two links with a
wrong candidate next to the right one. A cache of three with four valid texts
evicts, re-inserts and evicts again. The duplicate detector spills at the third
name and is asked for both inline and spilled ones afterwards.

What the properties say, by the mistake they would catch:

* **Stack and tree.** `StackSound` (types, root, counts and mode equal the stack,
  depth with the entries still to be reopened), `TreeSound` (types, links
  agree, every node reaches the root, parents of open elements are open below
  them, the stack's caches, nothing above the limit), `NumbersExact` (indices and
  the child counts the next index is taken from, depths read while stale),
  `StructureKept` (table sections and select content away from the nesting limit, a target for held-back text and comments),
  `EndTagClosesOne`, `ReprocessEnds`.
* **Text.** `TextInOrder`, `TextKept` (fostering permutes, never loses),
  `TextChunkInvariant`, `TextSurvives`, and `RoundTrip`, for documents that some
  text describes.
* **Observers.** `ClosedSubtreeFrozen` (a closed element never changes, the
  guarantee behind stopping after an element), `EveryElementReported`,
  `ReportedInDocumentOrder`, `FirstMatchDelivered` (with every setting of
  predicate, mode and encoding, and limits above the prescan window, see section
  7), `MatchIsPrompt`.
* **Cuts and limits.** `ImplementsStream`, `EmitsComplete`, `TokensOfInput` (cut
  invariance, and nothing inside an oversized construct becomes a tag),
  `SplitAlike` (decoded and undecoded text are cut alike), `BufferSound`,
  `ImplementsParse`, `ReadsBounded`, `DecodingExact` (refused exactly when too
  large, no text above the limit even on the way to an error; no more than the
  limit requested for another encoding, less than twice the limit for malformed
  UTF-8, whose `String` doubles), `ReadsToEnd`.
* **Documents.** `LinksSound` (the five links agree, no cycle), `IndexExact`,
  `ReparseExact` (atomic for the caller; every text of the arena in reach).
* **Attributes.** `RegionSplit`, `KeptExact` (the detector knows exactly the kept
  names, its filter has no false negative, the first occurrence wins, the class
  and id hashes are those of kept attributes), `ImplementsList`, `PrescanExact`.
* **Queries.** `SelectsExactly`, `ShortcutsSound` (every memo entry true for its
  node, no match rejected by the filter, `select_first` the head of
  `select_all`), `PathsExact`, `WalksExact`, `SelectorsMean` (accepted exactly
  when well formed and within the limits, and nothing of the text ignored),
  `PathsMean`, `CacheExact`.

## 5. Fairness and liveness

Most machines need no fairness: a parser does nothing until it is called, and a
call is one action. What could fail to end within a call is stated as safety
where a handler calls itself (`ReprocessEnds`). That every round of
`decode_with_limit` reads or writes something is a property of `encoding_rs` and
assumed. Three machines have a loop whose
steps are actions, and their termination is checked under fairness:

* `StreamParser`: `WF(ReadSome \/ ReadEnd)`. The executor polls a read future
  again until it is answered; that reads fail is never relied on. `StreamReturns`:
  the loop returns. Whether the action is enabled costs TLC a whole parse per
  state, so that this is checked for the sources of up to two bytes with a limit
  of one, which has a source that ends, one that exceeds the limit, and one that
  reaches it exactly; the safety properties of the run use all sources.
* `DecodingReader`: weak fairness of the steps of a read that has started, strong
  fairness of starting a read with a buffer that is not empty, as a caller that
  reads to the end does (`read_to_end` never passes an empty buffer; strong
  because it may pause). `EndReached`: the end is reported. Checked for seven
  streams that end in a whole, cut or malformed character and a BOM.
* `RawAttributes`: `WF(Next)`, as a `for` loop iterates to the end (`Ends`).

## 6. Refinements

| Detailed | implements | by |
|---|---|---|
| `StreamTokenizer` | `TokenStream` | the tokens given out, with adjacent text joined |
| `StreamParser` | `Parse` | the source and the result; buffers, decoder and builder are hidden. Also proved |
| `DecodingReader` | `ByteStream` | what was delivered of the decoded input |
| `Reparsing` | `AtomicReparse` | the content of the document, `Busy` while its arena is out |
| `AttributeSet` | `AttributeList` | the same variables; the detector is hidden. Also proved |

The other machines are compared with a definition: `EarlyStop` with its
`Specified` result, `Selecting` and `XPathSelecting` with what selector and
expression denote, the parsers with the texts their results are written as.

## 7. Disagreements with the docs

* **A blank in a column group is not observed** (`early_column_blanks`). A run
  such as `" x"` in a `<colgroup>` becomes a blank node inside and a node for the
  rest, and only the last one is reported: a predicate that matches the blank
  never sees it, though `builder.rs:681` speaks of "every node creation".
* **XPath answers are not in document order** (`xpath_order`). With nested
  context nodes and the path `/a`, the doc of `Selection::xpath` promises
  document order, the code appends per context node.
* **A limit below the prescan window**: with a byte that is not ASCII before the
  match, the early-stop parser waits for a window the limit can never fill, and
  reports `InputTooLarge` where a larger limit delivers the match. The settings of
  `MCPushParsers` have limits above the window.
* **A trailing slash of a path** is read over: `/a/` is `/a`, and `/a//text()` is
  `/a/text()`, though `parse_xpath` documents `Invalid` for bad syntax.
  `NothingIgnored` in `XPathParser` allows exactly this (`EndsWithSlash`).

The last two have no run of their own; the model shows them when the setting or
the exception named is removed.

## 8. Proofs

All for arbitrary constants under the assumptions declared in the machine's
module, which TLC evaluates in the runs.

**`TreeBuilderProofs`** (any tokens in any order, names, `MaxDepth`, `NoahsArk`
and `OuterLoops`): `BuilderCorrect`, that is, `TreeSound` in every reachable
state, with its parts `TypeCorrect`, `TreeStaysLinked` and `DepthBounded`;
`ClosedStaysFrozen` and `EveryElementIsReported`, the two properties of steps that
an observer of a growing tree depends on (`ClosedSubtreeFrozen`,
`EveryElementReported`); `ReprocessingEnds` (`ReprocessEnds`);
`EndTagsCloseOne` (`EndTagClosesOne`); and `TextChunksDoNotMatter`
(`TextChunkInvariant`). The assumptions are that the alphabets of a scenario are tokens
(`AlphabetsAssumption`), and those of the stack.

* The inductive invariant is `IInv`, in the main `Sound(b)`. It says of the stack
  what `OpenElementsProofs` says of it, of each field that names a node that
  there is one (`Refers`), and of the tree that there are *heights*: numbers
  with which every node is higher than its parent, none is above `MaxDepth + 1`,
  and the height of an open element is its place on the stack (`TreeOK`).
  `TreeSound` alone is not inductive. That the parents of nodes make no cycle
  cannot be seen from two links that are changed, but heights for the changed
  tree can be given: adoption builds a chain of clones below the common ancestor
  and moves a subtree down or up, and the new heights are the old ones shifted
  along it. That a reopened element or a clone stays within the limit, though
  nothing looks at it, follows from its place on a stack that is not longer than
  before; and fostering needs that table content is open only above an open
  table (`InTableAt`), or the foster parent might be missing.
* The invariant says more of open elements than `OpenParents`: the parent of an
  open element is the next one below that is not a formatting element in
  between, or a table stands between them (`OpenParentAt`). Only with this does
  the depth repair of adoption find what it assumes.
* Each handler is proved by itself, along the code: text, comments, start tags
  by context, implied parts, implicit closes, end tags by kind, reopening,
  adoption. The lemma of a handler says three things of what it leaves: that it is
  sound; which nodes are new and that the observer was told of them (`Lists`,
  `Tells`, `Returns`); and what it did not touch (`Leaves`). All three carry over
  from one edit to the next.
* `EveryElementIsReported`: what a token creates is a list without repetition of
  exactly the new elements, built up in the order of the edits, with the element
  that is returned at its end. Every edit appends to it what it creates: clones
  of adoption, reopened formatting elements, implied table parts.
* `ClosedStaysFrozen`: an edit changes links and text only at open elements and
  their children. A closed node's `first` and its children's `parent`, `next` and
  `text` stay (`Keeps`), through every step of adoption, which moves subtrees from
  one open element to another. That this makes the *sequence* of children the same
  needs that siblings do not follow one another in a circle, so that the walk along
  `next` is defined: `Arena` has a rank that falls along siblings (`Ordered`), and
  every edit of the links gives a new one. Comments after the body go to an
  element the parser remembers; the invariant says it is still open (`BodyOpen`),
  or a comment would be added below a closed one.
* `ReprocessingEnds`: a turn of `SettleStartTag` or `SettleEndTag` that is not
  settled closes at least one entry, and there are as many turns as entries. The
  kind to close is a column group that is the current node, or the kind whose mode
  is in force; because the mode cache is exact, an element of that kind is open
  above the root.
* `EndTagsCloseOne`: a turn of the outer loop that adopts leaves the element found
  open, over the same entries as before below it, and one special element fewer
  above it (`AdoptionTurnCloses`). With more turns than special elements the last
  turn meets none and pops the element (`AgencyCloses`). That the count is exact
  needs the names: the clones of a chain bear names of entries between the element
  and its furthest block, what is reopened bears names from above it, and the element is
  the last of its name in the stack.
* `TextChunksDoNotMatter`: text processed in two pieces leaves the builder it leaves in
  one (`TextInTwo`), up to what is only reported (`Forget`, `Lasting`). The pieces meet the
  code in four places, each with lemmas that say it for two pieces. What is skipped
  after a `pre` may be the whole first piece, or the first half of a line end
  (`SkipAgrees`). In a table the first piece may be held back as blank and the second
  not, which decides for both whether they are fostered. The second piece has to join
  the very node the first one made or joined: an edit of the links is the same
  whatever text the nodes hold (`LinkApart`), so joining and inserting commute.
  In a column group the first piece may be blank and stay, and the second leave the
  group. That leaving it once is enough needs an addition to the invariant, that
  a column group is never open in another one without an element between them that
  sets a mode itself (`OutsideColumns`): the mode restored below is then not that of column groups
  (`LeftColumns`).
* `TreeLemmas` has what the arena's operations do to the five links (append,
  insert before, detach, move children, each with what it leaves alone) and what
  the stack's primitives do to root, caches and length; `OpenElementsProofs`
  rests on the same lemmas. It also has what needs no builder: heights, the stack
  as a branch of the tree, and both after the move of adoption (`AdoptedBranch`).
* Loops of the code are folds of the library over sequences. Their recursion is
  over sets of positions and cannot be reached by induction rules here:
  `SequenceFold` builds the function and argues with the least counterexample,
  once, for any step. It extends nothing but arithmetic and sequences, because
  every loop's INSTANCE copies what it extends; that sets of numbers have least
  elements is therefore a hypothesis (`LeastExists`), which each INSTANCE
  discharges at once from `TreeLemmas`. Climbing to the parent (`ExactDepth`, `TrueDepth`) is
  treated the same way, along heights.
* The names the code compares with are literals (`Strings` names the set the
  texts are taken from), so the result is for every name a tag may have.

**`StreamParserProofs`** (any sources over the modelled units, limits, buffer
sizes and block sizes, and any prescan window that holds a BOM,
`PrescanLimitAssumption`: with a window of one unit the BOM would be cut, and the
refinement is false; the code's window is 1024): `ParsesAlike`, that is,
`ImplementsParse`, the push parser implements `Parse`, and `Bounds`, that is,
`ReadsBounded`.

* The inductive invariant (`IInv`) says that there is a sequence of units that
  was read, that it and what is unread are the source, and that a parser that
  still runs is *as if it had been fed all of it at once* (`Fed`): either it has
  buffered exactly these units and decided nothing, or it has decided as
  detection does on all of them, its decoder is where decoding all of them
  leaves it, it holds back what cutting all the text leaves, and its tree is that
  of all complete tokens (`Built`). A parser that has failed is related to the
  text being too large, which is what allows the error before the end.
* What carries it over a chunk is that decoding, measuring, cutting into tokens
  and processing are folds, and that a fold over two parts continues where the
  first ended (`FoldConcat` in `SequenceFold`). For those that also collect what
  they yield this needs a relation between the fold that starts with something
  and the one that starts with nothing (`FoldRelated`, `DecodeConcat`,
  `TokenizedConcat`). `BlocksBuild` does the blocks of a chunk, whose number and
  bounds are a division, `DetectPrefix` that units beyond the window do not
  change the decision.
* Of the tree builder nothing is used, of the decoder and the cutter only what a
  step appends and what it reads of the state: what the model makes of a byte is
  not part of the argument.

**`OpenElementsProofs`** (any names, `MaxDepth`, `NoahsArk`; `RootName` is not a
name): `StackCorrect`, that is, `StackSound`, and its parts `TypeCorrect`,
`RootAlwaysAtBottom`, `CachesAlwaysExact`, `DepthAlwaysBounded`,
`ModeAlwaysHasElement`. The inductive invariant says that the stack is well
formed (`StackOK`: type, root at the bottom and only there, entries of the kind
their name has, both caches exact), that the entries waiting to be reopened are
classified too, and that both together keep the limit. It is needed as a whole:
that closing preserves the caches needs the root at the bottom (the mode is
restored from an entry below), and that reopening keeps the limit needs the
waiting entries in the bound. Every closing primitive is a truncation to at least
the root; counts drop by exactly the entries removed; adoption concatenates
well-formed pieces, is not longer than what it replaces, and recomputes both
caches. Searches are a `CHOOSE` of a greatest or least position, whose existence
is proved by well-founded induction over numbers.

**`SelectorCacheProofs`** (any texts, answers of the parser, capacity of at least
one): `CacheCorrect`, that is, `CacheExact`, and its parts. The invariant adds
that what is stored is what parsing gives, and that queue and map have the same
size, without which the eviction decision, taken on one of them, would say
nothing of the other.

**`ArenaApiProofs`** (any set of nodes with a `NULL` outside it):
`ArenaLinksSound`, that is, `LinksSound`, and its parts. That no call makes a cycle needs a
history: `linked` numbers the successful `append_child` calls, a node is linked
before everything below it, and no number is ahead of the clock (`TimesBounded`).
`append_child` refuses a child that has children, which is what makes this hold.
`ArenaIndexExact`, that is, `IndexExact`, needs the same history: siblings stand
in the order in which they were linked (`OrderInv`: the node in front is the one
linked just before, the last child the latest), so that the walk back through
text and comments, a recursive function, ends at the element linked before, whose
index is one less; counting needs that finitely many nodes are linked.

**`AttributeSetProofs`** (any attributes, fingerprints, filter bits, array size,
limit; names equal up to case have equal fingerprints): `AttributesExact`, that
is, `KeptExact`, and its parts `SeenCorrect`, `FirstOccurrenceWins` and
`HashesCorrect`, and `Implements` (every step is a step of `AttributeList`). The invariant
relates what the detector holds, inline or spilled, to the kept attributes; with
it the look-up through filter and store answers as a search of the kept
attributes would, so the step is that of the abstract list, where the argument
about first occurrences is made. For the hashes it adds that while
attributes are taken they are those of the kept ones; that a second `id` cannot
replace the first's is again the correctness of the look-up.

Only model-checked: of the builder, what counts (`NumbersExact`), what becomes of the
characters as a whole (`TextInOrder`, `TextKept`, `TextSurvives`), the structure of
tables, the order of reports and the serializer; the tokenizers, the early-stop parser,
the reader, reparse, and the queries. Out of the prover's reach and left to TLC:
liveness, and what recursive definitions compute (tokenizing, matching,
document order).

## 9. Not modelled, and why

* SIMD kernels and CPU dispatch: that a kernel equals the scalar one is
  arithmetic on 16 or 32 bytes, which their tests enumerate.
* Entity, tag and hash tables: data. Which class a tag has is in
  `OpenElementsOps`; what a hash must satisfy is an assumption where it is used.
* The facade, accessors of one node, `escape_attr`, and the conversion of XPath
  results to strings: calls without state.
* Capacities (`reserve`, `shrink_to_fit`) other than that of decoded text, and the
  storage of token text: performance, without effect on a result.
* The decoding of character references in the content of a raw-text element the
  builder ignored (`ignored_raw_text`), and of text under a raw-text parent left
  as it is: how a character was written is not part of the builder's model.
* A decoder's last flush of an incomplete character in `StreamParser` and
  `EarlyStop`, whose inputs are whole characters; `DecodingReader` has it.
* `MAX_SELECTOR_INPUT_LEN`, and the guard of `nth` against an element without an
  index: every attached element has one (`IndexExact`, `NumbersExact`).
* The deprecated per-node bloom table and `matches_selector` without a memo.
* Token-sink variants of the one-shot tokenizer: the same rules with another
  destination.
* Wording and offsets of errors, the case of keywords, sizes of inputs in bytes
  where only a limit on tokens matters.
* `encoding_rs` and `memchr` are external; the former is modelled by what it does
  to the byte classes.

## 10. What is left

`IndicesExact` and `DepthsExact` of the builder as theorems, on top of `Sound`;
`StructureKept`, for which the invariant has to say which kinds may stand on
which; the refinement proofs of `Reparsing` and `DecodingReader`. They are
model-checked.

## 11. Checking

    tlc -workers 2 -config MCMisnesting.cfg MCTreeBuilder.tla
    tlapm OpenElementsProofs.tla

Each run takes between one and four minutes on two workers. `TreeBuilderProofs`
takes about twenty minutes, `TreeLemmas` eight, the other proof modules at most
five.
