--------------------------- MODULE StreamTokenizer ---------------------------
(***************************************************************************)
(* StreamTokenizer (fhp-tokenizer/src/streaming.rs): first, as functions   *)
(* from tokenizer to tokenizer, the residual, the resumable split scanner, *)
(* the bounded flushes and the compacted numeric reference; then the       *)
(* machine that is fed chunk by chunk: feed and finish of the default      *)
(* tokenizer and, in step with it, of one that leaves text undecoded       *)
(* (with_undecoded_text).                                                  *)
(***************************************************************************)
EXTENDS TokenizerOps

CONSTANTS MaxResidual,       \* plain text is flushed beyond this many bytes
          MaxRawResidual,    \* raw text and unfinished markup beyond this many
          TextTail           \* bytes kept back by a flush
\* The tail holds the longest thing that may still be completed: a named
\* reference with its lookahead, an end tag of a text element, "<!--" in a
\* script.  80 bytes do in the code.
ASSUME LimitAssumption ==
  /\ MaxResidual \in Nat /\ MaxRawResidual \in Nat /\ TextTail \in Nat
  /\ TextTail >= 5

CONSTANT Inputs   \* For each scenario the openings, one of which is the first chunk,
                  \* what every later chunk may be, and the bytes these have at most.

NoContext == [tag |-> NoTag, esc |-> "plain"]
Context(tag) == [tag |-> tag, esc |-> "plain"]
\* TextContext::decodes_entities; no context is data, which decodes too.
DecodesEntities(ctx) == ctx.tag = NoTag \/ ctx.tag \in RcNames

\* The tokenizer.  mode, scan, open, closeOf, ctx, scanned and lastSafe are the
\* split scanner; closeOf is the text element whose end tag is being scanned
\* and textClose the end tag the last scan found.  open is also the start of a
\* comment's content.
NewTokenizer(decode) ==
  [residual |-> <<>>, overflow |-> FALSE, closeOverflow |-> NoTag, number |-> NoNumber,
   decode |-> decode, out |-> <<>>,
   mode |-> "data", scan |-> "name", open |-> 0, closeOf |-> NoTag, ctx |-> NoContext,
   scanned |-> 0, lastSafe |-> 0, textClose |-> -1, halt |-> FALSE]

-----------------------------------------------------------------------------
(* SplitScanner::scan: one operator per arm of its loop. *)

Advance(t, i)  == [t EXCEPT !.scanned = i]
HaltAt(t, i)   == [t EXCEPT !.scanned = i, !.halt = TRUE]
\* A safe boundary at i, where the scan stops unless it looks for the last one.
SafeAt(t, i, stop) == [t EXCEPT !.scanned = i, !.lastSafe = i, !.mode = "data", !.halt = stop # "last"]

\* rest ends inside prefix and name, before the byte after the name.
AwaitsTerminator(rest, prefix, name) == IsPrefix(rest, prefix \o name)
IsIncompleteTextClose(d, i, ctx) ==
  LET rest == From(d, i)
  IN  \/ AwaitsTerminator(rest, <<"<", "/">>, ctx.tag)
      \/ /\ ctx.tag = Script
         /\ \/ ctx.esc = "plain" /\ Len(rest) < 4 /\ IsPrefix(rest, <<"<", "!", "-", "-">>)
            \/ ctx.esc = "escaped" /\ AwaitsTerminator(rest, <<"<">>, Script)

ScanTextElement(t, d, i) ==
  LET script == t.ctx.tag = Script
      hit    == Find(d, i, IF script /\ t.ctx.esc # "plain" THEN {"<", ">"} ELSE {"<"})
      lt     == ScriptLt(t.ctx.esc, d, hit)
      u      == IF script THEN [t EXCEPT !.ctx.esc = lt.esc] ELSE t
      closes == IF script THEN lt.closes ELSE IsEndTagAt(d, hit, t.ctx.tag)
  IN  CASE hit = Len(d) -> Advance(t, hit)
        [] ByteAt(d, hit) = ">" -> Advance([t EXCEPT !.ctx.esc = ScriptGt(@, d, hit)], hit + 1)
        [] ByteAt(d, hit) = "<" /\ IsIncompleteTextClose(d, hit, t.ctx) -> HaltAt(t, hit)
        [] ByteAt(d, hit) = "<" /\ ~IsIncompleteTextClose(d, hit, t.ctx) /\ closes ->
             Advance([u EXCEPT !.mode = "tag", !.scan = "name", !.open = hit, !.closeOf = t.ctx.tag],
                     hit + TagNameOffset(From(d, hit)))
        [] OTHER -> Advance(u, hit + 1)

ScanData(t, d, i, stop) ==
  LET hit == Find(d, i, {"<"})
      lt  == ClassifyLt(From(d, hit), FALSE)
  IN  CASE hit = Len(d)           -> Advance(t, hit)
        [] lt.kind = "undecided"  -> HaltAt(t, hit)
        [] lt.kind = "text"       -> Advance(t, hit + 1)
        [] lt.kind = "tag"        ->
             Advance([t EXCEPT !.mode = "tag", !.scan = "name", !.open = hit, !.closeOf = NoTag],
                     hit + TagNameOffset(From(d, hit)))
        [] lt.kind = "comment"    -> Advance([t EXCEPT !.mode = "comment", !.open = hit + 4], hit + 2)
        [] lt.kind = "cdata"      -> Advance([t EXCEPT !.mode = "cdata"], hit + 2 + Len(CDataWord))
        [] lt.kind = "doctype"    -> Advance([t EXCEPT !.mode = "declaration"], hit + 2)
        [] lt.kind = "bogus"      -> Advance([t EXCEPT !.mode = "declaration"], hit + lt.off)
        [] lt.kind = "empty_end"  ->
             [t EXCEPT !.scanned = hit + 3, !.lastSafe = hit + 3, !.halt = stop = "first"]

\* The text element a start tag enters, from the bytes between "<" and ">".
TextOpenContext(body) ==
  LET name == Slice(body, 0, Find(body, 0, Space \union {"/"}))
  IN  IF name \in RawNames \union RcNames \union {Plaintext} THEN Context(name) ELSE NoContext

\* The grammar state of an unfinished tag is kept for the next feed.
\* Seeded fault: it is not.
ForgetTag(t, scan, hit) == Advance(t, hit)
UnfinishedTag(t, scan, hit) == Advance([t EXCEPT !.scan = scan], hit)
ScanTag(t, d, i, stop) ==
  LET hit   == Find(d, i, IF GtIsLiteral(t.scan) THEN {t.scan} ELSE {">"} \union Quotes)
      scan  == IF GtIsLiteral(t.scan) THEN t.scan ELSE ScanAdvance(t.scan, Slice(d, i, hit))
      b     == ByteAt(d, hit)
      ctx   == TextOpenContext(Slice(d, t.open + 1, hit))
      done  == [t EXCEPT !.mode = "data", !.scanned = hit + 1, !.lastSafe = hit + 1]
  IN  CASE hit = Len(d) -> UnfinishedTag(t, scan, hit)
        [] hit < Len(d) /\ (b # ">" \/ GtIsLiteral(scan)) ->
             Advance([t EXCEPT !.scan = ScanStep(scan, b)], hit + 1)
        [] hit < Len(d) /\ b = ">" /\ ~GtIsLiteral(scan) /\ t.closeOf # NoTag ->
             [done EXCEPT !.ctx = NoContext, !.textClose = t.open, !.halt = TRUE]
        [] hit < Len(d) /\ b = ">" /\ ~GtIsLiteral(scan) /\ t.closeOf = NoTag ->
             IF stop = "overflow" THEN [done EXCEPT !.halt = TRUE]
             ELSE [done EXCEPT !.ctx = ctx, !.halt = ctx # NoContext \/ stop = "first"]

ScanDeclaration(t, d, i, stop) ==
  LET hit == Find(d, i, {">"})
  IN  IF hit = Len(d) THEN Advance(t, hit) ELSE SafeAt(t, hit + 1, stop)

\* A possible split terminator waits for the next feed.
\* Seeded fault: it does not.
NoSplitTerminator(rest, bang) == FALSE
IsSplitTerminator(rest, bang) ==
  \/ IsStrictPrefix(rest, <<"-", "-", ">">>)
  \/ bang /\ IsStrictPrefix(rest, <<"-", "-", "!", ">">>)
ScanComment(t, d, i, stop) ==
  LET hit  == Find(d, i, {"-"})
      rest == From(d, hit)
      bang == hit >= t.open
  IN  CASE hit = Len(d) -> Advance(t, hit)
        [] hit < Len(d) /\ Starts(<<"-", "-", ">">>, rest) -> SafeAt(t, hit + 3, stop)
        [] hit < Len(d) /\ bang /\ Starts(<<"-", "-", "!", ">">>, rest) -> SafeAt(t, hit + 4, stop)
        [] hit < Len(d) /\ IsSplitTerminator(rest, bang) -> HaltAt(t, hit)
        [] OTHER -> Advance(t, hit + 1)

ScanCData(t, d, i, stop) ==
  LET hit == Find(d, i, {"]"})
  IN  CASE hit = Len(d) -> Advance(t, hit)
        [] hit < Len(d) /\ Slice(d, hit, hit + 3) = <<"]", "]", ">">> -> SafeAt(t, hit + 3, stop)
        [] hit < Len(d) /\ Len(d) - hit < 3 -> HaltAt(t, hit)
        [] OTHER -> Advance(t, hit + 1)

ScanStepAt(t, d, i, stop) ==
  CASE t.mode = "data" /\ t.ctx.tag = Plaintext -> Advance(t, Len(d))
    [] t.mode = "data" /\ t.ctx.tag \notin {Plaintext, NoTag} -> ScanTextElement(t, d, i)
    [] t.mode = "data" /\ t.ctx.tag = NoTag -> ScanData(t, d, i, stop)
    [] t.mode = "tag"         -> ScanTag(t, d, i, stop)
    [] t.mode = "declaration" -> ScanDeclaration(t, d, i, stop)
    [] t.mode = "comment"     -> ScanComment(t, d, i, stop)
    [] t.mode = "cdata"       -> ScanCData(t, d, i, stop)
RECURSIVE ScanLoop(_, _, _)
ScanLoop(t, d, stop) ==
  IF t.halt \/ t.scanned >= Len(d) THEN [t EXCEPT !.halt = FALSE]
  ELSE ScanLoop(ScanStepAt(t, d, t.scanned, stop), d, stop)
\* The scan resumes where the last one stopped; the split is lastSafe.
Scan(t, d, stop) == ScanLoop([t EXCEPT !.textClose = -1, !.scanned = Min({@, Len(d)})], d, stop)

IsPlainData(t)   == t.ctx.tag = NoTag /\ t.mode = "data"
IsFresh(t)       == IsPlainData(t) /\ t.scanned = 0 /\ t.lastSafe = 0
CloseCandidate(t) == t.mode = "tag" /\ t.closeOf # NoTag
InTextContext(t) == t.ctx.tag # NoTag \/ CloseCandidate(t)
\* The context the buffered text is in, also while its end tag is scanned.
TextContextOf(t) ==
  CASE t.ctx.tag # NoTag -> t.ctx
    [] t.ctx.tag = NoTag /\ CloseCandidate(t) -> Context(t.closeOf)
    [] OTHER -> NoContext

Back(n, len) == IF n > len THEN n - len ELSE 0
DiscardScanned(t, len) ==
  [t EXCEPT !.scanned = Back(@, len), !.lastSafe = Back(@, len), !.textClose = -1,
            !.open = IF t.mode \in {"tag", "comment"} THEN Back(@, len) ELSE 0,
            !.scan = IF t.mode = "tag" THEN @ ELSE "name",
            !.closeOf = IF t.mode = "tag" THEN @ ELSE NoTag]

-----------------------------------------------------------------------------
(* Emission. *)

EmitAll(t, tokens) == [t EXCEPT !.out = @ \o tokens]
\* owned_text_token / emit_text_token_with.
EmitText(t, bytes, ctx) ==
  LET s == Lossy(bytes)
  IN  EmitAll(t, <<TextToken(IF t.decode /\ DecodesEntities(ctx) THEN DecodeEntities(s) ELSE s)>>)
EmitNumber(t) == EmitAll([t EXCEPT !.number = NoNumber], <<TextToken(<<NumberChar(t.number)>>)>>)
\* process_chunk: a segment between safe boundaries is a document of its own.
EmitSegment(t, bytes) == EmitAll(t, Tokenize(bytes, t.decode))

\* Drop the first len bytes of the residual.
DropPrefix(t, len) == DiscardScanned([t EXCEPT !.residual = From(@, len)], len)

-----------------------------------------------------------------------------
(* feed *)

AfterDigits(chunk, n) == IF ByteAt(chunk, n) = ";" THEN n + 1 ELSE n
\* resume_numeric_entity: the digits at the head of the chunk belong to the
\* compacted reference; chunk is what is left of it.
ResumeNumber(t, chunk) ==
  LET stops  == {k \in 0 .. Len(chunk) : k = Len(chunk) \/ ~AcceptsDigit(t.number, chunk[k + 1])}
      n      == Min(stops)
      number == FoldLeft(PushDigit, t.number, Slice(chunk, 0, n))
  IN  CASE t.number = NoNumber -> [t |-> t, chunk |-> chunk]
        [] t.number # NoNumber /\ n = Len(chunk) -> [t |-> [t EXCEPT !.number = number], chunk |-> <<>>]
        [] OTHER -> [t |-> EmitNumber([t EXCEPT !.number = number]), chunk |-> From(chunk, AfterDigits(chunk, n))]

\* run_fast_path: at a fresh boundary the valid prefix of the buffer is
\* tokenized directly.  fast.valid is how much of the buffer is that prefix,
\* -1 before it was determined.
UseFast(t, fast) == fast.enabled /\ IsFresh(t) /\ ~t.overflow /\ t.closeOverflow = NoTag
FastInput(t, fast) ==
  Slice(t.residual, 0, IF fast.valid = -1 THEN Utf8PrefixLen(t.residual) ELSE fast.valid)
AfterFast(t, stop, input) ==
  [EmitAll(t, stop.out) EXCEPT
     !.residual = From(@, stop.consumed),
     !.ctx      = IF stop.end = "text_element" THEN Context(stop.tag) ELSE NoContext,
     !.scanned  = CASE stop.end = "undecided" -> stop.lt - stop.consumed
                    [] stop.end = "end" /\ ~stop.markup -> Len(input) - stop.consumed
                    [] OTHER -> 0]

\* What is emitted for the split the scan of u found.
EmitSplit(u) ==
  LET pending == Slice(u.residual, 0, u.lastSafe)
  IN  CASE u.closeOverflow # NoTag ->
             EmitAll([u EXCEPT !.closeOverflow = NoTag], <<TagToken("close", u.closeOverflow, <<>>)>>)
        [] u.closeOverflow = NoTag /\ u.overflow ->
             EmitText([u EXCEPT !.overflow = FALSE], pending, NoContext)
        [] u.closeOverflow = NoTag /\ ~u.overflow /\ u.textClose > 0 ->
             EmitSegment(EmitText(u, Slice(pending, 0, u.textClose), Context(u.closeOf)),
                         From(pending, u.textClose))
        [] OTHER -> EmitSegment(u, pending)

RECURSIVE FeedLoop(_, _)
\* u is the tokenizer after a scan.
EmitScanned(u, fast) ==
  IF u.lastSafe = 0 THEN u
  ELSE FeedLoop(DropPrefix(EmitSplit(u), u.lastSafe),
                [fast EXCEPT !.valid = IF @ = -1 THEN -1 ELSE Back(@, u.lastSafe)])
ScanAndEmit(t, fast) ==
  EmitScanned(Scan(t, t.residual, IF t.overflow THEN "overflow" ELSE IF fast.enabled THEN "first" ELSE "last"),
              fast)
RunFastPath(t, input, stop) ==
  IF input = <<>> THEN [t |-> t, fast |-> [enabled |-> FALSE, valid |-> 0]]
  ELSE [t |-> AfterFast(t, stop, input),
        fast |-> [enabled |-> stop.end = "text_element", valid |-> Len(input) - stop.consumed]]
FastPath(t, input) == RunFastPath(t, input, TokenizePrefix(input, t.decode))
AfterFastPath(r) == ScanAndEmit(r.t, r.fast)
FeedLoop(t, fast) ==
  AfterFastPath(IF UseFast(t, fast) THEN FastPath(t, FastInput(t, fast)) ELSE [t |-> t, fast |-> fast])

-----------------------------------------------------------------------------
(* The bounded flushes at the end of a feed. *)

\* utf8_prefix_boundary: not inside a character.
Utf8Boundary(d, desired) ==
  IF ByteAt(d, desired) = "C" /\ ByteAt(d, desired - 1) = "L" THEN desired - 1 ELSE desired

Prefix(n) == [len |-> n, number |-> NoNumber]
\* A reference that starts in the tail's reach is kept back whole.
NearReference(cut, amp) == Prefix(IF cut - amp <= TextTail THEN amp ELSE cut)
\* A digit run reaching beyond the cut is emitted whole, kept back or, at the
\* end of the buffer and too long for the tail, compacted into its value.
ReachesCut(n, cut, semi) == n.digits /\ (n.end > cut \/ (n.end = cut /\ semi))
NumericPlan(d, cut, amp, n, semi) ==
  CASE ~ReachesCut(n, cut, semi) -> NearReference(cut, amp)
    [] ReachesCut(n, cut, semi) /\ n.end < Len(d) -> Prefix(n.end + (IF semi THEN 1 ELSE 0))
    [] ReachesCut(n, cut, semi) /\ n.end = Len(d) /\ cut - amp > TextTail ->
         [len |-> amp, number |-> n.number]
    [] OTHER -> Prefix(amp)
NumericPlanAt(d, cut, amp, n) == NumericPlan(d, cut, amp, n, ByteAt(d, n.end) = ";")
\* text_flush_plan: how much text to emit without cutting a reference.
PlanAt(d, cut, amps, ctx) ==
  CASE cut = 0 \/ ~DecodesEntities(ctx) \/ amps = {} -> Prefix(cut)
    [] cut > 0 /\ DecodesEntities(ctx) /\ amps # {} /\ ByteAt(d, Max(amps) + 1) = "#" ->
         NumericPlanAt(d, cut, Max(amps), NumberAt(d, Max(amps) + 2))
    [] OTHER -> NearReference(cut, Max(amps))
PlanFrom(d, cut, ctx) == PlanAt(d, cut, {k \in 0 .. cut - 1 : d[k + 1] = "&"}, ctx)
TextFlushPlan(d, desired, ctx) == PlanFrom(d, Utf8Boundary(d, desired), ctx)
\* Seeded fault: without decoding, references need no protection.
PlanByDecoding(t, ctx) ==
  IF t.decode THEN TextFlushPlan(t.residual, Len(t.residual) - TextTail, ctx)
  ELSE Prefix(Utf8Boundary(t.residual, Len(t.residual) - TextTail))
FlushPlan(t, ctx) == TextFlushPlan(t.residual, Len(t.residual) - TextTail, ctx)

\* The text before the end tag that is being scanned; the rest of the buffer is
\* that unfinished tag.
TextBeforeClose(t) ==
  IF t.open = 0 THEN t ELSE EmitText(t, Slice(t.residual, 0, t.open), Context(t.closeOf))
\* discard_raw_close_prefix: only the identity of an overlong end tag is kept.
DiscardClosePrefix(t, len) == DropPrefix([t EXCEPT !.closeOverflow = t.closeOf], len)
TailStart(d) == IF Len(d) <= TextTail THEN 0 ELSE Utf8Boundary(d, Len(d) - TextTail)
\* Seeded fault: an end tag may grow.
KeepLongClose(t, limit, len) == t
DiscardLongClose(t, limit, len) ==
  IF Len(t.residual) > limit /\ len > 0 THEN DiscardClosePrefix(t, len) ELSE t
BoundClose(t, limit) == DiscardLongClose(t, limit, TailStart(t.residual))
FlushCloseCandidate(t, limit) == BoundClose(DropPrefix(TextBeforeClose(t), t.open), limit)

ApplyFlushPlan(t, plan, ctx) ==
  LET u == IF plan.len = 0 THEN t ELSE EmitText(t, Slice(t.residual, 0, plan.len), ctx)
  IN  IF plan.number = NoNumber THEN DropPrefix(u, plan.len)
      ELSE [DropPrefix(u, Len(t.residual)) EXCEPT !.number = plan.number]
FlushBoundedText(t) ==
  LET ctx   == TextContextOf(t)
      limit == IF ctx # NoContext THEN MaxRawResidual ELSE MaxResidual
      n     == Len(t.residual)
  IN  CASE ctx = NoContext /\ ~IsPlainData(t) -> t
        [] n <= limit \/ n <= TextTail -> t
        [] n > limit /\ n > TextTail /\ (ctx # NoContext \/ IsPlainData(t)) ->
             IF CloseCandidate(t) THEN FlushCloseCandidate(t, limit)
             ELSE ApplyFlushPlan(t, FlushPlan(t, ctx), ctx)

Overlong(t) ==
  t.overflow \/ (Len(t.residual) > MaxRawResidual /\ ~InTextContext(t) /\ ~IsPlainData(t))
EmitHead(t, len) ==
  IF len = 0 THEN t ELSE DropPrefix(EmitText(t, Slice(t.residual, 0, len), NoContext), len)
\* Seeded fault: what is left of the construct is scanned as data.
FlushAndForget(t) ==
  IF Overlong(t) THEN [EmitHead(t, TailStart(t.residual)) EXCEPT !.mode = "data"] ELSE t
FlushOverlongSyntax(t) ==
  IF Overlong(t) THEN EmitHead([t EXCEPT !.overflow = TRUE], TailStart(t.residual)) ELSE t

FeedRest(t, chunk) ==
  IF chunk = <<>> THEN t
  ELSE FlushOverlongSyntax(FlushBoundedText(
         FeedLoop([t EXCEPT !.residual = @ \o chunk], [enabled |-> TRUE, valid |-> -1])))
AfterNumber(r) == FeedRest(r.t, r.chunk)
Feed(t, bytes) == AfterNumber(ResumeNumber(t, bytes))

-----------------------------------------------------------------------------
(* finish *)

EmitRest(t) == IF t.residual = <<>> THEN t ELSE EmitSegment(t, t.residual)
FinishRest(t) ==
  LET rest == t.residual
      ctx  == TextContextOf(t)
  IN  CASE t.closeOverflow # NoTag -> t
        [] t.closeOverflow = NoTag /\ t.overflow ->
             IF rest = <<>> THEN t ELSE EmitText(t, rest, NoContext)
        [] t.closeOverflow = NoTag /\ ~t.overflow /\ CloseCandidate(t) -> TextBeforeClose(t)
        [] t.closeOverflow = NoTag /\ ~t.overflow /\ ~CloseCandidate(t) /\ ctx # NoContext ->
             IF rest = <<>> THEN t ELSE EmitText(t, rest, ctx)
        [] OTHER -> EmitRest(t)
Finish(t) ==
  LET u == FinishRest(IF t.number = NoNumber THEN t ELSE EmitNumber(t))
  IN  [NewTokenizer(t.decode) EXCEPT !.out = u.out]

-----------------------------------------------------------------------------
(***************************************************************************)
(* The machine.                                                            *)
(***************************************************************************)
VARIABLES scenario,   \* What is fed.
          tok,     \* the tokenizer, with everything it emitted
          raw,     \* the one that leaves text undecoded
          input,   \* history: the bytes fed
          ended,   \* finish was called
          left,    \* bound: the bytes that may still be fed
          cut      \* history: an oversized construct was turned into text
vars == <<scenario, tok, raw, input, ended, left, cut>>

Openings == Inputs[scenario].openings
Chunks   == Inputs[scenario].chunks

Init ==
  /\ scenario \in DOMAIN Inputs
  /\ tok = NewTokenizer(TRUE)
  /\ raw = NewTokenizer(FALSE)
  /\ input = <<>>
  /\ ended = FALSE
  /\ left = Inputs[scenario].length
  /\ cut = FALSE

FeedChunk(chunk) ==
  /\ ~ended
  /\ input # <<>> => Len(chunk) <= left
  /\ left' = IF input = <<>> THEN left ELSE left - Len(chunk)
  /\ tok' = Feed(tok, chunk)
  /\ raw' = Feed(raw, chunk)
  /\ input' = input \o chunk
  /\ cut' = (cut \/ tok'.overflow)
  /\ UNCHANGED <<scenario, ended>>

FinishInput ==
  /\ ~ended
  /\ tok' = Finish(tok)
  /\ raw' = Finish(raw)
  /\ ended' = TRUE
  /\ UNCHANGED <<scenario, input, left, cut>>

Next ==
  \/ \E chunk \in IF input = <<>> THEN Openings ELSE Chunks : FeedChunk(chunk)
  \/ FinishInput

Spec == Init /\ [][Next]_vars

-----------------------------------------------------------------------------
Offsets == 0 .. Len(tok.residual)
\* The tokenizer's fields and their relations: nothing scanned lies beyond the
\* buffer, and between calls no safe boundary is left unconsumed.
TypeOK ==
  /\ tok.mode \in {"data", "tag", "declaration", "comment", "cdata"}
  /\ tok.ctx.tag \in {NoTag, Plaintext} \union RawNames \union RcNames
  /\ tok.ctx.esc \in {"plain", "escaped", "double"}
  /\ tok.ctx.esc # "plain" => tok.ctx.tag = Script
  /\ tok.scanned \in Offsets
  /\ tok.lastSafe = 0 /\ tok.textClose = -1 /\ ~tok.halt
  /\ tok.number # NoNumber => tok.residual = <<>>
  /\ tok.closeOverflow # NoTag => CloseCandidate(tok) /\ tok.closeOf = tok.closeOverflow

\* However the input is cut, the tokens are those of the whole input: ending
\* the input now gives the one-shot tokenizer's tokens (`StreamTokenizer`:
\* "token boundaries that span chunk boundaries are handled correctly").
CutInvariant ==
  ~cut /\ ~ended => JoinText(Finish(tok).out) = JoinText(Tokenize(input, TRUE))

\* Nothing complete waits: markup is emitted by the feed that brings its last
\* byte, however it was cut. An observer that waits for a token, and the bound
\* on the buffer, rest on it.
Markup(tokens) == SelectSeq(tokens, LAMBDA k : k.kind # "text")
EmitsComplete ==
  ~cut /\ ~ended => Markup(tok.out) = Markup(OnDelimiters(Lossy(input), TRUE).out)

\* The buffer stays bounded (`buffered_len`), in plain text by the smaller limit.
MaxOf(a, b) == IF a >= b THEN a ELSE b
BufferBounded ==
  Len(tok.residual) <= IF IsPlainData(tok) THEN MaxOf(MaxResidual, 2 * TextTail)
                       ELSE MaxOf(MaxRawResidual, 2 * TextTail)

BufferSound == TypeOK /\ BufferBounded

\* with_undecoded_text splits text as the default does and never cuts a
\* reference: decoding its tokens one by one gives the default's tokens.
SplitAlike ==
  /\ Len(raw.out) = Len(tok.out)
  /\ \A k \in 1 .. Len(tok.out) :
       /\ raw.out[k].kind = tok.out[k].kind /\ raw.out[k].name = tok.out[k].name
       /\ tok.out[k].data \in {raw.out[k].data, DecodeEntities(raw.out[k].data)}

\* A construct that outgrows the buffer becomes text and ends where it really
\* ends: no tag, comment or declaration appears that is not in the input.
IsSubseqOf(a, b) ==
  LET match[i \in 0 .. Len(a)] ==   \* least prefix of b holding a's first i
        IF i = 0 THEN 0
        ELSE LET hits == {k \in match[i - 1] + 1 .. Len(b) : b[k] = a[i]}
             IN  IF hits = {} THEN Len(b) + 1 ELSE Min(hits)
  IN  match[Len(a)] <= Len(b)
NoMarkupEscapes ==
  ~ended => IsSubseqOf(Markup(Finish(tok).out), Markup(Tokenize(input, TRUE)))

\* However the input is cut, and whatever outgrows the buffer, the tokens are those
\* of the whole input, save that markup that was too large may have become text.
TokensOfInput == CutInvariant /\ NoMarkupEscapes

AllChunks == UNION {Inputs[s].openings \union Inputs[s].chunks : s \in DOMAIN Inputs}

\* The tokenizer implements the abstract token stream: what it gave out begins the
\* tokens of what it received, after every chunk, and is all of them in the end.
Stream == INSTANCE TokenStream WITH Chunks <- AllChunks, tokens <- JoinText(tok.out)
ImplementsStream == Stream!Spec

=============================================================================
