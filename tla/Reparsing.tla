----------------------------- MODULE Reparsing -----------------------------
(***************************************************************************)
(* A document and the text of its nodes through parses that reuse its      *)
(* arena (Document::reparse and parse in crates/fhp-tree/src/lib.rs, the   *)
(* buffers of arena.rs and the text insertion of builder.rs).              *)
(*                                                                         *)
(* Text that stands in the source as it is refers to the source; all other *)
(* text is in the slab.  The source is copied into the arena before the    *)
(* parse, or given to it afterwards: until then text that has to move from *)
(* the source to the slab is a gap to be filled.                           *)
(***************************************************************************)
EXTENDS Integers, Sequences, SequencesExt

CONSTANTS
  Inputs,        \* Sequences of tokens.
  MaxInputSize

(***************************************************************************)
(* A token is a kind and a text.  Plain text and CDATA are slices of the   *)
(* source, a reference is not; a custom element has its name in the slab.  *)
(***************************************************************************)
TextKinds == {"text", "cdata", "reference"}

\* How a token is written.
Written(token) ==
  CASE token.kind = "text"                              -> token.text
    [] token.kind = "cdata"                             -> <<"[">> \o token.text \o <<"]">>
    [] token.kind \in {"reference", "comment", "custom"} -> <<"&">> \o token.text
    [] token.kind = "element"                           -> <<"<">>

Source(tokens) == FlattenSeq([i \in DOMAIN tokens |-> Written(tokens[i])])

Owned == -1

\* Where the text of a token is in the source.
OffsetOf(tokens, i) ==
  CASE tokens[i].kind = "text"  -> Len(Source(SubSeq(tokens, 1, i - 1)))
    [] tokens[i].kind = "cdata" -> Len(Source(SubSeq(tokens, 1, i - 1))) + 1
    [] OTHER                    -> Owned

-----------------------------------------------------------------------------
(***************************************************************************)
(* Arena.  Offsets count from 0.                                           *)
(***************************************************************************)
Nul == "NUL"
Root == 1
NullId == 0

EmptyArena == [nodes |-> <<>>, slab |-> <<>>, source |-> <<>>, pending |-> <<>>]

Clear(arena) == EmptyArena

Node(kind, fromSource, offset, len) == [kind |-> kind, fromSource |-> fromSource, offset |-> offset, len |-> len]

AddNode(arena, node) == [arena EXCEPT !.nodes = Append(@, node)]
WithRoot(arena) == AddNode(arena, Node("root", FALSE, 0, 0))

Slice(chars, offset, len) == SubSeq(chars, offset + 1, offset + len)
Within(node, chars) == node.offset + node.len <= Len(chars)
Overlaps(gap, node) == gap.text < node.offset + node.len /\ node.offset < gap.text + gap.len

\* new_text, new_comment and the name of an unknown element.
AddSlabNode(arena, kind, text) ==
  AddNode([arena EXCEPT !.slab = @ \o text], Node(kind, FALSE, Len(arena.slab), Len(text)))

AddTextRef(arena, offset, len) == AddNode(arena, Node("text", TRUE, offset, len))

\* The text a node had in the source is copied into the slab, or its place is
\* kept free there.
MovedToSlab(arena, node, text) ==
  IF arena.source = <<>>
  THEN [arena EXCEPT
          !.slab = @ \o [i \in 1..node.len |-> Nul] \o text,
          !.pending = Append(@, [source |-> node.offset, text |-> Len(arena.slab), len |-> node.len])]
  ELSE [arena EXCEPT !.slab = @ \o Slice(arena.source, node.offset, node.len) \o text]

PromoteSourceText(arena, n, text) ==
  [MovedToSlab(arena, arena.nodes[n], text) EXCEPT
     !.nodes[n] = Node("text", FALSE, Len(arena.slab), arena.nodes[n].len + Len(text))]

Replaced(chars, offset, new) ==
  [i \in DOMAIN chars |-> IF i \in offset + 1 .. offset + Len(new) THEN new[i - offset] ELSE chars[i]]

ResolvePending(arena) ==
  [arena EXCEPT
     !.slab = FoldLeft(LAMBDA chars, gap : Replaced(chars, gap.text, Slice(arena.source, gap.source, gap.len)),
                       @, arena.pending),
     !.pending = <<>>]

SetSource(arena, source) == ResolvePending([arena EXCEPT !.source = source])

\* Arena::text, Nul where it refuses to read.
TextOf(arena, node) ==
  IF node.fromSource THEN Slice(arena.source, node.offset, node.len)
  ELSE IF \E i \in DOMAIN arena.pending : Overlaps(arena.pending[i], node) THEN <<Nul>>
  ELSE Slice(arena.slab, node.offset, node.len)

-----------------------------------------------------------------------------
VARIABLES
  arena,   \* The document's.
  root,    \* Its root, NullId while its arena is out with a builder.
  phase,   \* Is there a builder?
  input,   \* What is, or was last, parsed.
  taking,  \* Will the source be given to the arena afterwards?
  built,   \* The builder's arena.
  run,     \* last_text_node
  next,    \* The next token.
  result   \* What the last call returned.

vars == <<arena, root, phase, input, taking, built, run, next, result>>

\* A document begins as parse("").
Init ==
  /\ arena = WithRoot(EmptyArena) /\ root = Root
  /\ phase = "idle" /\ input = <<>> /\ taking = FALSE
  /\ built = EmptyArena /\ run = NullId /\ next = 1
  /\ result = "ok"

TooLarge(tokens) == Len(Source(tokens)) > MaxInputSize

Refuse ==
  /\ phase = "idle"
  /\ \E tokens \in Inputs : TooLarge(tokens) /\ input' = tokens
  /\ result' = "too_large"
  /\ UNCHANGED <<arena, root, phase, taking, built, run, next>>

\* The document is left without an arena, the builder has the cleared one.
Begin ==
  /\ phase = "idle"
  /\ \E tokens \in Inputs, take \in BOOLEAN :
       /\ ~ TooLarge(tokens)
       /\ input' = tokens /\ taking' = take
       /\ built' = IF take THEN WithRoot(Clear(arena)) ELSE SetSource(WithRoot(Clear(arena)), Source(tokens))
  /\ arena' = EmptyArena /\ root' = NullId
  /\ phase' = "building" /\ run' = NullId /\ next' = 1
  /\ result' = "none"

Building == phase = "building" /\ next <= Len(input)
Current == input[next]
Offset == OffsetOf(input, next)

IsTail(node) == node.offset + node.len = Len(built.slab)

\* Seeded fault: the text is taken to follow in the source wherever it is.
InSource(node) == Offset # Owned

Contiguous(node) == Offset # Owned /\ node.offset + node.len = Offset

Lengthened(n) == [built EXCEPT !.nodes[n].len = @ + Len(Current.text)]

TryCoalesce(n) ==
  CASE built.nodes[n].fromSource /\ Contiguous(built.nodes[n])   -> Lengthened(n)
    [] built.nodes[n].fromSource /\ ~ Contiguous(built.nodes[n]) -> PromoteSourceText(built, n, Current.text)
    [] ~ built.nodes[n].fromSource -> [Lengthened(n) EXCEPT !.slab = @ \o Current.text]

\* Text is extended at the end of the slab only, and moved there only from a
\* source that has it.
CanCoalesce(n) ==
  /\ n # NullId
  /\ IF built.nodes[n].fromSource
     THEN Contiguous(built.nodes[n]) \/ built.source = <<>> \/ Within(built.nodes[n], built.source)
     ELSE IsTail(built.nodes[n])

TrySourceRef ==
  IF Offset # Owned THEN AddTextRef(built, Offset, Len(Current.text))
  ELSE AddSlabNode(built, "text", Current.text)

InsertText ==
  /\ Building /\ Current.kind \in TextKinds
  /\ \/ CanCoalesce(run) /\ built' = TryCoalesce(run) /\ run' = run
     \/ ~ CanCoalesce(run) /\ built' = TrySourceRef /\ run' = Len(built'.nodes)
  /\ next' = next + 1
  /\ UNCHANGED <<arena, root, phase, input, taking, result>>

EndTextRun == run' = NullId

InsertMarkup ==
  /\ Building /\ Current.kind \notin TextKinds
  /\ EndTextRun
  /\ built' = IF Current.kind = "element" THEN AddNode(built, Node("element", FALSE, 0, 0))
              ELSE AddSlabNode(built, Current.kind, Current.text)
  /\ next' = next + 1
  /\ UNCHANGED <<arena, root, phase, input, taking, result>>

Finished == IF taking THEN SetSource(built, Source(input)) ELSE built

Finish ==
  /\ phase = "building" /\ next > Len(input)
  /\ arena' = Finished /\ root' = Root
  /\ phase' = "idle" /\ built' = EmptyArena /\ run' = NullId
  /\ result' = "ok"
  /\ UNCHANGED <<input, taking, next>>

\* The drop of Reparse.
InstallEmpty == arena' = WithRoot(EmptyArena) /\ root' = Root

\* A panic of the builder at any point.
Abandon ==
  /\ phase = "building"
  /\ InstallEmpty
  /\ phase' = "idle" /\ built' = EmptyArena /\ run' = NullId
  /\ result' = "failed"
  /\ UNCHANGED <<input, taking, next>>

Next == Refuse \/ Begin \/ InsertText \/ InsertMarkup \/ Finish \/ Abandon

Spec == Init /\ [][Next]_vars

-----------------------------------------------------------------------------
ArenaType(a) ==
  \A n \in DOMAIN a.nodes : ~ a.nodes[n].fromSource => Within(a.nodes[n], a.slab)

TypeOK ==
  /\ phase \in {"idle", "building"} /\ (root = NullId <=> phase = "building")
  /\ ArenaType(arena) /\ ArenaType(built)
  /\ run \in {NullId} \union DOMAIN built.nodes
  /\ next \in 1..Len(input) + 1

\* A document never has a text that cannot be read, and refers to nothing
\* outside its own source.
Readable ==
  phase = "idle" =>
    /\ arena.pending = <<>>
    /\ \A n \in DOMAIN arena.nodes : arena.nodes[n].fromSource => Within(arena.nodes[n], arena.source)

\* The text in which a run continues is the last of the slab or in the source:
\* a run never falls apart because its text cannot be extended in place.
RunStaysAtTail == Building /\ Current.kind \in TextKinds /\ run # NullId => CanCoalesce(run)

\* Every character is put into the slab at most once, for the source as well as
\* for decoded text, so the slab needs no more room than the decoded input.
SlabBounded ==
  phase = "building" => Len(built.slab) <= Len(FlattenSeq([i \in 1..next - 1 |-> input[i].text]))

\* Text is never out of reach, moved in vain or copied twice.
TextSound == TypeOK /\ Readable /\ RunStaysAtTail /\ SlabBounded

-----------------------------------------------------------------------------
(***************************************************************************)
(* The nodes an input stands for: one node for each token, but one for all *)
(* of a run of text.                                                       *)
(***************************************************************************)
NodeOf(token) ==
  CASE token.kind \in TextKinds -> <<"text", token.text>>
    [] token.kind = "element"   -> <<"element", <<>>>>
    [] OTHER                    -> <<token.kind, token.text>>

Joined(nodes, node) ==
  IF node[1] = "text" /\ Last(nodes)[1] = "text"
  THEN [nodes EXCEPT ![Len(nodes)] = <<"text", @[2] \o node[2]>>]
  ELSE Append(nodes, node)

NodesOf(tokens) ==
  FoldLeft(LAMBDA nodes, token : Joined(nodes, NodeOf(token)), <<<<"root", <<>>>>>>, tokens)

SizeOf(tokens) == Len(Source(tokens))

Content(a) == [n \in DOMAIN a.nodes |-> <<a.nodes[n].kind, TextOf(a, a.nodes[n])>>]

A == INSTANCE AtomicReparse WITH
       content <- Content(arena),
       asked <- input,
       answer <- result

\* Whatever was parsed before and however it ended, a reparse leaves what the
\* input says, or an empty document, or the old one when it refuses.
ImplementsAtomicReparse == A!Spec
=============================================================================
