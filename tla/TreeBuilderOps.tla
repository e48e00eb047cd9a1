--------------------------- MODULE TreeBuilderOps ---------------------------
(***************************************************************************)
(* The token handlers of the tree builder                                  *)
(* (crates/fhp-tree/src/builder.rs) as functions from builder to builder.  *)
(*                                                                         *)
(* A builder `b` is a record:                                              *)
(*   nodes, stale    the arena (ArenaOps) and its stale-depth mark         *)
(*   open            open_elements, kind_counts, insertion_mode            *)
(*   newline_skip    "None", "Newline" or "LineFeedAfterCr"                *)
(*   after_body      after_body_comment_parent, NULL for None              *)
(*   last_text       last_text_node                                        *)
(*   pending         pending_table_text                                    *)
(*   foster_run      table_text_run_foster                                 *)
(*   created         created_elements                                      *)
(*   flushed         flushed_text_node, NULL for None                      *)
(*   ret             what the handler returned, NULL for None              *)
(*                                                                         *)
(* Character data is a sequence of the characters the rules tell apart:    *)
(* "sp" (blank), "lf", "cr", "x" (anything else), and "ref_lf", "ref_cr"   *)
(* (a newline written as a character reference).  Attributes are one       *)
(* value per element: "none", "hidden" (type=hidden) or any other.         *)
(***************************************************************************)
EXTENDS ArenaOps, OpenElementsOps, SequencesExt

CONSTANTS
  OuterLoops,  \* Turns of the adoption agency's outer loop.
  NoahsArk     \* Identical formatting elements one end tag reopens.

ASSUME OuterLoopsAssumption == OuterLoops \in Nat
ASSUME NoahsArkAssumption == NoahsArk \in Nat \ {0}

Whitespace == {"sp", "lf", "cr", "ref_lf", "ref_cr"}

IsBlank(content) == \A i \in 1..Len(content) : content[i] \in Whitespace

\* What the arena stores: references are decoded.
Decoded(content) ==
  [i \in 1..Len(content) |-> CASE content[i] = "ref_lf" -> "lf"
                               [] content[i] = "ref_lt" -> "lt"
                               [] content[i] = "ref_cr" -> "cr"
                               [] OTHER -> content[i]]

\* Elements whose text the builder does not decode.
OpensRawText(name) ==
  name \in {"script", "style", "iframe", "xmp", "noembed", "noframes", "plaintext"}

DropsLeadingNewline(name) == name \in {"pre", "textarea", "listing"}

RootEntry ==
  [id |-> RootId, name |-> RootName, kind |-> "Root", mode |-> "InBody", children |-> 0]

EmptyBuilder ==
  [nodes |-> <<BlankNode("element", RootName, "none", <<>>, 0)>>,
   stale |-> NotStale,
   open  |-> [stack  |-> <<RootEntry>>,
              counts |-> [kind \in Kinds |-> IF kind = "Root" THEN 1 ELSE 0],
              mode   |-> "InBody"],
   newline_skip |-> "None", after_body |-> NULL, last_text |-> NULL,
   pending |-> <<>>, foster_run |-> FALSE, created |-> <<>>,
   flushed |-> NULL, ret |-> NULL]

-----------------------------------------------------------------------------
(***************************************************************************)
(* Insertion locations and attachment.                                     *)
(***************************************************************************)
AppendTo(parent) == [parent |-> parent, before |-> NULL]

CurrentParent(b) == Top(b.open).id

IsCurrent(b, n) == CurrentParent(b) = n

OpenIds(b) == {b.open.stack[i].id : i \in 1..Len(b.open.stack)}

\* Stack index of a node, 0 if it is not open.
EntryOf(b, n) ==
  LET isNode(i) == b.open.stack[i].id = n IN Innermost(b.open, 1, isNode)

FosterLocation(b) ==
  LET at    == LastOfKind(b.open, "Table")
      table == b.open.stack[at].id
  IN  IF at = 0 THEN AppendTo(CurrentParent(b))
      ELSE IF b.nodes[table].parent = NULL THEN AppendTo(RootId)
      ELSE [parent |-> b.nodes[table].parent, before |-> table]

\* Where content goes: `foster` only counts while a table part is current.
LocationFor(b, foster) ==
  IF foster /\ CurrentNodeIsTablePart(b.open) THEN FosterLocation(b)
                                              ELSE AppendTo(CurrentParent(b))

LinkAt(ns, n, location) ==
  IF location.before = NULL THEN AppendSubtree(ns, location.parent, n)
                            ELSE InsertSubtreeBefore(ns, location.parent, location.before, n)

\* One more child of the entry at `at`, if it is open.
CountChild(o, at) == IF at = 0 THEN o ELSE [o EXCEPT !.stack[at].children = @ + 1]

\* The index of n, an element linked at the location, and of those after it.
NumberElement(ns, n, location, o, at) ==
  IF location.before # NULL
  THEN [ShiftElementIndices(ns, location.before, 1) EXCEPT ![n].index = ns[location.before].index]
  ELSE IF at = 0 THEN RecomputeElementIndices(ns, location.parent)
  ELSE [ns EXCEPT ![n].index = o.stack[at].children + 1]

RegisterChild(b, n, location, at) ==
  [b EXCEPT !.open  = CountChild(@, at),
            !.nodes = NumberElement(@, n, location, b.open, at)]

\* Seeded fault: only the current node's child count is kept.
RegisterCurrentOnly(b, n, location) ==
  RegisterChild(b, n, location, IF IsCurrent(b, location.parent) THEN Len(b.open.stack) ELSE 0)

\* Keep the element indices and the open parent's child count exact after n
\* was linked at the location.
RegisterAttachedElement(b, n, location) ==
  RegisterChild(b, n, location, EntryOf(b, location.parent))

\* attach_element and attach_moved_element.
AttachElement(b, n, location) ==
  RegisterAttachedElement([b EXCEPT !.nodes = LinkAt(@, n, location)], n, location)

Entry(n, name) ==
  [id |-> n, name |-> name, kind |-> Classify(name), mode |-> "InBody", children |-> 0]

\* Seeded fault: no nesting limit.
OpenAtAnyDepth(b, name) ==
  IF IsVoid(name) THEN b ELSE [b EXCEPT !.open = PushEntry(@, Entry(b.ret, name))]

\* The new element stays empty and unopened when it is void or MaxDepth
\* elements are open already.
OpenUnlessFull(b, name) ==
  IF ~ IsVoid(name) /\ Len(b.open.stack) <= MaxDepth
  THEN [b EXCEPT !.open = PushEntry(@, Entry(b.ret, name))]
  ELSE b

NewElement(b, name, attrs, depth) ==
  [b EXCEPT !.nodes = Append(@, BlankNode("element", name, attrs, <<>>, depth)),
            !.ret   = Len(b.nodes) + 1]

\* `ret` is the new node.
InsertElement(b, name, attrs, location) ==
  OpenUnlessFull(AttachElement(NewElement(b, name, attrs, b.nodes[location.parent].depth + 1),
                               Len(b.nodes) + 1, location),
                 name)

\* Seeded fault: the observer is not told.
InsertUnreported(b, name) == InsertElement(b, name, "none", AppendTo(CurrentParent(b)))

ReportCreated(b) == [b EXCEPT !.created = Append(@, b.ret)]

InsertImplied(b, name) ==
  ReportCreated(InsertElement(b, name, "none", AppendTo(CurrentParent(b))))

\* pop_if_open of the element just inserted.
PopInserted(b) == IF IsCurrent(b, b.ret) THEN [b EXCEPT !.open = PopOpenElement(@)] ELSE b

-----------------------------------------------------------------------------
(***************************************************************************)
(* Character data.                                                         *)
(***************************************************************************)
\* Seeded fault: text joins the last text node of its run, wherever that is.
JoiningAnywhere(b, location) == b.last_text

\* The text node the run has reached, if the new text would directly follow it.
CoalescingNode(b, location) ==
  LET previous == IF location.before = NULL THEN b.nodes[location.parent].last
                                            ELSE b.nodes[location.before].prev
  IN  IF previous = b.last_text THEN previous ELSE NULL

NewText(b, content, location) ==
  LET n     == Len(b.nodes) + 1
      depth == b.nodes[location.parent].depth + 1
      fresh == Append(b.nodes, BlankNode("text", "", "none", content, depth))
  IN  [b EXCEPT !.nodes = LinkAt(fresh, n, location), !.last_text = n, !.ret = n]

InsertTextAt(b, content, location) ==
  LET target == CoalescingNode(b, location)
  IN  IF target = NULL THEN NewText(b, content, location)
      ELSE [b EXCEPT !.nodes[target].text = @ \o content, !.ret = target]

InsertText(b, content, foster) == InsertTextAt(b, Decoded(content), LocationFor(b, foster))

\* Whitespace held back in a table is inserted in place and reported apart from
\* what the handler returns.
MarkFlushed(b, ret) == [b EXCEPT !.pending = <<>>, !.flushed = b.ret, !.ret = ret]

FlushPendingTableText(b) ==
  IF b.pending = <<>> THEN b ELSE MarkFlushed(InsertText(b, b.pending, FALSE), b.ret)

EndTextRun(b) ==
  [FlushPendingTableText(b) EXCEPT
     !.last_text = NULL, !.foster_run = FALSE, !.newline_skip = "None"]

\* Seeded fault: a CRLF cut in two is not recognised.
SkipWholeNewline(skip, content) ==
  LET crlf == Len(content) > 1 /\ content[1] = "cr" /\ content[2] = "lf"
      kept(from) == [text |-> SubSeq(content, from, Len(content)), skip |-> "None"]
  IN  CASE skip = "Newline" /\ crlf -> kept(3)
        [] skip = "Newline" /\ ~ crlf /\ content[1] \in {"cr", "lf", "ref_lf"} -> kept(2)
        [] OTHER -> kept(1)

\* What is left of the first text after a `pre`, and the skip state after it.
SkipLeadingNewline(skip, content) ==
  LET newline(c) == c \in {"lf", "ref_lf"}
      crlf == Len(content) > 1 /\ content[1] = "cr" /\ content[2] = "lf"
      kept(from) == [text |-> SubSeq(content, from, Len(content)), skip |-> "None"]
  IN  CASE skip = "Newline" /\ crlf -> kept(3)
        [] skip = "Newline" /\ ~ crlf /\ content[1] = "cr" ->
             [kept(2) EXCEPT !.skip = IF Len(content) = 1 THEN "LineFeedAfterCr" ELSE "None"]
        [] skip = "Newline" /\ newline(content[1]) -> kept(2)
        [] skip = "LineFeedAfterCr" /\ content[1] = "lf" -> kept(2)
        [] OTHER -> kept(1)

\* Seeded fault: blanks held back earlier in the run are forgotten.
TableTextForgetting(b, content) ==
  IF b.foster_run THEN InsertText(b, content, TRUE)
  ELSE IF IsBlank(content) THEN [b EXCEPT !.pending = @ \o content]
  ELSE InsertText([b EXCEPT !.foster_run = TRUE, !.pending = <<>>], content, TRUE)

\* Text while a table part is current: blanks wait until the run decides
\* whether it is fostered as a whole.
HandleTableText(b, content) ==
  IF b.foster_run THEN InsertText(b, content, TRUE)
  ELSE IF IsBlank(content) THEN [b EXCEPT !.pending = @ \o content]
  ELSE InsertText([b EXCEPT !.foster_run = TRUE, !.pending = <<>>],
                  b.pending \o content, TRUE)

HandleSettledText(b, content) ==
  IF CurrentNodeIsTablePart(b.open) THEN HandleTableText(b, content)
                                    ELSE InsertText(b, content, FALSE)

\* Leading blanks belong to the column group; the rest closes it.
LeaveColumnGroup(b, content) ==
  IF IsCurrentKind(b.open, "ColGroup")
  THEN HandleSettledText([b EXCEPT !.open = PopOpenElement(@)], content)
  ELSE InsertText(b, content, FALSE)

HandleColumnGroupText(b, content) ==
  LET split == FirstOf({i \in 1..Len(content) : content[i] \notin Whitespace})
      blank == IF split = 0 THEN content ELSE SubSeq(content, 1, split - 1)
      led   == IF blank = <<>> THEN b ELSE InsertText(b, blank, FALSE)
  IN  IF split = 0 THEN led
      ELSE LeaveColumnGroup(led, SubSeq(content, split, Len(content)))

HandleText(b, source) ==
  LET skipped == SkipLeadingNewline(b.newline_skip, source)
      content == skipped.text
      next == [b EXCEPT !.newline_skip = skipped.skip,
                        !.after_body = IF IsBlank(content) THEN @ ELSE NULL]
  IN  IF source = <<>> THEN b
      ELSE IF content = <<>> THEN next
      ELSE IF b.open.mode = "InColumnGroup" THEN HandleColumnGroupText(next, content)
      ELSE HandleSettledText(next, content)

-----------------------------------------------------------------------------
(***************************************************************************)
(* Comments and doctypes.                                                  *)
(***************************************************************************)
InsertLeaf(b, type, parent) ==
  LET n     == Len(b.nodes) + 1
      fresh == Append(b.nodes, BlankNode(type, "", "none", <<>>, b.nodes[parent].depth + 1))
  IN  [b EXCEPT !.nodes = AppendSubtree(fresh, parent, n), !.ret = n]

InsertComment(b, after_body) ==
  InsertLeaf(b, "comment", IF after_body = NULL THEN CurrentParent(b) ELSE after_body)

HandleComment(b) == InsertComment(EndTextRun(b), b.after_body)

HandleDoctype(b) == InsertLeaf(EndTextRun(b), "doctype", CurrentParent(b))

-----------------------------------------------------------------------------
(***************************************************************************)
(* Formatting elements: the adoption agency.                               *)
(***************************************************************************)
FormattingIdentity(b, entry) == <<entry.name, b.nodes[entry.id].attrs>>

\* Of the entries a formatting end tag closes, the formatting ones reopen of
\* which at most NoahsArk identical ones are closed from there on.
ApplyNoahsArk(b, i) ==
  LET same(j) == /\ b.open.stack[j].kind = "Formatting"
                 /\ FormattingIdentity(b, b.open.stack[j]) = FormattingIdentity(b, b.open.stack[i])
  IN  /\ b.open.stack[i].kind = "Formatting"
      /\ Cardinality({j \in i..Len(b.open.stack) : same(j)}) <= NoahsArk

\* Clone a closed formatting element at the current insertion point and open
\* the clone; unlike InsertElement, without looking at the nesting limit.
ReopenAt(b, entry, location) ==
  LET n      == Len(b.nodes) + 1
      depth  == b.nodes[location.parent].depth + 1
      cloned == [b EXCEPT !.nodes = CloneElementShallow(@, entry.id, depth),
                          !.created = Append(@, n)]
  IN  [AttachElement(cloned, n, location) EXCEPT
         !.open = PushEntry(@, [entry EXCEPT !.id = n, !.children = 0])]

Reopen(b, closed) ==
  IF closed.reopens THEN ReopenAt(b, closed.entry, LocationFor(b, TRUE)) ELSE b

\* The entries above f, each with whether it reopens.
ClosedAbove(b, f) ==
  [i \in 1..Len(b.open.stack) - f |->
     [entry |-> b.open.stack[f + i], reopens |-> ApplyNoahsArk(b, f + i)]]

\* Seeded fault: the closed element itself is reopened too.
CloseAndReopen(b, f) ==
  FoldLeft(Reopen, [b EXCEPT !.open = TruncateStack(@, f - 1)], ClosedAbove(b, f - 1))

CloseFormattingElement(b, f) ==
  FoldLeft(Reopen, [b EXCEPT !.open = TruncateStack(@, f - 1)], ClosedAbove(b, f))

\* Seeded fault: the clones are listed inside out.
WrapInsideOut(chain, entry) ==
  LET n == Len(chain.nodes) + 1
      cloned == AppendSubtree(CloneElementShallow(chain.nodes, entry.id, 0), n, chain.outer)
  IN  [nodes   |-> [cloned EXCEPT ![chain.outer].index = 1],
       outer   |-> n,
       entries |-> chain.entries \o <<[entry EXCEPT !.id = n, !.children = 1]>>]

\* Wrap the detached subtree `chain.outer` into a clone of `entry`.
WrapInClone(chain, entry) ==
  LET n == Len(chain.nodes) + 1
      cloned == AppendSubtree(CloneElementShallow(chain.nodes, entry.id, 0), n, chain.outer)
  IN  [nodes   |-> [cloned EXCEPT ![chain.outer].index = 1],
       outer   |-> n,
       entries |-> <<[entry EXCEPT !.id = n, !.children = 1]>> \o chain.entries]

\* The furthest block, detached and wrapped into clones of the formatting
\* elements that stay between it and the formatting element.
AdoptionChain(b, f, at) ==
  LET positions == ChainPositions(b.open, f, at)
      furthest  == b.open.stack[at].id
      insideOut == [i \in 1..Len(positions) |-> b.open.stack[positions[Len(positions) + 1 - i]]]
  IN  FoldLeft(WrapInClone,
               [nodes |-> Detach(b.nodes, furthest), outer |-> furthest, entries |-> <<>>],
               insideOut)

\* A clone of the formatting element takes over the furthest block's children
\* and becomes its only child.
ReplaceContent(ns, formatting, furthest) ==
  LET clone == Len(ns) + 1
      moved == MoveChildren(CloneElementShallow(ns, formatting, 0), furthest, clone)
  IN  [AppendSubtree(moved, furthest, clone) EXCEPT ![clone].index = 1]

AdoptionLocation(b, f) ==
  IF b.open.stack[f - 1].kind \in TablePartKinds THEN FosterLocation(b)
                                                 ELSE AppendTo(b.open.stack[f - 1].id)

\* The stack after the move; `clone` opens right above the furthest block.
ReplaceEntries(b, f, at, entries, clone) ==
  LET formatting == b.open.stack[f]
      furthest   == b.open.stack[at]
  IN  [b EXCEPT
         !.open = AdoptedStack(@, f, at, entries,
                               [furthest EXCEPT !.children = 1],
                               [formatting EXCEPT !.id = clone, !.children = furthest.children])]

\* The moved children shift by the change of the clone's depth: the open ones
\* are repaired at once, all others marked stale.
RepairDepths(b, clone, depth, above) ==
  IF b.nodes[clone].first # NULL /\ b.nodes[clone].depth # depth
  THEN [b EXCEPT !.nodes = FoldLeft(SetDepthBelowParent, @, above),
                 !.stale = [before |-> Len(b.nodes), exact |-> OpenIds(b)]]
  ELSE b

MoveIntoClones(b, f, at, chain) ==
  LET furthest == b.open.stack[at]
      clone    == Len(chain.nodes) + 1
      chainIds == [i \in 1..Len(chain.entries) |-> chain.entries[i].id]
      above    == [i \in 1..Len(b.open.stack) - at |-> b.open.stack[at + i].id]
      refilled == [b EXCEPT
                     !.nodes   = ReplaceContent(chain.nodes, b.open.stack[f].id, furthest.id),
                     !.created = @ \o chainIds \o <<clone>>]
      placed   == AttachElement(refilled, chain.outer, AdoptionLocation(b, f))
      deepened == [placed EXCEPT
                     !.nodes = FoldLeft(SetDepthBelowParent, @,
                                        chainIds \o <<furthest.id, clone>>)]
  IN  RepairDepths(ReplaceEntries(deepened, f, at, chain.entries, clone),
                   clone, b.nodes[furthest.id].depth, above)

AdoptFurthestBlock(b, f, at) == MoveIntoClones(b, f, at, AdoptionChain(b, f, at))

\* One turn of the outer loop; `more` tells whether the loop goes on.
AdoptionTurn(s, name) ==
  LET f  == FindNamedInScope(s.b.open, name, "Standard")
      at == FurthestBlock(s.b.open, f)
  IN  IF ~ s.more \/ f = 0 THEN [s EXCEPT !.more = FALSE]
      ELSE IF at = 0 THEN [b |-> CloseFormattingElement(s.b, f), more |-> FALSE]
      ELSE [s EXCEPT !.b = AdoptFurthestBlock(s.b, f, at)]

AdoptionClose(b, name) ==
  FoldLeft(AdoptionTurn, [b |-> b, more |-> KindIsOpen(b.open, "Formatting")],
           [i \in 1..OuterLoops |-> name]).b

-----------------------------------------------------------------------------
(***************************************************************************)
(* Start tags.                                                             *)
(***************************************************************************)
\* The kind of element a start tag closes before it is processed again, or
\* "None" when it is processed where it is.
StartTagCloses(o, name) ==
  LET kind == Classify(name)
  IN  CASE /\ o.mode = "InSelect"
           /\ \/ name \in SelectBreakoutNames
              \/ KindIsOpen(o, "Table") /\ kind \in SelectInTableBreakoutKinds -> "Select"
        [] o.mode = "InCell" /\ kind \in TableSectionKinds -> "Cell"
        [] o.mode = "InCaption" /\ kind \in TableSectionKinds -> "Caption"
        [] o.mode = "InColumnGroup" /\ kind # "Column" -> "ColGroup"
        [] o.mode = "InRow" /\ kind \in (TableSectionKinds \cup {"Table"}) \ {"Cell"} -> "Row"
        [] o.mode = "InTableBody"
             /\ kind \in (TableSectionKinds \cup {"Table"}) \ {"Cell", "Row"} -> "TableBody"
        [] OTHER -> "None"

\* Seeded fault: only the current node is closed before the tag is reprocessed.
ClosedIfCurrent(o, kind) == IF kind = "None" THEN o ELSE PopIfCurrent(o, kind)

ClosedForReprocess(o, kind) ==
  CASE kind = "None" -> o
    [] kind = "ColGroup" -> PopIfCurrent(o, kind)
    [] OTHER -> CloseLastKind(o, kind)

\* The stack on which the start tag is finally processed: each reprocessing
\* closes an element, so as many turns as there are entries are enough.
StartTagTurn(o, name) == ClosedForReprocess(o, StartTagCloses(o, name))

SettleStartTag(o, name) == FoldLeft(StartTagTurn, o, [i \in 1..Len(o.stack) |-> name])

StartTagIgnored(o, name) ==
  LET kind == Classify(name)
  IN  \/ o.mode = "InSelect" /\ kind \notin {"Option", "OptGroup"} /\ name # "script"
      \/ o.mode = "InColumnGroup" /\ kind # "Column"
      \/ o.mode = "InBody" /\ kind \in TableSectionKinds

\* The table or select context a start tag needs: clear the stack back to the
\* innermost table part, and insert the parts between it and the tag.
PartOfMode == [InTable |-> "Table", InTableBody |-> "TableBody", InRow |-> "Row"]

ImpliedParts(mode, kind) ==
  CASE mode = "InTable" /\ kind = "Row" -> <<"tbody">>
    [] mode = "InTable" /\ kind = "Cell" -> <<"tbody", "tr">>
    [] mode = "InTable" /\ kind = "Column" -> <<"colgroup">>
    [] mode = "InTableBody" /\ kind = "Cell" -> <<"tr">>
    [] OTHER -> <<>>

ContextStack(o, kind) ==
  CASE o.mode \in DOMAIN PartOfMode /\ kind \in TableSectionKinds ->
         ClearBackTo(o, PartOfMode[o.mode])
    [] o.mode = "InTable" /\ kind = "Table" -> CloseLastKind(o, "Table")
    [] o.mode = "InSelect" /\ kind = "Option" -> PopIfCurrent(o, "Option")
    [] o.mode = "InSelect" /\ kind = "OptGroup" ->
         PopIfCurrent(PopIfCurrent(o, "Option"), "OptGroup")
    [] OTHER -> o

EnterContext(b, kind) ==
  FoldLeft(InsertImplied, [b EXCEPT !.open = ContextStack(@, kind)],
           ImpliedParts(b.open.mode, kind))

\* Content that is no part of a table is fostered out of it, except what HTML
\* keeps inside.
Fosters(o, name, attrs) ==
  /\ o.mode \in {"InTable", "InTableBody", "InRow"}
  /\ Classify(name) \notin TableSectionKinds \cup {"Table"}
  /\ name \notin {"script", "style"}
  /\ ~ (name = "input" /\ attrs = "hidden")

CloseOpenItem(o, kind) ==
  IF kind \in {"ListItem", "DefinitionItem"} THEN CloseListItemStart(o, kind) ELSE o

CloseOpenParagraph(o, name) ==
  IF ClosesP(name) \/ Classify(name) \in {"Paragraph", "ListItem", "DefinitionItem", "Plaintext"}
  THEN CloseInScope(o, "Paragraph", "Button")
  ELSE o

CloseCurrentOfKind(o, kind) ==
  CASE kind = "Heading" -> PopIfCurrent(o, "Heading")
    [] kind \in {"Option", "OptGroup"} -> PopIfCurrent(o, "Option")
    [] OTHER -> o

ApplyBodyImplicitClose(o, name) ==
  CloseCurrentOfKind(CloseOpenParagraph(CloseOpenItem(o, Classify(name)), name), Classify(name))

\* Close what the new element cannot be inside of; a nested anchor start runs
\* the adoption agency for the anchor around it.
AdoptAnchor(b, name) == IF name = "a" THEN AdoptionClose(b, name) ELSE b

CloseImplicitly(b, name) == [b EXCEPT !.open = ApplyBodyImplicitClose(@, name)]

InsertHere(b, name, attrs, foster) == InsertElement(b, name, attrs, LocationFor(b, foster))

\* Only an element that opened receives the content after it.
ExpectNewline(b, name) ==
  IF IsCurrent(b, b.ret) /\ DropsLeadingNewline(name)
  THEN [b EXCEPT !.newline_skip = "Newline"]
  ELSE b

InsertPrepared(b, name, attrs, foster) ==
  ExpectNewline(InsertHere(CloseImplicitly(AdoptAnchor(b, name), name), name, attrs, foster), name)

\* A form in a table is inserted empty and closed at once.
InsertStartTag(b, name, attrs) ==
  IF Fosters(b.open, name, attrs) /\ name = "form"
  THEN PopInserted(InsertHere(b, name, attrs, FALSE))
  ELSE InsertPrepared(EnterContext(b, Classify(name)), name, attrs, Fosters(b.open, name, attrs))

\* The tag on the stack on which it is finally processed.
HandleSettledOpenTag(b, name, attrs) ==
  IF ~ StartTagIgnored(b.open, name) THEN InsertStartTag(b, name, attrs)
  ELSE IF b.open.mode = "InSelect" /\ Classify(name) = "Select"
  THEN [b EXCEPT !.open = CloseLastKind(@, "Select")]
  ELSE b

HandleOpenTag(b, name, attrs) ==
  HandleSettledOpenTag([EndTextRun(b) EXCEPT !.after_body = NULL,
                                             !.open = SettleStartTag(@, name)],
                       name, attrs)

-----------------------------------------------------------------------------
(***************************************************************************)
(* End tags.                                                               *)
(***************************************************************************)
EndTagMatchesCurrent(o, name) == Len(o.stack) > 1 /\ Top(o).name = name

\* The kind of element an end tag closes before it is processed again.
EndTagCloses(o, name) ==
  LET kind == Classify(name)
  IN  CASE IsVoid(name) \/ EndTagMatchesCurrent(o, name) -> "None"
        [] /\ o.mode = "InSelect"
           /\ KindIsOpen(o, "Table")
           /\ kind \in SelectInTableBreakoutKinds
           /\ FindNamedInScope(o, name, "Table") # 0 -> "Select"
        [] o.mode = "InColumnGroup" /\ kind \notin {"ColGroup", "Column"} -> "ColGroup"
        [] OTHER -> "None"

EndTagTurn(o, name) == ClosedForReprocess(o, EndTagCloses(o, name))

SettleEndTag(o, name) == FoldLeft(EndTagTurn, o, [i \in 1..Len(o.stack) |-> name])

\* `</body>` and `</html>` close nothing; only later comments move.
EndBody(b, name) ==
  LET isHtml(i) == b.open.stack[i].name = "html"
      html == FirstOf({i \in 1..Len(b.open.stack) : isHtml(i)})
      target == IF name = "html" \/ html = 0 THEN RootId ELSE b.open.stack[html].id
  IN  IF FindNamedInScope(b.open, "body", "Standard") = 0 THEN b
      ELSE [b EXCEPT !.after_body = target]

EndSelectContent(o, kind) ==
  CASE kind = "Option" -> CloseLastKind(o, "Option")
    [] kind = "OptGroup" -> CloseLastKind(CloseLastKind(o, "Option"), "OptGroup")
    [] kind = "Select" -> CloseLastKind(o, "Select")
    [] OTHER -> o

\* `</p>` without an open paragraph inserts an empty one.
InsertEmptyParagraph(b) == PopInserted(InsertHere(b, "p", "none", TRUE))

CloseByKind(o, name) ==
  LET kind == Classify(name)
  IN  CASE kind \in {"Cell", "Row", "TableBody", "Table", "Caption"} -> CloseInScope(o, kind, "Table")
        [] kind = "ColGroup" -> PopIfCurrent(o, kind)
        [] kind = "Column" -> o
        [] kind = "Paragraph" -> CloseInScope(o, kind, "Button")
        [] kind = "ListItem" -> CloseInScope(o, kind, "ListItem")
        [] kind = "DefinitionItem" -> CloseFrom(o, FindNamedInScope(o, name, "Standard"))
        [] kind = "Heading" -> CloseInScope(o, kind, "Standard")
        [] OTHER -> CloseMatching(o, name)

InBody(o) == o.mode \notin {"InSelect", "InColumnGroup"}

HandleSettledCloseTag(b, name) ==
  LET kind == Classify(name)
      isBody == name \in {"body", "html"} /\ InBody(b.open)
  IN  IF isBody THEN EndBody(b, name)
      ELSE IF IsVoid(name) THEN b
      ELSE IF EndTagMatchesCurrent(b.open, name) THEN [b EXCEPT !.open = PopOpenElement(@)]
      ELSE IF b.open.mode = "InSelect" THEN [b EXCEPT !.open = EndSelectContent(@, kind)]
      ELSE IF b.open.mode = "InColumnGroup" /\ kind \notin {"ColGroup", "Column"} THEN b
      ELSE IF kind = "Formatting" THEN AdoptionClose(b, name)
      ELSE IF kind = "Paragraph" /\ FindInScope(b.open, kind, "Button") = 0
      THEN InsertEmptyParagraph(b)
      ELSE [b EXCEPT !.open = CloseByKind(@, name)]

\* `</br>` is parsed as a `<br>` start tag.
HandleCloseTag(b, name) ==
  LET isBody == name \in {"body", "html"} /\ InBody(b.open)
  IN  IF name = "br" THEN HandleOpenTag(b, "br", "none")
      ELSE HandleSettledCloseTag([EndTextRun(b) EXCEPT
                                    !.after_body = IF isBody THEN @ ELSE NULL,
                                    !.open = SettleEndTag(@, name)],
                                 name)

-----------------------------------------------------------------------------
(***************************************************************************)
(* Tokens.                                                                 *)
(***************************************************************************)
StartTag(name, attrs) == [type |-> "start", name |-> name, attrs |-> attrs]
EndTag(name) == [type |-> "end", name |-> name]
Text(content) == [type |-> "text", content |-> content]
CommentToken == [type |-> "comment"]
DoctypeToken == [type |-> "doctype"]

Tokens ==
  [type : {"start"}, name : STRING, attrs : STRING] \cup [type : {"end"}, name : STRING]
    \cup [type : {"text"}, content : Seq(STRING)] \cup {CommentToken, DoctypeToken}

Process(b, token) ==
  LET fresh == [b EXCEPT !.flushed = NULL, !.created = <<>>, !.ret = NULL]
  IN  CASE token.type = "start" -> HandleOpenTag(fresh, token.name, token.attrs)
        [] token.type = "end" -> HandleCloseTag(fresh, token.name)
        [] token.type = "text" -> HandleText(fresh, token.content)
        [] token.type = "comment" -> HandleComment(fresh)
        [] token.type = "doctype" -> HandleDoctype(fresh)

\* finish: flush held-back whitespace and make every depth exact.
FinishBuilder(b) ==
  [FlushPendingTableText(b) EXCEPT
     !.nodes = RefreshDepths(@, RootId, b.stale), !.stale = NotStale]
=============================================================================
