-------------------------- MODULE OpenElementsOps --------------------------
(***************************************************************************)
(* The stack of open elements of the tree builder                          *)
(* (crates/fhp-tree/src/builder.rs): element categories, insertion modes,  *)
(* scopes, and the operations that push, pop and truncate the stack        *)
(* together with the two caches it carries, `kind_counts` and              *)
(* `insertion_mode`.                                                       *)
(*                                                                         *)
(* An open-elements value `o` is a record [stack, counts, mode].  Entries  *)
(* are records with at least the fields name, kind and mode; the tree      *)
(* builder's entries carry more fields, which no operator here reads.      *)
(* Names stand for a lower-case tag name; attributes live in the arena.    *)
(***************************************************************************)
EXTENDS Integers, Sequences, FiniteSets

CONSTANT MaxDepth  \* MAX_DEPTH: the limit on open elements, the root not counted.

ASSUME MaxDepthAssumption == MaxDepth \in Nat

RootName == "#document"

FormattingNames ==
  {"a", "b", "em", "i", "strong", "big", "code", "font", "nobr", "s",
   "small", "strike", "tt", "u"}

HeadingNames == {"h1", "h2", "h3", "h4", "h5", "h6"}

Kinds ==
  {"Root", "Other", "Paragraph", "ListItem", "DefinitionItem", "Heading",
   "Table", "TableBody", "Row", "Cell", "Caption", "ColGroup", "Column",
   "Select", "Option", "OptGroup", "Plaintext", "Formatting"}

Classify(name) ==
  CASE name = "p" -> "Paragraph"
    [] name = "li" -> "ListItem"
    [] name \in {"dt", "dd"} -> "DefinitionItem"
    [] name \in HeadingNames -> "Heading"
    [] name = "table" -> "Table"
    [] name \in {"tbody", "thead", "tfoot"} -> "TableBody"
    [] name = "tr" -> "Row"
    [] name \in {"td", "th"} -> "Cell"
    [] name = "caption" -> "Caption"
    [] name = "colgroup" -> "ColGroup"
    [] name = "col" -> "Column"
    [] name = "select" -> "Select"
    [] name = "option" -> "Option"
    [] name = "optgroup" -> "OptGroup"
    [] name = "plaintext" -> "Plaintext"
    [] name \in FormattingNames -> "Formatting"
    [] OTHER -> "Other"

Modes ==
  {"InBody", "InTable", "InTableBody", "InRow", "InCell", "InCaption",
   "InColumnGroup", "InSelect"}

\* The kinds whose push changes the insertion mode; all others keep it.
ModeOf == [Table |-> "InTable", TableBody |-> "InTableBody", Row |-> "InRow",
           Cell |-> "InCell", Caption |-> "InCaption",
           ColGroup |-> "InColumnGroup", Select |-> "InSelect"]

ModeKinds == {"Table", "TableBody", "Row", "Cell", "Caption", "ColGroup", "Select"}

PushedMode(kind, current) == IF kind \in ModeKinds THEN ModeOf[kind] ELSE current

IsVoid(name) ==
  name \in {"area", "base", "br", "col", "embed", "hr", "img", "input",
            "link", "meta", "param", "source", "track", "wbr"}

(***************************************************************************)
(* Categories cached in an entry at push time: `special` bounds end-tag    *)
(* searches, `boundary` ends scope walks.  Both are functions of the name. *)
(***************************************************************************)
IsSpecial(name) ==
  \/ name = RootName
  \/ Classify(name) \in {"Table", "TableBody", "Row", "Cell", "Caption",
       "ColGroup", "Select", "Heading", "ListItem", "DefinitionItem",
       "Paragraph", "Plaintext"}
  \/ name \in {"article", "aside", "body", "button", "div", "footer", "form",
       "head", "header", "html", "iframe", "main", "nav", "ol", "pre",
       "script", "section", "style", "textarea", "title", "ul", "xmp",
       "noembed", "noframes", "address", "applet", "blockquote", "center",
       "details", "dialog", "dir", "dl", "fieldset", "figcaption", "figure",
       "frameset", "hgroup", "listing", "marquee", "menu", "noscript",
       "object", "search", "summary", "template"}

Boundary(name) ==
  CASE name \in {"table", "template"} -> "Table"
    [] name \in {"td", "th", "caption", "applet", "marquee", "object"} -> "Default"
    [] OTHER -> "None"

Scopes == {"Standard", "ListItem", "Button", "Table"}

StopsAt(scope, name) ==
  LET standard == Boundary(name) # "None"
  IN  CASE scope = "Standard" -> standard
        [] scope = "ListItem" -> standard \/ name \in {"ol", "ul"}
        [] scope = "Button" -> standard \/ name = "button"
        [] scope = "Table" -> Boundary(name) = "Table"

TablePartKinds == {"Table", "TableBody", "Row"}

TableSectionKinds == {"TableBody", "Row", "Cell", "Caption", "ColGroup", "Column"}

SelectInTableBreakoutKinds == {"Table", "TableBody", "Row", "Cell", "Caption"}

SelectBreakoutNames == {"input", "textarea", "keygen"}

ClosesP(name) ==
  name \in {"article", "aside", "div", "footer", "form", "h1", "h2", "h3",
    "h4", "h5", "h6", "header", "hr", "li", "main", "nav", "ol", "p", "pre",
    "section", "table", "ul", "xmp", "address", "blockquote", "center",
    "details", "dialog", "dir", "dl", "fieldset", "figcaption", "figure",
    "hgroup", "listing", "menu", "search", "summary"}

-----------------------------------------------------------------------------
(***************************************************************************)
(* Stack operations.                                                       *)
(***************************************************************************)
Top(o) == o.stack[Len(o.stack)]

KindIsOpen(o, kind) == o.counts[kind] # 0

EntriesOfKind(stack, kind) == {i \in 1..Len(stack) : stack[i].kind = kind}

Recounted(counts, kind, by) ==
  [k \in Kinds |-> IF k = kind THEN counts[k] + by ELSE counts[k]]

PushEntry(o, entry) ==
  LET mode == PushedMode(entry.kind, o.mode)
  IN  [stack  |-> Append(o.stack, [entry EXCEPT !.mode = mode]),
       counts |-> Recounted(o.counts, entry.kind, 1),
       mode   |-> mode]

\* Seeded fault: the insertion mode is not restored.
PopKeepingMode(o) ==
  [stack  |-> SubSeq(o.stack, 1, Len(o.stack) - 1),
   counts |-> Recounted(o.counts, Top(o).kind, -1),
   mode   |-> o.mode]

PopOpenElement(o) ==
  LET rest == SubSeq(o.stack, 1, Len(o.stack) - 1)
  IN  [stack  |-> rest,
       counts |-> Recounted(o.counts, Top(o).kind, -1),
       mode   |-> rest[Len(rest)].mode]

\* Keep the first `len` entries, and always the synthetic root.
TruncateStack(o, len) ==
  LET keep == IF len < 1 THEN 1 ELSE len
      removed(kind) == {i \in keep + 1 .. Len(o.stack) : o.stack[i].kind = kind}
  IN  IF keep >= Len(o.stack) THEN o
      ELSE [stack  |-> SubSeq(o.stack, 1, keep),
            counts |-> [kind \in Kinds |-> o.counts[kind] - Cardinality(removed(kind))],
            mode   |-> o.stack[keep].mode]

\* `mode` is the mode set by the innermost mode-changing entry among the first
\* n entries of the stack: the value of the loop in rebuild_stack_state.
IsModeAt(stack, n, mode) ==
  \/ /\ mode = "InBody"
     /\ \A i \in 1..n : stack[i].kind \notin ModeKinds
  \/ \E i \in 1..n :
       /\ stack[i].kind \in ModeKinds
       /\ mode = ModeOf[stack[i].kind]
       /\ \A j \in i + 1 .. n : stack[j].kind \notin ModeKinds

RebuildStackState(stack) ==
  LET modeAt(n) == CHOOSE mode \in Modes : IsModeAt(stack, n, mode)
      rebuilt == [i \in 1..Len(stack) |-> [stack[i] EXCEPT !.mode = modeAt(i)]]
  IN  [stack  |-> SubSeq(rebuilt, 1, Len(stack)),
       counts |-> [kind \in Kinds |-> Cardinality(EntriesOfKind(stack, kind))],
       mode   |-> modeAt(Len(stack))]

-----------------------------------------------------------------------------
(***************************************************************************)
(* Searches.  Stack index 1 is the synthetic root, so 0 means "not found". *)
(***************************************************************************)
LastOf(hits) == IF hits = {} THEN 0 ELSE CHOOSE i \in hits : \A j \in hits : j <= i

FirstOf(hits) == IF hits = {} THEN 0 ELSE CHOOSE i \in hits : \A j \in hits : i <= j

Innermost(o, from, Test(_)) == LastOf({i \in from..Len(o.stack) : Test(i)})

\* The innermost entry above the root that passes Test, unless an entry that
\* fails it and passes Stop is reached first.
InnermostBefore(o, Test(_), Stop(_)) ==
  LET found == Innermost(o, 2, Test)
  IN  IF \E j \in found + 1 .. Len(o.stack) : Stop(j) THEN 0 ELSE found

LastOfKind(o, kind) ==
  LET ofKind(i) == o.stack[i].kind = kind IN Innermost(o, 1, ofKind)

FindInScope(o, kind, scope) ==
  LET ofKind(i) == o.stack[i].kind = kind
      stops(i) == StopsAt(scope, o.stack[i].name)
  IN  IF KindIsOpen(o, kind) THEN InnermostBefore(o, ofKind, stops) ELSE 0

FindNamedInScope(o, name, scope) ==
  LET named(i) == o.stack[i].name = name
      stops(i) == StopsAt(scope, o.stack[i].name)
  IN  InnermostBefore(o, named, stops)

(***************************************************************************)
(* The closing operations: each truncates the stack at an entry it found.  *)
(***************************************************************************)
CloseFrom(o, index) == IF index = 0 THEN o ELSE TruncateStack(o, index - 1)

CloseLastKind(o, kind) ==
  LET index == LastOfKind(o, kind)
  IN  IF KindIsOpen(o, kind) /\ index > 1 THEN CloseFrom(o, index) ELSE o

\* Seeded fault: what is open above the table part stays open.
ClearNothing(o, kind) == o

ClearBackTo(o, kind) ==
  LET index == LastOfKind(o, kind)
  IN  IF KindIsOpen(o, kind) /\ index > 0 THEN TruncateStack(o, index) ELSE o

IsCurrentKind(o, kind) == Len(o.stack) > 1 /\ Top(o).kind = kind

PopIfCurrent(o, kind) == IF IsCurrentKind(o, kind) THEN PopOpenElement(o) ELSE o

CloseInScope(o, kind, scope) == CloseFrom(o, FindInScope(o, kind, scope))

CloseMatching(o, name) ==
  LET named(i) == o.stack[i].name = name
      stops(i) == IF IsSpecial(name) THEN StopsAt("Standard", o.stack[i].name)
                                     ELSE IsSpecial(o.stack[i].name)
  IN  IF KindIsOpen(o, Classify(name))
      THEN CloseFrom(o, InnermostBefore(o, named, stops)) ELSE o

CloseListItemStart(o, kind) ==
  LET ofKind(i) == o.stack[i].kind = kind
      stops(i) == /\ IsSpecial(o.stack[i].name)
                  /\ o.stack[i].name \notin {"div", "p", "address"}
  IN  IF KindIsOpen(o, kind)
      THEN CloseFrom(o, InnermostBefore(o, ofKind, stops)) ELSE o

CurrentNodeIsTablePart(o) == Top(o).kind \in TablePartKinds

(***************************************************************************)
(* What the adoption agency leaves of the stack when the formatting entry  *)
(* at f has its furthest block at b: clones (`chain`) replace the          *)
(* formatting entries they were made from, `replacement` opens above the   *)
(* furthest block, and every other entry in between is gone.               *)
(***************************************************************************)
FurthestBlock(o, f) ==
  FirstOf({i \in f + 1 .. Len(o.stack) : IsSpecial(o.stack[i].name)})

\* The entries cloned around the furthest block, outermost first: the
\* formatting ones among the three right below it.
ChainPositions(o, f, b) ==
  LET at(i) == IF i > f /\ o.stack[i].kind = "Formatting" THEN <<i>> ELSE <<>>
  IN  at(b - 3) \o at(b - 2) \o at(b - 1)

AdoptedStack(o, f, b, chain, furthest, replacement) ==
  RebuildStackState(SubSeq(o.stack, 1, f - 1) \o chain
                      \o <<furthest, replacement>>
                      \o SubSeq(o.stack, b + 1, Len(o.stack)))

-----------------------------------------------------------------------------
(***************************************************************************)
(* Well-formed stacks.                                                     *)
(***************************************************************************)
Classified(entry) == entry.kind = Classify(entry.name)

Rooted(stack) ==
  /\ Len(stack) >= 1
  /\ stack[1].kind = "Root"
  /\ \A i \in 2..Len(stack) : Classified(stack[i])

CachesAgree(o) ==
  /\ \A i \in 1..Len(o.stack) : IsModeAt(o.stack, i, o.stack[i].mode)
  /\ o.mode = Top(o).mode
  /\ \A kind \in Kinds :
       o.counts[kind] = Cardinality(EntriesOfKind(o.stack, kind))
=============================================================================
