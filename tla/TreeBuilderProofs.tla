-------------------------- MODULE TreeBuilderProofs --------------------------
(***************************************************************************)
(* The tree builder keeps its tree and its stack of open elements sound,   *)
(* whatever tokens it is fed, in whatever order and at whatever depth; and *)
(* what this says of the elements it reports, closes and leaves alone, and *)
(* of the characters it is fed.                                            *)
(***************************************************************************)
EXTENDS TreeBuilder, TreeLemmas

-----------------------------------------------------------------------------
(***************************************************************************)
(* Sound builders.                                                         *)
(***************************************************************************)
Builder ==
  [nodes        : Seq(Node),
   stale        : [before : Nat, exact : SUBSET Nat],
   open         : StackType(OpenEntry),
   newline_skip : {"None", "Newline", "LineFeedAfterCr"},
   after_body   : Nat,
   last_text    : Nat,
   pending      : Seq(Strings),
   foster_run   : BOOLEAN,
   created      : Seq(Nat),
   flushed      : Nat,
   ret          : Nat]

\* What a builder keeps of nodes, besides the stack, is there.
Refers(c) ==
  /\ c.stale.before <= Len(c.nodes) /\ c.stale.exact \subseteq Ids(c.nodes)
  /\ c.last_text # NULL => c.last_text \in Ids(c.nodes) /\ c.nodes[c.last_text].type = "text"
  /\ c.flushed \in Ids(c.nodes) \cup {NULL}
  /\ c.ret \in Ids(c.nodes) \cup {NULL}

Sound(c) ==
  /\ c \in Builder
  /\ StackOK(c.open, OpenEntry)
  /\ TreeOK(c.nodes, c.open.stack, c.after_body)
  /\ Refers(c)

\* The fields of a builder.
LEMMA BuilderFields ==
  ASSUME NEW c \in Builder
  PROVE  /\ c.nodes \in Seq(Node) /\ c.stale \in [before : Nat, exact : SUBSET Nat]
         /\ c.open \in StackType(OpenEntry)
         /\ c.newline_skip \in {"None", "Newline", "LineFeedAfterCr"}
         /\ c.after_body \in Nat /\ c.last_text \in Nat /\ c.pending \in Seq(Strings)
         /\ c.foster_run \in BOOLEAN /\ c.created \in Seq(Nat) /\ c.flushed \in Nat /\ c.ret \in Nat
BY DEF Builder

\* The nodes of a sound builder are an arena.
LEMMA SoundArena ==
  ASSUME NEW c, Sound(c) PROVE Arena(c.nodes)
BY DEF Sound, TreeOK, Grounded

\* The stack of a sound builder.
LEMMA SoundStack ==
  ASSUME NEW c, Sound(c)
  PROVE  /\ c.open.stack \in Seq(OpenEntry)
         /\ Len(c.open.stack) \in Nat /\ 1 <= Len(c.open.stack)
         /\ \A i \in 1..Len(c.open.stack) :
              /\ c.open.stack[i] \in OpenEntry
              /\ c.open.stack[i].id \in Ids(c.nodes)
              /\ c.nodes[c.open.stack[i].id].type = "element"
         /\ c.open.stack[1].id = RootId
         /\ \A i \in 2..Len(c.open.stack) : Classified(c.open.stack[i])
<1>1. c.open.stack \in Seq(OpenEntry) /\ Rooted(c.open.stack)
  BY DEF Sound, StackOK, StackType
<1>2. PICK h : Grounded(c.nodes, c.open.stack, h)
  BY DEF Sound, TreeOK
<1> DEFINE s == c.open.stack
<1>3. Len(s) \in Nat /\ \A i \in 1..Len(s) : s[i] \in OpenEntry
  BY <1>1
<1>4. \A i \in 2..Len(s) : Classified(s[i])
  BY <1>1 DEF Rooted
<1>5. /\ 1 <= Len(s) /\ s[1].id = RootId
      /\ \A i \in 1..Len(s) : s[i].id \in Ids(c.nodes) /\ c.nodes[s[i].id].type = "element"
  BY <1>2 DEF Grounded, Branch
<1> HIDE DEF s
<1> QED
  BY <1>1, <1>3, <1>4, <1>5 DEF s

\* The references that an edit keeps are still there when no node went away.
LEMMA RefersStill ==
  ASSUME NEW c, Sound(c), NEW ns, Arena(ns), Ids(c.nodes) \subseteq Ids(ns), Len(c.nodes) <= Len(ns),
         \A n \in Ids(c.nodes) : ns[n].type = c.nodes[n].type
  PROVE  /\ c.stale.before <= Len(ns) /\ c.stale.exact \subseteq Ids(ns)
         /\ c.last_text # NULL => c.last_text \in Ids(ns) /\ ns[c.last_text].type = "text"
         /\ c.flushed \in Ids(ns) \cup {NULL}
         /\ c.ret \in Ids(ns) \cup {NULL}
<1>1. Len(ns) \in Nat /\ Len(c.nodes) \in Nat
  BY SoundArena, ArenaNodes
<1>2. c.stale.before \in Nat
  BY BuilderFields DEF Sound
<1>3. c.stale.before <= Len(ns)
  BY <1>1, <1>2 DEF Sound, Refers
<1> QED
  BY <1>3 DEF Sound, Refers

\* What closing leaves of a stack is its beginning.
LEMMA ShrinksBeginning ==
  ASSUME NEW o, NEW p, Shrinks(p, o, OpenEntry)
  PROVE  Beginning(p.stack, o.stack)
BY DEF Shrinks, StackOK, StackType, Rooted, Beginning

\* Elements were closed, and every node of the tree is where it was.
LEMMA SoundPlaces ==
  ASSUME NEW c, Sound(c), NEW r \in Builder, SamePlaces(r.nodes, c.nodes),
         Shrinks(r.open, c.open, OpenEntry), r.after_body \in {c.after_body, NULL}, Refers(r)
  PROVE  Sound(r)
<1>1. Beginning(r.open.stack, c.open.stack)
  BY ShrinksBeginning
<1>2. TreeOK(r.nodes, r.open.stack, r.after_body)
  BY <1>1, TreeOKBeginning DEF Sound
<1>3. StackOK(r.open, OpenEntry)
  BY DEF Shrinks
<1> QED
  BY <1>2, <1>3 DEF Sound

\* The same, when nothing of the tree changed but depths and indices.
LEMMA SoundEdit ==
  ASSUME NEW c, Sound(c), NEW r \in Builder, SameTree(r.nodes, c.nodes),
         Shrinks(r.open, c.open, OpenEntry), r.after_body \in {c.after_body, NULL}, Refers(r)
  PROVE  Sound(r)
BY SameTreePlaces, SoundPlaces

\* Closing elements, and nothing else, keeps a builder sound.
LEMMA SoundOpen ==
  ASSUME NEW c, Sound(c), NEW o, Shrinks(o, c.open, OpenEntry)
  PROVE  Sound([c EXCEPT !.open = o])
<1> DEFINE r == [c EXCEPT !.open = o]
<1>0. c \in Builder
  BY DEF Sound
<1>1. o \in StackType(OpenEntry)
  BY DEF Shrinks, StackOK
<1>2. r \in Builder
  BY <1>0, <1>1 DEF Builder
<1>3. r.nodes = c.nodes /\ r.open = o /\ r.after_body = c.after_body
  BY <1>0 DEF Builder
<1>4. Refers(r)
  BY <1>0 DEF Sound, Refers, Builder
<1>5. SameTree(r.nodes, c.nodes)
  BY <1>3, SoundArena, SameTreeReflexive
<1> HIDE DEF r
<1>6. Sound(r)
  BY <1>2, <1>3, <1>4, <1>5, SoundEdit
<1> QED
  BY <1>6 DEF r

-----------------------------------------------------------------------------
(***************************************************************************)
(* Attachment.                                                             *)
(***************************************************************************)
\* Nothing but the nodes and the stack differs.
SameRest(r, c) ==
  /\ r.stale = c.stale /\ r.newline_skip = c.newline_skip /\ r.after_body = c.after_body
  /\ r.last_text = c.last_text /\ r.pending = c.pending /\ r.foster_run = c.foster_run
  /\ r.created = c.created /\ r.flushed = c.flushed /\ r.ret = c.ret

\* A node is open at a position of the stack, or not at all.
LEMMA EntryOfRange ==
  ASSUME NEW c, StackOK(c.open, OpenEntry), NEW n
  PROVE  EntryOf(c, n) \in 0..Len(c.open.stack)
<1> DEFINE len == Len(c.open.stack)
           hits == {i \in 1..len : c.open.stack[i].id = n}
<1>1. len \in Nat
  BY DEF StackOK, StackType
<1>2. EntryOf(c, n) = LastOf(hits)
  BY DEF EntryOf, Innermost
<1>3. hits \subseteq 1..len
  OBVIOUS
<1> HIDE DEF len, hits
<1>4. LastOf(hits) \in 0..len
  BY <1>1, <1>3, LastOfPosition
<1> QED
  BY <1>2, <1>4 DEF len

\* attach_element: the links are those of LinkAt, and only indices and the child
\* count of an open element are kept up.
LEMMA AttachOK ==
  ASSUME NEW c \in Builder, StackOK(c.open, OpenEntry), NEW n, NEW location, NEW linked,
         linked = LinkAt(c.nodes, n, location), Arena(linked), n \in Ids(linked),
         location.before \in Ids(linked) \cup {NULL},
         NEW r, r = AttachElement(c, n, location)
  PROVE  /\ r \in Builder /\ SameTree(r.nodes, linked) /\ SameRest(r, c)
         /\ StackOK(r.open, OpenEntry) /\ SameEntries(r.open.stack, c.open.stack)
<1> DEFINE d == [c EXCEPT !.nodes = linked]
           at == EntryOf(d, location.parent)
           open == CountChild(d.open, at)
           shifted == ShiftElementIndices(linked, location.before, 1)
           index == linked[location.before].index
           count == d.open.stack[at].children + 1
           nodes == NumberElement(linked, n, location, d.open, at)
<1>1. d \in Builder /\ d.nodes = linked /\ d.open = c.open /\ SameRest(d, c)
  BY ArenaNodes DEF Builder, SameRest
<1>2. r = [d EXCEPT !.open = open, !.nodes = nodes]
  BY <1>1 DEF AttachElement, RegisterAttachedElement, RegisterChild
<1>3. at \in 0..Len(c.open.stack)
  BY <1>1, EntryOfRange
<1> HIDE DEF d, at
<1>4. SameTree(nodes, linked)
  <2>1. CASE location.before # NULL
    <3>1. index \in Int
      BY <2>1, ArenaNodes, NodeFields
    <3>2. SameTree(shifted, linked)
      BY ShiftSame
    <3> HIDE DEF shifted, index
    <3>3. Arena(shifted) /\ n \in Ids(shifted)
      BY <3>2 DEF SameTree, Ids
    <3>4. SameTree([shifted EXCEPT ![n].index = index], shifted)
      BY <3>1, <3>3, IndexSame
    <3> QED
      BY <2>1, <3>2, <3>4, SameTreeTransitive DEF NumberElement, shifted, index
  <2>2. CASE location.before = NULL /\ at = 0
    BY <2>2, RecomputeSame DEF NumberElement
  <2>3. CASE location.before = NULL /\ at # 0
    <3>1. count \in Int
      <4>1. at \in 1..Len(c.open.stack)
        BY <1>3, <2>3
      <4>2. c.open.stack[at] \in OpenEntry
        BY <4>1 DEF StackOK, StackType
      <4> QED
        BY <1>1, <4>2 DEF OpenEntry
    <3> HIDE DEF count
    <3>2. SameTree([linked EXCEPT ![n].index = count], linked)
      BY <3>1, IndexSame
    <3> QED
      BY <2>3, <3>2 DEF NumberElement, count
  <2> QED
    BY <2>1, <2>2, <2>3
<1>5. StackOK(open, OpenEntry) /\ SameEntries(open.stack, c.open.stack)
  <2>1. CASE at = 0
    BY <1>1, <2>1 DEF SameEntries, CountChild
  <2>2. CASE at # 0
    <3>1. at \in 1..Len(c.open.stack)
      BY <1>3, <2>2
    <3> QED
      BY <1>1, <2>2, <3>1, CountedChild DEF CountChild
  <2> QED
    BY <2>1, <2>2
<1> HIDE DEF open, nodes
<1>6. nodes \in Seq(Node) /\ open \in StackType(OpenEntry)
  BY <1>4, <1>5, ArenaNodes DEF SameTree, StackOK
<1>7. r \in Builder /\ r.nodes = nodes /\ r.open = open /\ SameRest(r, d)
  <2>1. d \in Builder
    BY <1>1
  <2>2. r \in Builder
    BY <1>2, <1>6, <2>1 DEF Builder
  <2>3. r.nodes = nodes /\ r.open = open /\ SameRest(r, d)
    BY <1>2, <2>1 DEF Builder, SameRest
  <2> QED
    BY <2>2, <2>3
<1>8. SameRest(r, c)
  BY <1>1, <1>7 DEF SameRest
<1> QED
  BY <1>4, <1>5, <1>7, <1>8

-----------------------------------------------------------------------------
(***************************************************************************)
(* Insertion locations.                                                    *)
(***************************************************************************)
\* A parent, and the child of it to insert in front of.
Located(ns, location) ==
  /\ location.parent \in Ids(ns)
  /\ location.before \in Ids(ns) \cup {NULL}
  /\ location.before # NULL => ns[location.before].parent = location.parent

\* The node is open, and current but for what a table has open above it.
Receives(s, p) ==
  \E j \in 1..Len(s) :
    s[j].id = p /\ (j = Len(s) \/ \E t \in j + 1 .. Len(s) : s[t].kind = "Table")

LocationOK(c, location) ==
  Located(c.nodes, location) /\ Receives(c.open.stack, location.parent)

\* The current node takes children at its end.
LEMMA CurrentLocation ==
  ASSUME NEW c, Sound(c)
  PROVE  LocationOK(c, AppendTo(CurrentParent(c)))
<1> DEFINE s == c.open.stack
<1>1. Len(s) \in 1..Len(s) /\ s[Len(s)].id \in Ids(c.nodes)
  BY SoundStack
<1> QED
  BY <1>1 DEF LocationOK, Located, Receives, AppendTo, CurrentParent, Top

\* The foster location: in front of the innermost table, below its parent, or at the end of
\* the entry under it.
LEMMA FosterLocated ==
  ASSUME NEW c, Sound(c)
  PROVE  LocationOK(c, FosterLocation(c))
<1> DEFINE s == c.open.stack
           at == LastOfKind(c.open, "Table")
           table == s[at].id
           p == c.nodes[table].parent
<1>1. CASE at = 0
  BY <1>1, CurrentLocation DEF FosterLocation
<1>2. CASE at # 0
  <2>1. at \in 0..Len(s) /\ s[at].kind = "Table"
    BY <1>2, LastOfKindRange, OpenEntries DEF Sound
  <2>2. s[1].kind = "Root" /\ Len(s) \in Nat
    BY SoundStack DEF Sound, StackOK, Rooted
  <2>3. at \in 2..Len(s) /\ at \in 1..Len(s)
    BY <1>2, <2>1, <2>2
  <2> HIDE DEF at
  <2>4. table \in Ids(c.nodes) /\ \A j \in 1..Len(s) : s[j].id \in Ids(c.nodes)
    BY <2>3, SoundStack
  <2>5. OpenParentAt(c.nodes, s, at)
    BY <2>3 DEF Sound, TreeOK, Grounded, Branch
  <2>6. PICK j \in 1 .. at - 1 : s[j].id = p
    BY <2>5 DEF OpenParentAt
  <2>7. j \in 1..Len(s) /\ at \in j + 1 .. Len(s)
    BY <2>2, <2>3
  <2>8. p \in Ids(c.nodes) /\ p # NULL
    BY <2>4, <2>6, <2>7, SoundArena, ArenaNodes
  <2>9. FosterLocation(c) = [parent |-> p, before |-> table]
    BY <1>2, <2>8 DEF FosterLocation, at
  <2> HIDE DEF table, p, s
  <2>10. Located(c.nodes, [parent |-> p, before |-> table])
    BY <2>4, <2>8 DEF Located, p
  <2>11. Receives(s, p)
    BY <2>1, <2>6, <2>7 DEF Receives
  <2> QED
    BY <2>9, <2>10, <2>11 DEF LocationOK, s
<1> QED
  BY <1>1, <1>2

\* Either of the two, as a handler asks.
LEMMA LocatedFor ==
  ASSUME NEW c, Sound(c), NEW foster
  PROVE  LocationOK(c, LocationFor(c, foster))
BY CurrentLocation, FosterLocated DEF LocationFor

\* A new node, linked at a location.
LEMMA LinkPlaces ==
  ASSUME NEW ns, Arena(ns), NEW type \in NodeTypes, NEW name \in Strings, NEW attrs \in Strings,
         NEW text \in Seq(Strings), NEW depth \in Nat, type # "text" => text = <<>>,
         NEW location, Located(ns, location),
         NEW a, a = Append(ns, BlankNode(type, name, attrs, text, depth))
  PROVE  Placed(LinkAt(a, Len(ns) + 1, location), ns, type, location.parent)
<1> DEFINE x == Len(ns) + 1
           node == BlankNode(type, name, attrs, text, depth)
           p == location.parent
           before == location.before
<1>1. Allocated(a, ns, node)
  BY Allocates
<1>2. /\ Arena(a) /\ Ids(a) = Ids(ns) \cup {x} /\ x \notin Ids(ns) /\ a[x] = node
      /\ \A n \in Ids(ns) : a[n] = ns[n]
  BY <1>1 DEF Allocated
<1>3. node.type = type /\ node.parent = NULL
  BY DEF BlankNode
<1>4. /\ p \in Ids(ns) /\ before \in Ids(ns) \cup {NULL}
      /\ before # NULL => ns[before].parent = p
  BY DEF Located
<1> HIDE DEF node, p, before, x
<1>5. MovedBelow(LinkAt(a, x, location), a, x, p)
  <2>1. Arena(a) /\ x \in Ids(a) /\ p \in Ids(a) /\ p # x /\ a[x].parent = NULL
    BY <1>2, <1>3, <1>4
  <2>2. CASE before = NULL
    <3>1. LinkAt(a, x, location) = AppendSubtree(a, p, x)
      BY <2>2 DEF LinkAt, p, before
    <3> QED
      BY <2>1, <3>1, AppendMoves
  <2>3. CASE before # NULL
    <3>1. LinkAt(a, x, location) = InsertSubtreeBefore(a, p, before, x)
      BY <2>3 DEF LinkAt, p, before
    <3>2. before \in Ids(a) /\ a[before].parent = p
      BY <1>2, <1>4, <2>3
    <3> QED
      BY <2>1, <3>1, <3>2, InsertMoves
  <2> QED
    BY <2>2, <2>3
<1>6. Placed(LinkAt(a, x, location), ns, node.type, p)
  BY <1>1, <1>3, <1>5, AllocatedThenMoved DEF x
<1> QED
  BY <1>3, <1>6 DEF x, p

-----------------------------------------------------------------------------
\* A new node at a location, as high as the stack, keeps the tree grounded.
LEMMA PlacedOK ==
  ASSUME NEW c, Sound(c), NEW p, Receives(c.open.stack, p), p \in Ids(c.nodes), NEW type,
         NEW r, Placed(r, c.nodes, type, p)
  PROVE  \E h : /\ Grounded(r, c.open.stack, h) /\ TakesComments(r, h, c.after_body)
                /\ h[Len(c.nodes) + 1] = Len(c.open.stack)
<1> DEFINE s == c.open.stack
           v == Len(s)
<1>1. PICK h : Grounded(c.nodes, s, h) /\ TakesComments(c.nodes, h, c.after_body)
  BY DEF Sound, TreeOK
<1>2. PICK j \in 1..Len(s) : s[j].id = p
  BY DEF Receives
<1>3. v \in Nat /\ v <= MaxDepth + 1 /\ v <= Len(c.nodes) /\ h[p] = j - 1
  BY <1>1, <1>2 DEF Grounded, Branch
<1>4. h[p] < v
  BY <1>3
<1> DEFINE g == [n \in Ids(r) |-> IF n = Len(c.nodes) + 1 THEN v ELSE h[n]]
<1> HIDE DEF v
<1>5. Grounded(r, s, g)
  BY <1>1, <1>3, <1>4, GroundedPlaced
<1>6. g[Len(c.nodes) + 1] = v
  BY DEF Placed
<1>7. TakesComments(r, g, c.after_body)
  BY <1>1 DEF TakesComments, Placed
<1> HIDE DEF g
<1> QED
  BY <1>5, <1>6, <1>7 DEF v

-----------------------------------------------------------------------------
(***************************************************************************)
(* New elements.                                                           *)
(***************************************************************************)
HasTable(s) == \E t \in 1..Len(s) : s[t].kind = "Table"

\* e is c with a new element below p, attached and not open.
NewChild(e, c, p) ==
  /\ e \in Builder
  /\ Placed(e.nodes, c.nodes, "element", p)
  /\ StackOK(e.open, OpenEntry) /\ SameEntries(e.open.stack, c.open.stack)
  /\ e.after_body = c.after_body
  /\ Refers(e)

\* A new child gets the height of the stack.
LEMMA NewChildGrounded ==
  ASSUME NEW c, Sound(c), NEW p \in Ids(c.nodes), Receives(c.open.stack, p),
         NEW e, NewChild(e, c, p)
  PROVE  \E h : /\ Grounded(e.nodes, e.open.stack, h) /\ TakesComments(e.nodes, h, e.after_body)
                /\ h[Len(c.nodes) + 1] = Len(e.open.stack)
<1>1. PICK h : /\ Grounded(e.nodes, c.open.stack, h) /\ TakesComments(e.nodes, h, c.after_body)
               /\ h[Len(c.nodes) + 1] = Len(c.open.stack)
  BY PlacedOK DEF NewChild
<1>2. Len(e.open.stack) = Len(c.open.stack)
  BY DEF NewChild, SameEntries
<1>3. Beginning(e.open.stack, c.open.stack)
  BY <1>2, SoundStack DEF NewChild, SameEntries, Beginning
<1>4. SamePlaces(e.nodes, e.nodes)
  BY SameTreeReflexive, SameTreePlaces DEF NewChild, Placed
<1>5. Grounded(e.nodes, e.open.stack, h)
  BY <1>1, <1>3, <1>4, GroundedBeginning
<1> QED
  BY <1>1, <1>2, <1>5 DEF NewChild

\* An element that does not open keeps the builder sound.
LEMMA NewChildSound ==
  ASSUME NEW c, Sound(c), NEW p \in Ids(c.nodes), Receives(c.open.stack, p),
         NEW e, NewChild(e, c, p)
  PROVE  Sound(e)
<1>1. TreeOK(e.nodes, e.open.stack, e.after_body)
  BY NewChildGrounded DEF TreeOK
<1> QED
  BY <1>1 DEF NewChild, Sound

\* r is e with its new element open, on top of what was open in c.
OpenedOver(r, e, c) ==
  /\ Sound(r) /\ SameRest(r, e) /\ r.nodes = e.nodes
  /\ Len(r.open.stack) = Len(c.open.stack) + 1
  /\ HasTable(c.open.stack) => HasTable(r.open.stack)
  /\ OpenIds(r) \subseteq OpenIds(e) \cup {Len(c.nodes) + 1}

\* The new element may open, a part of a table when a table is open.
LEMMA NewChildOpens ==
  ASSUME NEW c, Sound(c), NEW p \in Ids(c.nodes), Receives(c.open.stack, p),
         NEW e, NewChild(e, c, p), Len(c.open.stack) <= MaxDepth,
         NEW entry \in OpenEntry, Classified(entry), entry.id = Len(c.nodes) + 1,
         entry.kind \in TableContentKinds => HasTable(c.open.stack),
         entry.kind = "ColGroup" => OutsideColumns(c.open.stack, Len(c.open.stack)),
         NEW r, r = [e EXCEPT !.open = PushEntry(e.open, entry)]
  PROVE  OpenedOver(r, e, c)
<1> DEFINE s == e.open.stack
           o == PushEntry(e.open, entry)
           n == Len(s)
           x == Len(c.nodes) + 1
<1>1. PICK h : /\ Grounded(e.nodes, s, h) /\ TakesComments(e.nodes, h, e.after_body)
               /\ h[x] = n
  BY NewChildGrounded
<1>2. StackOK(o, OpenEntry)
  <2>1. EntrySet(OpenEntry) /\ StackOK(e.open, OpenEntry)
    BY OpenEntries DEF NewChild
  <2> QED
    BY <2>1, PushOK
<1> DEFINE mode == PushedMode(entry.kind, e.open.mode)
<1>3. o.stack = Append(s, [entry EXCEPT !.mode = mode]) /\ mode \in Modes
  <2>1. e.open.mode \in Modes
    BY DEF NewChild, StackOK, StackType
  <2> QED
    BY <2>1, PushedModeType DEF PushEntry
<1> HIDE DEF mode
<1> DEFINE top == [entry EXCEPT !.mode = mode]
           t == Append(s, top)
<1>4. top \in OpenEntry /\ top.id = x /\ top.kind = entry.kind
  BY <1>3 DEF OpenEntry
<1>5. s \in Seq(OpenEntry) /\ n = Len(c.open.stack) /\ n \in Nat
  BY DEF NewChild, StackOK, StackType, SameEntries
<1> HIDE DEF top, s
<1>6. Len(t) = n + 1 /\ t[n + 1] = top /\ \A i \in 1..n : t[i] = s[i]
  BY <1>4, <1>5
<1> HIDE DEF t, n, o, x
<1>7. /\ e.nodes[x].type = "element" /\ e.nodes[x].parent = p /\ x \in Ids(e.nodes)
  BY DEF NewChild, Placed, x
<1>8. \A i \in 1..n : s[i].id = c.open.stack[i].id /\ s[i].kind = c.open.stack[i].kind
  BY <1>5 DEF NewChild, SameEntries, s
<1>9. OpenParentAt(e.nodes, t, n + 1)
  <2>1. PICK j \in 1..n : /\ c.open.stack[j].id = p
                          /\ j = n \/ \E m \in j + 1 .. n : c.open.stack[m].kind = "Table"
    BY <1>5 DEF Receives
  <2>2. j \in 1 .. (n + 1) - 1 /\ (n + 1) - 1 = n
    BY <1>5
  <2>3. t[j].id = e.nodes[t[n + 1].id].parent
    BY <1>4, <1>6, <1>7, <1>8, <2>1
  <2>4. CASE j = n
    <3>1. \A m \in j + 1 .. (n + 1) - 1 : t[m].kind = "Formatting"
      BY <1>5, <2>4
    <3> QED
      BY <2>2, <2>3, <3>1 DEF OpenParentAt
  <2>5. CASE \E m \in j + 1 .. n : c.open.stack[m].kind = "Table"
    <3>1. PICK m \in j + 1 .. n : c.open.stack[m].kind = "Table"
      BY <2>5
    <3>2. m \in 1..n
      BY <1>5
    <3>3. t[m].kind = "Table"
      BY <1>6, <1>8, <3>1, <3>2
    <3> QED
      BY <2>2, <2>3, <3>3 DEF OpenParentAt
  <2> QED
    BY <2>1, <2>4, <2>5
<1>10. HasTable(c.open.stack) => \E m \in 1..n : t[m].kind = "Table"
  BY <1>5, <1>6, <1>8 DEF HasTable
<1>11. InTableAt(t, n + 1)
  <2>1. (n + 1) - 1 = n
    BY <1>5
  <2>2. OutsideColumns(c.open.stack, n) => OutsideColumns(t, n)
    <3>1. \A j \in 1..n : \A m \in j + 1 .. n : m \in 1..n
      BY <1>5
    <3>2. \A j \in 1..n : t[j].kind = c.open.stack[j].kind
      BY <1>6, <1>8
    <3> QED
      BY <3>1, <3>2 DEF OutsideColumns
  <2> QED
    BY <1>4, <1>5, <1>6, <1>10, <2>1, <2>2 DEF InTableAt
<1>12. Grounded(e.nodes, t, h)
  BY <1>1, <1>4, <1>5, <1>7, <1>9, <1>11, GroundedPush DEF t, n
<1>13. r \in Builder /\ r.open = o /\ r.nodes = e.nodes /\ SameRest(r, e)
  BY <1>2 DEF NewChild, StackOK, Builder, SameRest, o
<1>14. TreeOK(r.nodes, r.open.stack, r.after_body)
  <2>1. r.open.stack = t /\ r.after_body = e.after_body
    BY <1>3, <1>13 DEF t, top, SameRest
  <2> QED
    BY <1>1, <1>12, <1>13, <2>1 DEF TreeOK
<1>15. Refers(r)
  BY <1>13 DEF Refers, SameRest, NewChild
<1>16. Len(r.open.stack) = n + 1 /\ (HasTable(c.open.stack) => HasTable(r.open.stack))
  <2>1. r.open.stack = t
    BY <1>3, <1>13 DEF t, top
  <2>2. \A m \in 1..n : m \in 1 .. n + 1
    BY <1>5
  <2> QED
    BY <1>6, <1>10, <2>1, <2>2 DEF HasTable
<1>17. OpenIds(r) \subseteq OpenIds(e) \cup {x}
  <2>1. r.open.stack = t
    BY <1>3, <1>13 DEF t, top
  <2>2. \A i \in 1 .. n + 1 : i \in 1..n \/ t[i].id = x
    BY <1>4, <1>5, <1>6
  <2>3. \A i \in 1..n : t[i].id \in OpenIds(e)
    BY <1>5, <1>6 DEF OpenIds, s, n
  <2>4. OpenIds(r) = {t[i].id : i \in 1 .. n + 1}
    BY <1>6, <2>1 DEF OpenIds
  <2> QED
    BY <2>2, <2>3, <2>4
<1> QED
  BY <1>2, <1>5, <1>13, <1>14, <1>15, <1>16, <1>17 DEF Sound, OpenedOver, x

\* d is c with a new element in its arena, not yet linked.
Created(d, c, name, attrs, depth) ==
  /\ d \in Builder
  /\ d.nodes = Append(c.nodes, BlankNode("element", name, attrs, <<>>, depth))
  /\ d.open = c.open /\ d.stale = c.stale /\ d.after_body = c.after_body
  /\ d.last_text = c.last_text /\ d.flushed = c.flushed
  /\ d.ret \in {c.ret, Len(c.nodes) + 1}

\* An element that was created and attached is a new child.
LEMMA AttachedIsChild ==
  ASSUME NEW c, Sound(c), NEW location, LocationOK(c, location),
         NEW name \in Strings, NEW attrs \in Strings, NEW depth \in Nat,
         NEW d, Created(d, c, name, attrs, depth),
         NEW e, e = AttachElement(d, Len(c.nodes) + 1, location)
  PROVE  NewChild(e, c, location.parent) /\ SameRest(e, d)
<1> DEFINE x == Len(c.nodes) + 1
           linked == LinkAt(d.nodes, x, location)
<1>1. Arena(c.nodes) /\ StackOK(c.open, OpenEntry)
  BY SoundArena DEF Sound
<1>2. Placed(linked, c.nodes, "element", location.parent)
  <2>1. "element" \in NodeTypes /\ <<>> \in Seq(Strings)
    BY DEF NodeTypes
  <2>2. Located(c.nodes, location) /\ d.nodes = Append(c.nodes, BlankNode("element", name, attrs, <<>>, depth))
    BY DEF LocationOK, Created
  <2> QED
    BY <1>1, <2>1, <2>2, LinkPlaces
<1> HIDE DEF linked, x
<1>3. Arena(linked) /\ x \in Ids(linked) /\ Ids(c.nodes) \subseteq Ids(linked)
  BY <1>2 DEF Placed, x
<1>4. location.before \in Ids(linked) \cup {NULL}
  BY <1>3 DEF LocationOK, Located
<1>5. d \in Builder /\ d.open = c.open
  BY DEF Created
<1>6. /\ e \in Builder /\ SameTree(e.nodes, linked) /\ SameRest(e, d)
      /\ StackOK(e.open, OpenEntry) /\ SameEntries(e.open.stack, c.open.stack)
  BY <1>1, <1>3, <1>4, <1>5, AttachOK DEF linked, x
<1>7. Placed(e.nodes, c.nodes, "element", location.parent)
  BY <1>2, <1>6, PlacedThenSame
<1>8. Refers(e)
  <2>1. /\ Arena(e.nodes) /\ Ids(c.nodes) \subseteq Ids(e.nodes) /\ x \in Ids(e.nodes)
        /\ \A n \in Ids(c.nodes) : e.nodes[n].type = c.nodes[n].type
    BY <1>7 DEF Placed, x
  <2>2. Len(c.nodes) <= Len(e.nodes)
    BY <1>1, <1>7, ArenaNodes DEF Placed
  <2>3. /\ c.stale.before <= Len(e.nodes) /\ c.stale.exact \subseteq Ids(e.nodes)
        /\ c.last_text # NULL => c.last_text \in Ids(e.nodes) /\ e.nodes[c.last_text].type = "text"
        /\ c.flushed \in Ids(e.nodes) \cup {NULL}
        /\ c.ret \in Ids(e.nodes) \cup {NULL}
    BY <2>1, <2>2, RefersStill
  <2>4. /\ e.stale = c.stale /\ e.last_text = c.last_text /\ e.flushed = c.flushed
        /\ e.ret \in {c.ret, x}
    BY <1>6 DEF SameRest, Created, x
  <2> QED
    BY <2>1, <2>3, <2>4 DEF Refers
<1>9. e.after_body = c.after_body
  BY <1>6 DEF SameRest, Created
<1> QED
  BY <1>6, <1>7, <1>8, <1>9 DEF NewChild

\* A new node is not the root.
LEMMA NewNodeId ==
  ASSUME NEW c, Sound(c) PROVE Len(c.nodes) + 1 \in Nat /\ Len(c.nodes) + 1 # RootId
<1>1. Len(c.nodes) \in Nat /\ RootId \in Ids(c.nodes)
  <2>1. 1 \in 1..Len(c.open.stack)
    BY SoundStack
  <2> QED
    BY <2>1, SoundStack, SoundArena, ArenaNodes
<1> QED
  BY <1>1 DEF Ids, RootId

\* What an insertion location tells a new node about its depth.
LEMMA LocationDepth ==
  ASSUME NEW c, Sound(c), NEW p \in Ids(c.nodes) PROVE c.nodes[p].depth + 1 \in Nat
<1>1. c.nodes[p] \in Node
  BY SoundArena, ArenaNodes
<1> QED
  BY <1>1, NodeFields

-----------------------------------------------------------------------------
(***************************************************************************)
(* What is reported of new elements, and what is left of the old ones.     *)
(***************************************************************************)
\* The nodes that are not open.
Closed(c) == Ids(c.nodes) \ OpenIds(c)

\* What is closed stays closed and keeps its children, and comments go nowhere else.
Leaves(r, c) ==
  /\ Closed(c) \subseteq Closed(r)
  /\ Keeps(r.nodes, c.nodes, Closed(c))
  /\ r.after_body \in {c.after_body, NULL}

\* Comments after the body go to an open element.
BodyOpen(c) == c.after_body # NULL => c.after_body \in OpenIds(c)

\* All new elements are listed, and what is returned is as before or no element.
Tells(r, c) ==
  /\ Lists(r.nodes, r.created, c)
  /\ r.ret = c.ret \/ r.ret \in Ids(r.nodes) \ ElementIds(r.nodes)
  /\ Leaves(r, c)

\* One new element is returned, and all others are listed.
Returns(r, c) ==
  /\ r.ret \in ElementIds(r.nodes)
  /\ Lists(r.nodes, Append(r.created, r.ret), c)
  /\ Leaves(r, c)

Reports(r, c) == Tells(r, c) \/ Returns(r, c)

\* A list is as long as there are things in it.
LEMMA ListedLength ==
  ASSUME NEW list, NEW S, Listed(list, S) PROVE Cardinality(S) = Len(list)
<1> DEFINE n == Len(list)
<1>1. n \in Nat /\ list \in Seq(Nat)
  BY DEF Listed
<1> HIDE DEF n
<1>2. IsFiniteSet(1..n) /\ Cardinality(1..n) = n
  BY <1>1, FS_Interval
<1>3. list \in Bijection(1..n, S)
  <2>1. list \in [1..n -> S]
    BY <1>1 DEF Listed, n
  <2>2. \A y \in S : \E i \in 1..n : list[i] = y
    BY DEF Listed, n
  <2>3. \A i, j \in 1..n : list[i] = list[j] => i = j
    BY DEF Listed, n
  <2> QED
    BY <2>1, <2>2, <2>3 DEF Bijection, Injection, Surjection, IsInjective
<1>4. ExistsBijection(1..n, S)
  BY <1>3 DEF ExistsBijection
<1> QED
  BY <1>2, <1>4, FS_Bijection DEF n

\* What is listed since r and, before, since c is all that is new since c.
LEMMA ListsTransitive ==
  ASSUME NEW c \in Builder, NEW r, NEW ns, NEW created,
         Lists(ns, created, r), Lists(r.nodes, r.created, c)
  PROVE  Lists(ns, created, c)
<1>1. PICK old : r.created = c.created \o old /\ Listed(old, NewElements(r.nodes, c.nodes))
  BY DEF Lists
<1>2. PICK new : created = r.created \o new /\ Listed(new, NewElements(ns, r.nodes))
  BY DEF Lists
<1>3. NodesStay(ns, r.nodes) /\ NodesStay(r.nodes, c.nodes) /\ NodesStay(ns, c.nodes)
  BY NodesStayTransitive DEF Lists
<1>4. created = c.created \o (old \o new)
  <2>1. c.created \in Seq(Nat) /\ old \in Seq(Nat) /\ new \in Seq(Nat)
    BY <1>1, <1>2, BuilderFields DEF Listed
  <2>2. (c.created \o old) \o new = c.created \o (old \o new)
    BY <2>1, JoinAssociative
  <2> QED
    BY <1>1, <1>2, <2>2
<1>5. NewElements(r.nodes, c.nodes) \cap NewElements(ns, r.nodes) = {}
  BY DEF NewElements
<1>6. NewElements(r.nodes, c.nodes) \cup NewElements(ns, r.nodes) = NewElements(ns, c.nodes)
  BY <1>3 DEF NewElements, ElementIds, NodesStay
<1>7. Listed(old \o new, NewElements(ns, c.nodes))
  BY <1>1, <1>2, <1>5, <1>6, ListedTogether
<1> QED
  BY <1>3, <1>4, <1>7 DEF Lists

\* Nothing new is listed by nothing.
LEMMA ListsNothing ==
  ASSUME NEW c \in Builder, NEW ns, NodesStay(ns, c.nodes), NewElements(ns, c.nodes) = {}
  PROVE  Lists(ns, c.created, c)
<1>1. c.created \o <<>> = c.created
  BY BuilderFields
<1> QED
  BY <1>1, ListedNone DEF Lists

\* A tree of the same nodes has nothing new.
LEMMA SameTreeLists ==
  ASSUME NEW c \in Builder, NEW ns, SameTree(ns, c.nodes)
  PROVE  Lists(ns, c.created, c)
<1>1. NodesStay(ns, c.nodes) /\ NewElements(ns, c.nodes) = {}
  BY DEF SameTree, NodesStay, NewElements, ElementIds, Ids
<1> QED
  BY <1>1, ListsNothing

\* A node that is no element is not listed, and an element is.
LEMMA PlacedLists ==
  ASSUME NEW c, Sound(c), NEW ns, NEW type, NEW p, Placed(ns, c.nodes, type, p)
  PROVE  Lists(ns, IF type = "element" THEN Append(c.created, Len(c.nodes) + 1) ELSE c.created, c)
<1> DEFINE x == Len(c.nodes) + 1
<1>1. c \in Builder /\ c.created \in Seq(Nat) /\ x \in Nat
  BY BuilderFields, NewNodeId DEF Sound
<1>2. NodesStay(ns, c.nodes) /\ NewElements(ns, c.nodes) = IF type = "element" THEN {x} ELSE {}
  BY PlacedNew
<1> HIDE DEF x
<1>3. CASE type = "element"
  <2>1. Append(c.created, x) = c.created \o <<x>>
    BY <1>1, AppendJoins
  <2>2. Lists(ns, Append(c.created, x), c)
    BY <1>1, <1>2, <1>3, <2>1, ListedOne DEF Lists
  <2> QED
    BY <1>3, <2>2 DEF x
<1>4. CASE type # "element"
  <2>1. Lists(ns, c.created, c)
    BY <1>1, <1>2, <1>4, ListsNothing
  <2> QED
    BY <1>4, <2>1
<1> QED
  BY <1>3, <1>4

\* Leaving alone carries over from edit to edit.
LEMMA LeavesTransitive ==
  ASSUME NEW c, NEW r, Leaves(r, c), NEW q, Leaves(q, r)
  PROVE  Leaves(q, c)
<1>1. Keeps(q.nodes, r.nodes, Closed(c))
  BY KeepsFewer DEF Leaves
<1>2. Keeps(q.nodes, c.nodes, Closed(c))
  BY <1>1, KeepsTransitive DEF Leaves
<1> QED
  BY <1>2 DEF Leaves

\* Closing elements leaves the others alone.
LEMMA SameTreeLeaves ==
  ASSUME NEW c, NEW r, SameTree(r.nodes, c.nodes), OpenIds(r) \subseteq OpenIds(c),
         r.after_body \in {c.after_body, NULL}
  PROVE  Leaves(r, c)
<1>1. Ids(r.nodes) = Ids(c.nodes)
  BY DEF SameTree, Ids
<1>2. Keeps(r.nodes, c.nodes, Closed(c))
  BY SameTreeKeeps DEF Closed
<1> QED
  BY <1>1, <1>2 DEF Leaves, Closed

\* So it does once more.
LEMMA SameLeaves ==
  ASSUME NEW c, NEW r, Leaves(r, c), NEW q, q.nodes = r.nodes, OpenIds(q) \subseteq OpenIds(r),
         q.after_body \in {r.after_body, NULL}
  PROVE  Leaves(q, c)
BY DEF Leaves, Closed

\* A node placed below an open one leaves the closed ones alone, and may open.
LEMMA PlacedLeaves ==
  ASSUME NEW c, NEW r, NEW type, NEW p \in OpenIds(c), Placed(r.nodes, c.nodes, type, p),
         OpenIds(r) \subseteq OpenIds(c) \cup {Len(c.nodes) + 1},
         r.after_body \in {c.after_body, NULL}
  PROVE  Leaves(r, c)
<1>1. Keeps(r.nodes, c.nodes, Ids(c.nodes) \ {p})
  BY DEF Placed
<1>2. Keeps(r.nodes, c.nodes, Closed(c))
  BY <1>1, KeepsFewer DEF Closed
<1>3. Ids(c.nodes) \subseteq Ids(r.nodes) /\ Len(c.nodes) + 1 \notin Ids(c.nodes)
  BY DEF Placed
<1> QED
  BY <1>2, <1>3 DEF Leaves, Closed

\* What a stack holds after elements were closed was open before.
LEMMA ShrinksOpen ==
  ASSUME NEW c, Sound(c), NEW r, Shrinks(r.open, c.open, OpenEntry)
  PROVE  OpenIds(r) \subseteq OpenIds(c)
<1>1. Beginning(r.open.stack, c.open.stack)
  BY ShrinksBeginning
<1>2. Len(c.open.stack) \in Nat
  BY SoundStack
<1> QED
  BY <1>1, <1>2 DEF Beginning, OpenIds

\* Whatever leaves the tree alone, and what is reported of it, tells nothing.
LEMMA TellsNothing ==
  ASSUME NEW c, Sound(c), NEW r, SameTree(r.nodes, c.nodes), OpenIds(r) \subseteq OpenIds(c),
         r.after_body \in {c.after_body, NULL}, r.created = c.created, r.ret = c.ret
  PROVE  Tells(r, c)
BY SameTreeLists, SameTreeLeaves DEF Tells, Sound

\* The same, for what is c but for flags.
LEMMA SameTells ==
  ASSUME NEW c, Sound(c), NEW r, r.nodes = c.nodes, r.open = c.open,
         r.after_body \in {c.after_body, NULL}, r.created = c.created, r.ret = c.ret
  PROVE  Tells(r, c)
<1>1. OpenIds(r) = OpenIds(c)
  BY DEF OpenIds
<1> QED
  BY <1>1, TellsNothing, SoundArena, SameTreeReflexive

\* Closing elements tells nothing.
LEMMA StackTells ==
  ASSUME NEW c, Sound(c), NEW o, Shrinks(o, c.open, OpenEntry)
  PROVE  Tells([c EXCEPT !.open = o], c)
<1>1. c \in Builder
  BY DEF Sound
<1> DEFINE r == [c EXCEPT !.open = o]
<1>2. /\ r.nodes = c.nodes /\ r.created = c.created /\ r.ret = c.ret /\ r.open = o
      /\ r.after_body = c.after_body
  BY <1>1 DEF Builder
<1> HIDE DEF r
<1>3. SameTree(r.nodes, c.nodes) /\ OpenIds(r) \subseteq OpenIds(c)
  BY <1>2, ShrinksOpen, SoundArena, SameTreeReflexive
<1>4. Tells(r, c)
  BY <1>2, <1>3, TellsNothing
<1> QED
  BY <1>4 DEF r

\* An unchanged builder tells nothing.
LEMMA TellsReflexive ==
  ASSUME NEW c, Sound(c) PROVE Tells(c, c)
BY SameTells

\* Telling carries over from edit to edit.
LEMMA TellsTransitive ==
  ASSUME NEW c, Sound(c), NEW r, Tells(r, c), NEW q, Tells(q, r)
  PROVE  Tells(q, c)
<1>1. Lists(q.nodes, q.created, c)
  BY ListsTransitive DEF Tells, Sound
<1>2. NodesStay(q.nodes, r.nodes)
  BY DEF Tells, Lists
<1>3. q.ret = c.ret \/ q.ret \in Ids(q.nodes) \ ElementIds(q.nodes)
  BY <1>2 DEF Tells, NodesStay, ElementIds
<1>4. Leaves(q, c)
  BY LeavesTransitive DEF Tells
<1> QED
  BY <1>1, <1>3, <1>4 DEF Tells

\* Telling, and then reporting.
LEMMA TellsThenReturns ==
  ASSUME NEW c, Sound(c), NEW r, Lists(r.nodes, r.created, c), Leaves(r, c), NEW q, Returns(q, r)
  PROVE  Returns(q, c)
BY ListsTransitive, LeavesTransitive DEF Returns, Sound

\* What was returned still is, after closing elements.
LEMMA SameReturns ==
  ASSUME NEW c, NEW r, Returns(r, c), NEW q, q.nodes = r.nodes, q.created = r.created, q.ret = r.ret,
         OpenIds(q) \subseteq OpenIds(r), q.after_body = r.after_body
  PROVE  Returns(q, c)
BY SameLeaves DEF Returns

\* The same, if only some tokens return an element.
LEMMA TellsThenReports ==
  ASSUME NEW c, Sound(c), NEW r, Tells(r, c), NEW q, Reports(q, r)
  PROVE  Reports(q, c)
<1>1. Lists(r.nodes, r.created, c) /\ Leaves(r, c)
  BY DEF Tells
<1> QED
  BY <1>1, TellsTransitive, TellsThenReturns DEF Reports

\* Nothing but what is reported counts.
LEMMA SameReports ==
  ASSUME NEW c, NEW r, Reports(r, c), NEW q, q.nodes = r.nodes, q.created = r.created, q.ret = r.ret,
         q.open = r.open, q.after_body = r.after_body
  PROVE  Reports(q, c)
BY DEF Reports, Tells, Returns, Leaves, Closed, OpenIds

-----------------------------------------------------------------------------
(***************************************************************************)
(* Inserting an element.                                                   *)
(***************************************************************************)
\* insert_element keeps a builder sound: an element opens only within the limit, and a part
\* of a table only in a table.
LEMMA InsertElementOK ==
  ASSUME NEW c, Sound(c), NEW name \in Strings, NEW attrs \in Strings,
         NEW location, LocationOK(c, location),
         Classify(name) \in TableContentKinds => HasTable(c.open.stack),
         Classify(name) = "ColGroup" => OutsideColumns(c.open.stack, Len(c.open.stack)),
         NEW r, r = InsertElement(c, name, attrs, location)
  PROVE  /\ Sound(r) /\ r.ret = Len(c.nodes) + 1 /\ r.after_body = c.after_body
         /\ r.created = c.created /\ Placed(r.nodes, c.nodes, "element", location.parent)
         /\ HasTable(c.open.stack) => HasTable(r.open.stack)
         /\ Leaves(r, c)
<1> DEFINE x == Len(c.nodes) + 1
           p == location.parent
           depth == c.nodes[p].depth + 1
           d == NewElement(c, name, attrs, depth)
           e == AttachElement(d, x, location)
           entry == Entry(x, name)
<1>1. c \in Builder /\ p \in Ids(c.nodes) /\ Receives(c.open.stack, p)
  BY DEF Sound, LocationOK, Located
<1>2. depth \in Nat /\ x \in Nat
  BY <1>1, LocationDepth, NewNodeId
<1> HIDE DEF p, depth, x
<1>3. Created(d, c, name, attrs, depth) /\ d.ret = x /\ d.created = c.created
  <2>1. Append(c.nodes, BlankNode("element", name, attrs, <<>>, depth)) \in Seq(Node)
    <3>1. BlankNode("element", name, attrs, <<>>, depth) \in Node
      BY <1>2 DEF BlankNode, Node, NodeTypes, NULL
    <3> QED
      BY <3>1, BuilderFields, <1>1
  <2> DEFINE nodes == Append(c.nodes, BlankNode("element", name, attrs, <<>>, depth))
  <2>2. d = [c EXCEPT !.nodes = nodes, !.ret = x]
    BY DEF NewElement, x
  <2> HIDE DEF nodes, d
  <2>3. d \in Builder /\ d.nodes = nodes /\ d.ret = x /\ d.open = c.open /\ d.stale = c.stale
        /\ d.after_body = c.after_body /\ d.last_text = c.last_text /\ d.flushed = c.flushed
        /\ d.created = c.created
    BY <1>1, <1>2, <2>1, <2>2 DEF Builder, nodes
  <2> QED
    BY <2>3 DEF Created, nodes, x
<1> HIDE DEF d
<1>4. NewChild(e, c, p) /\ SameRest(e, d)
  BY <1>2, <1>3, AttachedIsChild DEF x, p
<1>5. r = OpenUnlessFull(e, name)
  BY DEF InsertElement, d, e, x, p, depth
<1> HIDE DEF e
<1>6. e.ret = x /\ e.after_body = c.after_body /\ e.created = c.created
  BY <1>3, <1>4 DEF SameRest, Created
<1>7. Sound(e)
  BY <1>1, <1>4, NewChildSound
<1>8. Len(e.open.stack) = Len(c.open.stack)
      /\ (HasTable(c.open.stack) => HasTable(e.open.stack))
  BY <1>4 DEF NewChild, SameEntries, HasTable
<1>11. OpenIds(e) = OpenIds(c) /\ p \in OpenIds(c)
  <2>1. Len(e.open.stack) = Len(c.open.stack)
        /\ \A i \in 1..Len(c.open.stack) : e.open.stack[i].id = c.open.stack[i].id
    BY <1>4 DEF NewChild, SameEntries
  <2>2. OpenIds(e) = OpenIds(c)
    BY <2>1 DEF OpenIds
  <2>3. \E j \in 1..Len(c.open.stack) : c.open.stack[j].id = p
    BY <1>1 DEF Receives
  <2> QED
    BY <2>2, <2>3 DEF OpenIds
<1>9. CASE IsVoid(name) \/ ~ (Len(e.open.stack) <= MaxDepth)
  <2>1. r = e
    BY <1>5, <1>9 DEF OpenUnlessFull
  <2>2. Placed(e.nodes, c.nodes, "element", location.parent)
    BY <1>4 DEF NewChild, p
  <2>3. Leaves(r, c)
    BY <1>6, <1>11, <2>1, <2>2, PlacedLeaves DEF p
  <2> QED
    BY <1>6, <1>7, <1>8, <2>1, <2>2, <2>3 DEF x
<1>10. CASE ~ IsVoid(name) /\ Len(e.open.stack) <= MaxDepth
  <2>1. r = [e EXCEPT !.open = PushEntry(e.open, entry)]
    BY <1>5, <1>6, <1>10 DEF OpenUnlessFull
  <2>2. /\ entry \in OpenEntry /\ Classified(entry) /\ entry.id = x
        /\ entry.kind = Classify(name)
    BY <1>2, ClassifyKind DEF Entry, OpenEntry, Classified, Modes
  <2> HIDE DEF entry
  <2>3. Len(c.open.stack) <= MaxDepth
    BY <1>8, <1>10
  <2>4. OpenedOver(r, e, c)
    <3>1. entry \in OpenEntry /\ Classified(entry) /\ entry.id = Len(c.nodes) + 1
      BY <2>2 DEF x
    <3>2. /\ entry.kind \in TableContentKinds => HasTable(c.open.stack)
          /\ entry.kind = "ColGroup" => OutsideColumns(c.open.stack, Len(c.open.stack))
      BY <2>2
    <3>3. NewChild(e, c, p) /\ p \in Ids(c.nodes) /\ Receives(c.open.stack, p)
      BY <1>1, <1>4
    <3> QED
      BY <2>1, <2>3, <3>1, <3>2, <3>3, NewChildOpens
  <2>5. Placed(r.nodes, c.nodes, "element", location.parent)
    BY <1>4, <2>4 DEF OpenedOver, NewChild, p
  <2>6. OpenIds(r) \subseteq OpenIds(c) \cup {Len(c.nodes) + 1}
    BY <1>11, <2>4 DEF OpenedOver
  <2>7. Leaves(r, c)
    BY <1>6, <1>11, <2>4, <2>5, <2>6, PlacedLeaves DEF OpenedOver, SameRest, p
  <2> QED
    BY <1>6, <2>4, <2>5, <2>7 DEF OpenedOver, SameRest, x
<1> QED
  BY <1>9, <1>10

\* The element that was inserted is reported by being returned.
LEMMA InsertedReturns ==
  ASSUME NEW c, Sound(c), NEW r, NEW p, Placed(r.nodes, c.nodes, "element", p),
         r.created = c.created, r.ret = Len(c.nodes) + 1, Leaves(r, c)
  PROVE  Returns(r, c)
<1>1. Lists(r.nodes, Append(r.created, r.ret), c)
  BY PlacedLists
<1>2. r.ret \in ElementIds(r.nodes)
  BY DEF Placed, ElementIds
<1> QED
  BY <1>1, <1>2 DEF Returns

-----------------------------------------------------------------------------
(***************************************************************************)
(* Text and comments.                                                      *)
(***************************************************************************)
\* The stack and the place of comments are what they were, and no element is new
\* that is not told of.
KeepsStack(r, c) ==
  Sound(r) /\ r.open = c.open /\ r.after_body = c.after_body /\ Tells(r, c)

\* KeepsStack carries over from edit to edit.
LEMMA KeepsStackTransitive ==
  ASSUME NEW c, Sound(c), NEW r, KeepsStack(r, c), NEW q, KeepsStack(q, r)
  PROVE  KeepsStack(q, c)
BY TellsTransitive DEF KeepsStack

\* Fields that say nothing of the tree or of the stack.
LEMMA SoundFlags ==
  ASSUME NEW c, Sound(c), NEW r \in Builder, r.nodes = c.nodes, r.stale = c.stale, r.open = c.open,
         r.after_body \in {c.after_body, NULL}, r.last_text \in {c.last_text, NULL},
         r.flushed \in {c.flushed, c.ret, NULL}, r.ret \in Ids(c.nodes) \cup {NULL}
  PROVE  Sound(r)
<1>1. SameTree(r.nodes, c.nodes)
  BY SoundArena, SameTreeReflexive
<1>2. Shrinks(r.open, c.open, OpenEntry)
  BY UnchangedShrinks, OpenEntries DEF Sound
<1>3. Refers(r)
  BY DEF Sound, Refers
<1> QED
  BY <1>1, <1>2, <1>3, SoundEdit

\* A new text node, comment or doctype.
LEMMA NewLeafSound ==
  ASSUME NEW c, Sound(c), NEW r \in Builder, NEW p \in OpenIds(c), NEW type,
         Placed(r.nodes, c.nodes, type, p),
         type # "element", r.created = c.created, TreeOK(r.nodes, c.open.stack, c.after_body),
         r.open = c.open, r.stale = c.stale, r.after_body = c.after_body, r.flushed = c.flushed,
         r.ret = Len(c.nodes) + 1,
         r.last_text = c.last_text \/ (type = "text" /\ r.last_text = Len(c.nodes) + 1)
  PROVE  KeepsStack(r, c)
<1> DEFINE x == Len(c.nodes) + 1
<1>1. /\ Arena(r.nodes) /\ Ids(c.nodes) \subseteq Ids(r.nodes) /\ x \in Ids(r.nodes)
      /\ r.nodes[x].type = type
      /\ \A n \in Ids(c.nodes) : r.nodes[n].type = c.nodes[n].type
  BY DEF Placed
<1>2. Len(c.nodes) <= Len(r.nodes)
  BY SoundArena, ArenaNodes DEF Placed
<1>3. /\ c.stale.before <= Len(r.nodes) /\ c.stale.exact \subseteq Ids(r.nodes)
      /\ c.last_text # NULL => c.last_text \in Ids(r.nodes) /\ r.nodes[c.last_text].type = "text"
      /\ c.flushed \in Ids(r.nodes) \cup {NULL}
  BY <1>1, <1>2, RefersStill
<1> HIDE DEF x
<1>4. r.ret = x /\ (r.last_text = c.last_text \/ (type = "text" /\ r.last_text = x))
  BY DEF x
<1>5. Refers(r)
  BY <1>1, <1>3, <1>4 DEF Refers
<1>6. Lists(r.nodes, r.created, c)
  BY PlacedLists
<1>7. r.ret \in Ids(r.nodes) \ ElementIds(r.nodes)
  BY <1>1, <1>4 DEF ElementIds
<1>8. Leaves(r, c)
  <2>1. OpenIds(r) = OpenIds(c)
    BY DEF OpenIds
  <2> QED
    BY <2>1, PlacedLeaves
<1> QED
  BY <1>1, <1>5, <1>6, <1>7, <1>8 DEF KeepsStack, Sound, Tells

\* A new text node at a location.
LEMMA NewTextOK ==
  ASSUME NEW c, Sound(c), NEW content \in Seq(Strings), NEW location, LocationOK(c, location),
         NEW r, r = NewText(c, content, location)
  PROVE  KeepsStack(r, c)
<1> DEFINE x == Len(c.nodes) + 1
           p == location.parent
           depth == c.nodes[p].depth + 1
           fresh == Append(c.nodes, BlankNode("text", "", "none", content, depth))
           nodes == LinkAt(fresh, x, location)
<1>1. c \in Builder /\ p \in Ids(c.nodes) /\ Receives(c.open.stack, p) /\ Located(c.nodes, location)
  BY DEF Sound, LocationOK, Located
<1>8. p \in OpenIds(c)
  BY <1>1 DEF Receives, OpenIds
<1>2. depth \in Nat /\ x \in Nat
  BY <1>1, LocationDepth, NewNodeId
<1>3. r = [c EXCEPT !.nodes = nodes, !.last_text = x, !.ret = x]
  BY DEF NewText
<1> HIDE DEF depth
<1>4. Placed(nodes, c.nodes, "text", p)
  <2>1. "text" \in NodeTypes /\ "" \in Strings /\ "none" \in Strings
    BY DEF NodeTypes, Strings
  <2> QED
    BY <1>1, <1>2, <2>1, SoundArena, LinkPlaces
<1> HIDE DEF nodes, x, p
<1>5. TreeOK(nodes, c.open.stack, c.after_body)
  BY <1>1, <1>4, PlacedOK DEF TreeOK
<1>6. nodes \in Seq(Node)
  BY <1>4, ArenaNodes DEF Placed
<1>7. /\ r \in Builder /\ r.nodes = nodes /\ r.open = c.open /\ r.stale = c.stale
      /\ r.after_body = c.after_body /\ r.flushed = c.flushed /\ r.ret = x /\ r.last_text = x
      /\ r.created = c.created
  BY <1>1, <1>2, <1>3, <1>6 DEF Builder
<1> QED
  BY <1>4, <1>5, <1>7, <1>8, NewLeafSound DEF x

\* Text that continues the last text node, whose parent is open.
LEMMA JoinedTextOK ==
  ASSUME NEW c, Sound(c), NEW content \in Seq(Strings), c.last_text # NULL,
         c.nodes[c.last_text].parent \in OpenIds(c),
         NEW r, r = [c EXCEPT !.nodes[c.last_text].text = @ \o content, !.ret = c.last_text]
  PROVE  KeepsStack(r, c)
<1> DEFINE x == c.last_text
           nodes == [c.nodes EXCEPT ![x].text = @ \o content]
<1>1. c \in Builder /\ x \in Ids(c.nodes) /\ c.nodes[x].type = "text" /\ x \in Nat
  BY BuilderFields DEF Sound, Refers
<1>2. r = [c EXCEPT !.nodes = nodes, !.ret = x]
  BY <1>1 DEF Builder
<1>3. SamePlaces(nodes, c.nodes) /\ Keeps(nodes, c.nodes, Ids(c.nodes) \ {c.nodes[x].parent})
  BY <1>1, SoundArena, TextPlaces
<1> HIDE DEF nodes
<1>4. nodes \in Seq(Node) /\ Ids(nodes) = Ids(c.nodes)
  BY <1>3, ArenaNodes DEF SamePlaces, Ids
<1>11. Keeps(nodes, c.nodes, Closed(c))
  BY <1>3, KeepsFewer DEF Closed
<1> HIDE DEF x
<1>5. /\ r \in Builder /\ r.nodes = nodes /\ r.open = c.open /\ r.stale = c.stale
      /\ r.after_body = c.after_body /\ r.flushed = c.flushed /\ r.ret = x /\ r.last_text = c.last_text
      /\ r.created = c.created
  BY <1>1, <1>2, <1>4 DEF Builder
<1>6. Refers(r)
  BY <1>1, <1>3, <1>5 DEF Refers, Sound, SamePlaces, Ids
<1>7. Shrinks(r.open, c.open, OpenEntry)
  BY <1>5, UnchangedShrinks, OpenEntries DEF Sound
<1>8. Sound(r)
  BY <1>3, <1>5, <1>6, <1>7, SoundPlaces
<1>9. Lists(r.nodes, r.created, c)
  <2>1. NodesStay(nodes, c.nodes) /\ NewElements(nodes, c.nodes) = {}
    BY <1>3, <1>4 DEF SamePlaces, NodesStay, NewElements, ElementIds
  <2> QED
    BY <1>1, <1>5, <2>1, ListsNothing
<1>10. r.ret \in Ids(r.nodes) \ ElementIds(r.nodes)
  BY <1>1, <1>3, <1>5 DEF ElementIds, SamePlaces, Ids
<1>12. Leaves(r, c)
  BY <1>4, <1>5, <1>11 DEF Leaves, Closed, OpenIds
<1> QED
  BY <1>5, <1>8, <1>9, <1>10, <1>12 DEF KeepsStack, Tells

\* The node that new text may join is a child of the parent it goes to.
LEMMA CoalescingChild ==
  ASSUME NEW c, Sound(c), NEW location, LocationOK(c, location), CoalescingNode(c, location) # NULL
  PROVE  c.nodes[CoalescingNode(c, location)].parent \in OpenIds(c)
<1> DEFINE N == Ids(c.nodes)
           p == location.parent
           before == location.before
           x == CoalescingNode(c, location)
<1>1. Linked(c.nodes, N) /\ NULL \notin N
  BY SoundArena, ArenaNodes
<1>2. /\ p \in N /\ before \in N \cup {NULL} /\ (before # NULL => c.nodes[before].parent = p)
      /\ p \in OpenIds(c)
  BY DEF LocationOK, Located, Receives, OpenIds
<1>3. x = IF before = NULL THEN c.nodes[p].last ELSE c.nodes[before].prev
  BY DEF CoalescingNode
<1> HIDE DEF N, p, before, x
<1>4. c.nodes[x].parent = p
  BY <1>1, <1>2, <1>3 DEF Linked, LastAgrees, PrevAgrees, x
<1> QED
  BY <1>2, <1>4 DEF x

\* Either of the two, as coalescing decides.
LEMMA InsertTextAtOK ==
  ASSUME NEW c, Sound(c), NEW content \in Seq(Strings), NEW location, LocationOK(c, location)
  PROVE  KeepsStack(InsertTextAt(c, content, location), c)
<1> DEFINE target == CoalescingNode(c, location)
<1>1. target \in {NULL, c.last_text}
  BY DEF CoalescingNode
<1>2. CASE target = NULL
  BY <1>2, NewTextOK DEF InsertTextAt
<1>3. CASE target # NULL
  <2>1. InsertTextAt(c, content, location)
          = [c EXCEPT !.nodes[c.last_text].text = @ \o content, !.ret = c.last_text]
    BY <1>1, <1>3 DEF InsertTextAt
  <2>2. c.nodes[c.last_text].parent \in OpenIds(c)
    BY <1>1, <1>3, CoalescingChild
  <2> QED
    BY <1>1, <1>3, <2>1, <2>2, JoinedTextOK
<1> QED
  BY <1>2, <1>3

\* Decoding references makes text of text.
LEMMA DecodedType ==
  ASSUME NEW content \in Seq(Strings) PROVE Decoded(content) \in Seq(Strings)
<1> DEFINE n == Len(content)
<1>1. n \in Nat /\ \A i \in 1..n : content[i] \in Strings
  OBVIOUS
<1> HIDE DEF n
<1>2. Decoded(content) = [i \in 1..n |-> CASE content[i] = "ref_lf" -> "lf"
                               [] content[i] = "ref_lt" -> "lt"
                               [] content[i] = "ref_cr" -> "cr"
                               [] OTHER -> content[i]]
  BY DEF Decoded, n
<1>3. "lf" \in Strings /\ "lt" \in Strings /\ "cr" \in Strings
  BY DEF Strings
<1>4. \A i \in 1..n : Decoded(content)[i] \in Strings
  BY <1>1, <1>2, <1>3
<1>5. Decoded(content) \in [1..n -> Strings]
  BY <1>2, <1>4
<1> QED
  BY <1>1, <1>5

\* Text at the current node or fostered.
LEMMA InsertTextOK ==
  ASSUME NEW c, Sound(c), NEW content \in Seq(Strings), NEW foster
  PROVE  KeepsStack(InsertText(c, content, foster), c)
BY DecodedType, LocatedFor, InsertTextAtOK DEF InsertText

\* Doing nothing keeps the stack.
LEMMA KeepsStackReflexive ==
  ASSUME NEW c, Sound(c) PROVE KeepsStack(c, c)
BY TellsReflexive DEF KeepsStack

\* Reporting a flushed text node changes nothing else, and the handler returns what it
\* did before the flush.
LEMMA MarkFlushedOK ==
  ASSUME NEW c, Sound(c), NEW d, KeepsStack(d, c)
  PROVE  KeepsStack(MarkFlushed(d, c.ret), c)
<1> DEFINE r == MarkFlushed(d, c.ret)
<1>1. d \in Builder /\ Sound(d) /\ <<>> \in Seq(Strings) /\ c.ret \in Nat
  BY BuilderFields DEF KeepsStack, Sound
<1>2. /\ r \in Builder /\ r.nodes = d.nodes /\ r.stale = d.stale /\ r.open = d.open
      /\ r.after_body = d.after_body /\ r.last_text = d.last_text /\ r.flushed = d.ret /\ r.ret = c.ret
      /\ r.created = d.created
  BY <1>1, BuilderFields DEF MarkFlushed, Builder
<1> HIDE DEF r
<1>3. c.ret \in Ids(d.nodes) \cup {NULL}
  BY DEF KeepsStack, Tells, Lists, NodesStay, Sound, Refers
<1>4. Sound(r)
  BY <1>1, <1>2, <1>3, SoundFlags
<1>5. Tells(r, c)
  BY <1>2 DEF KeepsStack, Tells, Leaves, Closed, OpenIds
<1> QED
  BY <1>2, <1>4, <1>5 DEF KeepsStack, r

\* Held-back whitespace is inserted, fostered or not.
LEMMA FlushOK ==
  ASSUME NEW c, Sound(c)
  PROVE  KeepsStack(FlushPendingTableText(c), c)
<1> DEFINE d == InsertText(c, c.pending, FALSE)
<1>1. c.pending \in Seq(Strings)
  BY BuilderFields DEF Sound
<1>2. KeepsStack(d, c)
  BY <1>1, InsertTextOK
<1> HIDE DEF d
<1>3. KeepsStack(MarkFlushed(d, c.ret), c)
  BY <1>2, MarkFlushedOK
<1> QED
  BY <1>3, KeepsStackReflexive DEF FlushPendingTableText, d

\* The end of a run of text.
LEMMA EndTextRunOK ==
  ASSUME NEW c, Sound(c)
  PROVE  KeepsStack(EndTextRun(c), c)
<1> DEFINE d == FlushPendingTableText(c)
           r == [d EXCEPT !.last_text = NULL, !.foster_run = FALSE, !.newline_skip = "None"]
<1>1. KeepsStack(d, c)
  BY FlushOK
<1>2. EndTextRun(c) = r
  BY DEF EndTextRun
<1> HIDE DEF d
<1>3. Sound(d) /\ d \in Builder
  BY <1>1 DEF KeepsStack, Sound
<1>4. /\ r \in Builder /\ r.nodes = d.nodes /\ r.stale = d.stale /\ r.open = d.open
      /\ r.after_body = d.after_body /\ r.last_text = NULL /\ r.flushed = d.flushed /\ r.ret = d.ret
      /\ r.created = d.created
  BY <1>3 DEF Builder, NULL
<1> HIDE DEF r
<1>5. r.ret \in Ids(d.nodes) \cup {NULL}
  BY <1>3, <1>4 DEF Sound, Refers
<1>6. Sound(r)
  BY <1>3, <1>4, <1>5, SoundFlags
<1>7. Tells(r, c)
  BY <1>1, <1>4 DEF KeepsStack, Tells, Leaves, Closed, OpenIds
<1> QED
  BY <1>1, <1>2, <1>4, <1>6, <1>7 DEF KeepsStack

\* A part of a text is a text.
LEMMA SubText ==
  ASSUME NEW content \in Seq(Strings), NEW from \in Nat \ {0}, NEW to \in Nat, to <= Len(content)
  PROVE  SubSeq(content, from, to) \in Seq(Strings)
OBVIOUS

\* What is held back, and that the run is fostered, says nothing of the tree.
LEMMA SoundRun ==
  ASSUME NEW c, Sound(c), NEW pending \in Seq(Strings), NEW run \in BOOLEAN,
         NEW r, r = [c EXCEPT !.foster_run = run, !.pending = pending]
  PROVE  KeepsStack(r, c)
<1>1. c \in Builder
  BY DEF Sound
<1>2. /\ r \in Builder /\ r.nodes = c.nodes /\ r.stale = c.stale /\ r.open = c.open
      /\ r.after_body = c.after_body /\ r.last_text = c.last_text /\ r.flushed = c.flushed /\ r.ret = c.ret
      /\ r.created = c.created
  BY <1>1 DEF Builder
<1>3. r.ret \in Ids(c.nodes) \cup {NULL}
  BY <1>2 DEF Sound, Refers
<1>4. Sound(r)
  BY <1>2, <1>3, SoundFlags
<1>5. Tells(r, c)
  BY <1>2, SameTells
<1> QED
  BY <1>2, <1>4, <1>5 DEF KeepsStack

\* Text in a table is held back or fostered.
LEMMA TableTextOK ==
  ASSUME NEW c, Sound(c), NEW content \in Seq(Strings)
  PROVE  KeepsStack(HandleTableText(c, content), c)
<1>0. c \in Builder /\ c.pending \in Seq(Strings) /\ c.pending \o content \in Seq(Strings)
      /\ c.foster_run \in BOOLEAN /\ <<>> \in Seq(Strings)
  BY BuilderFields DEF Sound
<1>1. CASE c.foster_run
  BY <1>1, InsertTextOK DEF HandleTableText
<1>2. CASE ~ c.foster_run /\ IsBlank(content)
  <2>1. HandleTableText(c, content) = [c EXCEPT !.pending = c.pending \o content]
    BY <1>2 DEF HandleTableText
  <2>2. [c EXCEPT !.pending = c.pending \o content]
          = [c EXCEPT !.foster_run = c.foster_run, !.pending = c.pending \o content]
    BY <1>0 DEF Builder
  <2> QED
    BY <1>0, <2>1, <2>2, SoundRun
<1>3. CASE ~ c.foster_run /\ ~ IsBlank(content)
  <2> DEFINE d == [c EXCEPT !.foster_run = TRUE, !.pending = <<>>]
  <2>1. KeepsStack(d, c)
    BY <1>0, SoundRun
  <2>2. HandleTableText(c, content) = InsertText(d, c.pending \o content, TRUE)
    BY <1>3 DEF HandleTableText
  <2> HIDE DEF d
  <2>3. KeepsStack(InsertText(d, c.pending \o content, TRUE), d)
    BY <1>0, <2>1, InsertTextOK DEF KeepsStack
  <2> QED
    BY <2>1, <2>2, <2>3, KeepsStackTransitive
<1> QED
  BY <1>1, <1>2, <1>3

\* Text whose column group, if any, was left.
LEMMA SettledTextOK ==
  ASSUME NEW c, Sound(c), NEW content \in Seq(Strings)
  PROVE  KeepsStack(HandleSettledText(c, content), c)
BY TableTextOK, InsertTextOK DEF HandleSettledText

\* The first character that is not blank closes the column group.
LEMMA LeaveColumnGroupOK ==
  ASSUME NEW c, Sound(c), NEW content \in Seq(Strings)
  PROVE  Sound(LeaveColumnGroup(c, content)) /\ Tells(LeaveColumnGroup(c, content), c)
<1>1. CASE IsCurrentKind(c.open, "ColGroup")
  <2> DEFINE d == [c EXCEPT !.open = PopOpenElement(c.open)]
  <2>1. Shrinks(PopOpenElement(c.open), c.open, OpenEntry)
    BY <1>1, PopShrinks, OpenEntries DEF Sound, IsCurrentKind
  <2>2. Sound(d)
    BY <2>1, SoundOpen
  <2>3. LeaveColumnGroup(c, content) = HandleSettledText(d, content)
    BY <1>1 DEF LeaveColumnGroup
  <2>4. Tells(d, c)
    BY <2>1, StackTells
  <2> HIDE DEF d
  <2> QED
    BY <2>2, <2>3, <2>4, SettledTextOK, TellsTransitive DEF KeepsStack
<1>2. CASE ~ IsCurrentKind(c.open, "ColGroup")
  BY <1>2, InsertTextOK DEF LeaveColumnGroup, KeepsStack
<1> QED
  BY <1>1, <1>2

\* Text in a column group: blanks stay in it.
LEMMA ColumnGroupTextOK ==
  ASSUME NEW c, Sound(c), NEW content \in Seq(Strings)
  PROVE  /\ Sound(HandleColumnGroupText(c, content)) /\ Tells(HandleColumnGroupText(c, content), c)
         /\ IsBlank(content) => KeepsStack(HandleColumnGroupText(c, content), c)
<1> DEFINE n == Len(content)
           hits == {i \in 1..n : content[i] \notin Whitespace}
           split == FirstOf(hits)
           blank == IF split = 0 THEN content ELSE SubSeq(content, 1, split - 1)
           led == IF blank = <<>> THEN c ELSE InsertText(c, blank, FALSE)
           rest == SubSeq(content, split, n)
<1>1. HandleColumnGroupText(c, content) = IF split = 0 THEN led ELSE LeaveColumnGroup(led, rest)
  BY DEF HandleColumnGroupText
<1>2. n \in Nat /\ hits \subseteq 1..n
  OBVIOUS
<1> HIDE DEF n, hits
<1>3. split \in 0..n
  BY <1>2, FirstOfPosition
<1> HIDE DEF split
<1>4. blank \in Seq(Strings) /\ (split # 0 => rest \in Seq(Strings))
  <2>1. split # 0 => SubSeq(content, 1, split - 1) \in Seq(Strings)
    <3>1. split # 0 => split - 1 \in Nat /\ split - 1 <= n
      BY <1>2, <1>3
    <3> QED
      BY <3>1, SubText DEF n
  <2>2. split # 0 => rest \in Seq(Strings)
    <3>1. split # 0 => split \in Nat \ {0} /\ n <= n
      BY <1>2, <1>3
    <3> QED
      BY <1>2, <3>1, SubText DEF n
  <2> QED
    BY <2>1, <2>2
<1> HIDE DEF blank, rest
<1>5. KeepsStack(led, c)
  BY <1>4, InsertTextOK, KeepsStackReflexive
<1>6. IsBlank(content) => split = 0
  <2>1. IsBlank(content) => hits = {}
    BY DEF IsBlank, hits, n
  <2> QED
    BY <2>1 DEF split, FirstOf
<1> HIDE DEF led
<1> QED
  BY <1>1, <1>4, <1>5, <1>6, LeaveColumnGroupOK, TellsTransitive DEF KeepsStack

\* Skipping a leading newline leaves text, and a state of the skip.
LEMMA SkipType ==
  ASSUME NEW skip \in {"None", "Newline", "LineFeedAfterCr"}, NEW content \in Seq(Strings),
         content # <<>>
  PROVE  /\ SkipLeadingNewline(skip, content).text \in Seq(Strings)
         /\ SkipLeadingNewline(skip, content).skip \in {"None", "Newline", "LineFeedAfterCr"}
<1> DEFINE kept(from) == [text |-> SubSeq(content, from, Len(content)), skip |-> "None"]
           r == SkipLeadingNewline(skip, content)
<1>1. \/ r \in {kept(1), kept(2), kept(3)}
      \/ r = [kept(2) EXCEPT !.skip = IF Len(content) = 1 THEN "LineFeedAfterCr" ELSE "None"]
  BY Zenon DEF SkipLeadingNewline
<1>2. /\ SubSeq(content, 1, Len(content)) \in Seq(Strings)
      /\ SubSeq(content, 2, Len(content)) \in Seq(Strings)
      /\ SubSeq(content, 3, Len(content)) \in Seq(Strings)
  <2>1. Len(content) \in Nat /\ Len(content) <= Len(content)
    OBVIOUS
  <2> QED
    BY <2>1, SubText
<1> HIDE DEF r
<1>3. CASE r \in {kept(1), kept(2), kept(3)}
  <2>1. r.text \in {SubSeq(content, 1, Len(content)), SubSeq(content, 2, Len(content)),
                     SubSeq(content, 3, Len(content))}
    BY <1>3
  <2>2. r.skip = "None"
    BY <1>3
  <2> QED
    BY <1>2, <2>1, <2>2 DEF r
<1>4. CASE r = [kept(2) EXCEPT !.skip = IF Len(content) = 1 THEN "LineFeedAfterCr" ELSE "None"]
  <2>1. r.text = SubSeq(content, 2, Len(content)) /\ r.skip \in {"LineFeedAfterCr", "None"}
    BY <1>4
  <2> QED
    BY <1>2, <2>1 DEF r
<1> QED
  BY <1>1, <1>3, <1>4

\* A run of characters keeps a builder sound.
LEMMA HandleTextOK ==
  ASSUME NEW c, Sound(c), NEW source \in Seq(Strings)
  PROVE  /\ Sound(HandleText(c, source)) /\ Tells(HandleText(c, source), c)
         /\ BodyOpen(c) => BodyOpen(HandleText(c, source))
<1> DEFINE skipped == SkipLeadingNewline(c.newline_skip, source)
           content == skipped.text
           after == IF IsBlank(content) THEN c.after_body ELSE NULL
           next == [c EXCEPT !.newline_skip = skipped.skip, !.after_body = after]
<1>1. c \in Builder /\ c.newline_skip \in {"None", "Newline", "LineFeedAfterCr"} /\ c.after_body \in Nat
  BY BuilderFields DEF Sound
<1>2. CASE source = <<>>
  <2>1. HandleText(c, source) = c
    BY <1>2 DEF HandleText
  <2> QED
    BY <2>1, TellsReflexive
<1>3. CASE source # <<>>
  <2>1. content \in Seq(Strings) /\ skipped.skip \in {"None", "Newline", "LineFeedAfterCr"}
    BY <1>1, <1>3, SkipType
  <2>2. HandleText(c, source)
          = IF content = <<>> THEN next
            ELSE IF c.open.mode = "InColumnGroup" THEN HandleColumnGroupText(next, content)
            ELSE HandleSettledText(next, content)
    BY <1>3 DEF HandleText
  <2> HIDE DEF skipped, content
  <2>3. after \in {c.after_body, NULL} /\ after \in Nat /\ (~ IsBlank(content) => after = NULL)
    BY <1>1 DEF NULL
  <2> HIDE DEF after
  <2>4. /\ next \in Builder /\ next.nodes = c.nodes /\ next.stale = c.stale /\ next.open = c.open
        /\ next.after_body = after /\ next.last_text = c.last_text /\ next.flushed = c.flushed
        /\ next.ret = c.ret /\ next.created = c.created
    BY <1>1, <2>1, <2>3 DEF Builder
  <2> HIDE DEF next
  <2>5. next.ret \in Ids(c.nodes) \cup {NULL}
    BY <2>4 DEF Sound, Refers
  <2>6. Sound(next)
    BY <2>3, <2>4, <2>5, SoundFlags
  <2>7. Tells(next, c)
    BY <2>3, <2>4, SameTells
  <2>8. ASSUME NEW r, Sound(r) /\ Tells(r, next) PROVE Sound(r) /\ Tells(r, c)
    BY <2>7, <2>8, TellsTransitive
  <2>9. BodyOpen(c) => BodyOpen(next)
    BY <2>3, <2>4 DEF BodyOpen, OpenIds
  <2>10. ASSUME NEW r, KeepsStack(r, next) PROVE Sound(r) /\ Tells(r, c) /\ (BodyOpen(c) => BodyOpen(r))
    BY <2>8, <2>9, <2>10 DEF KeepsStack, BodyOpen, OpenIds
  <2>11. ASSUME NEW r, Tells(r, next), ~ IsBlank(content) PROVE BodyOpen(r)
    BY <2>3, <2>4, <2>11 DEF Tells, Leaves, BodyOpen
  <2>12. CASE content = <<>>
    BY <2>2, <2>6, <2>7, <2>9, <2>12
  <2>13. CASE content # <<>> /\ c.open.mode = "InColumnGroup"
    BY <2>1, <2>2, <2>6, <2>8, <2>10, <2>11, <2>13, ColumnGroupTextOK
  <2>14. CASE content # <<>> /\ c.open.mode # "InColumnGroup"
    BY <2>1, <2>2, <2>6, <2>10, <2>14, SettledTextOK
  <2> QED
    BY <2>12, <2>13, <2>14
<1> QED
  BY <1>2, <1>3

-----------------------------------------------------------------------------
(***************************************************************************)
(* Comments and doctypes.                                                  *)
(***************************************************************************)
\* One more node fits below p.
HasRoomBelow(c, p) ==
  /\ p \in Ids(c.nodes)
  /\ \E h : /\ Grounded(c.nodes, c.open.stack, h) /\ TakesComments(c.nodes, h, c.after_body)
            /\ h[p] <= MaxDepth

\* The current node is open.
LEMMA CurrentIsOpen ==
  ASSUME NEW c, Sound(c) PROVE CurrentParent(c) \in OpenIds(c)
<1>1. Len(c.open.stack) \in 1..Len(c.open.stack)
  BY SoundStack
<1> QED
  BY <1>1 DEF CurrentParent, Top, OpenIds

\* There is room below the current node.
LEMMA CurrentHasRoom ==
  ASSUME NEW c, Sound(c)
  PROVE  HasRoomBelow(c, CurrentParent(c))
<1> DEFINE s == c.open.stack
           n == Len(s)
<1>1. PICK h : Grounded(c.nodes, s, h) /\ TakesComments(c.nodes, h, c.after_body)
  BY DEF Sound, TreeOK
<1>2. n \in Nat /\ 1 <= n /\ n <= MaxDepth + 1
  BY <1>1 DEF Grounded, Branch
<1>3. s[n].id \in Ids(c.nodes) /\ h[s[n].id] = n - 1
  BY <1>1, <1>2 DEF Grounded, Branch
<1>4. CurrentParent(c) = s[n].id
  BY DEF CurrentParent, Top
<1> HIDE DEF s, n
<1>5. n - 1 <= MaxDepth
  BY <1>2, MaxDepthAssumption
<1> QED
  BY <1>1, <1>3, <1>4, <1>5 DEF HasRoomBelow, s

\* There is room below the node that comments after the body go to.
LEMMA AfterBodyHasRoom ==
  ASSUME NEW c, Sound(c), c.after_body # NULL
  PROVE  HasRoomBelow(c, c.after_body)
  BY DEF Sound, TreeOK, TakesComments, HasRoomBelow

\* A comment or a doctype goes to any open node with room below it.
LEMMA InsertLeafOK ==
  ASSUME NEW c, Sound(c), NEW p \in OpenIds(c), HasRoomBelow(c, p), NEW type \in {"comment", "doctype"},
         NEW r, r = InsertLeaf(c, type, p)
  PROVE  KeepsStack(r, c)
<1> DEFINE x == Len(c.nodes) + 1
           depth == c.nodes[p].depth + 1
           fresh == Append(c.nodes, BlankNode(type, "", "none", <<>>, depth))
           nodes == AppendSubtree(fresh, p, x)
<1>1. p \in Ids(c.nodes) /\ c \in Builder /\ Arena(c.nodes)
  BY SoundArena DEF Sound, HasRoomBelow
<1>2. depth \in Nat /\ x \in Nat
  BY <1>1, LocationDepth, NewNodeId
<1>3. r = [c EXCEPT !.nodes = nodes, !.ret = x]
  BY DEF InsertLeaf
<1> HIDE DEF depth
<1>4. Placed(nodes, c.nodes, type, p)
  <2> DEFINE location == AppendTo(p)
  <2>1. /\ type \in NodeTypes /\ type # "text" /\ "" \in Strings /\ "none" \in Strings
        /\ <<>> \in Seq(Strings)
    BY DEF NodeTypes, Strings
  <2>2. Located(c.nodes, location) /\ location.parent = p /\ location.before = NULL
    BY <1>1 DEF AppendTo, Located
  <2>3. LinkAt(fresh, x, location) = nodes
    BY <2>2 DEF LinkAt
  <2> HIDE DEF location, nodes
  <2>4. Placed(LinkAt(fresh, x, location), c.nodes, type, location.parent)
    BY <1>1, <1>2, <2>1, <2>2, LinkPlaces
  <2> QED
    BY <2>2, <2>3, <2>4
<1> HIDE DEF nodes, fresh
<1>5. PICK h : /\ Grounded(c.nodes, c.open.stack, h) /\ TakesComments(c.nodes, h, c.after_body)
               /\ h[p] <= MaxDepth
  BY DEF HasRoomBelow
<1> DEFINE v == h[p] + 1
           g == [n \in Ids(nodes) |-> IF n = Len(c.nodes) + 1 THEN v ELSE h[n]]
<1>6. v \in Nat /\ h[p] < v /\ v <= MaxDepth + 1 /\ v <= Len(c.nodes)
  <2>1. h[p] \in Nat /\ h[p] < Len(c.nodes)
    BY <1>1, <1>5 DEF Grounded, Hung
  <2>2. Len(c.nodes) \in Nat
    BY <1>1, ArenaNodes
  <2> QED
    BY <1>5, <2>1, <2>2, MaxDepthAssumption
<1> HIDE DEF v
<1>7. Grounded(nodes, c.open.stack, g)
  BY <1>1, <1>4, <1>5, <1>6, GroundedPlaced
<1>8. TakesComments(nodes, g, c.after_body)
  BY <1>4, <1>5 DEF TakesComments, Placed
<1> HIDE DEF g
<1>9. TreeOK(nodes, c.open.stack, c.after_body)
  BY <1>7, <1>8 DEF TreeOK
<1>10. nodes \in Seq(Node)
  BY <1>4, ArenaNodes DEF Placed
<1> HIDE DEF x
<1>11. /\ r \in Builder /\ r.nodes = nodes /\ r.open = c.open /\ r.stale = c.stale
       /\ r.after_body = c.after_body /\ r.flushed = c.flushed /\ r.ret = x
       /\ r.last_text = c.last_text /\ r.created = c.created
  BY <1>1, <1>2, <1>3, <1>10 DEF Builder
<1>12. Placed(r.nodes, c.nodes, type, p) /\ TreeOK(r.nodes, c.open.stack, c.after_body)
  BY <1>4, <1>9, <1>11
<1>13. r.ret = Len(c.nodes) + 1
  BY <1>11 DEF x
<1>14. /\ r \in Builder /\ r.open = c.open /\ r.stale = c.stale /\ r.after_body = c.after_body
       /\ r.flushed = c.flushed /\ r.created = c.created /\ type # "element"
       /\ r.last_text = c.last_text \/ (type = "text" /\ r.last_text = Len(c.nodes) + 1)
  BY <1>11
<1> QED
  BY <1>12, <1>13, <1>14, NewLeafSound, Zenon

\* A comment goes to the current node or, after the body, to an outer element.
LEMMA HandleCommentOK ==
  ASSUME NEW c, Sound(c), BodyOpen(c)
  PROVE  /\ Sound(HandleComment(c)) /\ Tells(HandleComment(c), c)
         /\ BodyOpen(HandleComment(c))
<1> DEFINE d == EndTextRun(c)
           p == IF c.after_body = NULL THEN CurrentParent(d) ELSE c.after_body
<1>1. KeepsStack(d, c) /\ Sound(d) /\ d.after_body = c.after_body /\ d.open = c.open
  BY EndTextRunOK DEF KeepsStack
<1>2. HandleComment(c) = InsertLeaf(d, "comment", p)
  BY DEF HandleComment, InsertComment
<1> HIDE DEF d
<1>3. HasRoomBelow(d, p)
  BY <1>1, CurrentHasRoom, AfterBodyHasRoom
<1>4. p \in OpenIds(d)
  BY <1>1, CurrentIsOpen DEF BodyOpen, OpenIds
<1> HIDE DEF p
<1>5. KeepsStack(HandleComment(c), c)
  BY <1>1, <1>2, <1>3, <1>4, InsertLeafOK, KeepsStackTransitive
<1> QED
  BY <1>5 DEF KeepsStack, BodyOpen, OpenIds

\* A doctype goes to the current node.
LEMMA HandleDoctypeOK ==
  ASSUME NEW c, Sound(c) PROVE KeepsStack(HandleDoctype(c), c)
<1> DEFINE d == EndTextRun(c)
<1>1. KeepsStack(d, c) /\ Sound(d) /\ CurrentParent(d) = CurrentParent(c)
  BY EndTextRunOK DEF KeepsStack, CurrentParent
<1>2. HandleDoctype(c) = InsertLeaf(d, "doctype", CurrentParent(d))
  BY <1>1 DEF HandleDoctype
<1> HIDE DEF d
<1> QED
  BY <1>1, <1>2, CurrentHasRoom, CurrentIsOpen, InsertLeafOK, KeepsStackTransitive

-----------------------------------------------------------------------------
(***************************************************************************)
(* Reprocessing a tag closes entries, one turn after the other.            *)
(***************************************************************************)
StartTurns == INSTANCE SequenceFold WITH Op <- StartTagTurn

\* The fact that module SequenceFold asks for.
LEMMA StartTurnsLeast == StartTurns!LeastExists
  BY LeastElement DEF StartTurns!LeastExists
EndTurns == INSTANCE SequenceFold WITH Op <- EndTagTurn

\* The fact that module SequenceFold asks for.
LEMMA EndTurnsLeast == EndTurns!LeastExists
  BY LeastElement DEF EndTurns!LeastExists

\* Closing twice is closing.
LEMMA ShrinksTransitive ==
  ASSUME NEW q, NEW r, NEW o, StackOK(r, OpenEntry),
         Shrinks(q, r, OpenEntry), Shrinks(r, o, OpenEntry), StackOK(o, OpenEntry)
  PROVE  Shrinks(q, o, OpenEntry)
<1>1. StackOK(q, OpenEntry)
  BY DEF Shrinks
<1>2. Len(q.stack) \in Nat /\ Len(r.stack) \in Nat /\ Len(o.stack) \in Nat
  BY <1>1 DEF StackOK, StackType
<1>3. Len(q.stack) <= Len(r.stack) /\ Len(r.stack) <= Len(o.stack)
  BY DEF Shrinks
<1>4. \A i \in 1..Len(q.stack) : q.stack[i] = r.stack[i]
  BY DEF Shrinks
<1>5. \A i \in 1..Len(r.stack) : r.stack[i] = o.stack[i]
  BY DEF Shrinks
<1>6. \A i \in 1..Len(q.stack) : q.stack[i] = o.stack[i]
  BY <1>2, <1>3, <1>4, <1>5
<1> QED
  BY <1>1, <1>2, <1>3, <1>6 DEF Shrinks

\* One turn closes the element that has to be closed first, if any.
LEMMA ClosedForReprocessShrinks ==
  ASSUME NEW o, StackOK(o, OpenEntry), NEW kind
  PROVE  Shrinks(ClosedForReprocess(o, kind), o, OpenEntry)
<1>1. ClosedForReprocess(o, kind) \in {o, PopIfCurrent(o, kind), CloseLastKind(o, kind)}
  BY DEF ClosedForReprocess
<1>2. /\ Shrinks(o, o, OpenEntry) /\ Shrinks(PopIfCurrent(o, kind), o, OpenEntry)
      /\ Shrinks(CloseLastKind(o, kind), o, OpenEntry)
  BY OpenEntries, UnchangedShrinks, PopIfCurrentShrinks, CloseLastKindShrinks
<1> QED
  BY <1>1, <1>2

\* The stacks that closing entries of o can leave.
ClosedStacks(o) == {r \in StackType(OpenEntry) : Shrinks(r, o, OpenEntry)}

\* Reprocessing stays among the stacks that closing can leave.
LEMMA ClosedStacksClosed ==
  ASSUME NEW o, StackOK(o, OpenEntry), NEW r \in ClosedStacks(o), NEW kind
  PROVE  ClosedForReprocess(r, kind) \in ClosedStacks(o)
<1>1. StackOK(r, OpenEntry) /\ Shrinks(r, o, OpenEntry)
  BY DEF ClosedStacks, Shrinks
<1> DEFINE q == ClosedForReprocess(r, kind)
<1>2. Shrinks(q, r, OpenEntry)
  BY <1>1, ClosedForReprocessShrinks
<1> HIDE DEF q
<1>3. Shrinks(q, o, OpenEntry)
  BY <1>1, <1>2, ShrinksTransitive
<1>4. q \in StackType(OpenEntry)
  BY <1>3 DEF Shrinks, StackOK
<1> QED
  BY <1>3, <1>4 DEF ClosedStacks, q

\* The same turn for every open entry.
LEMMA Repeated ==
  ASSUME NEW n \in Nat, NEW name
  PROVE  [i \in 1..n |-> name] \in Seq({name})
  OBVIOUS

\* The stack itself is one of them.
LEMMA StackIsClosed ==
  ASSUME NEW o, StackOK(o, OpenEntry)
  PROVE  o \in ClosedStacks(o) /\ Len(o.stack) \in Nat
  BY OpenEntries, UnchangedShrinks DEF ClosedStacks, StackOK, StackType

\* A start tag closes elements before it is processed, as many turns as it takes.
LEMMA SettleStartShrinks ==
  ASSUME NEW o, StackOK(o, OpenEntry), NEW name
  PROVE  Shrinks(SettleStartTag(o, name), o, OpenEntry)
<1> DEFINE turns == [i \in 1..Len(o.stack) |-> name]
<1>1. \A r \in ClosedStacks(o) : \A x \in {name} : StartTagTurn(r, x) \in ClosedStacks(o)
  BY ClosedStacksClosed DEF StartTagTurn
<1>2. turns \in Seq({name})
  BY StackIsClosed, Repeated
<1>3. SettleStartTag(o, name) = StartTurns!Folded(o, turns)
  BY DEF SettleStartTag, StartTurns!Folded, StartTurns!Greatest, FoldLeft, MapThenFoldSet, Max
<1> HIDE DEF turns
<1>4. StartTurns!Folded(o, turns) \in ClosedStacks(o)
  BY <1>1, <1>2, StackIsClosed, StartTurnsLeast, StartTurns!FoldInvariant
<1> QED
  BY <1>3, <1>4 DEF ClosedStacks

\* So does an end tag.
LEMMA SettleEndShrinks ==
  ASSUME NEW o, StackOK(o, OpenEntry), NEW name
  PROVE  Shrinks(SettleEndTag(o, name), o, OpenEntry)
<1> DEFINE turns == [i \in 1..Len(o.stack) |-> name]
<1>1. \A r \in ClosedStacks(o) : \A x \in {name} : EndTagTurn(r, x) \in ClosedStacks(o)
  BY ClosedStacksClosed DEF EndTagTurn
<1>2. turns \in Seq({name})
  BY StackIsClosed, Repeated
<1>3. SettleEndTag(o, name) = EndTurns!Folded(o, turns)
  BY DEF SettleEndTag, EndTurns!Folded, EndTurns!Greatest, FoldLeft, MapThenFoldSet, Max
<1> HIDE DEF turns
<1>4. EndTurns!Folded(o, turns) \in ClosedStacks(o)
  BY <1>1, <1>2, StackIsClosed, EndTurnsLeast, EndTurns!FoldInvariant
<1> QED
  BY <1>3, <1>4 DEF ClosedStacks

-----------------------------------------------------------------------------
(***************************************************************************)
(* Reprocessing a tag ends.                                                *)
(***************************************************************************)
\* Nothing more is closed: no kind is, or a column group that is not the current node.
Settled(o, kind) == kind = "None" \/ (kind = "ColGroup" /\ ~ IsCurrentKind(o, kind))

\* The kind to close is a column group, or the one whose mode is in force.
Closeable(o, kind) ==
  \/ kind \in {"None", "ColGroup"}
  \/ kind \in ModeKinds /\ o.mode = ModeOf[kind]

\* An element of the kind whose mode is in force is open above the root, and closing it closes
\* at least one entry.
LEMMA ModeKindCloses ==
  ASSUME NEW o, StackOK(o, OpenEntry), NEW kind \in ModeKinds, o.mode = ModeOf[kind]
  PROVE  Len(CloseLastKind(o, kind).stack) < Len(o.stack)
<1> DEFINE s == o.stack
           n == Len(s)
           at == LastOfKind(o, kind)
<1>1. s \in Seq(OpenEntry) /\ n \in Nat /\ n >= 1 /\ IsModeAt(s, n, o.mode) /\ s[1].kind = "Root"
  <2>1. s \in Seq(OpenEntry) /\ n \in Nat /\ n >= 1 /\ s[1].kind = "Root"
    BY DEF StackOK, StackType, Rooted
  <2>2. (\A i \in 1..n : IsModeAt(s, i, s[i].mode)) /\ o.mode = s[n].mode
    BY DEF StackOK, CachesAgree, Top
  <2>3. n \in 1..n
    BY <2>1
  <2> QED
    BY <2>1, <2>2, <2>3
<1>2. o.mode # "InBody"
  BY ModeOfType
<1>3. PICK i \in 1..n : s[i].kind \in ModeKinds /\ ModeOf[kind] = ModeOf[s[i].kind]
  BY <1>1, <1>2 DEF IsModeAt
<1>4. s[i].kind = kind
  BY <1>3 DEF ModeOf, ModeKinds
<1>5. i # 1
  BY <1>1, <1>4 DEF ModeKinds
<1>6. KindIsOpen(o, kind)
  <2>1. i \in EntriesOfKind(s, kind) /\ kind \in Kinds
    BY <1>4 DEF EntriesOfKind, ModeKinds, Kinds
  <2>2. Cardinality(EntriesOfKind(s, kind)) # 0
    BY <1>1, <2>1, EntriesFinite, FS_EmptySet
  <2> QED
    BY <2>1, <2>2 DEF KindIsOpen, StackOK, CachesAgree
<1>7. at \in 0..n /\ \A j \in at + 1 .. n : s[j].kind # kind
  BY OpenEntries, LastOfKindRange
<1> HIDE DEF at
<1>8. at \in Int /\ 1 < at /\ at <= n
  BY <1>1, <1>3, <1>4, <1>5, <1>7
<1>9. CloseLastKind(o, kind) = TruncateStack(o, at - 1)
  BY <1>6, <1>8 DEF CloseLastKind, CloseFrom, at
<1>10. at - 1 \in 1..n /\ at - 1 \in Int
  BY <1>1, <1>8
<1>11. Len(TruncateStack(o, at - 1).stack) = at - 1
  BY <1>10, OpenEntries, TruncateOK
<1> QED
  BY <1>1, <1>8, <1>9, <1>11

\* A turn closes at least one entry until nothing more is closed, and none after that.
LEMMA TurnCloses ==
  ASSUME NEW o, StackOK(o, OpenEntry), NEW kind, Closeable(o, kind)
  PROVE  IF Settled(o, kind) THEN ClosedForReprocess(o, kind) = o
                             ELSE Len(ClosedForReprocess(o, kind).stack) < Len(o.stack)
<1>1. CASE kind = "None"
  BY <1>1 DEF Settled, ClosedForReprocess
<1>2. CASE kind = "ColGroup" /\ ~ IsCurrentKind(o, kind)
  BY <1>2 DEF Settled, ClosedForReprocess, PopIfCurrent
<1>3. CASE kind = "ColGroup" /\ IsCurrentKind(o, kind)
  <2>1. o.stack \in Seq(OpenEntry) /\ Len(o.stack) \in Nat /\ Len(o.stack) > 1
    BY <1>3 DEF StackOK, StackType, IsCurrentKind
  <2>2. ClosedForReprocess(o, kind) = PopOpenElement(o)
    BY <1>3 DEF ClosedForReprocess, PopIfCurrent
  <2>3. PopOpenElement(o) = TruncateStack(o, Len(o.stack) - 1)
    BY <2>1, OpenEntries, PopIsTruncation
  <2>4. Len(o.stack) - 1 \in 1..Len(o.stack) /\ Len(o.stack) - 1 \in Int
    BY <2>1
  <2>5. Len(TruncateStack(o, Len(o.stack) - 1).stack) = Len(o.stack) - 1
    BY <2>4, OpenEntries, TruncateOK
  <2> QED
    BY <1>3, <2>1, <2>2, <2>3, <2>5 DEF Settled
<1>4. CASE kind \notin {"None", "ColGroup"}
  <2>1. kind \in ModeKinds /\ o.mode = ModeOf[kind]
    BY <1>4 DEF Closeable
  <2>2. ClosedForReprocess(o, kind) = CloseLastKind(o, kind)
    BY <1>4 DEF ClosedForReprocess
  <2> QED
    BY <1>4, <2>1, <2>2, ModeKindCloses DEF Settled
<1> QED
  BY <1>1, <1>2, <1>3, <1>4

\* What start tags and end tags close is what the mode is named after.
LEMMA TagsClose ==
  ASSUME NEW o, NEW name
  PROVE  Closeable(o, StartTagCloses(o, name)) /\ Closeable(o, EndTagCloses(o, name))
<1>1. Closeable(o, StartTagCloses(o, name))
  BY DEF Closeable, StartTagCloses, ModeKinds, ModeOf
<1>2. Closeable(o, EndTagCloses(o, name))
  BY DEF Closeable, EndTagCloses, ModeKinds, ModeOf
<1> QED
  BY <1>1, <1>2

\* After i turns the start tag is settled, or i entries at least are closed; so it is after as
\* many turns as there are entries.
LEMMA StartTagSettles ==
  ASSUME NEW o, StackOK(o, OpenEntry), NEW name, NEW r, r = SettleStartTag(o, name)
  PROVE  Settled(r, StartTagCloses(r, name))
<1> DEFINE n == Len(o.stack)
           turns == [i \in 1..n |-> name]
           done(q) == Settled(q, StartTagCloses(q, name))
           R == [i \in 0..n |-> {q \in ClosedStacks(o) : done(q) \/ Len(q.stack) + i <= n}]
<1>1. n \in Nat /\ o \in ClosedStacks(o)
  BY StackIsClosed
<1>2. turns \in Seq({name}) /\ Len(turns) = n /\ \A i \in 1..n : turns[i] = name
  BY <1>1, Repeated
<1>3. r = StartTurns!Folded(o, turns)
  BY DEF SettleStartTag, StartTurns!Folded, StartTurns!Greatest, FoldLeft, MapThenFoldSet, Max
<1>4. \A q \in ClosedStacks(o) : StackOK(q, OpenEntry) /\ Len(q.stack) \in Nat /\ Len(q.stack) >= 1
  BY DEF ClosedStacks, Shrinks, StackOK, StackType, Rooted
<1>5. ASSUME NEW i \in 1..n, NEW q \in R[i - 1] PROVE StartTagTurn(q, name) \in R[i]
  <2> DEFINE next == StartTagTurn(q, name)
  <2>1. i \in Nat /\ i \in 0..n /\ i - 1 \in 0..n
    BY <1>1
  <2>2. q \in ClosedStacks(o) /\ (done(q) \/ Len(q.stack) + (i - 1) <= n)
    BY <2>1
  <2>3. next \in ClosedStacks(o)
    BY <2>2, ClosedStacksClosed DEF StartTagTurn
  <2>4. IF done(q) THEN next = q ELSE Len(next.stack) < Len(q.stack)
    BY <1>4, <2>2, TagsClose, TurnCloses DEF StartTagTurn
  <2>5. Len(next.stack) \in Nat /\ Len(q.stack) \in Nat
    BY <1>4, <2>2, <2>3
  <2> HIDE DEF next, done
  <2>6. done(next) \/ Len(next.stack) + i <= n
    BY <1>1, <2>1, <2>2, <2>4, <2>5
  <2> QED
    BY <2>1, <2>3, <2>6 DEF next
<1>6. o \in R[0]
  BY <1>1
<1> HIDE DEF turns, done, n
<1>7. r \in R[n]
  <2> HIDE DEF R
  <2> QED
    BY <1>2, <1>3, <1>5, <1>6, StartTurnsLeast, StartTurns!FoldIndexed
<1>8. r \in ClosedStacks(o) /\ (done(r) \/ Len(r.stack) + n <= n)
  BY <1>1, <1>7
<1>9. ~ (Len(r.stack) + n <= n)
  BY <1>1, <1>4, <1>8
<1> QED
  BY <1>8, <1>9 DEF done

\* The same for end tags.
LEMMA EndTagSettles ==
  ASSUME NEW o, StackOK(o, OpenEntry), NEW name, NEW r, r = SettleEndTag(o, name)
  PROVE  Settled(r, EndTagCloses(r, name))
<1> DEFINE n == Len(o.stack)
           turns == [i \in 1..n |-> name]
           done(q) == Settled(q, EndTagCloses(q, name))
           R == [i \in 0..n |-> {q \in ClosedStacks(o) : done(q) \/ Len(q.stack) + i <= n}]
<1>1. n \in Nat /\ o \in ClosedStacks(o)
  BY StackIsClosed
<1>2. turns \in Seq({name}) /\ Len(turns) = n /\ \A i \in 1..n : turns[i] = name
  BY <1>1, Repeated
<1>3. r = EndTurns!Folded(o, turns)
  BY DEF SettleEndTag, EndTurns!Folded, EndTurns!Greatest, FoldLeft, MapThenFoldSet, Max
<1>4. \A q \in ClosedStacks(o) : StackOK(q, OpenEntry) /\ Len(q.stack) \in Nat /\ Len(q.stack) >= 1
  BY DEF ClosedStacks, Shrinks, StackOK, StackType, Rooted
<1>5. ASSUME NEW i \in 1..n, NEW q \in R[i - 1] PROVE EndTagTurn(q, name) \in R[i]
  <2> DEFINE next == EndTagTurn(q, name)
  <2>1. i \in Nat /\ i \in 0..n /\ i - 1 \in 0..n
    BY <1>1
  <2>2. q \in ClosedStacks(o) /\ (done(q) \/ Len(q.stack) + (i - 1) <= n)
    BY <2>1
  <2>3. next \in ClosedStacks(o)
    BY <2>2, ClosedStacksClosed DEF EndTagTurn
  <2>4. IF done(q) THEN next = q ELSE Len(next.stack) < Len(q.stack)
    BY <1>4, <2>2, TagsClose, TurnCloses DEF EndTagTurn
  <2>5. Len(next.stack) \in Nat /\ Len(q.stack) \in Nat
    BY <1>4, <2>2, <2>3
  <2> HIDE DEF next, done
  <2>6. done(next) \/ Len(next.stack) + i <= n
    BY <1>1, <2>1, <2>2, <2>4, <2>5
  <2> QED
    BY <2>1, <2>3, <2>6 DEF next
<1>6. o \in R[0]
  BY <1>1
<1> HIDE DEF turns, done, n
<1>7. r \in R[n]
  <2> HIDE DEF R
  <2> QED
    BY <1>2, <1>3, <1>5, <1>6, EndTurnsLeast, EndTurns!FoldIndexed
<1>8. r \in ClosedStacks(o) /\ (done(r) \/ Len(r.stack) + n <= n)
  BY <1>1, <1>7
<1>9. ~ (Len(r.stack) + n <= n)
  BY <1>1, <1>4, <1>8
<1> QED
  BY <1>8, <1>9 DEF done

-----------------------------------------------------------------------------
(***************************************************************************)
(* A misnested formatting end tag closes entries and reopens some of them. *)
(***************************************************************************)
Reopenings == INSTANCE SequenceFold WITH Op <- Reopen

\* The fact that module SequenceFold asks for.
LEMMA ReopeningsLeast == Reopenings!LeastExists
  BY LeastElement DEF Reopenings!LeastExists

\* A formatting entry of a node that is there.
Reopenable(c, entry) ==
  /\ entry \in OpenEntry /\ Classified(entry) /\ entry.kind = "Formatting"
  /\ entry.id \in Ids(c.nodes)

\* No node went away, at most one entry more is open, and it is told of.
OneMore(r, c) ==
  /\ Sound(r) /\ Tells(r, c)
  /\ Ids(c.nodes) \subseteq Ids(r.nodes)
  /\ Len(r.open.stack) <= Len(c.open.stack) + 1

\* All that is opened or closed bears one of the names.
OthersStay(o, p, names) == \A other : other \notin names => OpenNamed(o, other) = OpenNamed(p, other)

\* Counting children opens and closes nothing, and a push opens one element of a name.
LEMMA PushedNamed ==
  ASSUME NEW p, Len(p.stack) \in Nat, NEW o, SameEntries(o.stack, p.stack), NEW entry \in OpenEntry,
         NEW r, r.stack = PushEntry(o, entry).stack, o.stack \in Seq(OpenEntry)
  PROVE  OthersStay(r, p, {entry.name})
<1> DEFINE n == Len(p.stack)
           mode == PushedMode(entry.kind, o.mode)
           top == [entry EXCEPT !.mode = mode]
<1>1. Len(o.stack) = n /\ \A i \in 1..n : o.stack[i].name = p.stack[i].name
  BY DEF SameEntries
<1>2. r.stack = Append(o.stack, top)
  BY DEF PushEntry
<1>3. top.name = entry.name
  BY DEF OpenEntry
<1> HIDE DEF top
<1>4. /\ Len(r.stack) = n + 1 /\ r.stack[n + 1] = top
      /\ \A i \in 1..n : r.stack[i] = o.stack[i]
  BY <1>1, <1>2
<1> HIDE DEF n
<1>5. ASSUME NEW other, other # entry.name PROVE OpenNamed(r, other) = OpenNamed(p, other)
  <2>1. \A i \in 1..n + 1 : i \in 1..n \/ i = n + 1
    BY DEF n
  <2>2. \A i \in 1..n : i \in 1..n + 1
    BY DEF n
  <2>3. OpenNamed(r, other) = {i \in 1..n + 1 : r.stack[i].name = other}
    BY <1>4 DEF OpenNamed
  <2>4. OpenNamed(p, other) = {i \in 1..n : p.stack[i].name = other}
    BY DEF OpenNamed, n
  <2>5. \A i \in 1..n : r.stack[i].name = p.stack[i].name
    BY <1>1, <1>4
  <2>6. r.stack[n + 1].name # other
    BY <1>3, <1>4, <1>5
  <2> QED
    BY <2>1, <2>2, <2>3, <2>4, <2>5, <2>6
<1> QED
  BY <1>5 DEF OthersStay

\* A clone of a formatting element opens at the insertion point.
LEMMA ReopenAtOK ==
  ASSUME NEW c, Sound(c), NEW entry, Reopenable(c, entry), NEW location, LocationOK(c, location),
         Len(c.open.stack) <= MaxDepth,
         NEW r, r = ReopenAt(c, entry, location)
  PROVE  OneMore(r, c) /\ OthersStay(r.open, c.open, {entry.name})
<1> DEFINE x == Len(c.nodes) + 1
           p == location.parent
           depth == c.nodes[p].depth + 1
           name == c.nodes[entry.id].name
           attrs == c.nodes[entry.id].attrs
           nodes == Append(c.nodes, BlankNode("element", name, attrs, <<>>, depth))
           created == Append(c.created, x)
           d == [c EXCEPT !.nodes = nodes, !.created = created]
           e == AttachElement(d, x, location)
           clone == [entry EXCEPT !.id = x, !.children = 0]
<1>1. c \in Builder /\ p \in Ids(c.nodes) /\ Receives(c.open.stack, p)
  BY DEF Sound, LocationOK, Located
<1>2. depth \in Nat /\ x \in Nat
  BY <1>1, LocationDepth, NewNodeId
<1>3. name \in Strings /\ attrs \in Strings
  <2>1. c.nodes[entry.id] \in Node
    BY SoundArena, ArenaNodes DEF Reopenable
  <2> QED
    BY <2>1, NodeFields
<1>4. r = [e EXCEPT !.open = PushEntry(e.open, clone)]
  <2>1. [c EXCEPT !.nodes = CloneElementShallow(@, entry.id, depth), !.created = Append(@, x)] = d
    BY DEF CloneElementShallow
  <2> QED
    BY <2>1 DEF ReopenAt
<1>5. /\ clone \in OpenEntry /\ Classified(clone) /\ clone.id = x /\ clone.kind = "Formatting"
      /\ clone.name = entry.name
  <2>1. entry \in OpenEntry /\ Classified(entry) /\ entry.kind = "Formatting"
    BY DEF Reopenable
  <2>2. clone \in OpenEntry
    BY <1>2, <2>1 DEF OpenEntry
  <2>3. clone.id = x /\ clone.kind = entry.kind /\ clone.name = entry.name
    BY <2>1 DEF OpenEntry
  <2> QED
    BY <2>1, <2>2, <2>3 DEF Classified
<1> HIDE DEF clone, name, attrs, depth
<1>6. Created(d, c, name, attrs, depth)
  <2>1. nodes \in Seq(Node)
    <3>1. BlankNode("element", name, attrs, <<>>, depth) \in Node
      BY <1>2, <1>3 DEF BlankNode, Node, NodeTypes, NULL
    <3> QED
      BY <3>1, BuilderFields, <1>1
  <2>2. created \in Seq(Nat)
    BY <1>1, <1>2, BuilderFields
  <2>3. d \in Builder /\ d.nodes = nodes /\ d.open = c.open /\ d.stale = c.stale
        /\ d.after_body = c.after_body /\ d.last_text = c.last_text /\ d.flushed = c.flushed
        /\ d.ret = c.ret /\ d.created = created
    <3> HIDE DEF nodes, created
    <3> QED
      BY <1>1, <2>1, <2>2 DEF Builder
  <2> QED
    BY <2>3 DEF Created
<1>12. d.created = Append(c.created, x) /\ d.ret = c.ret
  BY <1>1 DEF Builder
<1> HIDE DEF d, x, p
<1>7. NewChild(e, c, p) /\ SameRest(e, d)
  BY <1>2, <1>3, <1>6, AttachedIsChild DEF x, p
<1> HIDE DEF e
<1>8. OpenedOver(r, e, c)
  <2>1. "Formatting" \notin TableContentKinds
    BY DEF TableContentKinds, ModeKinds
  <2>2. clone.kind \notin TableContentKinds /\ clone.kind # "ColGroup"
    BY <1>5, <2>1
  <2>3. clone.id = Len(c.nodes) + 1
    BY <1>5 DEF x
  <2> QED
    BY <1>1, <1>4, <1>5, <1>7, <2>2, <2>3, NewChildOpens
<1>9. Ids(c.nodes) \subseteq Ids(e.nodes)
  BY <1>7 DEF NewChild, Placed
<1>10. Len(c.open.stack) + 1 <= Len(c.open.stack) + 1
  BY SoundStack
<1>11. Tells(r, c)
  <2>1. Lists(e.nodes, Append(c.created, x), c)
    BY <1>7, PlacedLists DEF NewChild, x
  <2>2. r.nodes = e.nodes /\ r.created = Append(c.created, x) /\ r.ret = c.ret
        /\ r.after_body = c.after_body
    BY <1>12, <1>7, <1>8 DEF OpenedOver, SameRest, NewChild
  <2>3. OpenIds(e) = OpenIds(c) /\ p \in OpenIds(c)
    <3>1. OpenIds(e) = OpenIds(c)
      BY <1>7 DEF NewChild, SameEntries, OpenIds
    <3>2. p \in OpenIds(c)
      BY <1>1 DEF OpenIds, Receives
    <3> QED
      BY <3>1, <3>2
  <2>4. OpenIds(r) \subseteq OpenIds(c) \cup {Len(c.nodes) + 1}
    BY <1>8, <2>3 DEF OpenedOver
  <2>5. Placed(r.nodes, c.nodes, "element", p)
    BY <1>7, <2>2 DEF NewChild
  <2>6. Leaves(r, c)
    BY <2>2, <2>3, <2>4, <2>5, PlacedLeaves
  <2> QED
    BY <2>1, <2>2, <2>6 DEF Tells
<1>13. OthersStay(r.open, c.open, {entry.name})
  <2>1. e \in Builder /\ StackOK(e.open, OpenEntry) /\ SameEntries(e.open.stack, c.open.stack)
    BY <1>7 DEF NewChild
  <2>2. e.open.stack \in Seq(OpenEntry) /\ Len(c.open.stack) \in Nat
    BY <2>1, SoundStack DEF StackOK, StackType
  <2>3. r.open = PushEntry(e.open, clone)
    BY <1>4, <2>1 DEF Builder
  <2> QED
    BY <1>5, <2>1, <2>2, <2>3, PushedNamed
<1> QED
  BY <1>8, <1>9, <1>10, <1>11, <1>13 DEF OneMore, OpenedOver

\* What is closed and may reopen.
Closures == [entry : OpenEntry, reopens : BOOLEAN]

\* What was closed reopens, or not: at most one entry more is open.
LEMMA ReopenOK ==
  ASSUME NEW c, Sound(c), NEW closed \in Closures, closed.reopens => Reopenable(c, closed.entry),
         Len(c.open.stack) <= MaxDepth
  PROVE  /\ OneMore(Reopen(c, closed), c)
         /\ OthersStay(Reopen(c, closed).open, c.open, {closed.entry.name})
<1>1. CASE closed.reopens
  BY <1>1, LocatedFor, ReopenAtOK DEF Reopen
<1>2. CASE ~ closed.reopens
  <2>1. Reopen(c, closed) = c
    BY <1>2 DEF Reopen
  <2>2. Len(c.open.stack) <= Len(c.open.stack) + 1
    BY SoundStack
  <2> QED
    BY <2>1, <2>2, TellsReflexive DEF OneMore, OthersStay
<1> QED
  BY <1>1, <1>2

\* The names that may reopen.
NamesOf(seq) == {seq[j].entry.name : j \in 1..Len(seq)}

\* As few entries are open as were closed and reopened, and what was created since old is told
\* of; every entry to reopen is of a node that is there, and bears one of the names that were
\* closed since o.
PartlyReopened(old, o, seq, from, i) ==
  {c \in Builder :
     /\ Sound(c) /\ Tells(c, old) /\ OthersStay(c.open, o, NamesOf(seq))
     /\ Len(c.open.stack) <= from + i
     /\ \A j \in 1..Len(seq) : seq[j].reopens => Reopenable(c, seq[j].entry)}

\* The entries above a formatting element, and which of them reopen.
LEMMA ClosedAboveType ==
  ASSUME NEW c, Sound(c), NEW f \in Nat, f >= 2, f <= Len(c.open.stack),
         NEW seq, seq = ClosedAbove(c, f)
  PROVE  /\ seq \in Seq(Closures)
         /\ Len(seq) = Len(c.open.stack) - f
         /\ \A j \in 1..Len(seq) : seq[j].entry = c.open.stack[f + j]
         /\ \A j \in 1..Len(seq) : seq[j].reopens => Reopenable(c, seq[j].entry)
<1> DEFINE s == c.open.stack
           n == Len(s)
           item(i) == [entry |-> s[f + i], reopens |-> ApplyNoahsArk(c, f + i)]
<1>1. n \in Nat /\ \A i \in 1..n : s[i] \in OpenEntry /\ s[i].id \in Ids(c.nodes)
  BY SoundStack
<1>2. \A i \in 2..n : Classified(s[i])
  BY SoundStack
<1> HIDE DEF n
<1>3. \A i \in 1..n - f : f + i \in 2..n /\ f + i \in 1..n
  BY <1>1
<1>4. \A i \in 1..n - f : ApplyNoahsArk(c, f + i) \in BOOLEAN
  BY DEF ApplyNoahsArk
<1>5. \A i \in 1..n - f : item(i) \in Closures
  BY <1>1, <1>3, <1>4 DEF Closures
<1>6. seq = [i \in 1..n - f |-> item(i)]
  BY DEF ClosedAbove, n
<1>7. seq \in Seq(Closures) /\ Len(seq) = n - f
  <2>1. n - f \in Nat
    BY <1>1 DEF n
  <2> HIDE DEF item
  <2> QED
    BY <1>5, <1>6, <2>1
<1>8. ASSUME NEW j \in 1..Len(seq), seq[j].reopens PROVE Reopenable(c, seq[j].entry)
  <2>1. j \in 1..n - f
    BY <1>7
  <2>2. seq[j].entry = s[f + j] /\ ApplyNoahsArk(c, f + j)
    BY <1>6, <1>8, <2>1
  <2>3. s[f + j].kind = "Formatting"
    BY <2>2 DEF ApplyNoahsArk
  <2>4. f + j \in 1..n /\ f + j \in 2..n
    BY <1>3, <2>1
  <2> QED
    BY <1>1, <1>2, <2>2, <2>3, <2>4 DEF Reopenable
<1>9. \A j \in 1..Len(seq) : seq[j].entry = s[f + j]
  <2> TAKE j \in 1..Len(seq)
  <2>1. j \in 1..n - f
    BY <1>7
  <2> QED
    BY <1>6, <2>1
<1> QED
  BY <1>7, <1>8, <1>9 DEF n

NamesAbove(s, f) == {s[i].name : i \in f + 1 .. Len(s)}

NamedBelow(s, f, name) == {i \in 1..f - 1 : s[i].name = name}

\* Closing a formatting element and what is open above it, and reopening formatting elements,
\* stays within the nesting limit although reopening does not look at it; of a name that nothing
\* above bears, what is open below stays open and no more.
LEMMA CloseFormattingOK ==
  ASSUME NEW c, Sound(c), NEW f \in Nat, f >= 2, f <= Len(c.open.stack)
  PROVE  /\ Sound(CloseFormattingElement(c, f)) /\ Tells(CloseFormattingElement(c, f), c)
         /\ \A name : name \notin NamesAbove(c.open.stack, f) =>
              OpenNamed(CloseFormattingElement(c, f).open, name) = NamedBelow(c.open.stack, f, name)
<1> DEFINE seq == ClosedAbove(c, f)
           n == Len(c.open.stack)
           o == TruncateStack(c.open, f - 1)
           base == [c EXCEPT !.open = o]
           R == [i \in 0..Len(seq) |-> PartlyReopened(c, o, seq, f - 1, i)]
<1>1. n \in Nat /\ n <= MaxDepth + 1
  <2>1. PICK h : Grounded(c.nodes, c.open.stack, h)
    BY DEF Sound, TreeOK
  <2> QED
    BY <2>1 DEF Grounded, Branch
<1>2. /\ seq \in Seq(Closures) /\ Len(seq) = n - f
      /\ \A j \in 1..Len(seq) : seq[j].entry = c.open.stack[f + j]
      /\ \A j \in 1..Len(seq) : seq[j].reopens => Reopenable(c, seq[j].entry)
  BY ClosedAboveType
<1>3. CloseFormattingElement(c, f) = Reopenings!Folded(base, seq)
  BY DEF CloseFormattingElement, Reopenings!Folded, Reopenings!Greatest, FoldLeft, MapThenFoldSet, Max
<1> HIDE DEF seq
<1>4. Shrinks(o, c.open, OpenEntry) /\ Len(o.stack) = f - 1
  <2>1. StackOK(c.open, OpenEntry) /\ f - 1 \in Int /\ f - 1 \in 1..Len(c.open.stack)
    BY <1>1 DEF Sound
  <2> QED
    BY <2>1, OpenEntries, TruncateShrinks, TruncateOK
<1> HIDE DEF o
<1>5. Sound(base) /\ Tells(base, c)
  BY <1>4, SoundOpen, StackTells
<1>6. base.nodes = c.nodes /\ base.open = o /\ base \in Builder
  BY <1>5 DEF Sound, Builder
<1> HIDE DEF base
<1>7. base \in R[0]
  <2>1. 0 \in 0..Len(seq) /\ Len(base.open.stack) <= f - 1 + 0
    BY <1>1, <1>2, <1>4, <1>6
  <2>2. \A j \in 1..Len(seq) : seq[j].reopens => Reopenable(base, seq[j].entry)
    BY <1>2, <1>6 DEF Reopenable
  <2>3. OthersStay(base.open, o, NamesOf(seq))
    BY <1>6 DEF OthersStay
  <2> QED
    BY <1>5, <1>6, <2>1, <2>2, <2>3 DEF PartlyReopened
<1>8. ASSUME NEW i \in 1..Len(seq), NEW r \in R[i - 1] PROVE Reopen(r, seq[i]) \in R[i]
  <2> DEFINE q == Reopen(r, seq[i])
  <2>1. i - 1 \in 0..Len(seq) /\ i \in 0..Len(seq) /\ i <= n - f
    BY <1>1, <1>2
  <2>2. /\ Sound(r) /\ Tells(r, c) /\ Len(r.open.stack) <= f - 1 + (i - 1)
        /\ OthersStay(r.open, o, NamesOf(seq))
        /\ \A j \in 1..Len(seq) : seq[j].reopens => Reopenable(r, seq[j].entry)
    BY <1>8, <2>1 DEF PartlyReopened
  <2>3. Len(r.open.stack) \in Nat
    BY <2>2, SoundStack
  <2>4. Len(r.open.stack) <= MaxDepth
    <3> HIDE DEF n
    <3> QED
      BY <1>1, <2>1, <2>2, <2>3, MaxDepthAssumption
  <2>5. OneMore(q, r) /\ OthersStay(q.open, r.open, {seq[i].entry.name})
    <3> HIDE DEF R
    <3>1. seq[i] \in Closures
      BY <1>2
    <3>2. seq[i].reopens => Reopenable(r, seq[i].entry)
      BY <2>2
    <3> QED
      BY <2>2, <2>4, <3>1, <3>2, ReopenOK
  <2> HIDE DEF q
  <2>6. \A j \in 1..Len(seq) : seq[j].reopens => Reopenable(q, seq[j].entry)
    BY <2>2, <2>5 DEF OneMore, Reopenable
  <2>7. Len(q.open.stack) \in Nat
    BY <2>5, SoundStack DEF OneMore
  <2>8. Len(q.open.stack) <= f - 1 + i
    <3>1. Len(q.open.stack) <= Len(r.open.stack) + 1
      BY <2>5 DEF OneMore
    <3>2. i \in Int
      OBVIOUS
    <3> HIDE DEF n, R
    <3> QED
      BY <2>2, <2>3, <2>7, <3>1, <3>2
  <2>9. q \in Builder /\ Sound(q) /\ Tells(q, c)
    BY <2>2, <2>5, TellsTransitive DEF OneMore, Sound
  <2>10. OthersStay(q.open, o, NamesOf(seq))
    <3>1. {seq[i].entry.name} \subseteq NamesOf(seq)
      BY DEF NamesOf
    <3> QED
      BY <2>2, <2>5, <3>1 DEF OthersStay
  <2> QED
    BY <2>1, <2>6, <2>8, <2>9, <2>10 DEF PartlyReopened, q
<1> HIDE DEF R
<1>9. Reopenings!Folded(base, seq) \in R[Len(seq)]
  BY <1>2, <1>7, <1>8, ReopeningsLeast, Reopenings!FoldIndexed
<1>10. Len(seq) \in 0..Len(seq)
  BY <1>1, <1>2
<1>11. ASSUME NEW name, name \notin NamesAbove(c.open.stack, f)
       PROVE  name \notin NamesOf(seq) /\ OpenNamed(o, name) = NamedBelow(c.open.stack, f, name)
  <2>1. ASSUME NEW j \in 1..Len(seq) PROVE seq[j].entry.name # name
    <3>1. f + j \in f + 1 .. Len(c.open.stack)
      BY <1>1, <1>2
    <3> QED
      BY <1>2, <1>11, <3>1 DEF NamesAbove
  <2>2. \A i \in 1..f - 1 : o.stack[i] = c.open.stack[i]
    BY <1>4 DEF Shrinks
  <2> QED
    BY <1>4, <2>1, <2>2 DEF NamesOf, OpenNamed, NamedBelow
<1>12. /\ Sound(CloseFormattingElement(c, f)) /\ Tells(CloseFormattingElement(c, f), c)
       /\ OthersStay(CloseFormattingElement(c, f).open, o, NamesOf(seq))
  BY <1>3, <1>9, <1>10 DEF R, PartlyReopened
<1> QED
  BY <1>11, <1>12 DEF OthersStay

-----------------------------------------------------------------------------
(***************************************************************************)
(* The adoption agency: clones around the furthest block.                  *)
(***************************************************************************)
Wrappings == INSTANCE SequenceFold WITH Op <- WrapInClone

\* The fact that module SequenceFold asks for.
LEMMA WrappingsLeast == Wrappings!LeastExists
  BY LeastElement DEF Wrappings!LeastExists

\* One clone more: the chain is as long as the entries visited.
LEMMA ChainGrows ==
  ASSUME NEW ns, Arena(ns), NEW furthest \in Ids(ns), NEW i \in Nat,
         NEW chain, ChainAt(chain, ns, furthest, i),
         NEW entry \in OpenEntry, entry.id \in Ids(ns), entry.kind = "Formatting", Classified(entry),
         NEW r, r = WrapInClone(chain, entry)
  PROVE  ChainAt(r, ns, furthest, i + 1)
<1> DEFINE len == Len(ns)
           N == chain.nodes
           x == Len(N) + 1
           a == AppendSubtree(CloneElementShallow(N, entry.id, 0), x, chain.outer)
           clone == [entry EXCEPT !.id = x, !.children = 1]
           at(q) == Around(furthest, len, q)
<1>1. r = [nodes |-> [a EXCEPT ![chain.outer].index = 1], outer |-> x,
           entries |-> <<clone>> \o chain.entries]
  BY DEF WrapInClone
<1> HIDE DEF a
<1>2. len \in Nat /\ Len(N) = len + i /\ Arena(N) /\ x = len + i + 1
  BY ArenaNodes DEF ChainAt
<1>3. \A n : n \in Ids(ns) <=> n \in 1..len
  BY DEF Ids
<1>4. \A n : n \in Ids(N) <=> n \in 1..len + i
  BY <1>2 DEF Ids
<1> HIDE DEF len, N, x
<1>5. chain.outer = at(i) /\ at(i) \in Ids(N) /\ N[at(i)].parent = NULL
  <2>1. chain.outer = at(i) /\ (i \in 0..i => N[at(i)].parent = NULL)
    BY DEF ChainAt, N, len
  <2>2. at(i) \in Ids(N)
    BY <1>2, <1>3, <1>4 DEF Around
  <2> QED
    BY <2>1, <2>2
<1>6. entry.id \in Ids(N)
  BY <1>2, <1>3, <1>4
<1>7. Wraps(r.nodes, N, at(i))
  <2>1. a = AppendSubtree(CloneElementShallow(N, entry.id, 0), Len(N) + 1, at(i))
    BY <1>5 DEF a, x
  <2>2. r.nodes = [a EXCEPT ![at(i)].index = 1]
    BY <1>1, <1>5
  <2> HIDE DEF at
  <2>3. Wraps([a EXCEPT ![at(i)].index = 1], N, at(i))
    BY <1>2, <1>5, <1>6, <2>1, CloneWraps
  <2> QED
    BY <2>2, <2>3
<1>8. /\ Arena(r.nodes) /\ Len(r.nodes) = x
      /\ \A n \in Ids(N) : r.nodes[n].type = N[n].type
                           /\ r.nodes[n].parent = IF n = at(i) THEN x ELSE N[n].parent
      /\ r.nodes[x].type = "element" /\ r.nodes[x].parent = NULL
  BY <1>7 DEF Wraps, x
<1>9. at(i + 1) = x /\ r.outer = x
  BY <1>1, <1>2 DEF Around
<1>10. \A n \in Ids(ns) : n \in Ids(N) /\ r.nodes[n].type = ns[n].type
  <2>1. \A n \in Ids(ns) : N[n].type = ns[n].type
    BY DEF ChainAt, N
  <2> QED
    BY <1>2, <1>3, <1>4, <1>8, <2>1
<1>11. \A n \in Ids(ns) \ {furthest} : r.nodes[n].parent = ns[n].parent
  <2>1. \A n \in Ids(ns) \ {furthest} : N[n].parent = ns[n].parent
    BY DEF ChainAt, N
  <2>2. \A n \in Ids(ns) \ {furthest} : n # at(i)
    BY <1>2, <1>3 DEF Around
  <2> QED
    BY <1>8, <1>10, <2>1, <2>2
<1>12. \A q \in 1..i + 1 : r.nodes[len + q].type = "element"
  <2>1. \A q \in 1..i : N[len + q].type = "element"
    BY DEF ChainAt, N, len
  <2>2. \A q \in 1..i + 1 : q \in 1..i \/ len + q = x
    BY <1>2
  <2>3. \A q \in 1..i : len + q \in Ids(N)
    BY <1>2, <1>4
  <2> QED
    BY <1>8, <2>1, <2>2, <2>3
<1>13. \A q \in 0..i + 1 : r.nodes[at(q)].parent = IF q = i + 1 THEN NULL ELSE at(q + 1)
  <2>1. \A q \in 0..i : N[at(q)].parent = IF q = i THEN NULL ELSE at(q + 1)
    BY DEF ChainAt, N, len
  <2>2. \A q \in 0..i : at(q) \in Ids(N) /\ (at(q) = at(i) <=> q = i)
    BY <1>2, <1>3, <1>4 DEF Around
  <2>3. \A q \in 0..i : q # i + 1 /\ r.nodes[at(q)].parent = at(q + 1)
    <3> HIDE DEF at
    <3> QED
      BY <1>8, <1>9, <2>1, <2>2
  <2>4. \A q \in 0..i + 1 : q \in 0..i \/ q = i + 1
    OBVIOUS
  <2> HIDE DEF at
  <2> QED
    BY <1>8, <1>9, <2>3, <2>4
<1>14. clone \in OpenEntry /\ clone.id = x /\ clone.kind = "Formatting" /\ Classified(clone)
  <2>1. x \in Nat
    BY <1>2
  <2>2. clone \in OpenEntry
    BY <2>1 DEF OpenEntry
  <2>3. clone.id = x /\ clone.kind = entry.kind /\ clone.name = entry.name
    BY DEF OpenEntry
  <2> QED
    BY <2>2, <2>3 DEF Classified
<1> HIDE DEF clone
<1>15. /\ r.entries \in Seq(OpenEntry) /\ Len(r.entries) = i + 1
       /\ \A q \in 1..i + 1 : r.entries[q] = IF q = 1 THEN clone ELSE chain.entries[q - 1]
  <2>1. chain.entries \in Seq(OpenEntry) /\ Len(chain.entries) = i
    BY DEF ChainAt
  <2>2. r.entries = <<clone>> \o chain.entries
    BY <1>1
  <2> QED
    BY <1>14, <2>1, <2>2
<1>16. \A q \in 1..i + 1 : /\ r.entries[q].id = len + (i + 1) + 1 - q
                           /\ r.entries[q].kind = "Formatting" /\ Classified(r.entries[q])
  <2>1. \A q \in 1..i : /\ chain.entries[q].id = len + i + 1 - q
                        /\ chain.entries[q].kind = "Formatting" /\ Classified(chain.entries[q])
    BY DEF ChainAt, len
  <2> TAKE q \in 1..i + 1
  <2>2. CASE q = 1
    BY <1>2, <1>14, <1>15, <2>2
  <2>3. CASE q # 1
    <3>1. q - 1 \in 1..i /\ r.entries[q] = chain.entries[q - 1]
      BY <1>15, <2>3
    <3> QED
      BY <1>2, <2>1, <3>1
  <2> QED
    BY <2>2, <2>3
<1>17. Len(r.nodes) = len + (i + 1)
  BY <1>2, <1>8
<1>18. Keeps(r.nodes, ns, Ids(ns) \ {ns[furthest].parent})
  <2> DEFINE C == Ids(ns) \ {ns[furthest].parent}
  <2>1. Keeps(N, ns, C)
    BY DEF ChainAt, N
  <2>2. C \subseteq Ids(N)
    BY <1>2, <1>3, <1>4
  <2>3. Keeps(r.nodes, N, Ids(N))
    BY <1>7 DEF Wraps
  <2> HIDE DEF C
  <2>4. Keeps(r.nodes, N, C)
    BY <2>2, <2>3, KeepsFewer
  <2>5. Keeps(r.nodes, ns, C)
    BY <2>1, <2>4, KeepsTransitive
  <2> QED
    BY <2>5 DEF C
<1> QED
  BY <1>8, <1>9, <1>10, <1>11, <1>12, <1>13, <1>15, <1>16, <1>17, <1>18 DEF ChainAt, len

\* The entries that adoption clones.
Cloneable(ns) ==
  {entry \in OpenEntry : entry.id \in Ids(ns) /\ entry.kind = "Formatting" /\ Classified(entry)}

\* The same as a step of a fold.
LEMMA WrapInChain ==
  ASSUME NEW ns, Arena(ns), NEW furthest \in Ids(ns), NEW i \in Nat,
         NEW chain \in ChainsAt(ns, furthest, i), NEW entry \in Cloneable(ns)
  PROVE  WrapInClone(chain, entry) \in ChainsAt(ns, furthest, i + 1)
<1> DEFINE r == WrapInClone(chain, entry)
<1>1. r = [nodes |-> r.nodes, outer |-> r.outer, entries |-> r.entries]
  BY DEF WrapInClone
<1>2. ChainAt(chain, ns, furthest, i)
  BY DEF ChainsAt
<1>3. entry \in OpenEntry /\ entry.id \in Ids(ns) /\ entry.kind = "Formatting" /\ Classified(entry)
  BY DEF Cloneable
<1>4. ChainAt(r, ns, furthest, i + 1)
  BY <1>2, <1>3, ChainGrows
<1> HIDE DEF r
<1>5. r \in ChainsAt(ns, furthest, i + 1)
  BY <1>1, <1>4, ChainOfType
<1> QED
  BY <1>5 DEF r

\* A clone bears the name of what it is a clone of.
LEMMA WrapNames ==
  ASSUME NEW chain, chain.entries \in Seq(OpenEntry), NEW names, Named(chain.entries, names),
         NEW entry \in OpenEntry, entry.name \in names
  PROVE  Named(WrapInClone(chain, entry).entries, names)
<1> DEFINE clone == [entry EXCEPT !.id = Len(chain.nodes) + 1, !.children = 1]
           r == WrapInClone(chain, entry).entries
<1>1. r = <<clone>> \o chain.entries
  BY DEF WrapInClone
<1>2. clone.name = entry.name
  BY DEF OpenEntry
<1> HIDE DEF clone, r
<1>3. Len(r) = Len(chain.entries) + 1 /\ Len(chain.entries) \in Nat
  BY <1>1
<1>4. \A q \in 1..Len(r) : r[q] = IF q = 1 THEN clone ELSE chain.entries[q - 1]
  BY <1>1
<1>5. \A q \in 1..Len(r) : q = 1 \/ q - 1 \in 1..Len(chain.entries)
  BY <1>3
<1> QED
  BY <1>2, <1>4, <1>5 DEF Named, r

\* Only the root is without a parent.
LEMMA OpenHasParent ==
  ASSUME NEW c, Sound(c), NEW i \in 2..Len(c.open.stack)
  PROVE  c.nodes[c.open.stack[i].id].parent \in Ids(c.nodes)
<1> DEFINE s == c.open.stack
<1>1. PICK h : Grounded(c.nodes, s, h)
  BY DEF Sound, TreeOK
<1>2. Len(s) \in Nat /\ 1 <= Len(s) /\ 1 \in 1..Len(s) /\ i \in 1..Len(s)
  BY SoundStack
<1>3. s[1].id = RootId /\ s[i].id \in Ids(c.nodes) /\ h[s[1].id] = 1 - 1 /\ h[s[i].id] = i - 1
  BY <1>1, <1>2 DEF Grounded, Branch
<1>4. s[i].id # RootId
  BY <1>2, <1>3
<1> HIDE DEF s
<1>5. s[i].id \in Ids(c.nodes) \ {RootId}
  BY <1>3, <1>4
<1>6. c.nodes[s[i].id].parent \in Ids(c.nodes)
  BY <1>1, <1>5 DEF Grounded, Hung
<1> QED
  BY <1>6 DEF s

\* A function from 1..k is a sequence of length k.
LEMMA SequenceOf ==
  ASSUME NEW X, NEW k \in Nat, NEW seq \in [1..k -> X]
  PROVE  seq \in Seq(X) /\ Len(seq) = k
  OBVIOUS

\* The entries to clone, innermost first.
LEMMA InsideOutType ==
  ASSUME NEW c, Sound(c), NEW f, NEW at, Adopts(c.open.stack, f, at),
         NEW positions, positions = ChainPositions(c.open, f, at),
         NEW seq, seq = [i \in 1..Len(positions) |-> c.open.stack[positions[Len(positions) + 1 - i]]]
  PROVE  /\ seq \in Seq(Cloneable(c.nodes)) /\ Len(seq) = Len(positions)
         /\ Len(positions) \in Nat /\ Len(positions) <= at - f - 1
         /\ Named(seq, NamesBetween(c.open.stack, f, at))
<1> DEFINE s == c.open.stack
           n == Len(s)
           k == Len(positions)
           H == {i \in f + 1 .. at - 1 : s[i].kind = "Formatting"}
<1>1. n \in Nat /\ f \in Nat /\ f >= 2 /\ at \in f + 1 .. n
  BY SoundStack DEF Adopts
<1>2. positions \in Seq(H) /\ k <= at - f - 1
  <2>1. at \in Nat /\ f < at
    BY <1>1
  <2> QED
    BY <1>1, <2>1, ChainRange
<1>3. k \in Nat /\ \A i \in 1..k : positions[i] \in H
  BY <1>2
<1>4. \A i \in H : s[i] \in Cloneable(c.nodes)
  <2>1. \A i \in 1..n : s[i] \in OpenEntry /\ s[i].id \in Ids(c.nodes)
    BY SoundStack
  <2>2. \A i \in 2..n : Classified(s[i])
    BY SoundStack
  <2> HIDE DEF n, s
  <2>3. \A i \in H : i \in 1..n /\ i \in 2..n /\ s[i].kind = "Formatting"
    BY <1>1
  <2> QED
    BY <2>1, <2>2, <2>3 DEF Cloneable
<1>5. \A i \in 1..k : /\ s[positions[k + 1 - i]] \in Cloneable(c.nodes)
                      /\ s[positions[k + 1 - i]].name \in NamesBetween(s, f, at)
  <2>1. \A i \in 1..k : k + 1 - i \in 1..k
    BY <1>3
  <2>2. \A i \in H : s[i].name \in NamesBetween(s, f, at)
    BY DEF NamesBetween
  <2> HIDE DEF H
  <2> QED
    BY <1>3, <1>4, <2>1, <2>2
<1>6. seq = [i \in 1..k |-> s[positions[k + 1 - i]]]
  OBVIOUS
<1> HIDE DEF k, s, H
<1>7. seq \in Seq(Cloneable(c.nodes)) /\ Len(seq) = k
  <2>1. \A i \in 1..k : seq[i] \in Cloneable(c.nodes)
    BY <1>5, <1>6
  <2>2. seq \in [1..k -> Cloneable(c.nodes)]
    BY <1>6, <2>1
  <2> QED
    BY <1>3, <2>2, SequenceOf
<1>8. Named(seq, NamesBetween(s, f, at))
  BY <1>5, <1>6, <1>7 DEF Named
<1> QED
  BY <1>2, <1>3, <1>7, <1>8 DEF k, s

\* The chain has one clone, with its name, for every formatting element it keeps.
LEMMA AdoptionChainOK ==
  ASSUME NEW c, Sound(c), NEW f, NEW at, Adopts(c.open.stack, f, at)
  PROVE  \E k \in Nat : /\ k <= at - f - 1
                        /\ ChainAt(AdoptionChain(c, f, at), c.nodes, c.open.stack[at].id, k)
                        /\ Named(AdoptionChain(c, f, at).entries, NamesBetween(c.open.stack, f, at))
<1> DEFINE positions == ChainPositions(c.open, f, at)
           furthest == c.open.stack[at].id
           seq == [i \in 1..Len(positions) |-> c.open.stack[positions[Len(positions) + 1 - i]]]
           base == [nodes |-> Detach(c.nodes, furthest), outer |-> furthest, entries |-> <<>>]
           names == NamesBetween(c.open.stack, f, at)
           R == [i \in 0..Len(seq) |->
                   {chain \in ChainsAt(c.nodes, furthest, i) : Named(chain.entries, names)}]
<1>1. /\ seq \in Seq(Cloneable(c.nodes)) /\ Len(seq) = Len(positions)
      /\ Len(positions) \in Nat /\ Len(positions) <= at - f - 1
      /\ Named(seq, names)
  BY InsideOutType
<1>2. AdoptionChain(c, f, at) = Wrappings!Folded(base, seq)
  BY DEF AdoptionChain, Wrappings!Folded, Wrappings!Greatest, FoldLeft, MapThenFoldSet, Max
<1>3. Arena(c.nodes) /\ furthest \in Ids(c.nodes) /\ c.nodes[furthest].parent # NULL
  <2>1. Len(c.open.stack) \in Nat /\ at \in 2..Len(c.open.stack) /\ at \in 1..Len(c.open.stack)
    BY SoundStack DEF Adopts
  <2>2. furthest \in Ids(c.nodes) /\ c.nodes[furthest].parent \in Ids(c.nodes)
    BY <2>1, OpenHasParent, SoundStack
  <2> QED
    BY <2>2, SoundArena, ArenaNodes
<1>4. base \in ChainsAt(c.nodes, furthest, 0) /\ Named(base.entries, names)
  <2>1. Len(base.entries) = 0
    OBVIOUS
  <2>2. Named(base.entries, names)
    BY <2>1 DEF Named
  <2> QED
    BY <1>3, <2>2, DetachStartsChain
<1> HIDE DEF seq, base, positions, furthest, names
<1>5. base \in R[0]
  BY <1>1, <1>4
<1>6. ASSUME NEW i \in 1..Len(seq), NEW r \in R[i - 1] PROVE WrapInClone(r, seq[i]) \in R[i]
  <2>1. i - 1 \in Nat /\ i - 1 \in 0..Len(seq) /\ i \in 0..Len(seq) /\ i - 1 + 1 = i
    BY <1>1
  <2>2. /\ seq[i] \in Cloneable(c.nodes) /\ seq[i].name \in names
        /\ r \in ChainsAt(c.nodes, furthest, i - 1) /\ Named(r.entries, names)
    BY <1>1, <1>6, <2>1 DEF Named
  <2>3. WrapInClone(r, seq[i]) \in ChainsAt(c.nodes, furthest, i - 1 + 1)
    BY <1>3, <2>1, <2>2, WrapInChain
  <2>4. Named(WrapInClone(r, seq[i]).entries, names)
    <3>1. r.entries \in Seq(OpenEntry) /\ seq[i] \in OpenEntry
      BY <2>2 DEF ChainsAt, ChainAt, Cloneable
    <3> QED
      BY <2>2, <3>1, WrapNames
  <2> QED
    BY <2>1, <2>3, <2>4
<1>7. Len(seq) \in 0..Len(seq)
  BY <1>1
<1> HIDE DEF R
<1>8. Wrappings!Folded(base, seq) \in R[Len(seq)]
  BY <1>1, <1>5, <1>6, WrappingsLeast, Wrappings!FoldIndexed
<1>9. /\ ChainAt(AdoptionChain(c, f, at), c.nodes, furthest, Len(seq))
      /\ Named(AdoptionChain(c, f, at).entries, names)
  BY <1>2, <1>7, <1>8 DEF R, ChainsAt
<1> QED
  BY <1>1, <1>9 DEF furthest, names

\* A new element is the only child of furthest, whose children it took over.
Refills(r, ns, furthest) ==
  /\ Arena(r)
  /\ Len(r) = Len(ns) + 1
  /\ \A n \in Ids(ns) :
       /\ r[n].type = ns[n].type
       /\ \/ r[n].parent = ns[n].parent
          \/ ns[n].parent = furthest /\ r[n].parent = Len(ns) + 1
  /\ r[Len(ns) + 1].type = "element" /\ r[Len(ns) + 1].parent = furthest
  /\ Keeps(r, ns, Ids(ns) \ {furthest})

\* The furthest block's content moves into a clone of the formatting element.
LEMMA ReplaceContentRefills ==
  ASSUME NEW ns, Arena(ns), NEW formatting \in Ids(ns), NEW furthest \in Ids(ns)
  PROVE  Refills(ReplaceContent(ns, formatting, furthest), ns, furthest)
<1> DEFINE x == Len(ns) + 1
           fresh == CloneElementShallow(ns, formatting, 0)
           moved == MoveChildren(fresh, furthest, x)
           linked == AppendSubtree(moved, furthest, x)
           r == [linked EXCEPT ![x].index = 1]
<1>1. PICK node : Allocated(fresh, ns, node) /\ node.type = "element" /\ node.parent = NULL
  BY CloneAllocates
<1> HIDE DEF fresh
<1>2. /\ Arena(fresh) /\ Len(fresh) = x /\ Ids(fresh) = Ids(ns) \cup {x} /\ x \notin Ids(ns)
      /\ fresh[x].type = "element" /\ fresh[x].parent = NULL
      /\ \A n \in Ids(ns) : fresh[n] = ns[n]
      /\ \A n \in Ids(fresh) : fresh[n].parent # x
  BY <1>1 DEF Allocated
<1>3. r = ReplaceContent(ns, formatting, furthest)
  BY DEF ReplaceContent, fresh
<1> HIDE DEF x, r
<1>4. furthest \in Ids(fresh) /\ x \in Ids(fresh) /\ furthest # x /\ furthest # NULL
  BY <1>2, ArenaNodes
<1>5. /\ Arena(moved) /\ Len(moved) = Len(fresh)
      /\ \A n \in Ids(fresh) :
           /\ moved[n].type = fresh[n].type
           /\ \/ moved[n].parent = fresh[n].parent
              \/ fresh[n].parent = furthest /\ moved[n].parent = x
      /\ Keeps(moved, fresh, Ids(fresh) \ {furthest, x})
  <2>1. moved = MoveChildren(fresh, furthest, x)
    OBVIOUS
  <2>2. Arena(fresh) /\ \A n \in Ids(fresh) : fresh[n].parent # x
    BY <1>2
  <2> HIDE DEF moved
  <2> QED
    BY <1>4, <2>1, <2>2, MoveChildrenMoves
<1> HIDE DEF moved
<1>6. Ids(moved) = Ids(fresh) /\ moved[x].parent = NULL
  BY <1>2, <1>4, <1>5 DEF Ids
<1>7. MovedBelow(linked, moved, x, furthest)
  BY <1>4, <1>5, <1>6, AppendMoves
<1> HIDE DEF linked
<1>8. SameTree([linked EXCEPT ![x].index = 1], linked)
  <2>1. Arena(linked) /\ x \in Ids(linked) /\ 1 \in Int
    BY <1>4, <1>6, <1>7 DEF MovedBelow, Ids
  <2> QED
    BY <2>1, IndexSame, Zenon
<1>9. MovedBelow(r, moved, x, furthest)
  BY <1>7, <1>8, MovedThenSame DEF r
<1>10. /\ Arena(r) /\ Len(r) = x /\ r[x].type = "element" /\ r[x].parent = furthest
       /\ \A n \in Ids(ns) : /\ r[n].type = ns[n].type
                             /\ \/ r[n].parent = ns[n].parent
                                \/ ns[n].parent = furthest /\ r[n].parent = x
  BY <1>2, <1>4, <1>5, <1>6, <1>9 DEF MovedBelow
<1>11. Keeps(r, ns, Ids(ns) \ {furthest})
  <2> DEFINE C == Ids(ns) \ {furthest}
  <2>1. Keeps(fresh, ns, C)
    BY <1>2 DEF Keeps
  <2>2. Keeps(moved, fresh, C)
    <3>1. C \subseteq Ids(fresh) \ {furthest, x}
      BY <1>2
    <3> QED
      BY <1>5, <3>1, KeepsFewer
  <2>3. Keeps(r, moved, C)
    <3>1. Keeps(r, moved, Ids(moved) \ {furthest, NULL}) /\ NULL \notin Ids(ns)
      BY <1>6, <1>9, ArenaNodes DEF MovedBelow
    <3>2. C \subseteq Ids(moved) \ {furthest, NULL}
      BY <1>2, <1>6, <3>1
    <3> QED
      BY <3>1, <3>2, KeepsFewer
  <2> HIDE DEF C
  <2>4. Keeps(r, ns, C)
    BY <2>1, <2>2, <2>3, KeepsTransitive
  <2> QED
    BY <2>4 DEF C
<1>12. Refills(r, ns, furthest)
  BY <1>10, <1>11 DEF Refills, x
<1> QED
  BY <1>3, <1>12

\* A place for the furthest block outside of it.
LocatedOutside(ns, furthest, location) ==
  /\ location.parent \in Ids(ns) \ {furthest}
  /\ location.before \in (Ids(ns) \ {furthest}) \cup {NULL}
  /\ location.before # NULL => ns[location.before].parent = location.parent

\* Linking a detached node at a location moves it below the parent.
LEMMA LinkMoves ==
  ASSUME NEW ns, Arena(ns), NEW c \in Ids(ns), NEW location,
         location.parent \in Ids(ns), location.parent # c, ns[c].parent = NULL,
         location.before \in Ids(ns) \cup {NULL},
         location.before # NULL => ns[location.before].parent = location.parent
  PROVE  MovedBelow(LinkAt(ns, c, location), ns, c, location.parent)
<1>1. CASE location.before = NULL
  BY <1>1, AppendMoves DEF LinkAt
<1>2. CASE location.before # NULL
  <2>1. location.before \in Ids(ns) /\ ns[location.before].parent = location.parent
    BY <1>2
  <2> QED
    BY <1>2, <2>1, InsertMoves DEF LinkAt
<1> QED
  BY <1>1, <1>2

\* The chain, the refilled furthest block and the link make the adopted tree.
LEMMA AdoptedTree ==
  ASSUME NEW ns, Arena(ns), NEW furthest \in Ids(ns), NEW formatting \in Ids(ns), NEW k \in Nat,
         NEW chain, ChainAt(chain, ns, furthest, k),
         NEW location, LocatedOutside(ns, furthest, location),
         NEW m, m = ReplaceContent(chain.nodes, formatting, furthest),
         NEW r, r = LinkAt(m, chain.outer, location)
  PROVE  Adopted(r, ns, furthest, k, location.parent)
<1> DEFINE len == Len(ns)
           N == chain.nodes
           p == location.parent
           x == len + k + 1
           outer == Around(furthest, len, k)
           at(q) == Around(furthest, len, q)
<1>1. len \in Nat /\ Arena(N) /\ Len(N) = len + k /\ Len(N) + 1 = x /\ chain.outer = outer
  BY ArenaNodes DEF ChainAt
<1>2. \A n : n \in Ids(ns) <=> n \in 1..len
  BY DEF Ids
<1>3. \A n : n \in Ids(N) <=> n \in 1..len + k
  BY <1>1 DEF Ids
<1>4. /\ \A n \in Ids(ns) : N[n].type = ns[n].type
      /\ \A n \in Ids(ns) \ {furthest} : N[n].parent = ns[n].parent
      /\ \A q \in 1..k : N[len + q].type = "element"
      /\ \A q \in 0..k : N[at(q)].parent = IF q = k THEN NULL ELSE at(q + 1)
  BY DEF ChainAt
<1> HIDE DEF len, N
<1>5. Ids(ns) \subseteq Ids(N) /\ NULL \notin Ids(N)
  BY <1>1, <1>2, <1>3 DEF NULL
<1>6. \A q \in 0..k : at(q) \in Ids(N) /\ at(q) # x /\ (at(q) = outer <=> q = k)
  BY <1>1, <1>2, <1>3 DEF Around
<1>7. \A q \in 0..k : at(q) # p
  BY <1>1, <1>2 DEF Around, LocatedOutside
<1>8. \A q \in 0..k : q # k => at(q + 1) # furthest /\ at(q + 1) # NULL
  BY <1>1, <1>2 DEF Around, NULL
<1>9. k \in 0..k /\ outer = at(k)
  OBVIOUS
<1> HIDE DEF x, at, outer, p
<1>10. Refills(m, N, furthest)
  BY <1>1, <1>5, ReplaceContentRefills DEF N
<1>11. /\ Arena(m) /\ Len(m) = x /\ m[x].type = "element" /\ m[x].parent = furthest
       /\ \A n \in Ids(N) : /\ m[n].type = N[n].type
                            /\ \/ m[n].parent = N[n].parent
                               \/ N[n].parent = furthest /\ m[n].parent = x
  BY <1>1, <1>10 DEF Refills
<1>12. Ids(m) = Ids(N) \cup {x}
  BY <1>1, <1>3, <1>11 DEF Ids, x
<1>13. N[outer].parent = NULL /\ m[outer].parent = NULL
  BY <1>4, <1>5, <1>6, <1>9, <1>11
<1>14. MovedBelow(LinkAt(m, outer, location), m, outer, p)
  <2>1. p \in Ids(m) /\ p # outer /\ outer \in Ids(m) /\ location.before \in Ids(m) \cup {NULL}
    BY <1>5, <1>6, <1>7, <1>9, <1>12 DEF LocatedOutside, p
  <2>2. location.before # NULL => m[location.before].parent = p
    <3>1. ASSUME location.before # NULL PROVE m[location.before].parent = p
      <4>1. /\ location.before \in Ids(ns) \ {furthest} /\ ns[location.before].parent = p
            /\ p # furthest
        BY <3>1 DEF LocatedOutside, p
      <4>2. N[location.before].parent = p /\ location.before \in Ids(N)
        BY <1>4, <1>5, <4>1
      <4> QED
        BY <1>11, <4>1, <4>2
    <3> QED
      BY <3>1
  <2> QED
    BY <1>11, <1>13, <2>1, <2>2, LinkMoves DEF p
<1>15. MovedBelow(r, m, outer, p)
  BY <1>1, <1>14
<1>16. /\ Arena(r) /\ Len(r) = x
       /\ \A n \in Ids(m) : r[n].type = m[n].type
                            /\ r[n].parent = IF n = outer THEN p ELSE m[n].parent
  BY <1>11, <1>15 DEF MovedBelow
<1>17. \A n \in Ids(ns) : r[n].type = ns[n].type
  BY <1>4, <1>5, <1>11, <1>12, <1>16
<1>18. \A n \in Ids(ns) \ {furthest} :
         \/ r[n].parent = ns[n].parent
         \/ ns[n].parent = furthest /\ r[n].parent = x
  <2>1. \A n \in Ids(ns) \ {furthest} : n # outer
    BY <1>1, <1>2 DEF outer, Around
  <2> QED
    BY <1>4, <1>5, <1>11, <1>12, <1>16, <2>1
<1>19. \A q \in 1..k + 1 : r[len + q].type = "element"
  <2>1. \A q \in 1..k : len + q \in Ids(N)
    BY <1>1, <1>3
  <2>2. \A q \in 1..k + 1 : q \in 1..k \/ len + q = x
    BY <1>1 DEF x
  <2>3. \A q \in 1..k : r[len + q].type = "element"
    BY <1>4, <1>11, <1>12, <1>16, <2>1
  <2>4. r[x].type = "element"
    BY <1>11, <1>12, <1>16
  <2> QED
    BY <2>2, <2>3, <2>4
<1>20. \A q \in 0..k : r[at(q)].parent = IF q = k THEN p ELSE at(q + 1)
  <2> TAKE q \in 0..k
  <2>1. at(q) \in Ids(N) /\ at(q) \in Ids(m)
    BY <1>6, <1>12
  <2>2. CASE q = k
    BY <1>9, <1>16, <2>1, <2>2
  <2>3. CASE q # k
    <3>1. at(q) # outer /\ N[at(q)].parent = at(q + 1) /\ at(q + 1) # furthest
      BY <1>4, <1>6, <1>8, <2>3
    <3> QED
      BY <1>11, <1>16, <2>1, <2>3, <3>1
  <2> QED
    BY <2>2, <2>3
<1>21. r[x].parent = furthest
  <2>1. x # outer
    BY <1>6, <1>9
  <2> QED
    BY <1>11, <1>12, <1>16, <2>1
<1>22. Keeps(r, ns, Ids(ns) \ {furthest, ns[furthest].parent, p})
  <2> DEFINE C == Ids(ns) \ {furthest, ns[furthest].parent, p}
  <2>1. Keeps(N, ns, C)
    <3>1. Keeps(N, ns, Ids(ns) \ {ns[furthest].parent})
      BY DEF ChainAt, N
    <3> QED
      BY <3>1, KeepsFewer
  <2>2. Keeps(m, N, C)
    <3>1. Keeps(m, N, Ids(N) \ {furthest})
      BY <1>10 DEF Refills
    <3>2. C \subseteq Ids(N) \ {furthest}
      BY <1>5
    <3> QED
      BY <3>1, <3>2, KeepsFewer
  <2>3. Keeps(r, m, C)
    <3>1. Keeps(r, m, Ids(m) \ {p, NULL})
      BY <1>13, <1>15 DEF MovedBelow
    <3>2. C \subseteq Ids(m) \ {p, NULL}
      BY <1>5, <1>12
    <3> QED
      BY <3>1, <3>2, KeepsFewer
  <2> HIDE DEF C
  <2>4. Keeps(r, ns, C)
    BY <2>1, <2>2, <2>3, KeepsTransitive
  <2> QED
    BY <2>4 DEF C
<1> QED
  BY <1>16, <1>17, <1>18, <1>19, <1>20, <1>21, <1>22 DEF Adopted, x, p, at, len

-----------------------------------------------------------------------------
(***************************************************************************)
(* The adoption agency: where the furthest block goes.                     *)
(***************************************************************************)
\* Where the adoption agency puts the furthest block.
Destination(c, f, at, location, i0) ==
  /\ MovesBelow(c.open.stack, f, i0)
  /\ location.parent = c.open.stack[i0].id
  /\ LocatedOutside(c.nodes, c.open.stack[at].id, location)

\* Entries of different positions are of different nodes.
LEMMA OpenDistinct ==
  ASSUME NEW c, Sound(c), NEW i \in 1..Len(c.open.stack), NEW j \in 1..Len(c.open.stack), i # j
  PROVE  c.open.stack[i].id # c.open.stack[j].id
<1>1. PICK h : Grounded(c.nodes, c.open.stack, h)
  BY DEF Sound, TreeOK
<1>2. \A k \in 1..Len(c.open.stack) : h[c.open.stack[k].id] = k - 1
  BY <1>1 DEF Grounded, Branch
<1>3. i \in Int /\ j \in Int
  OBVIOUS
<1> QED
  BY <1>2, <1>3

\* The innermost open table, seen from a part of it.
LEMMA TableOf ==
  ASSUME NEW c, Sound(c), NEW f, NEW at, Adopts(c.open.stack, f, at),
         c.open.stack[f - 1].kind \in TablePartKinds,
         NEW t, t = LastOfKind(c.open, "Table")
  PROVE  t \in 2..f - 1 /\ c.open.stack[t].kind = "Table"
<1> DEFINE s == c.open.stack
<1>1. Len(s) \in Nat /\ s[1].kind = "Root"
  BY SoundStack DEF Sound, StackOK, Rooted
<1>2. f \in Nat /\ f >= 2 /\ at \in f + 1 .. Len(s) /\ s[f].kind = "Formatting"
      /\ \A i \in f + 1 .. Len(s) : s[i].kind # "Table"
  BY DEF Adopts
<1>3. /\ t \in 0..Len(s)
      /\ t # 0 => s[t].kind = "Table"
      /\ \A i \in t + 1 .. Len(s) : s[i].kind # "Table"
  BY LastOfKindRange, OpenEntries DEF Sound
<1>4. f - 1 \in 1..Len(s)
  BY <1>1, <1>2
<1>5. \E m \in 1..f - 1 : s[m].kind = "Table"
  <2>1. CASE s[f - 1].kind = "Table"
    BY <1>2, <2>1, f - 1 \in 1..f - 1
  <2>2. CASE s[f - 1].kind # "Table"
    <3>1. s[f - 1].kind \in TableContentKinds
      BY <2>2 DEF TablePartKinds, TableContentKinds, ModeKinds
    <3>2. InTableAt(s, f - 1)
      BY <1>4 DEF Sound, TreeOK, Grounded, Branch
    <3>3. PICK m \in 1 .. f - 1 - 1 : s[m].kind = "Table"
      BY <3>1, <3>2 DEF InTableAt
    <3>4. m \in 1..f - 1
      BY <1>2
    <3> QED
      BY <3>3, <3>4
  <2> QED
    BY <2>1, <2>2
<1>6. PICK m \in 1..f - 1 : s[m].kind = "Table"
  BY <1>5
<1>7. m <= t
  <2>1. ~ (m \in t + 1 .. Len(s))
    BY <1>3, <1>6
  <2>2. m \in Nat /\ m <= Len(s) /\ t \in Nat
    BY <1>1, <1>3, <1>4
  <2> HIDE DEF s
  <2> QED
    BY <1>1, <2>1, <2>2
<1>8. t \in 1..Len(s) /\ s[t].kind = "Table"
  BY <1>1, <1>3, <1>7
<1>9. t # 1 /\ t # f
  BY <1>1, <1>2, <1>8
<1>10. ~ (t \in f + 1 .. Len(s))
  BY <1>2, <1>8
<1>11. t \in 2..f - 1
  <2> HIDE DEF s
  <2> QED
    BY <1>1, <1>2, <1>8, <1>9, <1>10
<1> QED
  BY <1>8, <1>11

\* The adoption agency's location is outside the furthest block, below the formatting element
\* or next to a table.
LEMMA AdoptionLocationOK ==
  ASSUME NEW c, Sound(c), NEW f, NEW at, Adopts(c.open.stack, f, at)
  PROVE  \E i0 : Destination(c, f, at, AdoptionLocation(c, f), i0)
<1> DEFINE s == c.open.stack
           ns == c.nodes
           location == AdoptionLocation(c, f)
<1>1. Len(s) \in Nat /\ \A i \in 1..Len(s) : s[i].id \in Ids(ns)
  BY SoundStack
<1>2. f \in Nat /\ f >= 2 /\ at \in f + 1 .. Len(s)
  BY DEF Adopts
<1>3. f - 1 \in 1..Len(s) /\ f - 1 \in 1..f - 1 /\ at \in 1..Len(s) /\ f - 1 # at
  BY <1>1, <1>2
<1>4. NULL \notin Ids(ns)
  BY SoundArena, ArenaNodes
<1>5. CASE s[f - 1].kind \notin TablePartKinds
  <2>1. location = AppendTo(s[f - 1].id)
    BY <1>5 DEF AdoptionLocation
  <2>2. location.parent = s[f - 1].id /\ location.before = NULL
    BY <2>1 DEF AppendTo
  <2>3. s[f - 1].id # s[at].id /\ s[f - 1].id \in Ids(ns)
    BY <1>1, <1>3, OpenDistinct
  <2>4. MovesBelow(s, f, f - 1)
    BY <1>3 DEF MovesBelow
  <2> HIDE DEF location
  <2>5. LocatedOutside(ns, s[at].id, location)
    BY <2>2, <2>3 DEF LocatedOutside
  <2> QED
    BY <2>2, <2>4, <2>5 DEF Destination, location
<1>6. CASE s[f - 1].kind \in TablePartKinds
  <2> DEFINE t == LastOfKind(c.open, "Table")
  <2>1. t \in 2..f - 1 /\ s[t].kind = "Table"
    BY <1>6, TableOf
  <2> HIDE DEF t
  <2>2. t \in 2..Len(s) /\ t \in 1..Len(s) /\ t # at /\ t # 0
    BY <1>1, <1>2, <2>1
  <2>3. OpenParentAt(ns, s, t)
    BY <2>2 DEF Sound, TreeOK, Grounded, Branch
  <2>4. PICK j \in 1 .. t - 1 : s[j].id = ns[s[t].id].parent
    BY <2>3 DEF OpenParentAt
  <2>5. j \in 1..Len(s) /\ j # at /\ j \in 1..f - 1 /\ t \in j + 1 .. f - 1
    BY <1>1, <1>2, <2>1, <2>2
  <2>6. ns[s[t].id].parent # NULL
    BY <1>1, <1>4, <2>4, <2>5
  <2>7. location = [parent |-> ns[s[t].id].parent, before |-> s[t].id]
    BY <1>6, <2>2, <2>6 DEF AdoptionLocation, FosterLocation, t
  <2>8. location.parent = s[j].id /\ location.before = s[t].id
    BY <2>4, <2>7
  <2>9. s[j].id # s[at].id /\ s[t].id # s[at].id /\ s[j].id \in Ids(ns) /\ s[t].id \in Ids(ns)
    BY <1>1, <1>3, <2>2, <2>5, OpenDistinct
  <2>10. MovesBelow(s, f, j)
    BY <2>1, <2>5 DEF MovesBelow
  <2> HIDE DEF location
  <2>11. LocatedOutside(ns, s[at].id, location)
    BY <2>4, <2>8, <2>9 DEF LocatedOutside
  <2> QED
    BY <2>8, <2>10, <2>11 DEF Destination, location
<1> QED
  BY <1>5, <1>6

-----------------------------------------------------------------------------
Deepenings == INSTANCE SequenceFold WITH Op <- SetDepthBelowParent

\* The fact that module SequenceFold asks for.
LEMMA DeepeningsLeast == Deepenings!LeastExists
  BY LeastElement DEF Deepenings!LeastExists

\* The nodes whose depth can be computed from that of a parent.
BelowParent(ns) == {n \in Ids(ns) : ns[n].parent # NULL}

\* A depth set from the parent's changes nothing else of the tree.
LEMMA DeepenOneSame ==
  ASSUME NEW ns, Arena(ns), NEW r, SameTree(r, ns), NEW x \in BelowParent(ns)
  PROVE  SameTree(SetDepthBelowParent(r, x), ns)
<1>1. Arena(r) /\ x \in Ids(r) /\ r[x].parent # NULL
  BY DEF SameTree, BelowParent, Ids
<1>2. SameTree(SetDepthBelowParent(r, x), r)
  BY <1>1, DepthSame
<1> QED
  BY <1>2, SameTreeTransitive

\* Nor do any number of them.
LEMMA DeepenSame ==
  ASSUME NEW ns, Arena(ns), NEW seq \in Seq(BelowParent(ns))
  PROVE  SameTree(FoldLeft(SetDepthBelowParent, ns, seq), ns)
<1> DEFINE R == {r \in Seq(Node) : SameTree(r, ns)}
           T == BelowParent(ns)
<1>1. FoldLeft(SetDepthBelowParent, ns, seq) = Deepenings!Folded(ns, seq)
  BY DEF FoldLeft, Deepenings!Folded, Deepenings!Greatest, MapThenFoldSet, Max
<1>2. ns \in R
  BY SameTreeReflexive DEF Arena
<1>3. \A r \in R, x \in T : SetDepthBelowParent(r, x) \in R
  <2> TAKE r \in R, x \in T
  <2>1. SameTree(SetDepthBelowParent(r, x), ns)
    BY DeepenOneSame
  <2>2. SetDepthBelowParent(r, x) \in Seq(Node)
    BY <2>1 DEF SameTree, Arena
  <2> QED
    BY <2>1, <2>2
<1>4. seq \in Seq(T)
  OBVIOUS
<1> HIDE DEF R, T
<1>5. Deepenings!Folded(ns, seq) \in R
  BY <1>2, <1>3, <1>4, DeepeningsLeast, Deepenings!FoldInvariant
<1> QED
  BY <1>1, <1>5 DEF R

\* Nodes below a parent stay so when depths and indices change.
LEMMA BelowParentSame ==
  ASSUME NEW ns, NEW r, SameTree(r, ns)
  PROVE  BelowParent(r) = BelowParent(ns)
BY DEF BelowParent, SameTree, Ids

\* Everything that the move shifts is below a parent: the clones, the furthest
\* block and what was open above it.
LEMMA AdoptedBelowParent ==
  ASSUME NEW c, Sound(c), NEW f, NEW at, Adopts(c.open.stack, f, at), NEW k \in Nat,
         NEW i0 \in 1..Len(c.open.stack),
         NEW r, Adopted(r, c.nodes, c.open.stack[at].id, k, c.open.stack[i0].id)
  PROVE  /\ \A q \in 1..k + 1 : Len(c.nodes) + q \in BelowParent(r)
         /\ \A i \in at..Len(c.open.stack) : c.open.stack[i].id \in BelowParent(r)
<1> DEFINE s == c.open.stack
           ns == c.nodes
           len == Len(ns)
           furthest == s[at].id
           p == s[i0].id
<1>1. len \in Nat /\ \A n : n \in Ids(ns) <=> n \in 1..len
  BY SoundArena, ArenaNodes DEF Ids
<1>2. Len(s) \in Nat /\ \A i \in 1..Len(s) : s[i].id \in Ids(ns)
  BY SoundStack
<1>3. f \in Nat /\ f >= 2 /\ at \in f + 1 .. Len(s)
  BY DEF Adopts
<1>4. at \in 1..Len(s) /\ at \in Nat /\ at >= 2
  BY <1>2, <1>3
<1>5. furthest \in Ids(ns) /\ p \in Ids(ns)
  BY <1>2, <1>4
<1>6. /\ Len(r) = len + k + 1
      /\ \A n \in Ids(ns) \ {furthest} :
           \/ r[n].parent = ns[n].parent
           \/ ns[n].parent = furthest /\ r[n].parent = len + k + 1
      /\ \A q \in 0..k : r[Around(furthest, len, q)].parent
                           = IF q = k THEN p ELSE Around(furthest, len, q + 1)
      /\ r[len + k + 1].parent = furthest
  BY DEF Adopted
<1>7. \A n : n \in Ids(r) <=> n \in 1..len + k + 1
  BY <1>6 DEF Ids
<1> HIDE DEF len, furthest, p
<1>8. ASSUME NEW q \in 0..k
      PROVE  r[Around(furthest, len, q)].parent # NULL /\ Around(furthest, len, q) \in Ids(r)
  <2>1. Around(furthest, len, q) \in Ids(r)
    BY <1>1, <1>5, <1>7 DEF Around
  <2>2. CASE q = k
    BY <1>1, <1>5, <1>6, <2>1, <2>2 DEF NULL
  <2>3. CASE q # k
    <3>1. Around(furthest, len, q + 1) = len + (q + 1) /\ len + (q + 1) # 0
      BY <1>1 DEF Around
    <3> QED
      BY <1>6, <2>1, <2>3, <3>1 DEF NULL
  <2> QED
    BY <2>2, <2>3
<1>9. ASSUME NEW q \in 1..k + 1 PROVE len + q \in BelowParent(r)
  <2>1. CASE q = k + 1
    <3>1. len + q = len + k + 1 /\ len + k + 1 \in Ids(r)
      BY <1>1, <1>7, <2>1
    <3>2. furthest # NULL
      BY <1>1, <1>5 DEF NULL
    <3> QED
      BY <1>6, <3>1, <3>2 DEF BelowParent
  <2>2. CASE q # k + 1
    <3>1. q \in 0..k /\ Around(furthest, len, q) = len + q
      BY <2>2 DEF Around
    <3> QED
      BY <1>8, <3>1 DEF BelowParent
  <2> QED
    BY <2>1, <2>2
<1>10. ASSUME NEW i \in at..Len(s) PROVE s[i].id \in BelowParent(r)
  <2>1. i \in 2..Len(s) /\ i \in 1..Len(s)
    BY <1>2, <1>4
  <2>2. s[i].id \in Ids(ns) /\ ns[s[i].id].parent \in Ids(ns)
    BY <1>2, <2>1, OpenHasParent
  <2>3. s[i].id \in Ids(r)
    BY <1>1, <1>7, <2>2
  <2>4. CASE s[i].id = furthest
    <3>1. 0 \in 0..k /\ Around(furthest, len, 0) = furthest
      BY DEF Around
    <3> QED
      BY <1>8, <2>4, <3>1 DEF BelowParent
  <2>5. CASE s[i].id # furthest
    <3>1. r[s[i].id].parent \in {ns[s[i].id].parent, len + k + 1}
      BY <1>6, <2>2, <2>5
    <3>2. NULL \notin Ids(ns)
      BY SoundArena, ArenaNodes
    <3>3. len + k + 1 # NULL
      BY <1>1 DEF NULL
    <3> QED
      BY <2>2, <2>3, <3>1, <3>2, <3>3 DEF BelowParent
  <2> QED
    BY <2>4, <2>5
<1> QED
  BY <1>9, <1>10 DEF len

\* The tree was relinked and the stack rebuilt, and nothing else changed.
Moved(r, c, f, at, k, i0) ==
  /\ r \in Builder
  /\ StackOK(r.open, OpenEntry)
  /\ Adopted(r.nodes, c.nodes, c.open.stack[at].id, k, c.open.stack[i0].id)
  /\ Restacked(r.open.stack, c.open.stack, Len(c.nodes), f, at, k)
  /\ r.stale = c.stale /\ r.after_body = c.after_body /\ r.last_text = c.last_text
  /\ r.flushed = c.flushed /\ r.ret = c.ret

\* A builder moved so is sound.
LEMMA MovedSound ==
  ASSUME NEW c, Sound(c), NEW f, NEW at, Adopts(c.open.stack, f, at),
         NEW k \in Nat, k <= at - f - 1, NEW i0, MovesBelow(c.open.stack, f, i0),
         NEW r, Moved(r, c, f, at, k, i0)
  PROVE  Sound(r)
<1>1. TreeOK(c.nodes, c.open.stack, c.after_body)
  BY DEF Sound
<1>2. /\ Adopted(r.nodes, c.nodes, c.open.stack[at].id, k, c.open.stack[i0].id)
      /\ Restacked(r.open.stack, c.open.stack, Len(c.nodes), f, at, k)
  BY DEF Moved
<1>3. TreeOK(r.nodes, r.open.stack, c.after_body)
  BY <1>1, <1>2, AdoptedOK
<1>4. Len(c.nodes) \in Nat /\ Len(r.nodes) = Len(c.nodes) + k + 1 /\ Arena(r.nodes)
      /\ \A n \in Ids(c.nodes) : r.nodes[n].type = c.nodes[n].type
  BY <1>2, SoundArena, ArenaNodes DEF Adopted
<1>5. Len(c.nodes) <= Len(r.nodes)
  BY <1>4
<1>6. Ids(c.nodes) \subseteq Ids(r.nodes)
  BY <1>4 DEF Ids
<1>7. /\ c.stale.before <= Len(r.nodes) /\ c.stale.exact \subseteq Ids(r.nodes)
      /\ c.last_text # NULL => c.last_text \in Ids(r.nodes) /\ r.nodes[c.last_text].type = "text"
      /\ c.flushed \in Ids(r.nodes) \cup {NULL}
      /\ c.ret \in Ids(r.nodes) \cup {NULL}
  BY <1>4, <1>5, <1>6, RefersStill
<1>8. Refers(r)
  BY <1>7 DEF Refers, Moved
<1> QED
  BY <1>3, <1>8 DEF Sound, Moved

\* Adoption takes children from open elements only, and gives them to open elements and clones.
LEMMA MovedLeaves ==
  ASSUME NEW c, Sound(c), NEW f, NEW at, Adopts(c.open.stack, f, at),
         NEW k \in Nat, NEW i0, MovesBelow(c.open.stack, f, i0),
         NEW r, Moved(r, c, f, at, k, i0)
  PROVE  Leaves(r, c)
<1> DEFINE s == c.open.stack
           len == Len(c.nodes)
           from == c.nodes[s[at].id].parent
<1>1. Len(s) \in Nat /\ f \in Nat /\ f >= 2 /\ at \in f + 1 .. Len(s) /\ i0 \in 1..f - 1 /\ len \in Nat
  BY SoundArena, SoundStack, ArenaNodes DEF Adopts, MovesBelow
<1>2. at \in 1..Len(s) /\ at \in 2..Len(s) /\ i0 \in 1..Len(s)
  BY <1>1
<1>3. /\ Restacked(r.open.stack, s, len, f, at, k)
      /\ Len(r.nodes) = len + k + 1
      /\ Keeps(r.nodes, c.nodes, Ids(c.nodes) \ {s[at].id, from, s[i0].id})
      /\ r.after_body = c.after_body
  BY DEF Moved, Adopted
<1>4. s[at].id \in OpenIds(c) /\ s[i0].id \in OpenIds(c)
  BY <1>2 DEF OpenIds
<1>5. from \in OpenIds(c)
  <2>1. PICK h : Grounded(c.nodes, s, h)
    BY DEF Sound, TreeOK
  <2>2. OpenParentAt(c.nodes, s, at)
    BY <1>2, <2>1 DEF Grounded, Branch
  <2>3. PICK j \in 1..Len(s) : s[j].id = from
    BY <1>1, <2>2 DEF OpenParentAt
  <2> HIDE DEF s, from
  <2> QED
    BY <2>3 DEF OpenIds, s
<1> HIDE DEF from
<1>6. Keeps(r.nodes, c.nodes, Closed(c))
  <2>1. Closed(c) \subseteq Ids(c.nodes) \ {s[at].id, from, s[i0].id}
    BY <1>4, <1>5 DEF Closed
  <2> QED
    BY <1>3, <2>1, KeepsFewer
<1>7. Closed(c) \subseteq Closed(r)
  <2> SUFFICES ASSUME NEW x \in Closed(c) PROVE x \in Closed(r)
    OBVIOUS
  <2>1. x \in 1..len /\ x \notin OpenIds(c)
    BY DEF Closed, Ids
  <2>2. x \in Ids(r.nodes)
    BY <1>1, <1>3, <2>1 DEF Ids
  <2>3. ASSUME NEW j \in 1..Len(r.open.stack) PROVE r.open.stack[j].id # x
    <3>1. r.open.stack[j].id > len \/ \E i \in 1..Len(s) : r.open.stack[j].id = s[i].id
      <4> DEFINE t == r.open.stack
      <4>1. Adopts(s, f, at) /\ Restacked(t, s, len, f, at, k) /\ j \in 1..Len(t)
        BY <1>3
      <4> HIDE DEF s, t, len
      <4>2. t[j].id > len \/ \E i \in 1..Len(s) : t[j].id = s[i].id
        BY <1>1, <4>1, RestackedOpen
      <4> QED
        BY <4>2 DEF t
    <3>2. CASE r.open.stack[j].id > len
      BY <1>1, <2>1, <3>2
    <3>3. CASE \E i \in 1..Len(s) : r.open.stack[j].id = s[i].id
      BY <2>1, <3>3 DEF OpenIds
    <3> QED
      BY <3>1, <3>2, <3>3
  <2>4. x \notin OpenIds(r)
    BY <2>3 DEF OpenIds
  <2> QED
    BY <2>2, <2>4 DEF Closed
<1> QED
  BY <1>3, <1>6, <1>7 DEF Leaves

\* Repairing the depths above the furthest block, and marking all others stale.
LEMMA RepairOK ==
  ASSUME NEW c, Sound(c), NEW clone, NEW depth, NEW above \in Seq(BelowParent(c.nodes))
  PROVE  Sound(RepairDepths(c, clone, depth, above)) /\ Tells(RepairDepths(c, clone, depth, above), c)
<1> DEFINE nodes == FoldLeft(SetDepthBelowParent, c.nodes, above)
           stale == [before |-> Len(c.nodes), exact |-> OpenIds(c)]
           r == [c EXCEPT !.nodes = nodes, !.stale = stale]
<1>1. Arena(c.nodes) /\ c \in Builder
  BY SoundArena DEF Sound
<1>2. SameTree(nodes, c.nodes)
  BY <1>1, DeepenSame
<1>3. Len(c.nodes) \in Nat /\ Ids(c.nodes) \subseteq Nat
  BY <1>1, ArenaNodes
<1>4. OpenIds(c) \subseteq Ids(c.nodes)
  BY SoundStack DEF OpenIds
<1>5. stale \in [before : Nat, exact : SUBSET Nat]
  BY <1>3, <1>4
<1>6. nodes \in Seq(Node) /\ Len(nodes) = Len(c.nodes) /\ Ids(nodes) = Ids(c.nodes)
      /\ \A n \in Ids(c.nodes) : nodes[n].type = c.nodes[n].type
  BY <1>2 DEF SameTree, Arena, Ids
<1>7. stale.before = Len(c.nodes) /\ stale.exact = OpenIds(c)
  OBVIOUS
<1> HIDE DEF nodes, stale
<1>8. r \in Builder
  BY <1>1, <1>5, <1>6 DEF Builder
<1>9. /\ r.nodes = nodes /\ r.stale = stale /\ r.open = c.open /\ r.after_body = c.after_body
      /\ r.last_text = c.last_text /\ r.flushed = c.flushed /\ r.ret = c.ret
      /\ r.created = c.created
  BY <1>1 DEF Builder
<1> HIDE DEF r
<1>10. Refers(r)
  BY <1>3, <1>4, <1>6, <1>7, <1>9 DEF Refers, Sound
<1>11. Shrinks(r.open, c.open, OpenEntry)
  BY <1>9, UnchangedShrinks, OpenEntries DEF Sound
<1>12. Sound(r)
  BY <1>2, <1>8, <1>9, <1>10, <1>11, SoundEdit
<1>13. RepairDepths(c, clone, depth, above) \in {c, r}
  BY DEF RepairDepths, r, nodes, stale
<1>14. OpenIds(r) = OpenIds(c)
  BY <1>9 DEF OpenIds
<1>15. Tells(r, c)
  BY <1>2, <1>9, <1>14, TellsNothing
<1> QED
  BY <1>12, <1>13, <1>15, TellsReflexive

\* The stack edit of the move.
LEMMA ReplaceEntriesOK ==
  ASSUME NEW c \in Builder, StackOK(c.open, OpenEntry), NEW f, NEW at, Adopts(c.open.stack, f, at),
         NEW k \in Nat, NEW len \in Nat, NEW entries,
         EntriesOfClones(entries, len, k), \A q \in 1..k : Classified(entries[q]),
         Named(entries, NamesBetween(c.open.stack, f, at)),
         NEW r, r = ReplaceEntries(c, f, at, entries, len + k + 1)
  PROVE  /\ r \in Builder /\ StackOK(r.open, OpenEntry)
         /\ Restacked(r.open.stack, c.open.stack, len, f, at, k)
         /\ Renamed(r.open.stack, c.open.stack, f, at, k)
         /\ r.nodes = c.nodes /\ SameRest(r, c)
<1> DEFINE s == c.open.stack
           furthest == [s[at] EXCEPT !.children = 1]
           clone == [s[f] EXCEPT !.id = len + k + 1, !.children = s[at].children]
           o == AdoptedStack(c.open, f, at, entries, furthest, clone)
<1>1. s \in Seq(OpenEntry) /\ Len(s) \in Nat /\ Rooted(s)
  BY DEF StackOK, StackType
<1>2. f \in Nat /\ f >= 2 /\ at \in f + 1 .. Len(s) /\ s[f].kind = "Formatting"
  BY DEF Adopts
<1>3. at \in Nat /\ f < at /\ at <= Len(s) /\ at \in 2..Len(s) /\ f \in 2..Len(s)
      /\ at \in 1..Len(s) /\ f \in 1..Len(s)
  BY <1>1, <1>2
<1>4. s[at] \in OpenEntry /\ s[f] \in OpenEntry /\ Classified(s[at]) /\ Classified(s[f])
  BY <1>1, <1>3 DEF Rooted
<1>5. len + k + 1 \in Nat /\ 1 \in Nat
  OBVIOUS
<1>6. /\ furthest \in OpenEntry /\ furthest.id = s[at].id /\ furthest.kind = s[at].kind
      /\ furthest.name = s[at].name
  BY <1>4 DEF OpenEntry
<1>7. /\ clone \in OpenEntry /\ clone.id = len + k + 1 /\ clone.kind = "Formatting"
      /\ clone.name = s[f].name
  BY <1>2, <1>4, <1>5 DEF OpenEntry
<1>8. Classified(furthest) /\ Classified(clone)
  BY <1>2, <1>4, <1>6, <1>7 DEF Classified
<1> HIDE DEF furthest, clone
<1> DEFINE n == Len(s)
           lt == f + k + 1 + (n - at)
           entry == [i \in 1..lt |-> AdoptedEntry(s, f, at, entries, furthest, clone, i)]
<1>9. /\ StackOK(o, OpenEntry)
      /\ Len(o.stack) = f + Len(entries) + 1 + (Len(s) - at)
      /\ \A i \in 1..Len(o.stack) :
           \E mode \in Modes :
             o.stack[i] = [AdoptedEntry(s, f, at, entries, furthest, clone, i) EXCEPT !.mode = mode]
  <2>1. entries \in Seq(OpenEntry) /\ \A i \in 1..Len(entries) : Classified(entries[i])
    BY DEF EntriesOfClones
  <2>2. furthest \in OpenEntry /\ clone \in OpenEntry
    BY <1>6, <1>7
  <2>3. o = AdoptedStack(c.open, f, at, entries, furthest, clone)
    OBVIOUS
  <2> HIDE DEF o, s
  <2>4. StackOK(o, OpenEntry) /\ AdoptedOver(o, c.open, f, at, entries, furthest, clone)
    BY <1>2, <1>3, <1>8, <2>1, <2>2, <2>3, AdoptOK, OpenEntries DEF s
  <2> QED
    BY <2>4 DEF AdoptedOver, s
<1> HIDE DEF o
<1>10. Restacked(o.stack, s, len, f, at, k) /\ Renamed(o.stack, s, f, at, k)
  <2>1. lt = Len(o.stack)
    BY <1>9 DEF EntriesOfClones
  <2>2. ButModes(o.stack, entry, lt)
    BY <1>9, <2>1 DEF ButModes
  <2>3. n \in Nat /\ at <= n /\ Len(entries) = k
    BY <1>1, <1>3 DEF EntriesOfClones
  <2> HIDE DEF n
  <2>4. EntriesAt(entry, s, f, at, k, n, lt, entries, furthest, clone)
    <3>1. lt = f + k + 1 + (n - at)
      OBVIOUS
    <3> HIDE DEF lt
    <3>2. entry = [i \in 1..lt |-> AdoptedEntry(s, f, at, entries, furthest, clone, i)]
      OBVIOUS
    <3> HIDE DEF entry, s
    <3> QED
      BY <1>2, <1>3, <2>3, <3>1, <3>2, AdoptedEntries
  <2>5. n = Len(s) /\ lt = f + k + 1 + (n - at)
    BY DEF n
  <2>6. EntriesOfClones(entries, len, k)
    OBVIOUS
  <2> HIDE DEF lt, entry
  <2>7. Restacked(o.stack, s, len, f, at, k)
    BY <1>1, <1>6, <1>7, <2>1, <2>2, <2>4, <2>5, <2>6, RestackedEntries
  <2>8. Renamed(o.stack, s, f, at, k)
    <3>1. entries \in Seq(OpenEntry) /\ Len(entries) = k
      BY DEF EntriesOfClones
    <3> QED
      BY <1>1, <1>6, <1>7, <2>1, <2>2, <2>4, <2>5, <3>1, RestackedNames
  <2> QED
    BY <2>7, <2>8
<1>11. r = [c EXCEPT !.open = o]
  BY DEF ReplaceEntries, o, furthest, clone
<1>12. o \in StackType(OpenEntry)
  BY <1>9 DEF StackOK
<1> HIDE DEF s
<1>13. /\ r \in Builder /\ r.open = o
       /\ r.nodes = c.nodes /\ SameRest(r, c)
  BY <1>11, <1>12 DEF Builder, SameRest
<1> QED
  BY <1>9, <1>10, <1>13 DEF s

\* What the chain says of the arena in which the content is replaced.
LEMMA RefilledArena ==
  ASSUME NEW c, Sound(c), NEW f, NEW at, Adopts(c.open.stack, f, at), NEW k \in Nat,
         NEW chain, ChainAt(chain, c.nodes, c.open.stack[at].id, k),
         NEW m, m = ReplaceContent(chain.nodes, c.open.stack[f].id, c.open.stack[at].id)
  PROVE  Arena(m) /\ Len(m) = Len(c.nodes) + k + 1
<1> DEFINE s == c.open.stack
<1>1. Len(s) \in Nat /\ \A i \in 1..Len(s) : s[i].id \in Ids(c.nodes)
  BY SoundStack
<1>2. f \in 1..Len(s) /\ at \in 1..Len(s)
  BY <1>1 DEF Adopts
<1>3. Len(c.nodes) \in Nat /\ Arena(chain.nodes) /\ Len(chain.nodes) = Len(c.nodes) + k
  BY SoundArena, ArenaNodes DEF ChainAt
<1>4. Ids(c.nodes) \subseteq Ids(chain.nodes)
  BY <1>3 DEF Ids
<1>5. s[f].id \in Ids(chain.nodes) /\ s[at].id \in Ids(chain.nodes)
  BY <1>1, <1>2, <1>4
<1>6. Refills(m, chain.nodes, s[at].id)
  BY <1>3, <1>5, ReplaceContentRefills
<1> QED
  BY <1>3, <1>6 DEF Refills

\* The furthest block and its clones, attached where the adoption agency puts them.
LEMMA AttachChainOK ==
  ASSUME NEW c, Sound(c), NEW f, NEW at, Adopts(c.open.stack, f, at), NEW k \in Nat,
         NEW chain, ChainAt(chain, c.nodes, c.open.stack[at].id, k),
         NEW i0, NEW location, Destination(c, f, at, location, i0),
         NEW d \in Builder, d.open = c.open,
         d.nodes = ReplaceContent(chain.nodes, c.open.stack[f].id, c.open.stack[at].id),
         NEW r, r = AttachElement(d, chain.outer, location)
  PROVE  /\ r \in Builder /\ SameRest(r, d)
         /\ Adopted(r.nodes, c.nodes, c.open.stack[at].id, k, c.open.stack[i0].id)
         /\ StackOK(r.open, OpenEntry) /\ SameEntries(r.open.stack, c.open.stack)
<1> DEFINE s == c.open.stack
           ns == c.nodes
           furthest == s[at].id
           linked == LinkAt(d.nodes, chain.outer, location)
<1>1. Arena(ns) /\ Len(ns) \in Nat
  BY SoundArena, ArenaNodes
<1>2. f \in 1..Len(s) /\ at \in 1..Len(s)
  <2>1. Len(s) \in Nat
    BY SoundStack
  <2> QED
    BY <2>1 DEF Adopts
<1>3. furthest \in Ids(ns) /\ s[f].id \in Ids(ns)
  BY <1>2, SoundStack
<1>4. /\ location.parent = s[i0].id /\ LocatedOutside(ns, furthest, location)
  BY DEF Destination
<1>5. Adopted(linked, ns, furthest, k, location.parent)
  BY <1>1, <1>3, <1>4, AdoptedTree
<1>6. Arena(linked) /\ Len(linked) = Len(ns) + k + 1
  BY <1>5 DEF Adopted
<1>7. Ids(ns) \subseteq Ids(linked)
  BY <1>1, <1>6 DEF Ids
<1>8. chain.outer \in Ids(linked)
  <2>1. chain.outer = Around(furthest, Len(ns), k)
    BY DEF ChainAt
  <2>2. k # 0 => Len(ns) + k \in 1..Len(ns) + k + 1
    BY <1>1
  <2> QED
    BY <1>3, <1>6, <1>7, <2>1, <2>2 DEF Around, Ids
<1>9. location.before \in Ids(linked) \cup {NULL}
  BY <1>4, <1>7 DEF LocatedOutside
<1>10. StackOK(d.open, OpenEntry)
  BY DEF Sound
<1> HIDE DEF linked
<1>11. /\ r \in Builder /\ SameTree(r.nodes, linked) /\ SameRest(r, d)
       /\ StackOK(r.open, OpenEntry) /\ SameEntries(r.open.stack, d.open.stack)
  BY <1>6, <1>8, <1>9, <1>10, AttachOK DEF linked
<1>12. Adopted(r.nodes, ns, furthest, k, location.parent)
  BY <1>1, <1>3, <1>5, <1>11, AdoptedThenSame
<1> QED
  BY <1>4, <1>11, <1>12

\* The ids of the chain's clones.
LEMMA ChainIds ==
  ASSUME NEW c, Sound(c), NEW furthest, NEW k \in Nat, NEW chain, ChainAt(chain, c.nodes, furthest, k),
         NEW ids, ids = [i \in 1..Len(chain.entries) |-> chain.entries[i].id]
  PROVE  /\ EntriesOfClones(chain.entries, Len(c.nodes), k)
         /\ \A q \in 1..k : Classified(chain.entries[q])
         /\ ids \in Seq({Len(c.nodes) + q : q \in 1..k + 1})
         /\ ids \in Seq(Nat)
<1> DEFINE len == Len(c.nodes)
           X == {len + q : q \in 1..k + 1}
<1>1. len \in Nat
  BY SoundArena, ArenaNodes
<1>2. /\ chain.entries \in Seq(OpenEntry) /\ Len(chain.entries) = k
      /\ \A q \in 1..k : chain.entries[q].id = len + k + 1 - q
                         /\ chain.entries[q].kind = "Formatting" /\ Classified(chain.entries[q])
  BY DEF ChainAt
<1> HIDE DEF len
<1>3. \A q \in 1..k : len + k + 1 - q \in X
  <2> TAKE q \in 1..k
  <2>1. k + 1 - q \in 1..k + 1 /\ len + (k + 1 - q) = len + k + 1 - q
    BY <1>1
  <2> QED
    BY <2>1
<1>4. X \subseteq Nat
  BY <1>1
<1> HIDE DEF X
<1>5. ids \in [1..k -> X]
  BY <1>2, <1>3
<1>6. ids \in Seq(X)
  BY <1>5, SequenceOf
<1>7. ids \in [1..k -> Nat]
  BY <1>4, <1>5
<1>8. ids \in Seq(Nat)
  BY <1>7, SequenceOf
<1>9. EntriesOfClones(chain.entries, len, k)
  BY <1>2 DEF EntriesOfClones
<1> QED
  BY <1>2, <1>6, <1>8, <1>9 DEF len, X

\* What the agency creates is what it lists.
LEMMA AdoptedLists ==
  ASSUME NEW c, Sound(c), NEW ns, NEW furthest, NEW k \in Nat, NEW p,
         Adopted(ns, c.nodes, furthest, k, p), NEW list,
         Listed(list, {Len(c.nodes) + q : q \in 1..k + 1})
  PROVE  Lists(ns, c.created \o list, c)
<1> DEFINE len == Len(c.nodes)
           X == {len + q : q \in 1..k + 1}
<1>1. len \in Nat
  BY SoundArena, ArenaNodes
<1>2. /\ Len(ns) = len + k + 1
      /\ \A n \in 1..len : ns[n].type = c.nodes[n].type
      /\ \A q \in 1..k + 1 : ns[len + q].type = "element"
  BY DEF Adopted, Ids
<1> HIDE DEF len
<1>3. 1 .. len + k + 1 = (1..len) \cup X /\ (1..len) \cap X = {}
  <2>1. \A n \in 1 .. len + k + 1 : n \in 1..len \/ (n - len \in 1..k + 1 /\ n = len + (n - len))
    BY <1>1
  <2>2. \A q \in 1..k + 1 : len + q \in 1 .. len + k + 1 /\ len + q \notin 1..len
    BY <1>1
  <2>3. \A n \in 1..len : n \in 1 .. len + k + 1
    BY <1>1
  <2> QED
    BY <2>1, <2>2, <2>3
<1>4. \A x \in X : ns[x].type = "element"
  BY <1>2
<1> HIDE DEF X
<1>5. NodesStay(ns, c.nodes) /\ NewElements(ns, c.nodes) = X
  BY <1>2, <1>3, <1>4 DEF NodesStay, NewElements, ElementIds, Ids, len
<1> QED
  BY <1>5 DEF Lists, X, len

\* Moving the furthest block into its clones.
LEMMA MoveIntoClonesOK ==
  ASSUME NEW c, Sound(c), NEW f, NEW at, Adopts(c.open.stack, f, at), NEW k \in Nat, k <= at - f - 1,
         NEW chain, ChainAt(chain, c.nodes, c.open.stack[at].id, k),
         Named(chain.entries, NamesBetween(c.open.stack, f, at))
  PROVE  /\ Sound(MoveIntoClones(c, f, at, chain)) /\ Tells(MoveIntoClones(c, f, at, chain), c)
         /\ Renamed(MoveIntoClones(c, f, at, chain).open.stack, c.open.stack, f, at, k)
<1> DEFINE s == c.open.stack
           ns == c.nodes
           len == Len(ns)
           furthest == s[at]
           clone == Len(chain.nodes) + 1
           ids == [i \in 1..Len(chain.entries) |-> chain.entries[i].id]
           above == [i \in 1..Len(s) - at |-> s[at + i].id]
           m == ReplaceContent(chain.nodes, s[f].id, furthest.id)
           refilled == [c EXCEPT !.nodes = m, !.created = @ \o ids \o <<clone>>]
           location == AdoptionLocation(c, f)
           placed == AttachElement(refilled, chain.outer, location)
           order == ids \o <<furthest.id, clone>>
           depths == FoldLeft(SetDepthBelowParent, placed.nodes, order)
           deepened == [placed EXCEPT !.nodes = depths]
           moved == ReplaceEntries(deepened, f, at, chain.entries, clone)
<1>1. MoveIntoClones(c, f, at, chain) = RepairDepths(moved, clone, ns[furthest.id].depth, above)
  BY DEF MoveIntoClones
<1>2. PICK i0 : Destination(c, f, at, location, i0)
  BY AdoptionLocationOK
<1>3. len \in Nat /\ Len(s) \in Nat /\ clone = len + k + 1 /\ clone \in Nat
  <2>1. len \in Nat /\ Len(s) \in Nat
    BY SoundArena, ArenaNodes, SoundStack
  <2>2. Len(chain.nodes) = len + k
    BY DEF ChainAt
  <2> HIDE DEF len
  <2> QED
    BY <2>1, <2>2
<1>4. /\ EntriesOfClones(chain.entries, len, k) /\ \A q \in 1..k : Classified(chain.entries[q])
      /\ ids \in Seq({len + q : q \in 1..k + 1}) /\ ids \in Seq(Nat)
  BY ChainIds
<1>5. Arena(m)
  BY RefilledArena
<1> HIDE DEF m, ids, clone, location, len
<1>6. /\ refilled \in Builder /\ refilled.nodes = m /\ refilled.open = c.open
      /\ refilled.stale = c.stale /\ refilled.after_body = c.after_body
      /\ refilled.last_text = c.last_text /\ refilled.flushed = c.flushed /\ refilled.ret = c.ret
      /\ refilled.created = c.created \o ids \o <<clone>>
  <2> DEFINE created == c.created \o ids \o <<clone>>
  <2>1. refilled = [c EXCEPT !.nodes = m, !.created = created]
    OBVIOUS
  <2>2. created \in Seq(Nat)
    <3>1. c.created \in Seq(Nat)
      BY BuilderFields DEF Sound
    <3> QED
      BY <1>3, <1>4, <3>1
  <2> HIDE DEF refilled, created
  <2>3. c \in Builder /\ m \in Seq(Node)
    BY <1>5 DEF Sound, Arena
  <2>4. /\ refilled \in Builder /\ refilled.nodes = m /\ refilled.open = c.open
        /\ refilled.stale = c.stale /\ refilled.after_body = c.after_body
        /\ refilled.last_text = c.last_text /\ refilled.flushed = c.flushed /\ refilled.ret = c.ret
        /\ refilled.created = created
    BY <2>1, <2>2, <2>3 DEF Builder
  <2> QED
    BY <2>4 DEF created
<1> HIDE DEF refilled
<1>7. refilled.nodes = ReplaceContent(chain.nodes, s[f].id, s[at].id)
  BY <1>6 DEF m
<1>8. /\ placed \in Builder /\ SameRest(placed, refilled)
      /\ Adopted(placed.nodes, ns, s[at].id, k, s[i0].id)
      /\ StackOK(placed.open, OpenEntry) /\ SameEntries(placed.open.stack, s)
  BY <1>2, <1>6, <1>7, AttachChainOK
<1> HIDE DEF placed
<1>9. MovesBelow(s, f, i0)
  BY <1>2 DEF Destination
<1>10. f \in Nat /\ f >= 2 /\ at \in f + 1 .. Len(s)
  BY DEF Adopts
<1>11. i0 \in 1..Len(s) /\ at \in at..Len(s) /\ at \in 1..Len(s)
  <2>1. i0 \in 1..f - 1 /\ Len(s) \in Nat
    BY <1>3, <1>9 DEF MovesBelow
  <2> HIDE DEF s
  <2> QED
    BY <1>10, <2>1
<1>12. /\ \A q \in 1..k + 1 : len + q \in BelowParent(placed.nodes)
       /\ \A i \in at..Len(s) : s[i].id \in BelowParent(placed.nodes)
  BY <1>8, <1>11, AdoptedBelowParent DEF len
<1>13. Arena(placed.nodes)
  BY <1>8 DEF Adopted
<1>14. SameTree(depths, placed.nodes)
  <2>1. {len + q : q \in 1..k + 1} \subseteq BelowParent(placed.nodes)
    BY <1>12
  <2>2. clone \in BelowParent(placed.nodes)
    <3>1. k + 1 \in 1..k + 1 /\ clone = len + (k + 1)
      BY <1>3
    <3> QED
      BY <1>12, <3>1
  <2>3. furthest.id \in BelowParent(placed.nodes)
    BY <1>11, <1>12
  <2> HIDE DEF furthest
  <2>4. order \in Seq(BelowParent(placed.nodes))
    BY <1>4, <2>1, <2>2, <2>3
  <2> HIDE DEF order
  <2> QED
    BY <1>13, <2>4, DeepenSame
<1> HIDE DEF depths
<1>15. Arena(ns) /\ furthest.id \in Ids(ns)
  BY <1>11, SoundArena, SoundStack
<1>16. Adopted(depths, ns, s[at].id, k, s[i0].id)
  BY <1>8, <1>14, <1>15, AdoptedThenSame
<1>17. depths \in Seq(Node)
  BY <1>14 DEF SameTree, Arena
<1>18. /\ deepened \in Builder /\ deepened.nodes = depths /\ deepened.open = placed.open
       /\ SameRest(deepened, placed)
  BY <1>8, <1>17 DEF Builder, SameRest
<1> HIDE DEF deepened
<1>19. Adopts(deepened.open.stack, f, at)
  BY <1>3, <1>8, <1>18, AdoptsSame
<1>20. moved = ReplaceEntries(deepened, f, at, chain.entries, len + k + 1)
  BY <1>3
<1> HIDE DEF moved
<1>21. /\ moved \in Builder /\ StackOK(moved.open, OpenEntry)
       /\ Restacked(moved.open.stack, deepened.open.stack, len, f, at, k)
       /\ Renamed(moved.open.stack, deepened.open.stack, f, at, k)
       /\ moved.nodes = deepened.nodes /\ SameRest(moved, deepened)
  <2>1. Named(chain.entries, NamesBetween(deepened.open.stack, f, at))
    BY <1>8, <1>18, RenamedSame
  <2>2. deepened \in Builder /\ StackOK(deepened.open, OpenEntry)
    BY <1>8, <1>18
  <2>3. EntriesOfClones(chain.entries, len, k) /\ \A q \in 1..k : Classified(chain.entries[q])
    BY <1>4
  <2> QED
    BY <1>3, <1>19, <1>20, <2>1, <2>2, <2>3, ReplaceEntriesOK
<1>22. Restacked(moved.open.stack, s, len, f, at, k) /\ Renamed(moved.open.stack, s, f, at, k)
  BY <1>8, <1>18, <1>21, RestackedSame, RenamedSame
<1>23. Moved(moved, c, f, at, k, i0)
  <2>1. Adopted(moved.nodes, ns, s[at].id, k, s[i0].id)
    BY <1>16, <1>18, <1>21
  <2>2. /\ moved.stale = c.stale /\ moved.after_body = c.after_body /\ moved.last_text = c.last_text
        /\ moved.flushed = c.flushed /\ moved.ret = c.ret
    BY <1>6, <1>8, <1>18, <1>21 DEF SameRest
  <2> QED
    BY <1>21, <1>22, <2>1, <2>2 DEF Moved, len
<1>24. Sound(moved) /\ Tells(moved, c)
  <2>1. Listed(ids \o <<clone>>, {len + q : q \in 1..k + 1})
    <3>1. ids = [i \in 1..Len(chain.entries) |-> chain.entries[i].id]
      BY DEF ids
    <3> HIDE DEF ids
    <3> QED
      BY <1>3, <1>4, <3>1, ClonesListed
  <2>2. moved.created = c.created \o ids \o <<clone>> /\ moved.ret = c.ret
    BY <1>6, <1>8, <1>18, <1>21 DEF SameRest
  <2>3. c.created \o ids \o <<clone>> = c.created \o (ids \o <<clone>>)
    <3>1. c.created \in Seq(Nat) /\ ids \in Seq(Nat) /\ <<clone>> \in Seq(Nat)
      BY <1>3, <1>4, BuilderFields DEF Sound
    <3> QED
      BY <3>1, JoinAssociative
  <2>4. Lists(moved.nodes, c.created \o (ids \o <<clone>>), c)
    BY <1>23, <2>1, AdoptedLists DEF Moved, len
  <2>5. Sound(moved)
    BY <1>9, <1>23, MovedSound
  <2>6. Leaves(moved, c)
    BY <1>9, <1>23, MovedLeaves
  <2> QED
    BY <2>2, <2>3, <2>4, <2>5, <2>6 DEF Tells
<1>25. above \in Seq(BelowParent(moved.nodes))
  <2>1. BelowParent(moved.nodes) = BelowParent(placed.nodes)
    BY <1>14, <1>18, <1>21, BelowParentSame
  <2>2. \A i \in 1..Len(s) - at : at + i \in at..Len(s)
    BY <1>3, <1>10
  <2>3. Len(s) - at \in Nat
    BY <1>3, <1>10
  <2>4. above \in [1..Len(s) - at -> BelowParent(moved.nodes)]
    BY <1>12, <2>1, <2>2
  <2> HIDE DEF above
  <2> QED
    BY <2>3, <2>4, SequenceOf
<1> DEFINE depth == ns[furthest.id].depth
           repaired == RepairDepths(moved, clone, depth, above)
<1> HIDE DEF above, depth
<1>26. Sound(repaired) /\ Tells(repaired, moved) /\ repaired.open = moved.open
  <2>1. repaired.open = moved.open
    BY <1>21 DEF RepairDepths, Builder
  <2> QED
    BY <1>24, <1>25, <2>1, RepairOK
<1>27. MoveIntoClones(c, f, at, chain) = repaired
  BY <1>1 DEF depth
<1> HIDE DEF repaired
<1> QED
  BY <1>22, <1>24, <1>26, <1>27, TellsTransitive

\* Adoption around a furthest block keeps a builder sound.
LEMMA AdoptFurthestBlockOK ==
  ASSUME NEW c, Sound(c), NEW f, NEW at, Adopts(c.open.stack, f, at)
  PROVE  /\ Sound(AdoptFurthestBlock(c, f, at)) /\ Tells(AdoptFurthestBlock(c, f, at), c)
         /\ \E k \in Nat : Renamed(AdoptFurthestBlock(c, f, at).open.stack, c.open.stack, f, at, k)
<1>1. PICK k \in Nat : /\ k <= at - f - 1
                       /\ ChainAt(AdoptionChain(c, f, at), c.nodes, c.open.stack[at].id, k)
                       /\ Named(AdoptionChain(c, f, at).entries, NamesBetween(c.open.stack, f, at))
  BY AdoptionChainOK
<1> QED
  BY <1>1, MoveIntoClonesOK DEF AdoptFurthestBlock

-----------------------------------------------------------------------------
AdoptionTurns == INSTANCE SequenceFold WITH Op <- AdoptionTurn

\* The fact that module SequenceFold asks for.
LEMMA AdoptionTurnsLeast == AdoptionTurns!LeastExists
  BY LeastElement DEF AdoptionTurns!LeastExists

\* Only `table` is of the kind of tables, and it ends every standard scope.
LEMMA TableStops ==
  ASSUME NEW name, Classify(name) = "Table"
  PROVE  StopsAt("Standard", name)
<1>1. name = "table"
  BY DEF Classify
<1> QED
  BY <1>1 DEF StopsAt, Boundary

\* What the agency finds: a formatting element, above which no table is open, and its
\* furthest block.
LEMMA FoundAdopts ==
  ASSUME NEW c, Sound(c), NEW name, Classify(name) = "Formatting",
         NEW f, f = FindNamedInScope(c.open, name, "Standard"), f # 0,
         NEW at, at = FurthestBlock(c.open, f)
  PROVE  /\ f \in Nat /\ f >= 2 /\ f <= Len(c.open.stack)
         /\ at # 0 => Adopts(c.open.stack, f, at)
<1> DEFINE s == c.open.stack
<1>1. Len(s) \in Nat /\ \A i \in 2..Len(s) : Classified(s[i])
  BY SoundStack
<1>2. /\ f \in 0..Len(s) /\ f >= 2 /\ s[f].name = name
      /\ \A j \in f + 1 .. Len(s) : ~ StopsAt("Standard", s[j].name)
  BY FindNamedInScopeRange, OpenEntries DEF Sound
<1>3. f \in Nat /\ f >= 2 /\ f <= Len(s) /\ f \in 2..Len(s) /\ f >= 1
  BY <1>1, <1>2
<1>4. s[f].kind = "Formatting"
  BY <1>1, <1>2, <1>3 DEF Classified
<1>5. \A j \in f + 1 .. Len(s) : s[j].kind # "Table"
  <2> TAKE j \in f + 1 .. Len(s)
  <2>1. j \in 2..Len(s)
    BY <1>1, <1>3
  <2>2. s[j].kind = Classify(s[j].name)
    BY <1>1, <2>1 DEF Classified
  <2> QED
    BY <1>2, <2>2, TableStops
<1>6. ASSUME at # 0 PROVE Adopts(s, f, at)
  <2>1. /\ at \in f + 1 .. Len(s) /\ s[at].kind # "Formatting"
        /\ \A i \in f + 1 .. at - 1 : s[i].kind \notin ModeKinds
    BY <1>3, <1>6, FurthestBlockRange, OpenEntries DEF Sound
  <2> QED
    BY <1>3, <1>4, <1>5, <2>1 DEF Adopts
<1> QED
  BY <1>3, <1>6

\* Turns of the outer loop, begun at c.
AgencyStates(c) == {s \in [b : Builder, more : BOOLEAN] : Sound(s.b) /\ Tells(s.b, c)}

\* They keep the builder sound, and the loop's flag a flag.
LEMMA AdoptionTurnOK ==
  ASSUME NEW c, Sound(c), NEW s \in AgencyStates(c), NEW name, Classify(name) = "Formatting"
  PROVE  AdoptionTurn(s, name) \in AgencyStates(c)
<1> DEFINE f == FindNamedInScope(s.b.open, name, "Standard")
           at == FurthestBlock(s.b.open, f)
<1>1. Sound(s.b) /\ Tells(s.b, c) /\ s \in [b : Builder, more : BOOLEAN] /\ s.more \in BOOLEAN
  BY DEF AgencyStates
<1>2. \A r : Sound(r) => r \in Builder
  BY DEF Sound
<1>3. AdoptionTurn(s, name)
        = IF ~ s.more \/ f = 0 THEN [s EXCEPT !.more = FALSE]
          ELSE IF at = 0 THEN [b |-> CloseFormattingElement(s.b, f), more |-> FALSE]
          ELSE [s EXCEPT !.b = AdoptFurthestBlock(s.b, f, at)]
  BY DEF AdoptionTurn
<1> HIDE DEF f
<1>4. f # 0 => /\ f \in Nat /\ f >= 2 /\ f <= Len(s.b.open.stack)
               /\ at # 0 => Adopts(s.b.open.stack, f, at)
  BY <1>1, FoundAdopts DEF f
<1> HIDE DEF at
<1>5. CASE ~ s.more \/ f = 0
  BY <1>1, <1>3, <1>5 DEF AgencyStates
<1>6. CASE s.more /\ f # 0 /\ at = 0
  <2>1. Sound(CloseFormattingElement(s.b, f)) /\ Tells(CloseFormattingElement(s.b, f), c)
    BY <1>1, <1>4, <1>6, CloseFormattingOK, TellsTransitive
  <2> QED
    BY <1>2, <1>3, <1>6, <2>1 DEF AgencyStates
<1>7. CASE s.more /\ f # 0 /\ at # 0
  <2>1. Sound(AdoptFurthestBlock(s.b, f, at)) /\ Tells(AdoptFurthestBlock(s.b, f, at), c)
    BY <1>1, <1>4, <1>7, AdoptFurthestBlockOK, TellsTransitive
  <2> QED
    BY <1>1, <1>2, <1>3, <1>7, <2>1 DEF AgencyStates
<1> QED
  BY <1>1, <1>5, <1>6, <1>7

\* The adoption agency keeps a builder sound, whatever of its elements it closes,
\* clones or moves.
LEMMA AdoptionCloseOK ==
  ASSUME NEW c, Sound(c), NEW name, Classify(name) = "Formatting"
  PROVE  Sound(AdoptionClose(c, name)) /\ Tells(AdoptionClose(c, name), c)
<1> DEFINE start == [b |-> c, more |-> KindIsOpen(c.open, "Formatting")]
           turns == [i \in 1..OuterLoops |-> name]
           T == {name}
<1>1. AdoptionClose(c, name) = FoldLeft(AdoptionTurn, start, turns).b
  BY DEF AdoptionClose
<1>2. FoldLeft(AdoptionTurn, start, turns) = AdoptionTurns!Folded(start, turns)
  BY DEF FoldLeft, AdoptionTurns!Folded, AdoptionTurns!Greatest, MapThenFoldSet, Max
<1>3. start \in AgencyStates(c)
  BY TellsReflexive DEF AgencyStates, Sound, KindIsOpen
<1>4. turns \in Seq(T)
  BY OuterLoopsAssumption, Repeated
<1>5. \A s \in AgencyStates(c), x \in T : AdoptionTurn(s, x) \in AgencyStates(c)
  BY AdoptionTurnOK
<1> HIDE DEF start, turns, T
<1>6. AdoptionTurns!Folded(start, turns) \in AgencyStates(c)
  BY <1>3, <1>4, <1>5, AdoptionTurnsLeast, AdoptionTurns!FoldInvariant
<1> QED
  BY <1>1, <1>2, <1>6 DEF AgencyStates

-----------------------------------------------------------------------------
(***************************************************************************)
(* What the agency closes.  A turn that moves a furthest block leaves one  *)
(* element of the name open where it was and one special element less      *)
(* above it; the turn that finds no furthest block closes that one.        *)
(***************************************************************************)
SpecialsAbove(s, f) == {i \in f + 1 .. Len(s) : IsSpecial(s[i].name)}

\* An element found by its name is the last of the name, and above it nothing ends the scope.
LEMMA FoundElement ==
  ASSUME NEW o, StackOK(o, OpenEntry), NEW name,
         NEW f, f = FindNamedInScope(o, name, "Standard"), f # 0
  PROVE  /\ Len(o.stack) \in Nat /\ f \in 2..Len(o.stack) /\ o.stack[f].name = name
         /\ \A j \in f + 1 .. Len(o.stack) :
              o.stack[j].name # name /\ ~ StopsAt("Standard", o.stack[j].name)
         /\ name \notin NamesAbove(o.stack, f)
         /\ IsFiniteSet(SpecialsAbove(o.stack, f)) /\ Cardinality(SpecialsAbove(o.stack, f)) \in Nat
         /\ Cardinality(OpenNamed(o, name)) = Cardinality(NamedBelow(o.stack, f, name)) + 1
         /\ Cardinality(NamedBelow(o.stack, f, name)) \in Nat
<1> DEFINE s == o.stack
           n == Len(s)
<1>1. n \in Nat
  BY DEF StackOK, StackType
<1>2. /\ f \in 0..n /\ f >= 2 /\ s[f].name = name
      /\ \A j \in f + 1 .. n : ~ StopsAt("Standard", s[j].name)
  BY FindNamedInScopeRange, OpenEntries
<1>3. \A j \in f + 1 .. n : s[j].name # name
  BY FoundIsLast, OpenEntries
<1>4. f \in 2..n /\ f \in Nat
  BY <1>1, <1>2
<1> HIDE DEF n
<1>5. name \notin NamesAbove(s, f)
  BY <1>3 DEF NamesAbove, n
<1>6. IsFiniteSet(SpecialsAbove(s, f)) /\ Cardinality(SpecialsAbove(s, f)) \in Nat
  <2>1. SpecialsAbove(s, f) \subseteq 1..n
    BY <1>1, <1>4 DEF SpecialsAbove, n
  <2> QED
    BY <1>1, <2>1, PositionsFinite
<1>7. /\ Cardinality(OpenNamed(o, name)) = Cardinality(NamedBelow(s, f, name)) + 1
      /\ Cardinality(NamedBelow(s, f, name)) \in Nat
  <2> DEFINE below == NamedBelow(s, f, name)
  <2>1. below \subseteq 1..n /\ f \notin below
    BY <1>1, <1>4 DEF NamedBelow
  <2>2. OpenNamed(o, name) = below \cup {f}
    <3>1. OpenNamed(o, name) = {i \in 1..n : s[i].name = name}
      BY DEF OpenNamed, n
    <3>2. \A i \in 1..n : i \in 1..f - 1 \/ i = f \/ i \in f + 1 .. n
      BY <1>1, <1>4
    <3>3. f \in 1..n /\ \A i \in 1..f - 1 : i \in 1..n
      BY <1>1, <1>4
    <3> QED
      BY <1>2, <1>3, <3>1, <3>2, <3>3 DEF NamedBelow
  <2> HIDE DEF below
  <2>3. IsFiniteSet(below) /\ Cardinality(below) \in Nat
    BY <1>1, <2>1, PositionsFinite
  <2> QED
    BY <2>1, <2>2, <2>3, FS_AddElement DEF below
<1> QED
  BY <1>1, <1>2, <1>3, <1>4, <1>5, <1>6, <1>7 DEF n

\* A turn leaves the clone as the element of the name, over the same ones of the name, and below
\* one special element less.
LEMMA RenamedFinds ==
  ASSUME NEW o, StackOK(o, OpenEntry), NEW name,
         NEW f, f = FindNamedInScope(o, name, "Standard"), f # 0,
         NEW at, Adopts(o.stack, f, at), IsSpecial(o.stack[at].name),
         NEW p, StackOK(p, OpenEntry), NEW k \in Nat, Renamed(p.stack, o.stack, f, at, k),
         NEW g, g = f + k + 1
  PROVE  /\ g # 0 /\ FindNamedInScope(p, name, "Standard") = g
         /\ NamedBelow(p.stack, g, name) = NamedBelow(o.stack, f, name)
         /\ Cardinality(SpecialsAbove(p.stack, g)) + 1 <= Cardinality(SpecialsAbove(o.stack, f))
<1> DEFINE s == o.stack
           t == p.stack
           n == Len(s)
           lt == Len(t)
<1>1. /\ n \in Nat /\ f \in 2..n /\ s[f].name = name
      /\ \A j \in f + 1 .. n : s[j].name # name /\ ~ StopsAt("Standard", s[j].name)
      /\ IsFiniteSet(SpecialsAbove(s, f)) /\ Cardinality(SpecialsAbove(s, f)) \in Nat
  <2> HIDE DEF s, n
  <2>1. f \in 2..Len(o.stack)
    BY FoundElement
  <2>2. IsFiniteSet(SpecialsAbove(o.stack, f)) /\ Cardinality(SpecialsAbove(o.stack, f)) \in Nat
    BY FoundElement
  <2>3. \A j \in f + 1 .. Len(o.stack) : o.stack[j].name # name /\ ~ StopsAt("Standard", o.stack[j].name)
    BY FoundElement
  <2>4. Len(o.stack) \in Nat /\ o.stack[f].name = name
    BY FoundElement
  <2> QED
    BY <2>1, <2>2, <2>3, <2>4 DEF s, n
<1>2. at \in f + 1 .. n
  BY DEF Adopts
<1>3. /\ lt = f + k + 1 + (n - at)
      /\ \A i \in 1..f - 1 : t[i].name = s[i].name
      /\ \A q \in 0..k : q # k => t[f + q].name \in NamesBetween(s, f, at)
      /\ t[f + k].name = s[at].name
      /\ t[f + k + 1].name = s[f].name
      /\ \A m \in 1..n - at : t[f + k + 1 + m].name = s[at + m].name
  BY DEF Renamed
<1> HIDE DEF n, lt, s, t
<1>4. g \in 2..lt /\ g \in Nat /\ g # 0 /\ t[g].name = name
  BY <1>1, <1>2, <1>3
<1>5. ASSUME NEW j \in g + 1 .. lt
      PROVE  at + (j - g) \in at + 1 .. n /\ t[j].name = s[at + (j - g)].name
  <2>1. j - g \in 1..n - at /\ f + k + 1 + (j - g) = j /\ at + (j - g) \in at + 1 .. n
    BY <1>1, <1>2, <1>3
  <2> QED
    BY <1>3, <2>1
<1>6. \A j \in g + 1 .. lt : t[j].name # name /\ ~ StopsAt("Standard", t[j].name)
  <2> TAKE j \in g + 1 .. lt
  <2>1. at + (j - g) \in f + 1 .. n
    BY <1>1, <1>2, <1>5
  <2> QED
    BY <1>1, <1>5, <2>1
<1>7. FindNamedInScope(p, name, "Standard") = g
  BY <1>4, <1>6, LastIsFound, OpenEntries DEF t, lt
<1>8. NamedBelow(t, g, name) = NamedBelow(s, f, name)
  <2>1. ASSUME NEW i \in f .. g - 1 PROVE t[i].name # name
    <3>1. CASE i = f + k
      BY <1>1, <1>2, <1>3, <3>1
    <3>2. CASE i # f + k
      <4>1. i - f \in 0..k /\ i - f # k /\ f + (i - f) = i
        BY <1>1, <3>2
      <4>2. t[i].name \in NamesBetween(s, f, at)
        BY <1>3, <4>1
      <4>3. \A j \in f + 1 .. at - 1 : j \in f + 1 .. n
        BY <1>1, <1>2
      <4> QED
        BY <1>1, <4>2, <4>3 DEF NamesBetween
    <3> QED
      BY <3>1, <3>2
  <2>2. \A i \in 1..g - 1 : i \in 1..f - 1 \/ i \in f .. g - 1
    BY <1>1, <1>4
  <2>3. \A i \in 1..f - 1 : i \in 1..g - 1
    BY <1>1, <1>4
  <2> QED
    BY <1>3, <2>1, <2>2, <2>3 DEF NamedBelow
<1>9. Cardinality(SpecialsAbove(t, g)) + 1 <= Cardinality(SpecialsAbove(s, f))
  <2> DEFINE S == SpecialsAbove(t, g)
             T == SpecialsAbove(s, f) \ {at}
             d == at - g
  <2>1. at \in SpecialsAbove(s, f)
    BY <1>2 DEF SpecialsAbove, n, s
  <2>2. IsFiniteSet(T) /\ Cardinality(T) = Cardinality(SpecialsAbove(s, f)) - 1
    BY <1>1, <2>1, FS_RemoveElement
  <2>3. S \in SUBSET Int /\ d \in Int
    BY <1>1, <1>2, <1>4 DEF SpecialsAbove
  <2>4. ASSUME NEW x \in S PROVE x + d \in T
    <3>1. x \in g + 1 .. lt /\ IsSpecial(t[x].name)
      BY DEF SpecialsAbove, lt
    <3>2. at + (x - g) \in at + 1 .. n /\ t[x].name = s[at + (x - g)].name
      BY <1>5, <3>1
    <3>3. x + d = at + (x - g) /\ at + (x - g) \in f + 1 .. n /\ at + (x - g) # at
      BY <1>1, <1>2, <1>4, <3>1, <3>2
    <3> QED
      BY <3>1, <3>2, <3>3 DEF SpecialsAbove, n
  <2> HIDE DEF S, T, d
  <2>5. Cardinality(S) <= Cardinality(T)
    BY <2>2, <2>3, <2>4, ShiftedNotMore
  <2>6. IsFiniteSet(S) /\ Cardinality(S) \in Nat
    <3>1. lt \in Nat
      BY <1>1, <1>2, <1>3
    <3>2. S \subseteq g + 1 .. lt
      BY DEF S, SpecialsAbove, lt
    <3>3. g + 1 .. lt \subseteq 1..lt
      BY <1>4, <3>1
    <3> QED
      BY <3>1, <3>2, <3>3, PositionsFinite
  <2> QED
    BY <1>1, <2>2, <2>5, <2>6 DEF S
<1> QED
  BY <1>4, <1>7, <1>8, <1>9 DEF s, t

\* An element of the name is found, over those of the name at the positions `below`, and at most
\* `most` special elements are open above it.
FoundOver(o, name, below, most) ==
  LET f == FindNamedInScope(o, name, "Standard")
  IN  /\ f # 0
      /\ NamedBelow(o.stack, f, name) = below
      /\ Cardinality(SpecialsAbove(o.stack, f)) <= most

\* After i turns: as long as there is more to do the element is open, with i special elements
\* fewer above it than the `most` there were; then only those below it are.
ClosingStates(c, name, below, most, i) ==
  {s \in AgencyStates(c) :
     IF s.more THEN FoundOver(s.b.open, name, below, most - i) ELSE OpenNamed(s.b.open, name) = below}

\* One turn of the outer loop.
LEMMA AdoptionTurnCloses ==
  ASSUME NEW c, Sound(c), NEW name, Classify(name) = "Formatting", NEW below, NEW most \in Int,
         NEW i \in Int, NEW s \in ClosingStates(c, name, below, most, i - 1)
  PROVE  AdoptionTurn(s, name) \in ClosingStates(c, name, below, most, i)
<1> DEFINE o == s.b.open
           f == FindNamedInScope(o, name, "Standard")
           at == FurthestBlock(o, f)
           r == AdoptionTurn(s, name)
<1>1. /\ s \in AgencyStates(c) /\ s \in [b : Builder, more : BOOLEAN] /\ Sound(s.b)
      /\ s.more => FoundOver(o, name, below, most - (i - 1))
      /\ ~ s.more => OpenNamed(o, name) = below
  BY DEF ClosingStates, AgencyStates
<1>2. r \in AgencyStates(c)
  BY <1>1, AdoptionTurnOK
<1>3. r = IF ~ s.more \/ f = 0 THEN [s EXCEPT !.more = FALSE]
          ELSE IF at = 0 THEN [b |-> CloseFormattingElement(s.b, f), more |-> FALSE]
          ELSE [s EXCEPT !.b = AdoptFurthestBlock(s.b, f, at)]
  BY DEF AdoptionTurn
<1>4. StackOK(o, OpenEntry)
  BY <1>1 DEF Sound
<1> HIDE DEF r
<1>5. CASE ~ s.more
  <2>1. r.b = s.b /\ r.more = FALSE
    BY <1>1, <1>3, <1>5
  <2> QED
    BY <1>1, <1>2, <1>5, <2>1 DEF ClosingStates, r
<1>6. CASE s.more
  <2>1. /\ f # 0 /\ NamedBelow(o.stack, f, name) = below
        /\ Cardinality(SpecialsAbove(o.stack, f)) <= most - (i - 1)
    BY <1>1, <1>6 DEF FoundOver
  <2>2. Cardinality(SpecialsAbove(o.stack, f)) \in Nat /\ name \notin NamesAbove(o.stack, f)
    BY <1>4, <2>1, FoundElement
  <2>3. /\ f \in Nat /\ f >= 2 /\ f <= Len(o.stack)
        /\ at # 0 => Adopts(o.stack, f, at)
    BY <1>1, <2>1, FoundAdopts
  <2>4. at # 0 => IsSpecial(o.stack[at].name)
    <3>1. f >= 1
      BY <2>3
    <3> QED
      BY <1>4, <2>3, <3>1, FurthestBlockRange, OpenEntries
  <2> HIDE DEF at
  <2>5. CASE at = 0
    <3>1. r.b = CloseFormattingElement(s.b, f) /\ r.more = FALSE
      BY <1>3, <1>6, <2>1, <2>5
    <3>2. OpenNamed(CloseFormattingElement(s.b, f).open, name) = NamedBelow(o.stack, f, name)
      BY <1>1, <2>2, <2>3, CloseFormattingOK
    <3> QED
      BY <1>2, <2>1, <3>1, <3>2 DEF ClosingStates, r
  <2>6. CASE at # 0
    <3> DEFINE p == r.b.open
    <3>1. r.b = AdoptFurthestBlock(s.b, f, at) /\ r.more = TRUE
      BY <1>1, <1>3, <1>6, <2>1, <2>6
    <3>2. PICK k \in Nat : Renamed(p.stack, o.stack, f, at, k)
      BY <1>1, <2>3, <2>6, <3>1, AdoptFurthestBlockOK
    <3>3. StackOK(p, OpenEntry)
      BY <1>2 DEF AgencyStates, Sound
    <3> DEFINE g == f + k + 1
    <3>4. /\ g # 0 /\ FindNamedInScope(p, name, "Standard") = g
          /\ NamedBelow(p.stack, g, name) = NamedBelow(o.stack, f, name)
          /\ Cardinality(SpecialsAbove(p.stack, g)) + 1 <= Cardinality(SpecialsAbove(o.stack, f))
      <4>1. f # 0 /\ f = FindNamedInScope(o, name, "Standard")
        BY <2>1
      <4>2. Adopts(o.stack, f, at) /\ IsSpecial(o.stack[at].name)
        BY <2>3, <2>4, <2>6
      <4> HIDE DEF f, o, p, g
      <4>3. g = f + k + 1
        BY DEF g
      <4> QED
        BY <1>4, <3>2, <3>3, <4>1, <4>2, <4>3, RenamedFinds
    <3>5. Cardinality(SpecialsAbove(p.stack, g)) \in Nat
      BY <3>3, <3>4, FoundElement
    <3> HIDE DEF g
    <3>6. Cardinality(SpecialsAbove(p.stack, g)) <= most - i
      BY <2>1, <2>2, <3>4, <3>5
    <3>7. FoundOver(p, name, below, most - i)
      BY <2>1, <3>4, <3>6 DEF FoundOver
    <3> QED
      BY <1>2, <3>1, <3>7 DEF ClosingStates, r
  <2> QED
    BY <2>5, <2>6
<1> QED
  BY <1>5, <1>6

\* The outer loop has turns enough for fewer special elements than that: the element of the name
\* that is found is closed, and those of the name below it are all that stay open.
LEMMA AgencyCloses ==
  ASSUME NEW c, Sound(c), NEW name, Classify(name) = "Formatting",
         NEW f, f = FindNamedInScope(c.open, name, "Standard"), f # 0,
         Cardinality(SpecialsAbove(c.open.stack, f)) < OuterLoops
  PROVE  OpenNamed(AdoptionClose(c, name).open, name) = NamedBelow(c.open.stack, f, name)
<1> DEFINE below == NamedBelow(c.open.stack, f, name)
           most == Cardinality(SpecialsAbove(c.open.stack, f))
           start == [b |-> c, more |-> KindIsOpen(c.open, "Formatting")]
           turns == [i \in 1..OuterLoops |-> name]
           R == [i \in 0..OuterLoops |-> ClosingStates(c, name, below, most, i)]
<1>1. AdoptionClose(c, name) = AdoptionTurns!Folded(start, turns).b
  BY DEF AdoptionClose, FoldLeft, AdoptionTurns!Folded, AdoptionTurns!Greatest, MapThenFoldSet, Max
<1>2. turns \in Seq({name}) /\ Len(turns) = OuterLoops /\ \A i \in 1..OuterLoops : turns[i] = name
  BY OuterLoopsAssumption, Repeated
<1>3. StackOK(c.open, OpenEntry)
  BY DEF Sound
<1>4. most \in Nat /\ f \in 2..Len(c.open.stack) /\ c.open.stack[f].name = name /\ Len(c.open.stack) \in Nat
  BY <1>3, FoundElement
<1>5. KindIsOpen(c.open, "Formatting")
  <2> DEFINE T == EntriesOfKind(c.open.stack, "Formatting")
  <2>1. c.open.stack[f].kind = "Formatting"
    BY <1>4, SoundStack DEF Classified
  <2>2. f \in T /\ T \subseteq 1..Len(c.open.stack)
    BY <1>4, <2>1 DEF EntriesOfKind
  <2>3. c.open.counts["Formatting"] = Cardinality(T)
    BY <1>3 DEF StackOK, CachesAgree, Kinds
  <2> HIDE DEF T
  <2>4. IsFiniteSet(T) /\ Cardinality(T) # 0
    BY <1>4, <2>2, PositionsFinite, FS_EmptySet
  <2> QED
    BY <2>3, <2>4 DEF KindIsOpen
<1>6. start \in ClosingStates(c, name, below, most, 0)
  <2>1. start \in AgencyStates(c)
    BY <1>5, TellsReflexive DEF AgencyStates, Sound
  <2>2. FoundOver(c.open, name, below, most - 0)
    BY <1>4 DEF FoundOver
  <2> QED
    BY <1>5, <2>1, <2>2 DEF ClosingStates
<1> HIDE DEF start, turns, below, most
<1>7. start \in R[0]
  BY <1>6, OuterLoopsAssumption
<1>8. ASSUME NEW i \in 1..Len(turns), NEW s \in R[i - 1] PROVE AdoptionTurn(s, turns[i]) \in R[i]
  <2>1. i \in 1..OuterLoops /\ i \in Int /\ i \in 0..OuterLoops /\ i - 1 \in 0..OuterLoops
    BY <1>2, OuterLoopsAssumption
  <2>2. s \in ClosingStates(c, name, below, most, i - 1) /\ turns[i] = name
    BY <1>2, <1>8, <2>1
  <2>3. AdoptionTurn(s, name) \in ClosingStates(c, name, below, most, i)
    BY <1>4, <2>1, <2>2, AdoptionTurnCloses
  <2> QED
    BY <2>1, <2>2, <2>3
<1> HIDE DEF R
<1>9. AdoptionTurns!Folded(start, turns) \in R[OuterLoops]
  BY <1>2, <1>7, <1>8, AdoptionTurnsLeast, AdoptionTurns!FoldIndexed
<1> DEFINE last == AdoptionTurns!Folded(start, turns)
<1>10. last \in ClosingStates(c, name, below, most, OuterLoops)
  BY <1>9, OuterLoopsAssumption DEF R
<1> HIDE DEF last
<1>11. ~ last.more
  <2> SUFFICES ASSUME last.more PROVE FALSE
    OBVIOUS
  <2> DEFINE g == FindNamedInScope(last.b.open, name, "Standard")
  <2>1. g # 0 /\ Cardinality(SpecialsAbove(last.b.open.stack, g)) <= most - OuterLoops
    BY <1>10 DEF ClosingStates, FoundOver
  <2>2. StackOK(last.b.open, OpenEntry)
    BY <1>10 DEF ClosingStates, AgencyStates, Sound
  <2>3. Cardinality(SpecialsAbove(last.b.open.stack, g)) \in Nat
    BY <2>1, <2>2, FoundElement
  <2>4. most < OuterLoops
    BY DEF most
  <2> HIDE DEF g
  <2> QED
    BY <1>4, <2>1, <2>3, <2>4, OuterLoopsAssumption
<1>12. OpenNamed(last.b.open, name) = below
  BY <1>10, <1>11 DEF ClosingStates
<1> QED
  BY <1>1, <1>12 DEF below, last

-----------------------------------------------------------------------------
\* A part of a table, or the table, has a table at or below it.
LEMMA PartHasTable ==
  ASSUME NEW c, Sound(c), NEW i \in 1..Len(c.open.stack),
         c.open.stack[i].kind \in TableContentKinds \cup {"Table"}
  PROVE  \E t \in 1..i : c.open.stack[t].kind = "Table"
<1> DEFINE s == c.open.stack
<1>1. i \in Nat /\ i >= 1 /\ InTableAt(s, i)
  <2>1. PICK h : Branch(c.nodes, s, h)
    BY DEF Sound, TreeOK, Grounded
  <2>2. InTableAt(s, i)
    BY <2>1 DEF Branch
  <2>3. i \in Nat /\ i >= 1
    BY SoundStack
  <2> QED
    BY <2>2, <2>3
<1>2. CASE s[i].kind = "Table"
  BY <1>1, <1>2, i \in 1..i
<1>3. CASE s[i].kind \in TableContentKinds
  <2>1. PICK t \in 1 .. i - 1 : s[t].kind = "Table"
    BY <1>1, <1>3 DEF InTableAt
  <2>2. t \in 1..i
    BY <1>1
  <2> QED
    BY <2>1, <2>2
<1> QED
  BY <1>2, <1>3

\* Where the mode is not that of column groups, a column group may open.
LEMMA OutsideInMode ==
  ASSUME NEW o, StackOK(o, OpenEntry), o.mode # "InColumnGroup"
  PROVE  OutsideColumns(o.stack, Len(o.stack))
<1> DEFINE s == o.stack
           n == Len(s)
<1>1. n \in Nat /\ n \in 1..n
  BY DEF StackOK, StackType, Rooted
<1>2. IsModeAt(s, n, o.mode)
  BY <1>1 DEF StackOK, CachesAgree, Top
<1> HIDE DEF n
<1>3. SUFFICES ASSUME NEW j \in 1..n, s[j].kind = "ColGroup", \A m \in j + 1 .. n : s[m].kind \notin ModeKinds
               PROVE  FALSE
  BY DEF OutsideColumns, n
<1>4. "ColGroup" \in ModeKinds /\ ModeOf["ColGroup"] = "InColumnGroup"
  BY DEF ModeKinds, ModeOf
<1>5. PICK i \in 1..n : /\ s[i].kind \in ModeKinds /\ o.mode = ModeOf[s[i].kind]
                        /\ \A m \in i + 1 .. n : s[m].kind \notin ModeKinds
  BY <1>2, <1>3, <1>4 DEF IsModeAt
<1>6. i # j
  BY <1>3, <1>4, <1>5
<1>7. i \in j + 1 .. n \/ j \in i + 1 .. n
  BY <1>1, <1>6
<1> QED
  BY <1>3, <1>4, <1>5, <1>7

TableModes == {"InTable", "InTableBody", "InRow", "InCell", "InCaption", "InColumnGroup"}

\* A mode of tables is in force in a table only.
LEMMA ModeHasTable ==
  ASSUME NEW c, Sound(c), c.open.mode \in TableModes
  PROVE  HasTable(c.open.stack)
<1> DEFINE s == c.open.stack
           n == Len(s)
<1>1. n \in Nat /\ n >= 1 /\ n \in 1..n
  BY SoundStack
<1>2. /\ \A i \in 1..n : IsModeAt(s, i, s[i].mode)
      /\ c.open.mode = s[n].mode
  BY DEF Sound, StackOK, CachesAgree, Top
<1>3. IsModeAt(s, n, c.open.mode)
  BY <1>1, <1>2
<1>4. c.open.mode # "InBody"
  BY DEF TableModes
<1>5. PICK i \in 1..n : s[i].kind \in ModeKinds /\ c.open.mode = ModeOf[s[i].kind]
  BY <1>3, <1>4 DEF IsModeAt
<1>6. s[i].kind # "Select"
  BY <1>5 DEF TableModes, ModeOf
<1>7. s[i].kind \in TableContentKinds \cup {"Table"}
  BY <1>5, <1>6 DEF TableContentKinds
<1>8. PICK t \in 1..i : s[t].kind = "Table"
  BY <1>7, PartHasTable
<1>9. t \in 1..n
  BY <1>1
<1> QED
  BY <1>8, <1>9 DEF HasTable

\* Clearing the stack back to a part of a table leaves the table, and no column group.
LEMMA ClearedHasTable ==
  ASSUME NEW c, Sound(c), HasTable(c.open.stack), NEW kind \in TablePartKinds,
         NEW o, o = ClearBackTo(c.open, kind)
  PROVE  /\ HasTable(o.stack)
         /\ c.open.mode # "InColumnGroup" => OutsideColumns(o.stack, Len(o.stack))
<1> DEFINE s == c.open.stack
           at == LastOfKind(c.open, kind)
<1>1. StackOK(c.open, OpenEntry) /\ EntrySet(OpenEntry)
  BY OpenEntries DEF Sound
<1>2. at \in 0..Len(s) /\ (at # 0 => s[at].kind = kind)
  BY <1>1, LastOfKindRange
<1>3. Len(s) \in Nat
  BY SoundStack
<1> HIDE DEF at
<1>4. CASE o = c.open
  BY <1>1, <1>4, OutsideInMode
<1>5. CASE o = TruncateStack(c.open, at) /\ at > 0
  <2>1. at \in 1..Len(s) /\ at \in Int
    BY <1>2, <1>3, <1>5
  <2>2. Len(o.stack) = at /\ \A i \in 1..Len(o.stack) : o.stack[i] = s[i]
    <3>1. Shrinks(o, c.open, OpenEntry)
      BY <1>1, <1>5, <2>1, TruncateShrinks
    <3>2. at \in 1..Len(c.open.stack) => Len(TruncateStack(c.open, at).stack) = at
      BY <1>1, <2>1, TruncateOK, Zenon
    <3> QED
      BY <1>5, <2>1, <3>1, <3>2 DEF Shrinks
  <2>3. s[at].kind \in TableContentKinds \cup {"Table"}
    BY <1>2, <2>1 DEF TablePartKinds, TableContentKinds, ModeKinds
  <2>4. PICK t \in 1..at : s[t].kind = "Table"
    BY <2>1, <2>3, PartHasTable
  <2>5. o.stack[at].kind \in ModeKinds /\ o.stack[at].kind # "ColGroup"
    BY <1>2, <2>1, <2>2 DEF TablePartKinds, ModeKinds
  <2>6. OutsideColumns(o.stack, at)
    <3> SUFFICES ASSUME NEW j \in 1..at, o.stack[j].kind = "ColGroup"
                 PROVE  \E m \in j + 1 .. at : o.stack[m].kind \in ModeKinds
      BY DEF OutsideColumns
    <3>1. at \in j + 1 .. at
      BY <1>3, <2>1, <2>5
    <3> QED
      BY <2>5, <3>1
  <2> QED
    BY <2>2, <2>4, <2>6 DEF HasTable
<1>6. o = c.open \/ (o = TruncateStack(c.open, at) /\ at > 0)
  BY DEF ClearBackTo, at
<1> QED
  BY <1>4, <1>5, <1>6

\* The stack a start tag is processed on.
LEMMA ContextStackOK ==
  ASSUME NEW c, Sound(c), NEW kind, NEW o, o = ContextStack(c.open, kind)
  PROVE  /\ Shrinks(o, c.open, OpenEntry)
         /\ kind \in TableSectionKinds /\ HasTable(c.open.stack) =>
              /\ HasTable(o.stack)
              /\ c.open.mode # "InColumnGroup" => OutsideColumns(o.stack, Len(o.stack))
<1>1. StackOK(c.open, OpenEntry) /\ EntrySet(OpenEntry)
  BY OpenEntries DEF Sound
<1>2. CASE c.open.mode \in DOMAIN PartOfMode /\ kind \in TableSectionKinds
  <2>1. o = ClearBackTo(c.open, PartOfMode[c.open.mode])
    BY <1>2 DEF ContextStack, TableSectionKinds, PartOfMode
  <2>2. PartOfMode[c.open.mode] \in TablePartKinds
    BY <1>2 DEF PartOfMode, TablePartKinds
  <2> QED
    BY <1>1, <2>1, <2>2, ClearBackToShrinks, ClearedHasTable
<1>3. CASE /\ ~ (c.open.mode \in DOMAIN PartOfMode /\ kind \in TableSectionKinds)
           /\ c.open.mode = "InTable" /\ kind = "Table"
  <2>1. o = CloseLastKind(c.open, "Table")
    BY <1>3 DEF ContextStack, TableSectionKinds, PartOfMode
  <2> QED
    BY <1>1, <1>3, <2>1, CloseLastKindShrinks DEF TableSectionKinds
<1>4. CASE c.open.mode = "InSelect" /\ kind = "Option"
  <2>1. o = PopIfCurrent(c.open, "Option")
    BY <1>4 DEF ContextStack, TableSectionKinds, PartOfMode
  <2> QED
    BY <1>1, <1>4, <2>1, PopIfCurrentShrinks DEF TableSectionKinds
<1>5. CASE c.open.mode = "InSelect" /\ kind = "OptGroup"
  <2> DEFINE popped == PopIfCurrent(c.open, "Option")
  <2>1. o = PopIfCurrent(popped, "OptGroup")
    BY <1>5 DEF ContextStack, TableSectionKinds, PartOfMode
  <2>2. Shrinks(popped, c.open, OpenEntry) /\ StackOK(popped, OpenEntry)
    BY <1>1, PopIfCurrentShrinks DEF Shrinks
  <2> HIDE DEF popped
  <2>3. Shrinks(o, popped, OpenEntry)
    BY <1>1, <2>1, <2>2, PopIfCurrentShrinks
  <2> QED
    BY <1>1, <1>5, <2>2, <2>3, ShrinksTransitive DEF TableSectionKinds
<1>6. CASE /\ ~ (c.open.mode \in DOMAIN PartOfMode /\ kind \in TableSectionKinds)
           /\ ~ (c.open.mode = "InTable" /\ kind = "Table")
           /\ ~ (c.open.mode = "InSelect" /\ kind = "Option")
           /\ ~ (c.open.mode = "InSelect" /\ kind = "OptGroup")
  <2>1. o = c.open
    BY <1>6 DEF ContextStack
  <2> QED
    BY <1>1, <2>1, UnchangedShrinks, OutsideInMode
<1> QED
  BY <1>2, <1>3, <1>4, <1>5, <1>6

ImpliedInsertions == INSTANCE SequenceFold WITH Op <- InsertImplied

\* The fact that module SequenceFold asks for.
LEMMA ImpliedInsertionsLeast == ImpliedInsertions!LeastExists
  BY LeastElement DEF ImpliedInsertions!LeastExists

\* Sound builders with a table open, and all that was created since c listed.
InTables(c) ==
  {r \in Builder :
     Sound(r) /\ HasTable(r.open.stack) /\ Lists(r.nodes, r.created, c) /\ Leaves(r, c)}

\* What was created is only reported.
LEMMA ReportCreatedOK ==
  ASSUME NEW c, Sound(c)
  PROVE  /\ Sound(ReportCreated(c)) /\ ReportCreated(c).open = c.open
         /\ ReportCreated(c).nodes = c.nodes /\ ReportCreated(c).after_body = c.after_body
         /\ ReportCreated(c).created = Append(c.created, c.ret)
<1> DEFINE created == Append(c.created, c.ret)
           r == [c EXCEPT !.created = created]
<1>1. c \in Builder /\ c.ret \in Ids(c.nodes) \cup {NULL}
  BY DEF Sound, Refers
<1>2. created \in Seq(Nat)
  BY <1>1, BuilderFields
<1>3. ReportCreated(c) = r
  BY DEF ReportCreated
<1> HIDE DEF created
<1>4. /\ r \in Builder /\ r.nodes = c.nodes /\ r.stale = c.stale /\ r.open = c.open
      /\ r.after_body = c.after_body /\ r.last_text = c.last_text
      /\ r.flushed = c.flushed /\ r.ret = c.ret /\ r.created = created
  BY <1>1, <1>2 DEF Builder
<1> HIDE DEF r
<1>5. Sound(r)
  BY <1>1, <1>4, SoundFlags
<1> QED
  BY <1>3, <1>4, <1>5 DEF created

\* The parts of a table that a start tag implies.
LEMMA InsertImpliedOK ==
  ASSUME NEW old, Sound(old), NEW c \in InTables(old), NEW name \in {"tbody", "tr", "colgroup"},
         name = "colgroup" => OutsideColumns(c.open.stack, Len(c.open.stack))
  PROVE  InsertImplied(c, name) \in InTables(old)
<1> DEFINE location == AppendTo(CurrentParent(c))
           r == InsertElement(c, name, "none", location)
<1>1. Sound(c) /\ HasTable(c.open.stack) /\ Lists(c.nodes, c.created, old) /\ Leaves(c, old)
  BY DEF InTables
<1>2. name \in Strings /\ "none" \in Strings
  BY DEF Strings
<1>3. LocationOK(c, location)
  BY <1>1, CurrentLocation
<1>4. InsertImplied(c, name) = ReportCreated(r)
  BY DEF InsertImplied
<1> HIDE DEF location
<1>5. /\ Sound(r) /\ HasTable(r.open.stack) /\ r.ret = Len(c.nodes) + 1
      /\ r.created = c.created /\ Placed(r.nodes, c.nodes, "element", location.parent)
      /\ Leaves(r, c)
  <2>1. Classify(name) = "ColGroup" => name = "colgroup"
    BY DEF Classify, HeadingNames, FormattingNames
  <2> QED
    BY <1>1, <1>2, <1>3, <2>1, InsertElementOK
<1> HIDE DEF r
<1>6. Lists(r.nodes, Append(r.created, r.ret), c)
  BY <1>1, <1>5, PlacedLists
<1>7. Lists(r.nodes, Append(r.created, r.ret), old)
  BY <1>1, <1>6, ListsTransitive DEF Sound
<1> DEFINE q == ReportCreated(r)
<1>8. /\ Sound(q) /\ q.open = r.open /\ q.nodes = r.nodes /\ q.after_body = r.after_body
      /\ q.created = Append(r.created, r.ret)
  BY <1>5, ReportCreatedOK
<1> HIDE DEF q
<1>9. Leaves(q, old)
  <2>1. OpenIds(q) = OpenIds(r)
    BY <1>8 DEF OpenIds
  <2>2. Leaves(r, old)
    BY <1>1, <1>5, LeavesTransitive
  <2> QED
    BY <1>8, <2>1, <2>2, SameLeaves
<1> QED
  BY <1>4, <1>5, <1>7, <1>8, <1>9 DEF InTables, Sound, q

\* Clearing the stack for a start tag and inserting what the tag implies.
LEMMA EnterContextOK ==
  ASSUME NEW c, Sound(c), NEW kind, kind \in TableSectionKinds => HasTable(c.open.stack),
         kind = "ColGroup" => c.open.mode # "InColumnGroup"
  PROVE  /\ Sound(EnterContext(c, kind))
         /\ Lists(EnterContext(c, kind).nodes, EnterContext(c, kind).created, c)
         /\ Leaves(EnterContext(c, kind), c)
         /\ kind \in TableSectionKinds => HasTable(EnterContext(c, kind).open.stack)
         /\ kind = "ColGroup" =>
              OutsideColumns(EnterContext(c, kind).open.stack, Len(EnterContext(c, kind).open.stack))
<1> DEFINE o == ContextStack(c.open, kind)
           d == [c EXCEPT !.open = o]
           names == ImpliedParts(c.open.mode, kind)
           T == {"tbody", "tr"}
<1>1. /\ Shrinks(o, c.open, OpenEntry) /\ (kind \in TableSectionKinds => HasTable(o.stack))
      /\ kind \in TableSectionKinds /\ c.open.mode # "InColumnGroup" =>
           OutsideColumns(o.stack, Len(o.stack))
  BY ContextStackOK
<1>2. EnterContext(c, kind) = FoldLeft(InsertImplied, d, names)
  BY DEF EnterContext
<1>3. FoldLeft(InsertImplied, d, names) = ImpliedInsertions!Folded(d, names)
  BY DEF FoldLeft, ImpliedInsertions!Folded, ImpliedInsertions!Greatest, MapThenFoldSet, Max
<1> HIDE DEF o
<1>4. Sound(d)
  BY <1>1, SoundOpen
<1>5. d.open = o /\ Lists(d.nodes, d.created, c) /\ Leaves(d, c)
  <2>1. d.open = o
    BY DEF Sound, Builder
  <2>2. Tells(d, c)
    BY <1>1, StackTells
  <2> HIDE DEF d
  <2> QED
    BY <2>1, <2>2 DEF Tells
<1> HIDE DEF d
<1>8. CASE names = <<>>
  <2>1. ImpliedInsertions!Folded(d, <<>>) = d
    BY ImpliedInsertionsLeast, ImpliedInsertions!FoldNothing
  <2>2. "ColGroup" \in TableSectionKinds
    BY DEF TableSectionKinds
  <2> QED
    BY <1>1, <1>2, <1>3, <1>4, <1>5, <1>8, <2>1, <2>2
<1>9. CASE kind = "Column" /\ names = <<"colgroup">>
  <2>1. ImpliedInsertions!Folded(d, <<"colgroup">>) = InsertImplied(d, "colgroup")
    BY ImpliedInsertionsLeast, ImpliedInsertions!FoldOne
  <2>2. kind \in TableSectionKinds
    BY <1>9 DEF TableSectionKinds
  <2>3. c.open.mode # "InColumnGroup"
    BY <1>9 DEF ImpliedParts
  <2>4. d \in InTables(c) /\ OutsideColumns(d.open.stack, Len(d.open.stack))
    BY <1>1, <1>4, <1>5, <2>2, <2>3 DEF InTables, Sound
  <2>5. InsertImplied(d, "colgroup") \in InTables(c)
    BY <2>4, InsertImpliedOK
  <2> QED
    BY <1>2, <1>3, <1>9, <2>1, <2>5 DEF InTables
<1>6. CASE kind \in {"Row", "Cell"}
  <2>0. kind \in TableSectionKinds /\ kind # "ColGroup"
    BY <1>6 DEF TableSectionKinds
  <2>1. d \in InTables(c)
    BY <1>1, <1>4, <1>5, <2>0 DEF InTables, Sound
  <2>2. names \in Seq(T)
    <3>1. <<"tbody">> \in Seq(T) /\ <<"tbody", "tr">> \in Seq(T)
          /\ <<"tr">> \in Seq(T) /\ <<>> \in Seq(T)
      OBVIOUS
    <3> HIDE DEF T
    <3> QED
      BY <1>6, <3>1 DEF ImpliedParts
  <2>3. \A r \in InTables(c), x \in T : InsertImplied(r, x) \in InTables(c)
    BY InsertImpliedOK
  <2> HIDE DEF names, T
  <2>4. ImpliedInsertions!Folded(d, names) \in InTables(c)
    BY <2>1, <2>2, <2>3, ImpliedInsertionsLeast, ImpliedInsertions!FoldInvariant
  <2> QED
    BY <1>2, <1>3, <2>0, <2>4 DEF InTables
<1>7. names = <<>> \/ (kind = "Column" /\ names = <<"colgroup">>) \/ kind \in {"Row", "Cell"}
  BY DEF ImpliedParts
<1> QED
  BY <1>6, <1>7, <1>8, <1>9

\* A start tag of an anchor closes the anchor it would be inside of.
LEMMA AdoptAnchorOK ==
  ASSUME NEW c, Sound(c), NEW name
  PROVE  Sound(AdoptAnchor(c, name)) /\ Tells(AdoptAnchor(c, name), c)
<1>1. Classify("a") = "Formatting"
  BY DEF Classify, HeadingNames, FormattingNames
<1> QED
  BY <1>1, AdoptionCloseOK, TellsReflexive DEF AdoptAnchor

\* What a start tag closes is the top of the stack, and nothing of it in a table.
LEMMA ImplicitCloseShrinks ==
  ASSUME NEW o, StackOK(o, OpenEntry), NEW name
  PROVE  /\ Shrinks(ApplyBodyImplicitClose(o, name), o, OpenEntry)
         /\ Classify(name) \in TableContentKinds => ApplyBodyImplicitClose(o, name) = o
<1> DEFINE kind == Classify(name)
           item == CloseOpenItem(o, kind)
           para == CloseOpenParagraph(item, name)
           r == CloseCurrentOfKind(para, kind)
<1>1. ApplyBodyImplicitClose(o, name) = r
  BY DEF ApplyBodyImplicitClose
<1>2. Shrinks(item, o, OpenEntry)
  BY CloseListItemStartShrinks, UnchangedShrinks, OpenEntries DEF CloseOpenItem
<1>3. StackOK(item, OpenEntry)
  BY <1>2 DEF Shrinks
<1>4. Shrinks(para, item, OpenEntry)
  <2> HIDE DEF item
  <2> QED
    BY <1>3, CloseInScopeShrinks, UnchangedShrinks, OpenEntries DEF CloseOpenParagraph
<1>5. StackOK(para, OpenEntry)
  BY <1>4 DEF Shrinks
<1>6. Shrinks(r, para, OpenEntry)
  <2> HIDE DEF para
  <2>1. \A k : Shrinks(PopIfCurrent(para, k), para, OpenEntry)
    BY <1>5, PopIfCurrentShrinks, OpenEntries
  <2>2. Shrinks(para, para, OpenEntry)
    BY <1>5, UnchangedShrinks, OpenEntries
  <2>3. r \in {PopIfCurrent(para, "Heading"), PopIfCurrent(para, "Option"), para}
    BY DEF CloseCurrentOfKind
  <2> HIDE DEF r
  <2> QED
    BY <2>1, <2>2, <2>3
<1>7. ASSUME kind \in TableContentKinds PROVE r = o
  <2>1. item = o
    BY <1>7 DEF CloseOpenItem, TableContentKinds, ModeKinds
  <2>2. kind \notin {"Paragraph", "ListItem", "DefinitionItem", "Plaintext"}
    BY <1>7 DEF TableContentKinds, ModeKinds
  <2>3. ~ ClosesP(name)
    BY <1>7 DEF ClosesP, Classify, HeadingNames, FormattingNames, TableContentKinds, ModeKinds
  <2>4. para = o
    BY <2>1, <2>2, <2>3 DEF CloseOpenParagraph
  <2>5. kind \notin {"Heading", "Option", "OptGroup"}
    BY <1>7 DEF TableContentKinds, ModeKinds
  <2> HIDE DEF kind, para
  <2>6. r = para
    BY <2>5 DEF CloseCurrentOfKind
  <2> QED
    BY <2>4, <2>6
<1> HIDE DEF item, para, r, kind
<1>8. Shrinks(r, item, OpenEntry)
  BY <1>3, <1>4, <1>5, <1>6, ShrinksTransitive
<1>9. Shrinks(r, o, OpenEntry)
  BY <1>2, <1>3, <1>8, ShrinksTransitive
<1> QED
  BY <1>1, <1>7, <1>9 DEF kind

\* An element that may stand where it is inserted: a part of a table in a table, and a column
\* group not in another.
MayInsert(c, name) ==
  /\ Classify(name) \in TableContentKinds => HasTable(c.open.stack)
  /\ Classify(name) = "ColGroup" => OutsideColumns(c.open.stack, Len(c.open.stack))

\* Inserting at the current node, or next to the table around it.
LEMMA InsertHereOK ==
  ASSUME NEW c, Sound(c), NEW name \in Strings, NEW attrs \in Strings, MayInsert(c, name), NEW foster,
         NEW r, r = InsertHere(c, name, attrs, foster)
  PROVE  Sound(r) /\ r.ret = Len(c.nodes) + 1 /\ Returns(r, c)
<1>1. LocationOK(c, LocationFor(c, foster))
  BY LocatedFor
<1>2. /\ Classify(name) \in TableContentKinds => HasTable(c.open.stack)
      /\ Classify(name) = "ColGroup" => OutsideColumns(c.open.stack, Len(c.open.stack))
  BY DEF MayInsert
<1>3. r = InsertElement(c, name, attrs, LocationFor(c, foster))
  BY DEF InsertHere
<1>4. /\ Sound(r) /\ r.ret = Len(c.nodes) + 1 /\ r.created = c.created
      /\ Placed(r.nodes, c.nodes, "element", LocationFor(c, foster).parent)
      /\ Leaves(r, c)
  BY <1>1, <1>2, <1>3, InsertElementOK
<1> QED
  BY <1>4, InsertedReturns

\* An element that closes at once.
LEMMA PopInsertedOK ==
  ASSUME NEW c, Sound(c), c.ret # RootId
  PROVE  /\ Sound(PopInserted(c)) /\ PopInserted(c).nodes = c.nodes
         /\ PopInserted(c).created = c.created /\ PopInserted(c).ret = c.ret
         /\ OpenIds(PopInserted(c)) \subseteq OpenIds(c)
         /\ PopInserted(c).after_body = c.after_body
<1> DEFINE s == c.open.stack
<1>1. CASE IsCurrent(c, c.ret)
  <2>1. s[Len(s)].id = c.ret
    BY <1>1 DEF IsCurrent, CurrentParent, Top
  <2>2. s[1].id = RootId /\ Len(s) \in Nat /\ Len(s) >= 1
    BY SoundStack
  <2>3. Len(s) > 1
    BY <2>1, <2>2
  <2>4. Shrinks(PopOpenElement(c.open), c.open, OpenEntry)
    BY <2>3, PopShrinks, OpenEntries DEF Sound
  <2>5. PopInserted(c) = [c EXCEPT !.open = PopOpenElement(c.open)]
    BY <1>1 DEF PopInserted
  <2>6. /\ PopInserted(c).nodes = c.nodes /\ PopInserted(c).created = c.created
        /\ PopInserted(c).ret = c.ret /\ PopInserted(c).after_body = c.after_body
        /\ PopInserted(c).open = PopOpenElement(c.open)
    BY <2>5 DEF Sound, Builder
  <2>7. OpenIds(PopInserted(c)) \subseteq OpenIds(c)
    BY <2>4, <2>6, ShrinksOpen
  <2> QED
    BY <2>4, <2>5, <2>6, <2>7, SoundOpen
<1>2. CASE ~ IsCurrent(c, c.ret)
  BY <1>2 DEF PopInserted
<1> QED
  BY <1>1, <1>2

\* Expecting a newline says nothing of the tree.
LEMMA ExpectNewlineOK ==
  ASSUME NEW c, Sound(c), NEW name
  PROVE  /\ Sound(ExpectNewline(c, name)) /\ ExpectNewline(c, name).nodes = c.nodes
         /\ ExpectNewline(c, name).created = c.created /\ ExpectNewline(c, name).ret = c.ret
         /\ ExpectNewline(c, name).open = c.open
         /\ ExpectNewline(c, name).after_body = c.after_body
<1> DEFINE r == [c EXCEPT !.newline_skip = "Newline"]
<1>1. c \in Builder /\ c.ret \in Ids(c.nodes) \cup {NULL}
  BY DEF Sound, Refers
<1>2. /\ r \in Builder /\ r.nodes = c.nodes /\ r.stale = c.stale /\ r.open = c.open
      /\ r.after_body = c.after_body /\ r.last_text = c.last_text
      /\ r.flushed = c.flushed /\ r.ret = c.ret /\ r.created = c.created
  BY <1>1 DEF Builder
<1>3. ExpectNewline(c, name) \in {c, r}
  BY DEF ExpectNewline
<1> HIDE DEF r
<1>4. Sound(r)
  BY <1>1, <1>2, SoundFlags
<1> QED
  BY <1>2, <1>3, <1>4

\* Closing what the new element cannot be inside of.
LEMMA CloseImplicitlyOK ==
  ASSUME NEW c, Sound(c), NEW name, MayInsert(c, name)
  PROVE  /\ Sound(CloseImplicitly(c, name)) /\ MayInsert(CloseImplicitly(c, name), name)
         /\ Tells(CloseImplicitly(c, name), c)
<1> DEFINE o == ApplyBodyImplicitClose(c.open, name)
<1>1. Shrinks(o, c.open, OpenEntry) /\ (Classify(name) \in TableContentKinds => o = c.open)
  BY ImplicitCloseShrinks DEF Sound
<1>2. CloseImplicitly(c, name) = [c EXCEPT !.open = o]
  BY DEF CloseImplicitly
<1> HIDE DEF o
<1>3. [c EXCEPT !.open = o].open = o
  BY DEF Sound, Builder
<1> QED
  <2>1. "ColGroup" \in TableContentKinds
    BY DEF TableContentKinds, ModeKinds
  <2> QED
    BY <1>1, <1>2, <1>3, <2>1, SoundOpen, StackTells DEF MayInsert

\* A tag that may be inserted may be so after an anchor was adopted: an anchor is no part of
\* a table.
LEMMA AnchorMayInsert ==
  ASSUME NEW c, NEW name, MayInsert(c, name)
  PROVE  MayInsert(AdoptAnchor(c, name), name)
<1>1. CASE name = "a"
  BY <1>1 DEF MayInsert, Classify, HeadingNames, FormattingNames, TableContentKinds, ModeKinds
<1>2. CASE name # "a"
  BY <1>2 DEF AdoptAnchor
<1> QED
  BY <1>1, <1>2

\* A start tag in the context it needs.
LEMMA InsertPreparedOK ==
  ASSUME NEW c, Sound(c), NEW name \in Strings, NEW attrs \in Strings, MayInsert(c, name), NEW foster
  PROVE  /\ Sound(InsertPrepared(c, name, attrs, foster))
         /\ Returns(InsertPrepared(c, name, attrs, foster), c)
<1> DEFINE d == AdoptAnchor(c, name)
           e == CloseImplicitly(d, name)
           r == InsertHere(e, name, attrs, foster)
<1>1. Sound(d) /\ MayInsert(d, name) /\ Tells(d, c)
  BY AdoptAnchorOK, AnchorMayInsert
<1> HIDE DEF d
<1>2. Sound(e) /\ MayInsert(e, name) /\ Tells(e, d)
  BY <1>1, CloseImplicitlyOK
<1> HIDE DEF e
<1>3. Sound(r) /\ Returns(r, e)
  BY <1>2, InsertHereOK
<1>4. InsertPrepared(c, name, attrs, foster) = ExpectNewline(r, name)
  BY DEF InsertPrepared, d, e
<1> HIDE DEF r
<1>5. Tells(e, c)
  BY <1>1, <1>2, TellsTransitive
<1>6. Returns(r, c)
  BY <1>3, <1>5, TellsThenReturns DEF Tells
<1> DEFINE q == ExpectNewline(r, name)
<1>7. /\ Sound(q) /\ q.nodes = r.nodes /\ q.created = r.created /\ q.ret = r.ret
      /\ q.open = r.open /\ q.after_body = r.after_body
  BY <1>3, ExpectNewlineOK
<1> HIDE DEF q
<1>8. Returns(q, c)
  <2>1. OpenIds(q) = OpenIds(r)
    BY <1>7 DEF OpenIds
  <2> QED
    BY <1>6, <1>7, <2>1, SameReturns
<1> QED
  BY <1>4, <1>7, <1>8 DEF q

\* A part of a table is only inserted in one: elsewhere its start tag is ignored.
LEMMA SectionHasTable ==
  ASSUME NEW c, Sound(c), NEW name, ~ StartTagIgnored(c.open, name),
         Classify(name) \in TableSectionKinds
  PROVE  HasTable(c.open.stack)
<1>1. c.open.mode \in Modes
  BY DEF Sound, StackOK, StackType
<1>2. c.open.mode # "InBody"
  BY DEF StartTagIgnored
<1>3. c.open.mode # "InSelect"
  <2>1. Classify(name) \notin {"Option", "OptGroup"}
    BY DEF TableSectionKinds
  <2>2. name # "script"
    BY DEF Classify, HeadingNames, FormattingNames, TableSectionKinds
  <2> QED
    BY <2>1, <2>2 DEF StartTagIgnored
<1>4. c.open.mode \in TableModes
  BY <1>1, <1>2, <1>3 DEF Modes, TableModes
<1> QED
  BY <1>4, ModeHasTable

\* A start tag that is not ignored.
LEMMA InsertStartTagOK ==
  ASSUME NEW c, Sound(c), NEW name \in Strings, NEW attrs \in Strings,
         Classify(name) \in TableSectionKinds => HasTable(c.open.stack),
         Classify(name) = "ColGroup" => c.open.mode # "InColumnGroup"
  PROVE  Sound(InsertStartTag(c, name, attrs)) /\ Returns(InsertStartTag(c, name, attrs), c)
<1>1. TableContentKinds \subseteq TableSectionKinds
  BY DEF TableContentKinds, TableSectionKinds, ModeKinds
<1>2. MayInsert(c, name)
  BY <1>1, OutsideInMode DEF MayInsert, Sound
<1>3. CASE Fosters(c.open, name, attrs) /\ name = "form"
  <2> DEFINE r == InsertHere(c, name, attrs, FALSE)
  <2>1. Sound(r) /\ r.ret = Len(c.nodes) + 1 /\ Returns(r, c)
    BY <1>2, InsertHereOK
  <2>2. r.ret # RootId
    BY <2>1, NewNodeId
  <2>3. InsertStartTag(c, name, attrs) = PopInserted(r)
    BY <1>3 DEF InsertStartTag
  <2> HIDE DEF r
  <2> QED
    BY <2>1, <2>2, <2>3, PopInsertedOK, SameReturns
<1>4. CASE ~ (Fosters(c.open, name, attrs) /\ name = "form")
  <2> DEFINE d == EnterContext(c, Classify(name))
  <2>1. /\ Sound(d) /\ (Classify(name) \in TableSectionKinds => HasTable(d.open.stack))
        /\ Classify(name) = "ColGroup" => OutsideColumns(d.open.stack, Len(d.open.stack))
        /\ Lists(d.nodes, d.created, c) /\ Leaves(d, c)
    BY EnterContextOK
  <2>2. InsertStartTag(c, name, attrs)
          = InsertPrepared(d, name, attrs, Fosters(c.open, name, attrs))
    BY <1>4 DEF InsertStartTag
  <2> HIDE DEF d
  <2>3. MayInsert(d, name)
    BY <1>1, <2>1 DEF MayInsert
  <2>4. /\ Sound(InsertStartTag(c, name, attrs))
        /\ Returns(InsertStartTag(c, name, attrs), d)
    BY <2>1, <2>2, <2>3, InsertPreparedOK
  <2> QED
    BY <2>1, <2>4, TellsThenReturns
<1> QED
  BY <1>3, <1>4

\* A start tag that closes nothing more first.
LEMMA HandleSettledOpenTagOK ==
  ASSUME NEW c, Sound(c), NEW name \in Strings, NEW attrs \in Strings
  PROVE  /\ Sound(HandleSettledOpenTag(c, name, attrs))
         /\ Reports(HandleSettledOpenTag(c, name, attrs), c)
<1>1. CASE ~ StartTagIgnored(c.open, name)
  <2>1. HandleSettledOpenTag(c, name, attrs) = InsertStartTag(c, name, attrs)
    BY <1>1 DEF HandleSettledOpenTag
  <2>2. Classify(name) \in TableSectionKinds => HasTable(c.open.stack)
    BY <1>1, SectionHasTable
  <2>3. Classify(name) = "ColGroup" => c.open.mode # "InColumnGroup"
    BY <1>1 DEF StartTagIgnored
  <2> QED
    BY <2>1, <2>2, <2>3, InsertStartTagOK DEF Reports
<1>2. CASE StartTagIgnored(c.open, name)
  <2>1. Shrinks(CloseLastKind(c.open, "Select"), c.open, OpenEntry)
    BY CloseLastKindShrinks, OpenEntries DEF Sound
  <2> DEFINE r == [c EXCEPT !.open = CloseLastKind(c.open, "Select")]
  <2>2. Sound(r) /\ Reports(r, c) /\ Reports(c, c)
    BY <2>1, SoundOpen, StackTells, TellsReflexive DEF Reports
  <2>3. HandleSettledOpenTag(c, name, attrs) \in {r, c}
    BY <1>2 DEF HandleSettledOpenTag
  <2> HIDE DEF r
  <2> QED
    BY <2>2, <2>3
<1> QED
  BY <1>1, <1>2

\* A start tag, reprocessed on what it closes of the stack.
LEMMA HandleOpenTagOK ==
  ASSUME NEW c, Sound(c), NEW name \in Strings, NEW attrs \in Strings
  PROVE  /\ Sound(HandleOpenTag(c, name, attrs)) /\ Reports(HandleOpenTag(c, name, attrs), c)
         /\ HandleOpenTag(c, name, attrs).after_body = NULL
<1> DEFINE d == EndTextRun(c)
           o == SettleStartTag(d.open, name)
           r == [d EXCEPT !.after_body = NULL, !.open = o]
<1>1. Sound(d) /\ Tells(d, c)
  BY EndTextRunOK DEF KeepsStack
<1>2. HandleOpenTag(c, name, attrs) = HandleSettledOpenTag(r, name, attrs)
  BY DEF HandleOpenTag
<1> HIDE DEF d
<1>3. Shrinks(o, d.open, OpenEntry)
  BY <1>1, SettleStartShrinks DEF Sound
<1> HIDE DEF o
<1>4. d \in Builder /\ o \in StackType(OpenEntry) /\ NULL \in Nat
  BY <1>1, <1>3 DEF Sound, Shrinks, StackOK, NULL
<1>5. /\ r \in Builder /\ r.nodes = d.nodes /\ r.stale = d.stale /\ r.open = o
      /\ r.after_body = NULL /\ r.last_text = d.last_text
      /\ r.flushed = d.flushed /\ r.ret = d.ret /\ r.created = d.created
  BY <1>4 DEF Builder
<1> HIDE DEF r
<1>6. Refers(r)
  BY <1>1, <1>5 DEF Sound, Refers
<1>7. SameTree(r.nodes, d.nodes)
  BY <1>1, <1>5, SoundArena, SameTreeReflexive
<1>8. Sound(r)
  BY <1>1, <1>3, <1>5, <1>6, <1>7, SoundEdit
<1>9. Tells(r, c)
  <2>1. OpenIds(r) \subseteq OpenIds(d)
    BY <1>1, <1>3, <1>5, ShrinksOpen
  <2> QED
    BY <1>1, <1>5, <1>7, <2>1, TellsNothing, TellsTransitive
<1> DEFINE q == HandleSettledOpenTag(r, name, attrs)
<1>10. Sound(q) /\ Reports(q, r)
  BY <1>8, HandleSettledOpenTagOK
<1> HIDE DEF q
<1>11. q.after_body = NULL
  BY <1>5, <1>10 DEF Reports, Tells, Returns, Leaves
<1>12. Reports(q, c)
  BY <1>9, <1>10, TellsThenReports
<1> QED
  BY <1>2, <1>10, <1>11, <1>12 DEF q

-----------------------------------------------------------------------------
(***************************************************************************)
(* End tags.                                                               *)
(***************************************************************************)
\* What a token does, whatever it says of later comments.
Accounts(r, c) ==
  \E q : /\ Reports(q, c)
         /\ r.nodes = q.nodes /\ r.open = q.open /\ r.created = q.created /\ r.ret = q.ret

\* Telling, and then accounting.
LEMMA TellsThenAccounts ==
  ASSUME NEW c, Sound(c), NEW r, Tells(r, c), NEW q, Accounts(q, r)
  PROVE  Accounts(q, c)
<1>1. PICK p : /\ Reports(p, r)
               /\ q.nodes = p.nodes /\ q.open = p.open /\ q.created = p.created /\ q.ret = p.ret
  BY DEF Accounts
<1>2. Reports(p, c)
  BY <1>1, TellsThenReports
<1> QED
  BY <1>1, <1>2 DEF Accounts

\* Any open element takes comments.
LEMMA OpenTakesComments ==
  ASSUME NEW c, Sound(c), NEW i \in 1..Len(c.open.stack), NEW r \in Builder,
         r.nodes = c.nodes, r.open = c.open, r.after_body = c.open.stack[i].id, Refers(r)
  PROVE  Sound(r)
<1>1. PICK h : Grounded(c.nodes, c.open.stack, h)
  BY DEF Sound, TreeOK
<1>2. /\ c.open.stack[i].id \in Ids(c.nodes) /\ h[c.open.stack[i].id] = i - 1
      /\ Len(c.open.stack) \in Nat /\ Len(c.open.stack) <= MaxDepth + 1
  BY <1>1 DEF Grounded, Branch
<1>3. i - 1 <= MaxDepth
  BY <1>2, MaxDepthAssumption
<1>4. TakesComments(r.nodes, h, r.after_body)
  BY <1>2, <1>3 DEF TakesComments
<1> QED
  BY <1>1, <1>4 DEF Sound, TreeOK

\* `</body>` and `</html>` choose an open element for later comments.
LEMMA EndBodyOK ==
  ASSUME NEW c, Sound(c), NEW name
  PROVE  /\ Sound(EndBody(c, name)) /\ Accounts(EndBody(c, name), c)
         /\ BodyOpen(c) => BodyOpen(EndBody(c, name))
<1> DEFINE s == c.open.stack
           hits == {i \in 1..Len(s) : s[i].name = "html"}
           html == FirstOf(hits)
           target == IF name = "html" \/ html = 0 THEN RootId ELSE s[html].id
           r == [c EXCEPT !.after_body = target]
<1>1. Len(s) \in Nat /\ 1 <= Len(s) /\ s[1].id = RootId
  BY SoundStack
<1>2. html \in 0..Len(s)
  BY <1>1, FirstOfPosition
<1>3. EndBody(c, name) \in {c, r}
  BY DEF EndBody
<1> HIDE DEF html
<1>4. \E i \in 1..Len(s) : target = s[i].id
  <2>1. CASE name = "html" \/ html = 0
    BY <1>1, <2>1
  <2>2. CASE ~ (name = "html" \/ html = 0)
    BY <1>1, <1>2, <2>2
  <2> QED
    BY <2>1, <2>2
<1> HIDE DEF target
<1>5. PICK i \in 1..Len(s) : target = s[i].id
  BY <1>4
<1>6. target \in Nat /\ c \in Builder /\ Refers(c)
  BY <1>5, SoundStack DEF Sound, OpenEntry
<1>7. /\ r \in Builder /\ r.nodes = c.nodes /\ r.open = c.open /\ r.after_body = target
      /\ r.stale = c.stale /\ r.last_text = c.last_text /\ r.flushed = c.flushed /\ r.ret = c.ret
      /\ r.created = c.created
  BY <1>6 DEF Builder
<1> HIDE DEF r
<1>8. Refers(r)
  BY <1>6, <1>7 DEF Refers
<1>9. Sound(r)
  BY <1>5, <1>7, <1>8, OpenTakesComments
<1>10. Accounts(r, c) /\ Accounts(c, c)
  BY <1>7, TellsReflexive DEF Accounts, Reports
<1>11. BodyOpen(r)
  BY <1>5, <1>7 DEF BodyOpen, OpenIds
<1> QED
  BY <1>3, <1>9, <1>10, <1>11

\* In a select an end tag closes options, their groups or the select.
LEMMA EndSelectContentShrinks ==
  ASSUME NEW o, StackOK(o, OpenEntry), NEW kind
  PROVE  Shrinks(EndSelectContent(o, kind), o, OpenEntry)
<1>1. Shrinks(o, o, OpenEntry)
  BY UnchangedShrinks, OpenEntries
<1>2. \A k : Shrinks(CloseLastKind(o, k), o, OpenEntry)
  BY CloseLastKindShrinks, OpenEntries
<1> DEFINE p == CloseLastKind(o, "Option")
<1>3. Shrinks(p, o, OpenEntry) /\ StackOK(p, OpenEntry)
  BY <1>2 DEF Shrinks
<1>4. Shrinks(CloseLastKind(p, "OptGroup"), p, OpenEntry)
  BY <1>3, CloseLastKindShrinks, OpenEntries
<1>5. Shrinks(CloseLastKind(p, "OptGroup"), o, OpenEntry)
  BY <1>3, <1>4, ShrinksTransitive
<1>6. CASE kind = "Option"
  BY <1>2, <1>6 DEF EndSelectContent
<1>7. CASE kind = "OptGroup"
  BY <1>5, <1>7 DEF EndSelectContent
<1>8. CASE kind = "Select"
  BY <1>2, <1>8 DEF EndSelectContent
<1>9. CASE kind \notin {"Option", "OptGroup", "Select"}
  BY <1>1, <1>9 DEF EndSelectContent
<1> QED
  BY <1>6, <1>7, <1>8, <1>9

\* Elsewhere it closes the element it names or is of the kind of, if that is in scope.
LEMMA CloseByKindShrinks ==
  ASSUME NEW o, StackOK(o, OpenEntry), NEW name
  PROVE  Shrinks(CloseByKind(o, name), o, OpenEntry)
<1> DEFINE kind == Classify(name)
<1>1. Shrinks(o, o, OpenEntry)
  BY UnchangedShrinks, OpenEntries
<1>2. \A k, scope : Shrinks(CloseInScope(o, k, scope), o, OpenEntry)
  BY CloseInScopeShrinks, OpenEntries
<1>3. \A k : Shrinks(PopIfCurrent(o, k), o, OpenEntry)
  BY PopIfCurrentShrinks, OpenEntries
<1>4. Shrinks(CloseMatching(o, name), o, OpenEntry)
  BY CloseMatchingShrinks, OpenEntries
<1>5. Shrinks(CloseFrom(o, FindNamedInScope(o, name, "Standard")), o, OpenEntry)
  <2>1. FindNamedInScope(o, name, "Standard") \in Nat
    BY FindNamedInScopeRange, OpenEntries
  <2> QED
    BY <2>1, CloseFromShrinks, OpenEntries
<1>6. CloseByKind(o, name) \in
        {CloseInScope(o, kind, "Table"), PopIfCurrent(o, kind), o, CloseInScope(o, kind, "Button"),
         CloseInScope(o, kind, "ListItem"), CloseFrom(o, FindNamedInScope(o, name, "Standard")),
         CloseInScope(o, kind, "Standard"), CloseMatching(o, name)}
  BY DEF CloseByKind
<1> QED
  BY <1>1, <1>2, <1>3, <1>4, <1>5, <1>6

\* `</p>` without an open paragraph inserts one, closed at once.
LEMMA InsertEmptyParagraphOK ==
  ASSUME NEW c, Sound(c)
  PROVE  Sound(InsertEmptyParagraph(c)) /\ Returns(InsertEmptyParagraph(c), c)
<1> DEFINE r == InsertHere(c, "p", "none", TRUE)
<1>1. "p" \in Strings /\ "none" \in Strings
  BY DEF Strings
<1>2. MayInsert(c, "p")
  BY DEF MayInsert, Classify, TableContentKinds, ModeKinds, HeadingNames, FormattingNames
<1>3. Sound(r) /\ r.ret = Len(c.nodes) + 1 /\ Returns(r, c)
  BY <1>1, <1>2, InsertHereOK
<1>4. InsertEmptyParagraph(c) = PopInserted(r)
  BY DEF InsertEmptyParagraph
<1> HIDE DEF r
<1>5. r.ret # RootId
  BY <1>3, NewNodeId
<1> QED
  BY <1>3, <1>4, <1>5, PopInsertedOK, SameReturns

\* An end tag that closes nothing more first.
LEMMA HandleSettledCloseTagOK ==
  ASSUME NEW c, Sound(c), NEW name
  PROVE  /\ Sound(HandleSettledCloseTag(c, name)) /\ Accounts(HandleSettledCloseTag(c, name), c)
         /\ c.after_body = NULL \/ (BodyOpen(c) /\ name \in {"body", "html"} /\ InBody(c.open))
            => BodyOpen(HandleSettledCloseTag(c, name))
<1> DEFINE kind == Classify(name)
           isBody == name \in {"body", "html"} /\ InBody(c.open)
           popped == [c EXCEPT !.open = PopOpenElement(c.open)]
           ended == [c EXCEPT !.open = EndSelectContent(c.open, kind)]
           closed == [c EXCEPT !.open = CloseByKind(c.open, name)]
<1>1. StackOK(c.open, OpenEntry)
  BY DEF Sound
<1> DEFINE good(r) == Sound(r) /\ Reports(r, c)
<1>2. good(ended) /\ good(c)
  BY <1>1, EndSelectContentShrinks, SoundOpen, StackTells, TellsReflexive DEF Reports
<1>3. good(closed)
  BY <1>1, CloseByKindShrinks, SoundOpen, StackTells DEF Reports
<1>4. EndTagMatchesCurrent(c.open, name) => good(popped)
  BY <1>1, PopShrinks, OpenEntries, SoundOpen, StackTells DEF EndTagMatchesCurrent, Reports
<1>5. kind = "Formatting" => good(AdoptionClose(c, name))
  BY AdoptionCloseOK DEF Reports
<1>6. good(InsertEmptyParagraph(c))
  BY InsertEmptyParagraphOK DEF Reports
<1>7. HandleSettledCloseTag(c, name) =
        IF isBody THEN EndBody(c, name)
        ELSE IF IsVoid(name) THEN c
        ELSE IF EndTagMatchesCurrent(c.open, name) THEN popped
        ELSE IF c.open.mode = "InSelect" THEN ended
        ELSE IF c.open.mode = "InColumnGroup" /\ kind \notin {"ColGroup", "Column"} THEN c
        ELSE IF kind = "Formatting" THEN AdoptionClose(c, name)
        ELSE IF kind = "Paragraph" /\ FindInScope(c.open, kind, "Button") = 0
        THEN InsertEmptyParagraph(c)
        ELSE closed
  BY DEF HandleSettledCloseTag
<1> DEFINE r == HandleSettledCloseTag(c, name)
<1> HIDE DEF popped, ended, closed, kind, good
<1>8. CASE isBody
  <2>1. r = EndBody(c, name)
    BY <1>7, <1>8
  <2>2. c.after_body = NULL => BodyOpen(c)
    BY DEF BodyOpen
  <2> HIDE DEF r
  <2> QED
    BY <2>1, <2>2, EndBodyOK DEF r
<1>9. CASE ~ isBody
  <2>1. good(r)
    <3> HIDE DEF isBody
    <3> QED
      BY <1>2, <1>3, <1>4, <1>5, <1>6, <1>7, <1>9
  <2> HIDE DEF r
  <2>2. Sound(r) /\ Reports(r, c)
    BY <2>1 DEF good
  <2>3. Accounts(r, c)
    BY <2>2 DEF Accounts
  <2>4. c.after_body = NULL => BodyOpen(r)
    BY <2>2 DEF Reports, Tells, Returns, Leaves, BodyOpen
  <2> QED
    BY <1>9, <2>2, <2>3, <2>4 DEF r
<1> QED
  BY <1>8, <1>9

\* In the body, an end tag closes nothing before it is processed.
LEMMA EndBodySettled ==
  ASSUME NEW o, InBody(o), Len(o.stack) \in Nat, NEW name
  PROVE  SettleEndTag(o, name) = o
<1> DEFINE turns == [i \in 1..Len(o.stack) |-> name]
<1>1. o.mode # "InSelect" /\ o.mode # "InColumnGroup"
  BY DEF InBody
<1>2. EndTagTurn(o, name) = o
  <2>1. EndTagCloses(o, name) = "None"
    BY <1>1 DEF EndTagCloses
  <2> QED
    BY <2>1 DEF EndTagTurn, ClosedForReprocess
<1>3. SettleEndTag(o, name) = EndTurns!Folded(o, turns)
  BY DEF SettleEndTag, FoldLeft, EndTurns!Folded, EndTurns!Greatest, MapThenFoldSet, Max
<1>4. turns \in Seq({name})
  BY Repeated
<1> DEFINE same == {o}
<1>5. o \in same /\ \A s \in same, x \in {name} : EndTagTurn(s, x) \in same
  BY <1>2
<1> HIDE DEF turns, same
<1>6. EndTurns!Folded(o, turns) \in same
  BY <1>4, <1>5, EndTurnsLeast, EndTurns!FoldInvariant
<1> QED
  BY <1>3, <1>6 DEF same

\* An end tag, reprocessed on what it closes of the stack; `</br>` is a start tag.
LEMMA HandleCloseTagOK ==
  ASSUME NEW c, Sound(c), NEW name
  PROVE  /\ Sound(HandleCloseTag(c, name)) /\ Accounts(HandleCloseTag(c, name), c)
         /\ BodyOpen(c) => BodyOpen(HandleCloseTag(c, name))
<1> DEFINE d == EndTextRun(c)
           o == SettleEndTag(d.open, name)
           after == IF name \in {"body", "html"} /\ InBody(c.open) THEN d.after_body ELSE NULL
           r == [d EXCEPT !.after_body = after, !.open = o]
<1>1. CASE name = "br"
  <2>1. "br" \in Strings /\ "none" \in Strings
    BY DEF Strings
  <2> DEFINE r0 == HandleOpenTag(c, "br", "none")
  <2>2. Sound(r0) /\ Reports(r0, c) /\ r0.after_body = NULL
    BY <2>1, HandleOpenTagOK
  <2>3. HandleCloseTag(c, name) = r0
    BY <1>1 DEF HandleCloseTag
  <2> HIDE DEF r0
  <2>4. Accounts(r0, c) /\ BodyOpen(r0)
    BY <2>2 DEF Accounts, BodyOpen
  <2> QED
    BY <2>2, <2>3, <2>4
<1>2. CASE name # "br"
  <2>1. Sound(d) /\ Tells(d, c) /\ d.open = c.open /\ d.after_body = c.after_body
    BY EndTextRunOK DEF KeepsStack
  <2>2. HandleCloseTag(c, name) = HandleSettledCloseTag(r, name)
    BY <1>2 DEF HandleCloseTag
  <2>3. after \in {d.after_body, NULL}
    OBVIOUS
  <2>14. \/ after = NULL
         \/ after = d.after_body /\ name \in {"body", "html"} /\ InBody(c.open)
    OBVIOUS
  <2> HIDE DEF d, after
  <2>4. Shrinks(o, d.open, OpenEntry)
    BY <2>1, SettleEndShrinks DEF Sound
  <2> HIDE DEF o
  <2>5. d \in Builder /\ o \in StackType(OpenEntry) /\ NULL \in Nat
    BY <2>1, <2>4 DEF Sound, Shrinks, StackOK, NULL
  <2>6. after \in Nat
    BY <2>3, <2>5, BuilderFields
  <2>7. /\ r \in Builder /\ r.nodes = d.nodes /\ r.stale = d.stale /\ r.open = o
        /\ r.after_body = after /\ r.last_text = d.last_text
        /\ r.flushed = d.flushed /\ r.ret = d.ret /\ r.created = d.created
    BY <2>5, <2>6 DEF Builder
  <2> HIDE DEF r
  <2>8. Refers(r)
    BY <2>1, <2>7 DEF Sound, Refers
  <2>9. SameTree(r.nodes, d.nodes)
    BY <2>1, <2>7, SoundArena, SameTreeReflexive
  <2>10. Sound(r)
    BY <2>1, <2>3, <2>4, <2>7, <2>8, <2>9, SoundEdit
  <2>11. Tells(r, c)
    <3>1. OpenIds(r) \subseteq OpenIds(d)
      BY <2>1, <2>4, <2>7, ShrinksOpen
    <3> QED
      BY <2>1, <2>3, <2>7, <2>9, <3>1, TellsNothing, TellsTransitive
  <2>12. /\ Sound(HandleSettledCloseTag(r, name)) /\ Accounts(HandleSettledCloseTag(r, name), c)
    BY <2>10, <2>11, HandleSettledCloseTagOK, TellsThenAccounts
  <2>13. ASSUME BodyOpen(c) PROVE BodyOpen(HandleSettledCloseTag(r, name))
    <3>1. CASE after = NULL
      BY <2>7, <2>10, <3>1, HandleSettledCloseTagOK
    <3>2. CASE after = d.after_body /\ name \in {"body", "html"} /\ InBody(c.open)
      <4>1. o = d.open
        BY <2>1, <3>2, EndBodySettled DEF o
      <4>2. r.open = c.open /\ r.after_body = c.after_body
        BY <2>1, <2>7, <3>2, <4>1
      <4>3. BodyOpen(r) /\ InBody(r.open)
        BY <2>13, <3>2, <4>2 DEF BodyOpen, OpenIds
      <4> QED
        BY <2>10, <3>2, <4>3, HandleSettledCloseTagOK
    <3> QED
      BY <2>14, <3>1, <3>2
  <2> QED
    BY <2>2, <2>12, <2>13
<1> QED
  BY <1>1, <1>2

\* What only formatting names have.
LEMMA FormattingName ==
  ASSUME NEW name \in FormattingNames
  PROVE  /\ Classify(name) = "Formatting" /\ ~ IsVoid(name)
         /\ name # "br" /\ name \notin {"body", "html"}
<1>1. name \in {"a", "b", "em", "i", "strong", "big", "code", "font", "nobr", "s",
               "small", "strike", "tt", "u"}
  BY DEF FormattingNames
<1> QED
  BY <1>1 DEF Classify, IsVoid, HeadingNames, FormattingNames

\* Popping the element of a name that is current closes the one that a search finds.
LEMMA PopCloses ==
  ASSUME NEW o, StackOK(o, OpenEntry), NEW name,
         NEW f, f = FindNamedInScope(o, name, "Standard"), f # 0, EndTagMatchesCurrent(o, name)
  PROVE  OpenNamed(PopOpenElement(o), name) = NamedBelow(o.stack, f, name)
<1> DEFINE s == o.stack
           n == Len(s)
           rest == SubSeq(s, 1, n - 1)
<1>1. n \in Nat /\ f \in 2..n /\ \A j \in f + 1 .. n : s[j].name # name
  BY FoundElement
<1>2. f = n
  <2>1. s[n].name = name
    BY DEF EndTagMatchesCurrent, Top
  <2>2. f < n => n \in f + 1 .. n
    BY <1>1
  <2> QED
    BY <1>1, <2>1, <2>2
<1>3. Len(rest) = n - 1 /\ \A i \in 1..n - 1 : rest[i] = s[i]
  BY <1>1 DEF StackOK, StackType
<1>4. PopOpenElement(o).stack = rest
  BY DEF PopOpenElement
<1> HIDE DEF rest
<1> QED
  BY <1>2, <1>3, <1>4 DEF OpenNamed, NamedBelow

\* A formatting end tag in the body closes the element of its name that it finds, and reopens
\* none of that name.
LEMMA CloseTagCloses ==
  ASSUME NEW c, Sound(c), NEW name \in FormattingNames, InBody(c.open),
         NEW f, f = FindNamedInScope(c.open, name, "Standard"), f # 0,
         Cardinality(SpecialsAbove(c.open.stack, f)) < OuterLoops
  PROVE  OpenNamed(HandleCloseTag(c, name).open, name) = NamedBelow(c.open.stack, f, name)
<1> DEFINE d == EndTextRun(c)
           o == SettleEndTag(d.open, name)
           r == [d EXCEPT !.after_body = NULL, !.open = o]
<1>1. /\ Classify(name) = "Formatting" /\ ~ IsVoid(name)
      /\ name # "br" /\ name \notin {"body", "html"}
  BY FormattingName
<1>2. Sound(d) /\ d.open = c.open
  BY EndTextRunOK DEF KeepsStack
<1>3. HandleCloseTag(c, name) = HandleSettledCloseTag(r, name)
  BY <1>1 DEF HandleCloseTag
<1> HIDE DEF d
<1>4. o = c.open
  <2>1. Len(c.open.stack) \in Nat
    BY SoundStack
  <2> QED
    BY <1>2, <2>1, EndBodySettled
<1>5. Sound(r) /\ r.open = c.open
  <2>1. d \in Builder /\ c.open \in StackType(OpenEntry) /\ NULL \in Nat
    BY <1>2 DEF Sound, StackOK, NULL
  <2>2. /\ r \in Builder /\ r.nodes = d.nodes /\ r.stale = d.stale /\ r.open = c.open
        /\ r.after_body = NULL /\ r.last_text = d.last_text
        /\ r.flushed = d.flushed /\ r.ret = d.ret
    BY <1>4, <2>1 DEF Builder
  <2> HIDE DEF r
  <2>3. Refers(r)
    BY <1>2, <2>2 DEF Sound, Refers
  <2>4. SameTree(r.nodes, d.nodes)
    BY <1>2, <2>2, SoundArena, SameTreeReflexive
  <2>5. Shrinks(r.open, d.open, OpenEntry)
    BY <1>2, <2>2, OpenEntries, UnchangedShrinks DEF Sound
  <2> QED
    BY <1>2, <2>2, <2>3, <2>4, <2>5, SoundEdit
<1> HIDE DEF r
<1>6. HandleSettledCloseTag(r, name)
        = IF EndTagMatchesCurrent(r.open, name) THEN [r EXCEPT !.open = PopOpenElement(@)]
          ELSE AdoptionClose(r, name)
  BY <1>1, <1>5 DEF HandleSettledCloseTag, InBody
<1>7. CASE EndTagMatchesCurrent(r.open, name)
  <2>1. HandleSettledCloseTag(r, name).open = PopOpenElement(c.open)
    BY <1>5, <1>6, <1>7 DEF Sound, Builder
  <2> QED
    BY <1>3, <1>5, <1>7, <2>1, PopCloses DEF Sound
<1>8. CASE ~ EndTagMatchesCurrent(r.open, name)
  BY <1>1, <1>3, <1>5, <1>6, <1>8, AgencyCloses
<1> QED
  BY <1>7, <1>8

-----------------------------------------------------------------------------
(***************************************************************************)
(* The machine: every token, and the end of the document.                  *)
(***************************************************************************)
\* What a token reports is forgotten before the next one.
LEMMA FreshOK ==
  ASSUME NEW c, Sound(c), NEW r, r = [c EXCEPT !.flushed = NULL, !.created = <<>>, !.ret = NULL]
  PROVE  /\ Sound(r) /\ r.nodes = c.nodes /\ r.created = <<>> /\ r.ret = NULL
         /\ r.open = c.open /\ r.after_body = c.after_body
<1>1. c \in Builder /\ NULL \in Nat /\ <<>> \in Seq(Nat)
  BY DEF Sound, NULL
<1>2. /\ r \in Builder /\ r.nodes = c.nodes /\ r.stale = c.stale /\ r.open = c.open
      /\ r.after_body = c.after_body /\ r.last_text = c.last_text
      /\ r.flushed = NULL /\ r.ret = NULL /\ r.created = <<>>
  BY <1>1 DEF Builder
<1> QED
  BY <1>2, SoundFlags

\* A sequence of elements of a set is one of any larger set.
LEMMA SequenceIn ==
  ASSUME NEW A, NEW B, A \subseteq B, NEW seq \in Seq(A)
  PROVE  seq \in Seq(B)
OBVIOUS

\* No token breaks the tree or the stack, and all it creates is reported.
LEMMA ProcessOK ==
  ASSUME NEW c, Sound(c), BodyOpen(c), NEW token \in Tokens
  PROVE  /\ Sound(Process(c, token)) /\ BodyOpen(Process(c, token))
         /\ Accounts(Process(c, token), [c EXCEPT !.flushed = NULL, !.created = <<>>, !.ret = NULL])
<1> DEFINE fresh == [c EXCEPT !.flushed = NULL, !.created = <<>>, !.ret = NULL]
           r == Process(c, token)
<1> SUFFICES Sound(r) /\ BodyOpen(r) /\ Accounts(r, fresh)
  OBVIOUS
<1>9. Sound(fresh) /\ fresh.open = c.open /\ fresh.after_body = c.after_body
  BY FreshOK
<1>2. r = CASE token.type = "start" -> HandleOpenTag(fresh, token.name, token.attrs)
            [] token.type = "end" -> HandleCloseTag(fresh, token.name)
            [] token.type = "text" -> HandleText(fresh, token.content)
            [] token.type = "comment" -> HandleComment(fresh)
            [] token.type = "doctype" -> HandleDoctype(fresh)
  BY DEF Process
<1> HIDE DEF fresh, r
<1>1. Sound(fresh) /\ BodyOpen(fresh)
  BY <1>9 DEF BodyOpen, OpenIds
<1>8. Reports(r, fresh) => Accounts(r, fresh)
  BY DEF Accounts
<1>3. CASE token \in [type : {"start"}, name : STRING, attrs : STRING]
  <2>1. token.type = "start" /\ token.name \in Strings /\ token.attrs \in Strings
    BY <1>3 DEF Strings
  <2>2. r = HandleOpenTag(fresh, token.name, token.attrs)
    BY <1>2, <2>1
  <2>3. Sound(r) /\ Reports(r, fresh) /\ r.after_body = NULL
    BY <1>1, <2>1, <2>2, HandleOpenTagOK
  <2> QED
    BY <1>8, <2>3 DEF BodyOpen
<1>4. CASE token \in [type : {"end"}, name : STRING]
  <2>1. token.type = "end"
    BY <1>4
  <2>2. r = HandleCloseTag(fresh, token.name)
    BY <1>2, <2>1
  <2> QED
    BY <1>1, <2>2, HandleCloseTagOK
<1>5. CASE token \in [type : {"text"}, content : Seq(STRING)]
  <2>1. token.type = "text" /\ token.content \in Seq(STRING)
    BY <1>5
  <2>2. token.content \in Seq(Strings)
    <3>1. STRING \subseteq Strings
      BY DEF Strings
    <3> QED
      BY <2>1, <3>1, SequenceIn
  <2>3. r = HandleText(fresh, token.content)
    BY <1>2, <2>1
  <2> QED
    BY <1>1, <1>8, <2>2, <2>3, HandleTextOK DEF Reports
<1>6. CASE token = CommentToken
  <2>1. token.type = "comment"
    BY <1>6 DEF CommentToken
  <2>2. r = HandleComment(fresh)
    BY <1>2, <2>1
  <2> QED
    BY <1>1, <1>8, <2>2, HandleCommentOK DEF Reports
<1>7. CASE token = DoctypeToken
  <2>1. token.type = "doctype"
    BY <1>7 DEF DoctypeToken
  <2>2. r = HandleDoctype(fresh)
    BY <1>2, <2>1
  <2>3. KeepsStack(r, fresh)
    BY <1>1, <2>2, HandleDoctypeOK
  <2> QED
    BY <1>1, <1>8, <2>3 DEF KeepsStack, Reports, BodyOpen, OpenIds
<1> QED
  BY <1>3, <1>4, <1>5, <1>6, <1>7 DEF Tokens

\* The arena of a builder that was fed nothing.
LEMMA EmptyArena ==
  ASSUME NEW ns, ns = <<BlankNode("element", RootName, "none", <<>>, 0)>>
  PROVE  Arena(ns) /\ Len(ns) = 1 /\ ns[1].type = "element" /\ ns[1].parent = NULL
<1> DEFINE m == BlankNode("element", RootName, "none", <<>>, 0)
<1>1. RootName \in Strings /\ "none" \in Strings /\ <<>> \in Seq(Strings)
  BY DEF Strings, RootName
<1>2. /\ m \in Node /\ m.type = "element" /\ m.parent = NULL /\ m.prev = NULL /\ m.next = NULL
      /\ m.first = NULL /\ m.last = NULL /\ m.text = <<>>
  BY <1>1 DEF BlankNode, Node, NodeTypes, NULL
<1> HIDE DEF m
<1>3. ns = <<m>>
  BY DEF m
<1>4. ns \in Seq(Node) /\ Len(ns) = 1 /\ ns[1] = m /\ Ids(ns) = {1}
  BY <1>2, <1>3 DEF Ids
<1>5. Linked(ns, Ids(ns))
  BY <1>2, <1>4 DEF Linked, NextAgrees, PrevAgrees, FirstAgrees, LastAgrees, ParentAgrees
<1>7. Ordered(ns, Ids(ns))
  <2> DEFINE k == [n \in Ids(ns) |-> 0]
  <2>1. Ranked(ns, Ids(ns), k)
    BY <1>2, <1>4 DEF Ranked
  <2> QED
    BY <2>1 DEF Ordered
<1>6. OnlyTextHasText(ns)
  BY <1>2, <1>4 DEF OnlyTextHasText
<1> QED
  BY <1>2, <1>4, <1>5, <1>6, <1>7 DEF Arena

\* The root alone is a tree, and a branch of it.
LEMMA EmptyTreeOK ==
  ASSUME NEW ns, Arena(ns), Len(ns) = 1, ns[1].type = "element", ns[1].parent = NULL,
         NEW s, s = <<RootEntry>>
  PROVE  TreeOK(ns, s, NULL)
<1> DEFINE h == [n \in Ids(ns) |-> 0]
<1>1. Ids(ns) = {1} /\ RootId = 1
  BY DEF Ids, RootId
<1>2. Hung(ns, h)
  BY <1>1, MaxDepthAssumption DEF Hung
<1>3. Len(s) = 1 /\ s[1].id = RootId /\ s[1].kind = "Root"
  BY DEF RootEntry
<1>4. \A i \in 1..Len(s) : s[i].id \in Ids(ns) /\ ns[s[i].id].type = "element" /\ h[s[i].id] = i - 1
  BY <1>1, <1>3
<1>5. \A i \in 2..Len(s) : OpenParentAt(ns, s, i)
  BY <1>3
<1>6. \A i \in 1..Len(s) : InTableAt(s, i)
  BY <1>3 DEF InTableAt, TableContentKinds, ModeKinds
<1> HIDE DEF h
<1>7. Branch(ns, s, h)
  BY <1>3, <1>4, <1>5, <1>6, MaxDepthAssumption DEF Branch
<1> QED
  BY <1>2, <1>7 DEF TreeOK, Grounded, TakesComments

\* The stack of a builder that was fed nothing.
LEMMA EmptyStackOK ==
  ASSUME NEW o, o = EmptyBuilder.open
  PROVE  StackOK(o, OpenEntry) /\ o.stack = <<RootEntry>>
<1> DEFINE s == <<RootEntry>>
           counts == [kind \in Kinds |-> IF kind = "Root" THEN 1 ELSE 0]
<1>1. RootEntry \in OpenEntry /\ RootEntry.kind = "Root" /\ RootEntry.name = RootName
      /\ RootEntry.mode = "InBody"
  BY DEF RootEntry, OpenEntry, RootId, RootName, Strings, Kinds, Modes
<1>2. o.stack = s /\ o.counts = counts /\ o.mode = "InBody" /\ o \in StackType(OpenEntry)
  BY <1>1 DEF EmptyBuilder, StackType, Modes
<1>3. s \in Seq(OpenEntry) /\ Len(s) = 1 /\ s[1] = RootEntry
  BY <1>1
<1> HIDE DEF s
<1>4. Rooted(s)
  BY <1>1, <1>3 DEF Rooted
<1>5. IsModeAt(s, 1, "InBody")
  BY <1>1, <1>3 DEF IsModeAt, ModeKinds
<1>6. \A kind \in Kinds : counts[kind] = Cardinality(EntriesOfKind(s, kind))
  <2> SUFFICES ASSUME NEW kind \in Kinds PROVE counts[kind] = Cardinality(EntriesOfKind(s, kind))
    OBVIOUS
  <2>1. CASE kind = "Root"
    <3>1. EntriesOfKind(s, kind) = {1}
      BY <1>1, <1>3, <2>1 DEF EntriesOfKind
    <3> QED
      BY <2>1, <3>1, FS_Singleton
  <2>2. CASE kind # "Root"
    <3>1. EntriesOfKind(s, kind) = {}
      BY <1>1, <1>3, <2>2 DEF EntriesOfKind
    <3> QED
      BY <2>2, <3>1, FS_EmptySet
  <2> QED
    BY <2>1, <2>2
<1> HIDE DEF counts
<1>7. CachesAgree(o)
  BY <1>1, <1>2, <1>3, <1>5, <1>6 DEF CachesAgree, Top
<1> QED
  BY <1>2, <1>4, <1>7 DEF StackOK, s

\* A builder that was fed nothing.
LEMMA EmptyBuilderOK == EmptyBuilder \in Builder /\ Sound(EmptyBuilder) /\ BodyOpen(EmptyBuilder)
<1> DEFINE c == EmptyBuilder
           ns == <<BlankNode("element", RootName, "none", <<>>, 0)>>
<1>1. /\ c.nodes = ns /\ c.stale = NotStale
      /\ c.newline_skip = "None" /\ c.after_body = NULL /\ c.last_text = NULL /\ c.pending = <<>>
      /\ c.foster_run = FALSE /\ c.created = <<>> /\ c.flushed = NULL /\ c.ret = NULL
  BY DEF EmptyBuilder
<1>2. c = [nodes |-> c.nodes, stale |-> c.stale, open |-> c.open, newline_skip |-> c.newline_skip,
           after_body |-> c.after_body, last_text |-> c.last_text, pending |-> c.pending,
           foster_run |-> c.foster_run, created |-> c.created, flushed |-> c.flushed, ret |-> c.ret]
  BY DEF EmptyBuilder
<1>3. StackOK(c.open, OpenEntry) /\ c.open.stack = <<RootEntry>>
  BY EmptyStackOK
<1> HIDE DEF c
<1>4. Arena(ns) /\ Len(ns) = 1 /\ ns[1].type = "element" /\ ns[1].parent = NULL
  BY EmptyArena
<1> HIDE DEF ns
<1>5. TreeOK(c.nodes, c.open.stack, c.after_body)
  BY <1>1, <1>3, <1>4, EmptyTreeOK
<1>6. c \in Builder
  <2>1. c.nodes \in Seq(Node) /\ c.open \in StackType(OpenEntry)
    BY <1>1, <1>3, <1>4 DEF Arena, StackOK
  <2>2. NotStale \in [before : Nat, exact : SUBSET Nat] /\ NULL \in Nat
    BY DEF NotStale, NULL
  <2>3. <<>> \in Seq(Strings) /\ <<>> \in Seq(Nat) /\ FALSE \in BOOLEAN
        /\ "None" \in {"None", "Newline", "LineFeedAfterCr"}
    OBVIOUS
  <2>4. /\ c.stale \in [before : Nat, exact : SUBSET Nat]
        /\ c.newline_skip \in {"None", "Newline", "LineFeedAfterCr"}
        /\ c.after_body \in Nat /\ c.last_text \in Nat /\ c.pending \in Seq(Strings)
        /\ c.foster_run \in BOOLEAN /\ c.created \in Seq(Nat) /\ c.flushed \in Nat /\ c.ret \in Nat
    BY <1>1, <2>2, <2>3
  <2> QED
    BY <1>2, <2>1, <2>4 DEF Builder
<1>7. Refers(c)
  BY <1>1, <1>4 DEF Refers, NotStale, NULL, Ids
<1> QED
  BY <1>1, <1>3, <1>5, <1>6, <1>7 DEF Sound, BodyOpen, c

Feeding == INSTANCE SequenceFold WITH Op <- Process

\* The fact that module SequenceFold asks for.
LEMMA FeedingLeast == Feeding!LeastExists
  BY LeastElement DEF Feeding!LeastExists

SoundBuilders == {c \in Builder : Sound(c) /\ BodyOpen(c)}

\* The builder after the opening of a document.
LEMMA OpeningOK ==
  ASSUME NEW opening \in Seq(Tokens)
  PROVE  /\ Sound(FoldLeft(Process, EmptyBuilder, opening))
         /\ BodyOpen(FoldLeft(Process, EmptyBuilder, opening))
<1>1. \A c \in SoundBuilders : \A token \in Tokens : Process(c, token) \in SoundBuilders
  BY ProcessOK DEF SoundBuilders, Sound
<1>2. EmptyBuilder \in SoundBuilders
  BY EmptyBuilderOK DEF SoundBuilders
<1>3. FoldLeft(Process, EmptyBuilder, opening) = Feeding!Folded(EmptyBuilder, opening)
  BY DEF Feeding!Folded, Feeding!Greatest, FoldLeft, MapThenFoldSet, Max
<1> HIDE DEF SoundBuilders
<1>4. Feeding!Folded(EmptyBuilder, opening) \in SoundBuilders
  BY <1>1, <1>2, FeedingLeast, Feeding!FoldInvariant
<1> QED
  BY <1>3, <1>4 DEF SoundBuilders

\* finish() makes the depths exact and changes no link.
LEMMA FinishOK ==
  ASSUME NEW c, Sound(c)
  PROVE  /\ Sound(FinishBuilder(c)) /\ Leaves(FinishBuilder(c), c)
         /\ BodyOpen(c) => BodyOpen(FinishBuilder(c))
<1> DEFINE d == FlushPendingTableText(c)
           ns == RefreshDepths(d.nodes, RootId, c.stale)
           r == [d EXCEPT !.nodes = ns, !.stale = NotStale]
<1>1. Sound(d) /\ d.open = c.open /\ d.after_body = c.after_body /\ Leaves(d, c)
  BY FlushOK DEF KeepsStack, Tells
<1>2. FinishBuilder(c) = r
  BY DEF FinishBuilder
<1> HIDE DEF d
<1>3. PICK h : Grounded(d.nodes, d.open.stack, h)
  BY <1>1 DEF Sound, TreeOK
<1>4. SameTree(ns, d.nodes)
  BY <1>3, RefreshSame DEF Grounded
<1> HIDE DEF ns
<1>5. d \in Builder /\ ns \in Seq(Node) /\ NotStale \in [before : Nat, exact : SUBSET Nat]
  BY <1>1, <1>4 DEF Sound, SameTree, Arena, NotStale
<1>6. /\ r \in Builder /\ r.nodes = ns /\ r.stale = NotStale /\ r.open = d.open
      /\ r.after_body = d.after_body /\ r.last_text = d.last_text
      /\ r.flushed = d.flushed /\ r.ret = d.ret
  BY <1>5 DEF Builder
<1> HIDE DEF r
<1>7. Refers(r)
  <2>1. Refers(d) /\ Ids(ns) = Ids(d.nodes) /\ Len(ns) \in Nat
    BY <1>1, <1>4, <1>5 DEF Sound, SameTree, Ids
  <2>2. \A n \in Ids(d.nodes) : ns[n].type = d.nodes[n].type
    BY <1>4 DEF SameTree
  <2> QED
    BY <1>6, <2>1, <2>2 DEF Refers, NotStale
<1>8. Shrinks(r.open, d.open, OpenEntry)
  BY <1>1, <1>6, UnchangedShrinks, OpenEntries DEF Sound
<1>9. Sound(r)
  BY <1>1, <1>4, <1>6, <1>7, <1>8, SoundEdit
<1>10. Leaves(r, c)
  <2>1. OpenIds(r) \subseteq OpenIds(d)
    BY <1>6 DEF OpenIds
  <2>2. Leaves(r, d)
    BY <1>4, <1>6, <2>1, SameTreeLeaves
  <2> QED
    BY <1>1, <2>2, LeavesTransitive
<1>11. BodyOpen(c) => BodyOpen(r)
  BY <1>1, <1>6 DEF BodyOpen, OpenIds
<1> QED
  BY <1>2, <1>9, <1>10, <1>11

-----------------------------------------------------------------------------
\* The inductive invariant: the builder is sound, at every token, and what comes
\* after the body goes to an element that is open.
IInv ==
  /\ Sound(b)
  /\ BodyOpen(b)
  /\ scenario \in DOMAIN Alphabets
  /\ raw = "" \/ OpensRawText(raw)
  /\ fed \in 0..MaxTokens
  /\ finished \in BOOLEAN

\* The opening of a document makes a sound builder.
LEMMA InitSound == Init => IInv
<1> SUFFICES ASSUME Init PROVE IInv
  OBVIOUS
<1>1. scenario \in DOMAIN Alphabets
  BY DEF Init
<1>2. PICK opening \in Alphabets[scenario].openings : b = FoldLeft(Process, EmptyBuilder, opening)
  BY DEF Init
<1>3. opening \in Seq(Tokens) /\ Alphabets[scenario].length \in Nat
  BY <1>1, AlphabetsAssumption
<1>4. Sound(b) /\ BodyOpen(b)
  BY <1>2, <1>3, OpeningOK
<1>5. fed = 0 /\ 0 \in 0..Alphabets[scenario].length
  <2>1. fed = 0
    BY DEF Init
  <2>2. \A n \in Nat : 0 \in 0..n
    OBVIOUS
  <2> QED
    BY <1>3, <2>1, <2>2
<1>6. raw = "" /\ finished = FALSE
  BY DEF Init
<1> QED
  BY <1>1, <1>4, <1>5, <1>6 DEF IInv, MaxTokens

\* A count below a bound may go up by one.
LEMMA CountUp ==
  ASSUME NEW n \in Nat, NEW i \in 0..n, i < n PROVE i + 1 \in 0..n
OBVIOUS

\* What is fed are tokens.
LEMMA FeedSound ==
  ASSUME IInv, NEW token \in Tokens, Feed(token), raw' = "" \/ OpensRawText(raw')
  PROVE  IInv'
<1>1. Sound(b') /\ BodyOpen(b')
  BY ProcessOK DEF IInv, Feed
<1>2. scenario' = scenario /\ finished' = finished /\ fed' = fed + 1 /\ fed < MaxTokens
  BY DEF Feed
<1>3. scenario \in DOMAIN Alphabets /\ fed \in 0..MaxTokens /\ finished \in BOOLEAN
  BY DEF IInv
<1>4. MaxTokens \in Nat
  BY <1>3, AlphabetsAssumption DEF MaxTokens
<1>5. MaxTokens' = MaxTokens
  BY <1>2 DEF MaxTokens
<1> HIDE DEF MaxTokens
<1>6. fed' \in 0..MaxTokens'
  <2>1. fed + 1 \in 0..MaxTokens
    BY <1>2, <1>3, <1>4, CountUp, Zenon
  <2> QED
    BY <1>2, <1>5, <2>1, Zenon
<1> QED
  BY <1>1, <1>2, <1>3, <1>6 DEF IInv, BodyOpen, OpenIds

\* No step breaks the invariant.
LEMMA NextSound == IInv /\ [Next]_vars => IInv'
<1> SUFFICES ASSUME IInv, [Next]_vars PROVE IInv'
  OBVIOUS
<1>0. scenario \in DOMAIN Alphabets
  BY DEF IInv
<1>1. CASE FeedStartTag
  <2>1. PICK tag \in StartTags :
          /\ Feed(StartTag(tag.name, tag.attrs))
          /\ raw' = IF OpensRawText(tag.name) THEN tag.name ELSE ""
    BY <1>1 DEF FeedStartTag
  <2>2. StartTag(tag.name, tag.attrs) \in Tokens
    BY <1>0, <2>1, AlphabetsAssumption DEF StartTags
  <2>3. raw' = "" \/ OpensRawText(raw')
    BY <2>1
  <2> QED
    BY <2>1, <2>2, <2>3, FeedSound
<1>2. CASE FeedEndTag
  <2>1. PICK name \in EndTags : Feed(EndTag(name)) /\ raw' = ""
    BY <1>2 DEF FeedEndTag
  <2>2. EndTag(name) \in Tokens
    BY <1>0, <2>1, AlphabetsAssumption DEF EndTags
  <2> QED
    BY <2>1, <2>2, FeedSound
<1>3. CASE FeedText
  <2>1. PICK content \in Texts : Feed(Text(content)) /\ raw' = raw
    BY <1>3 DEF FeedText
  <2>2. Text(content) \in Tokens
    BY <1>0, <2>1, AlphabetsAssumption DEF Texts
  <2>3. raw' = "" \/ OpensRawText(raw')
    BY <2>1 DEF IInv
  <2> QED
    BY <2>1, <2>2, <2>3, FeedSound
<1>4. CASE FeedOther
  <2>1. PICK token \in Others : Feed(token) /\ raw' = raw
    BY <1>4 DEF FeedOther
  <2>2. token \in Tokens
    BY <1>0, <2>1, AlphabetsAssumption DEF Others
  <2>3. raw' = "" \/ OpensRawText(raw')
    BY <2>1 DEF IInv
  <2> QED
    BY <2>1, <2>2, <2>3, FeedSound
<1>5. CASE Finish
  <2>1. Sound(b') /\ BodyOpen(b')
    BY <1>5, FinishOK DEF Finish, IInv
  <2> QED
    BY <1>5, <2>1 DEF Finish, IInv, MaxTokens, BodyOpen, OpenIds
<1>6. CASE UNCHANGED vars
  BY <1>6 DEF vars, IInv, MaxTokens, BodyOpen, OpenIds
<1> QED
  BY <1>1, <1>2, <1>3, <1>4, <1>5, <1>6 DEF Next

-----------------------------------------------------------------------------
(***************************************************************************)
(* What a step reports.                                                    *)
(***************************************************************************)
\* What an observer is told once a token is processed.
Told(c) == c.created \o IF c.ret # NULL /\ c.ret \in ElementIds(c.nodes) THEN <<c.ret>> ELSE <<>>

\* After a token the observer is told every new element once.
LEMMA ToldOK ==
  ASSUME NEW c, Sound(c), BodyOpen(c), NEW token \in Tokens, NEW r, r = Process(c, token)
  PROVE  Listed(Told(r), NewElements(r.nodes, c.nodes))
<1> DEFINE fresh == [c EXCEPT !.flushed = NULL, !.created = <<>>, !.ret = NULL]
           S == NewElements(r.nodes, c.nodes)
<1>1. Sound(r) /\ Accounts(r, fresh)
  BY ProcessOK
<1>2. fresh.nodes = c.nodes /\ fresh.created = <<>> /\ fresh.ret = NULL
  BY FreshOK
<1> HIDE DEF fresh
<1>3. r.created \in Seq(Nat)
  BY <1>1, BuilderFields DEF Sound
<1>8. PICK q : /\ Reports(q, fresh)
               /\ r.nodes = q.nodes /\ r.created = q.created /\ r.ret = q.ret
  BY <1>1 DEF Accounts
<1>4. NULL \notin ElementIds(r.nodes)
  BY DEF ElementIds, Ids, NULL
<1>5. ASSUME NEW ns, NEW created, Lists(ns, created, fresh)
      PROVE  Listed(created, NewElements(ns, c.nodes))
  <2>1. PICK list : created = <<>> \o list /\ Listed(list, NewElements(ns, c.nodes))
    BY <1>2, <1>5 DEF Lists
  <2>2. created = list
    BY <2>1, EmptyJoins DEF Listed
  <2> QED
    BY <2>1, <2>2
<1>6. CASE Tells(q, fresh)
  <2>1. r.ret \notin ElementIds(r.nodes)
    BY <1>2, <1>4, <1>6, <1>8 DEF Tells
  <2>2. Told(r) = r.created
    BY <1>3, <2>1, EmptyJoins DEF Told
  <2> QED
    BY <1>5, <1>6, <1>8, <2>2 DEF Tells
<1>7. CASE Returns(q, fresh)
  <2>1. r.ret \in ElementIds(r.nodes) /\ r.ret # NULL
    BY <1>4, <1>7, <1>8 DEF Returns
  <2>2. Told(r) = Append(r.created, r.ret)
    BY <1>3, <2>1, AppendJoins DEF Told
  <2> QED
    BY <1>5, <1>7, <1>8, <2>2 DEF Returns
<1> QED
  BY <1>6, <1>7, <1>8 DEF Reports

\* The same of a step that feeds a token.
LEMMA FeedTells ==
  ASSUME Sound(b), BodyOpen(b), NEW token \in Tokens, Feed(token)
  PROVE  /\ ToSet(Reported)' = Elements' \ Elements
         /\ Cardinality(ToSet(Reported)') = Len(Reported)'
<1>1. b' = Process(b, token)
  BY DEF Feed
<1> DEFINE list == Told(b')
           S == NewElements(b'.nodes, b.nodes)
<1>2. Listed(list, S)
  BY <1>1, ToldOK
<1>3. Elements = ElementIds(b.nodes)
  BY DEF Elements, ElementIds, NodeIds, Ids, IsElement
<1>4. Elements' = ElementIds(b'.nodes)
  BY DEF Elements, ElementIds, NodeIds, Ids, IsElement
<1>5. Reported' = list
  BY <1>4 DEF Reported, Told
<1> HIDE DEF list, S
<1>6. list \in Seq(Nat) /\ {list[i] : i \in 1..Len(list)} = S
  BY <1>2 DEF Listed
<1>7. ToSet(list) = S
  <2>1. DOMAIN list = 1..Len(list)
    BY <1>6
  <2> QED
    BY <1>6, <2>1 DEF ToSet
<1>8. Cardinality(S) = Len(list)
  BY <1>2, ListedLength
<1>9. ToSet(Reported)' = ToSet(list) /\ Len(Reported)' = Len(list)
  BY <1>5 DEF ToSet
<1>10. S = Elements' \ Elements
  BY <1>3, <1>4 DEF S, NewElements
<1> QED
  BY <1>7, <1>8, <1>9, <1>10

\* Every step but the last feeds a token, or nothing changes.
LEMMA NextReports ==
  IInv /\ [Next]_vars =>
    [~ finished' =>
       /\ ToSet(Reported)' = Elements' \ Elements
       /\ Cardinality(ToSet(Reported)') = Len(Reported)']_vars
<1> SUFFICES ASSUME IInv, Next, ~ finished'
             PROVE  /\ ToSet(Reported)' = Elements' \ Elements
                    /\ Cardinality(ToSet(Reported)') = Len(Reported)'
  OBVIOUS
<1>0. Sound(b) /\ BodyOpen(b) /\ scenario \in DOMAIN Alphabets
  BY DEF IInv
<1>1. CASE FeedStartTag
  <2>1. PICK tag \in StartTags : Feed(StartTag(tag.name, tag.attrs))
    BY <1>1 DEF FeedStartTag
  <2>2. StartTag(tag.name, tag.attrs) \in Tokens
    BY <1>0, <2>1, AlphabetsAssumption DEF StartTags
  <2> QED
    BY <1>0, <2>1, <2>2, FeedTells
<1>2. CASE FeedEndTag
  <2>1. PICK name \in EndTags : Feed(EndTag(name))
    BY <1>2 DEF FeedEndTag
  <2>2. EndTag(name) \in Tokens
    BY <1>0, <2>1, AlphabetsAssumption DEF EndTags
  <2> QED
    BY <1>0, <2>1, <2>2, FeedTells
<1>3. CASE FeedText
  <2>1. PICK content \in Texts : Feed(Text(content))
    BY <1>3 DEF FeedText
  <2>2. Text(content) \in Tokens
    BY <1>0, <2>1, AlphabetsAssumption DEF Texts
  <2> QED
    BY <1>0, <2>1, <2>2, FeedTells
<1>4. CASE FeedOther
  <2>1. PICK token \in Others : Feed(token)
    BY <1>4 DEF FeedOther
  <2>2. token \in Tokens
    BY <1>0, <2>1, AlphabetsAssumption DEF Others
  <2> QED
    BY <1>0, <2>1, <2>2, FeedTells
<1>5. CASE Finish
  BY <1>5 DEF Finish
<1> QED
  BY <1>1, <1>2, <1>3, <1>4, <1>5 DEF Next

-----------------------------------------------------------------------------
(***************************************************************************)
(* What is closed is final.                                                *)
(***************************************************************************)
\* The root is open, and every other node has a parent.
LEMMA ClosedHasParent ==
  ASSUME NEW c, Sound(c), NEW n \in Closed(c)
  PROVE  c.nodes[n].parent \in Ids(c.nodes)
<1>1. PICK h : Grounded(c.nodes, c.open.stack, h)
  BY DEF Sound, TreeOK
<1>2. Hung(c.nodes, h) /\ Branch(c.nodes, c.open.stack, h)
  BY <1>1 DEF Grounded
<1>3. RootId \in OpenIds(c)
  BY <1>2 DEF Branch, OpenIds
<1> QED
  BY <1>2, <1>3 DEF Hung, Closed

\* Whatever leaves the closed nodes alone leaves their children and their text alone.
LEMMA LeavesFrozen ==
  ASSUME NEW c, Sound(c), NEW r, Sound(r), Closed(c) \subseteq Closed(r),
         Keeps(r.nodes, c.nodes, Closed(c)), NEW n \in Closed(c)
  PROVE  /\ n \notin OpenIds(r)
         /\ Children(r.nodes, n) = Children(c.nodes, n)
         /\ c.nodes[n].parent \notin OpenIds(c) => r.nodes[n].text = c.nodes[n].text
<1>1. Arena(c.nodes) /\ Arena(r.nodes)
  BY SoundArena
<1>2. n \notin OpenIds(r)
  BY DEF Closed
<1>3. c.nodes[n].parent \in Ids(c.nodes)
  BY ClosedHasParent
<1>4. c.nodes[n].parent \notin OpenIds(c) => r.nodes[n].text = c.nodes[n].text
  BY <1>3 DEF Closed, Keeps
<1>5. Children(r.nodes, n) = Children(c.nodes, n)
  <2> DEFINE C == Closed(c)
  <2>1. C \subseteq Ids(c.nodes) /\ n \in C /\ Keeps(r.nodes, c.nodes, C)
    BY DEF Closed
  <2> HIDE DEF C
  <2> QED
    BY <1>1, <2>1, KeepsChildren
<1> QED
  BY <1>2, <1>4, <1>5

\* A token leaves the closed nodes alone.
LEMMA ProcessLeaves ==
  ASSUME NEW c, Sound(c), BodyOpen(c), NEW token \in Tokens, NEW r, r = Process(c, token)
  PROVE  Sound(r) /\ Closed(c) \subseteq Closed(r) /\ Keeps(r.nodes, c.nodes, Closed(c))
<1> DEFINE fresh == [c EXCEPT !.flushed = NULL, !.created = <<>>, !.ret = NULL]
<1>1. Sound(r) /\ Accounts(r, fresh)
  BY ProcessOK
<1>2. fresh.nodes = c.nodes /\ fresh.open = c.open
  BY FreshOK
<1> HIDE DEF fresh
<1>3. PICK q : Reports(q, fresh) /\ r.nodes = q.nodes /\ r.open = q.open
  BY <1>1 DEF Accounts
<1>4. Leaves(q, fresh)
  BY <1>3 DEF Reports, Tells, Returns
<1>5. Closed(fresh) = Closed(c) /\ Closed(q) = Closed(r)
  BY <1>2, <1>3 DEF Closed, OpenIds
<1> QED
  BY <1>1, <1>2, <1>3, <1>4, <1>5 DEF Leaves

\* No step changes what is closed.
LEMMA NextFrozen ==
  IInv /\ [Next]_vars =>
    [\A n \in NodeIds \ OpenIds(b) :
       /\ n \notin OpenIds(b')
       /\ Children(b'.nodes, n) = Children(b.nodes, n)
       /\ b.nodes[n].parent \notin OpenIds(b) => b'.nodes[n].text = b.nodes[n].text]_vars
<1> SUFFICES ASSUME IInv, Next, NEW n \in Closed(b)
             PROVE  /\ n \notin OpenIds(b')
                    /\ Children(b'.nodes, n) = Children(b.nodes, n)
                    /\ b.nodes[n].parent \notin OpenIds(b) => b'.nodes[n].text = b.nodes[n].text
  BY DEF NodeIds, Closed, Ids
<1>0. Sound(b) /\ BodyOpen(b) /\ scenario \in DOMAIN Alphabets
  BY DEF IInv
<1>1. ASSUME NEW token \in Tokens, Feed(token)
      PROVE  Sound(b') /\ Closed(b) \subseteq Closed(b') /\ Keeps(b'.nodes, b.nodes, Closed(b))
  BY <1>0, <1>1, ProcessLeaves DEF Feed
<1>2. Sound(b') /\ Closed(b) \subseteq Closed(b') /\ Keeps(b'.nodes, b.nodes, Closed(b))
  <2>1. CASE FeedStartTag
    <3>1. PICK tag \in StartTags : Feed(StartTag(tag.name, tag.attrs))
      BY <2>1 DEF FeedStartTag
    <3>2. StartTag(tag.name, tag.attrs) \in Tokens
      BY <1>0, <3>1, AlphabetsAssumption DEF StartTags
    <3> QED
      BY <1>1, <3>1, <3>2
  <2>2. CASE FeedEndTag
    <3>1. PICK name \in EndTags : Feed(EndTag(name))
      BY <2>2 DEF FeedEndTag
    <3>2. EndTag(name) \in Tokens
      BY <1>0, <3>1, AlphabetsAssumption DEF EndTags
    <3> QED
      BY <1>1, <3>1, <3>2
  <2>3. CASE FeedText
    <3>1. PICK content \in Texts : Feed(Text(content))
      BY <2>3 DEF FeedText
    <3>2. Text(content) \in Tokens
      BY <1>0, <3>1, AlphabetsAssumption DEF Texts
    <3> QED
      BY <1>1, <3>1, <3>2
  <2>4. CASE FeedOther
    <3>1. PICK token \in Others : Feed(token)
      BY <2>4 DEF FeedOther
    <3>2. token \in Tokens
      BY <1>0, <3>1, AlphabetsAssumption DEF Others
    <3> QED
      BY <1>1, <3>1, <3>2
  <2>5. CASE Finish
    BY <1>0, <2>5, FinishOK DEF Finish, Leaves
  <2> QED
    BY <2>1, <2>2, <2>3, <2>4, <2>5 DEF Next
<1> QED
  BY <1>0, <1>2, LeavesFrozen

-----------------------------------------------------------------------------
(***************************************************************************)
(* Where a run of characters is cut into tokens.                           *)
(***************************************************************************)
\* Linking a node does not depend on any text.
LEMMA LinksWithText ==
  ASSUME NEW a, Arena(a), NEW n \in Ids(a), NEW v \in Seq(Strings), NEW x \in Ids(a), NEW location,
         location.parent \in Ids(a), location.before \in Ids(a) \cup {NULL}
  PROVE  LinkAt(WithText(a, n, v), x, location) = WithText(LinkAt(a, x, location), n, v)
<1> DEFINE p == location.parent
           before == location.before
<1>1. a \in Seq(Node) /\ Linked(a, Ids(a))
  BY ArenaNodes
<1>2. CASE before = NULL
  <2>1. a[p].last \in Ids(a) \cup {NULL}
    BY <1>1 DEF Linked
  <2> QED
    BY <1>1, <1>2, <2>1, AppendsWithText DEF LinkAt
<1>3. CASE before # NULL
  <2>1. before \in Ids(a)
    BY <1>3
  <2>2. a[before].prev \in Ids(a) \cup {NULL}
    BY <1>1, <2>1 DEF Linked
  <2> QED
    BY <1>1, <1>3, <2>1, <2>2, InsertsWithText DEF LinkAt
<1> QED
  BY <1>2, <1>3

\* A node linked at a location is what the next one there would follow.
LEMMA LinksLast ==
  ASSUME NEW a, Arena(a), NEW x \in Ids(a), NEW location,
         location.parent \in Ids(a), location.before \in (Ids(a) \ {x}) \cup {NULL},
         NEW r, r = LinkAt(a, x, location)
  PROVE  /\ r[x].text = a[x].text
         /\ x = IF location.before = NULL THEN r[location.parent].last ELSE r[location.before].prev
<1> DEFINE N == Ids(a)
           p == location.parent
           before == location.before
<1>1. NULL \notin N /\ N \subseteq Nat /\ a \in [N -> Node] /\ Linked(a, N)
  BY ArenaNodes
<1>2. x \in N /\ p \in N /\ before \in (N \ {x}) \cup {NULL}
  OBVIOUS
<1> HIDE DEF N, p, before
<1>3. CASE before = NULL
  <2> DEFINE l == a[p].last
             q == AppendSubtree(a, p, x)
  <2>1. l \in N \cup {NULL}
    BY <1>1, <1>2 DEF Linked
  <2> HIDE DEF l
  <2>2. r = q
    BY <1>3 DEF LinkAt, p, before
  <2>3. q \in [N -> Node] /\ Appended(q, a, N, x, p, l) /\ \A k \in N : SameContent(q[k], a[k])
    BY <1>1, <1>2, <2>1, AppendFields DEF l
  <2> QED
    BY <1>2, <1>3, <2>2, <2>3 DEF Appended, SameContent, p, before
<1>4. CASE before # NULL
  <2>1. before \in N /\ before # x
    BY <1>2, <1>4
  <2> DEFINE l == a[before].prev
             q == InsertSubtreeBefore(a, p, before, x)
  <2>2. l \in N \cup {NULL}
    BY <1>1, <2>1 DEF Linked
  <2> HIDE DEF l
  <2>3. r = q
    BY <1>4 DEF LinkAt, p, before
  <2>4. /\ q \in [N -> Node] /\ Inserted(q, a, N, x, p, before, l)
        /\ \A k \in N : SameContent(q[k], a[k])
    BY <1>1, <1>2, <2>1, <2>2, InsertFields DEF l
  <2> QED
    BY <1>2, <1>4, <2>1, <2>3, <2>4 DEF Inserted, SameContent, p, before
<1> QED
  BY <1>3, <1>4

\* After a new text node, text at the same location joins it, as if it had been there at once.
LEMMA NewTextJoined ==
  ASSUME NEW c, Sound(c), NEW head \in Seq(Strings), NEW tail \in Seq(Strings),
         NEW location, LocationOK(c, location)
  PROVE  InsertTextAt(NewText(c, head, location), tail, location) = NewText(c, head \o tail, location)
<1> DEFINE whole == head \o tail
           ns == c.nodes
           x == Len(ns) + 1
           p == location.parent
           before == location.before
           depth == ns[p].depth + 1
           y == Append(ns, BlankNode("text", "", "none", head, depth))
           z == Append(ns, BlankNode("text", "", "none", whole, depth))
           linked == LinkAt(y, x, location)
           r == NewText(c, head, location)
<1>1. c \in Builder /\ Arena(ns) /\ p \in Ids(ns) /\ before \in Ids(ns) \cup {NULL}
  BY SoundArena DEF Sound, LocationOK, Located
<1>2. depth \in Nat /\ x \in Nat /\ x # NULL
  <2>1. x \in Nat /\ depth \in Nat
    BY <1>1, LocationDepth, NewNodeId
  <2>2. Len(ns) \in Nat
    BY <1>1, ArenaNodes
  <2> QED
    BY <2>1, <2>2 DEF NULL
<1>3. whole \in Seq(Strings)
  OBVIOUS
<1> HIDE DEF depth, whole
<1>4. Allocated(y, ns, BlankNode("text", "", "none", head, depth))
  <2>1. "text" \in NodeTypes /\ "" \in Strings /\ "none" \in Strings
    BY DEF NodeTypes, Strings
  <2> QED
    BY <1>1, <1>2, <2>1, Allocates
<1>5. /\ Arena(y) /\ x \in Ids(y) /\ p \in Ids(y) /\ before \in (Ids(y) \ {x}) \cup {NULL}
      /\ y[x].text = head
  <2>1. BlankNode("text", "", "none", head, depth).text = head
    BY DEF BlankNode
  <2> QED
    BY <1>1, <1>4, <2>1 DEF Allocated
<1>6. z = WithText(y, x, whole)
  BY <1>1, <1>2, <1>3, AllocatesWithText
<1> HIDE DEF y, z, x
<1>7. LinkAt(z, x, location) = WithText(linked, x, whole)
  <2>1. Arena(y) /\ x \in Ids(y) /\ p \in Ids(y) /\ before \in Ids(y) \cup {NULL}
    BY <1>5
  <2>2. LinkAt(WithText(y, x, whole), x, location) = WithText(LinkAt(y, x, location), x, whole)
    BY <1>3, <2>1, LinksWithText
  <2> QED
    BY <1>6, <2>2
<1>8. /\ linked[x].text = head
      /\ x = IF before = NULL THEN linked[p].last ELSE linked[before].prev
  BY <1>5, LinksLast
<1>9. /\ r = [c EXCEPT !.nodes = linked, !.last_text = x, !.ret = x]
      /\ NewText(c, whole, location) = [c EXCEPT !.nodes = LinkAt(z, x, location), !.last_text = x, !.ret = x]
  BY DEF NewText, x, y, z, depth
<1> HIDE DEF linked, r
<1>10. r.nodes = linked /\ r.last_text = x
  BY <1>1, <1>9 DEF Builder
<1>11. CoalescingNode(r, location) = x
  BY <1>8, <1>10 DEF CoalescingNode
<1>12. InsertTextAt(r, tail, location) = [r EXCEPT !.nodes[x].text = @ \o tail, !.ret = x]
  BY <1>2, <1>11 DEF InsertTextAt
<1>13. [r EXCEPT !.nodes[x].text = @ \o tail, !.ret = x] = [r EXCEPT !.nodes = WithText(linked, x, whole), !.ret = x]
  BY <1>1, <1>8, <1>9, <1>10 DEF WithText, Builder, whole
<1>14. [r EXCEPT !.nodes = WithText(linked, x, whole), !.ret = x] = NewText(c, whole, location)
  BY <1>1, <1>7, <1>9 DEF Builder
<1> QED
  BY <1>12, <1>13, <1>14 DEF r, whole

\* Text joins the text node x.
Join(c, x, content) == [c EXCEPT !.nodes[x].text = @ \o content, !.ret = x]

\* Text that joined a node is joined by the text that follows it.
LEMMA JoinedTextJoined ==
  ASSUME NEW c, Sound(c), NEW head \in Seq(Strings), NEW tail \in Seq(Strings), NEW x \in Ids(c.nodes)
  PROVE  /\ Join(Join(c, x, head), x, tail) = Join(c, x, head \o tail)
         /\ Join(c, x, head).last_text = c.last_text
         /\ \A n \in Ids(c.nodes) : SameLinks(Join(c, x, head).nodes[n], c.nodes[n])
<1> DEFINE ns == c.nodes
           r == Join(c, x, head)
           text == ns[x].text
           v == text \o head
           w == text \o (head \o tail)
           q == WithText(ns, x, v)
<1>1. c \in Builder /\ ns \in Seq(Node) /\ x \in Ids(ns) /\ ns \in [Ids(ns) -> Node]
  BY SoundArena, ArenaNodes DEF Sound
<1>2. text \in Seq(Strings)
  BY <1>1, NodeFields
<1>4. r = [c EXCEPT !.nodes = q, !.ret = x]
  BY <1>1 DEF WithText, Builder, Join
<1>5. Join(c, x, head \o tail) = [c EXCEPT !.nodes = WithText(ns, x, w), !.ret = x]
  BY <1>1 DEF WithText, Builder, Join
<1> HIDE DEF text
<1>3. v \in Seq(Strings) /\ w \in Seq(Strings) /\ v \o tail = w
  <2>1. v \in Seq(Strings) /\ head \o tail \in Seq(Strings)
    BY <1>2
  <2>2. w \in Seq(Strings)
    BY <1>2, <2>1
  <2>3. v \o tail = w
    BY <1>2, ConcatAssociative
  <2> QED
    BY <2>1, <2>2, <2>3
<1> HIDE DEF v, w, ns, q, r
<1>6. r.nodes = q /\ r.last_text = c.last_text
  BY <1>1, <1>4 DEF Builder
<1>7. /\ q \in Seq(Node) /\ Ids(q) = Ids(ns) /\ q[x].text = v
      /\ \A n \in Ids(ns) : SameLinks(q[n], ns[n])
  BY <1>1, <1>3, TextWritten DEF q
<1>8. WithText(q, x, w) = WithText(ns, x, w)
  <2> DEFINE I == Ids(ns)
  <2>1. ns \in [I -> Node] /\ x \in I /\ q \in [I -> Node]
    BY <1>1, <1>7, IdsOf
  <2> HIDE DEF I
  <2>2. q[x] = [ns[x] EXCEPT !.text = v] /\ \A k \in I : k # x => q[k] = ns[k]
    BY <2>1 DEF q, WithText
  <2>3. \A m \in Node : [[m EXCEPT !.text = v] EXCEPT !.text = w] = [m EXCEPT !.text = w]
    BY <1>3 DEF Node
  <2>4. [q[x] EXCEPT !.text = w] = [ns[x] EXCEPT !.text = w]
    BY <2>1, <2>2, <2>3
  <2> QED
    BY <2>1, <2>2, <2>4 DEF WithText
<1>9. Join(r, x, tail) = [r EXCEPT !.nodes = WithText(q, x, w), !.ret = x]
  <2>1. r.nodes[x].text \o tail = w
    BY <1>3, <1>6, <1>7
  <2>2. Join(r, x, tail) = [r EXCEPT !.nodes = WithText(r.nodes, x, r.nodes[x].text \o tail), !.ret = x]
    BY <1>1, <1>4 DEF Join, WithText, Builder
  <2> QED
    BY <1>6, <2>1, <2>2
<1>10. [r EXCEPT !.nodes = WithText(ns, x, w), !.ret = x] = [c EXCEPT !.nodes = WithText(ns, x, w), !.ret = x]
  BY <1>1, <1>4 DEF Builder
<1>11. Join(r, x, tail) = Join(c, x, head \o tail)
  BY <1>5, <1>8, <1>9, <1>10
<1> QED
  BY <1>6, <1>7, <1>11 DEF ns, r

\* Text at a location, in one piece or in two.
LEMMA TextAtInTwo ==
  ASSUME NEW c, Sound(c), NEW head \in Seq(Strings), NEW tail \in Seq(Strings),
         NEW location, LocationOK(c, location)
  PROVE  InsertTextAt(InsertTextAt(c, head, location), tail, location)
           = InsertTextAt(c, head \o tail, location)
<1> DEFINE x == CoalescingNode(c, location)
           r == InsertTextAt(c, head, location)
<1>1. CASE x = NULL
  <2>1. r = NewText(c, head, location) /\ InsertTextAt(c, head \o tail, location) = NewText(c, head \o tail, location)
    BY <1>1 DEF InsertTextAt
  <2> HIDE DEF r
  <2> QED
    BY <2>1, NewTextJoined DEF r
<1>2. CASE x # NULL
  <2>1. x = c.last_text /\ x \in Ids(c.nodes)
    BY <1>2 DEF CoalescingNode, Sound, Refers
  <2>2. location.parent \in Ids(c.nodes) /\ location.before \in Ids(c.nodes) \cup {NULL}
    BY DEF LocationOK, Located
  <2>3. r = Join(c, x, head) /\ InsertTextAt(c, head \o tail, location) = Join(c, x, head \o tail)
    BY <1>2 DEF InsertTextAt, Join
  <2> HIDE DEF r
  <2>4. /\ Join(r, x, tail) = Join(c, x, head \o tail)
        /\ r.last_text = c.last_text
        /\ \A n \in Ids(c.nodes) : SameLinks(r.nodes[n], c.nodes[n])
    BY <2>1, <2>3, JoinedTextJoined
  <2>5. CoalescingNode(r, location) = x
    BY <2>2, <2>4 DEF CoalescingNode, SameLinks
  <2>6. InsertTextAt(r, tail, location) = Join(r, x, tail)
    BY <1>2, <2>5 DEF InsertTextAt, Join
  <2> QED
    BY <2>3, <2>4, <2>6 DEF r
<1> QED
  BY <1>1, <1>2

\* Inserted text leaves every node where it was, and what is held back.
LEMMA TextLeaves ==
  ASSUME NEW c, Sound(c), NEW content \in Seq(Strings), NEW location, LocationOK(c, location),
         NEW r, r = InsertTextAt(c, content, location)
  PROVE  /\ \A n \in Ids(c.nodes) : r.nodes[n].parent = c.nodes[n].parent
         /\ r.pending = c.pending /\ r.foster_run = c.foster_run /\ r.newline_skip = c.newline_skip
<1> DEFINE target == CoalescingNode(c, location)
<1>1. c \in Builder /\ location.parent \in Ids(c.nodes) /\ Located(c.nodes, location)
  BY DEF Sound, LocationOK, Located
<1>2. CASE target = NULL
  <2> DEFINE x == Len(c.nodes) + 1
             depth == c.nodes[location.parent].depth + 1
             nodes == LinkAt(Append(c.nodes, BlankNode("text", "", "none", content, depth)), x, location)
  <2>1. r = [c EXCEPT !.nodes = nodes, !.last_text = x, !.ret = x]
    BY <1>2 DEF InsertTextAt, NewText
  <2>2. depth \in Nat
    BY <1>1, LocationDepth
  <2> HIDE DEF depth
  <2>3. Placed(nodes, c.nodes, "text", location.parent)
    <3>1. "text" \in NodeTypes /\ "" \in Strings /\ "none" \in Strings
      BY DEF NodeTypes, Strings
    <3> QED
      BY <1>1, <2>2, <3>1, SoundArena, LinkPlaces
  <2> HIDE DEF nodes
  <2>4. /\ r.nodes = nodes /\ r.pending = c.pending /\ r.foster_run = c.foster_run
        /\ r.newline_skip = c.newline_skip
    BY <1>1, <2>1 DEF Builder
  <2> QED
    BY <2>3, <2>4 DEF Placed
<1>3. CASE target # NULL
  <2>1. r = Join(c, target, content)
    BY <1>3 DEF InsertTextAt, Join
  <2>2. target \in Ids(c.nodes)
    BY <1>3 DEF CoalescingNode, Sound, Refers
  <2> HIDE DEF target
  <2>3. \A n \in Ids(c.nodes) : SameLinks(r.nodes[n], c.nodes[n])
    BY <2>1, <2>2, JoinedTextJoined
  <2>4. r.pending = c.pending /\ r.foster_run = c.foster_run /\ r.newline_skip = c.newline_skip
    BY <1>1, <2>1 DEF Join, Builder
  <2> QED
    BY <2>3, <2>4 DEF SameLinks
<1> QED
  BY <1>2, <1>3

\* Decoding takes the characters one by one.
LEMMA DecodedInTwo ==
  ASSUME NEW head \in Seq(Strings), NEW tail \in Seq(Strings)
  PROVE  Decoded(head \o tail) = Decoded(head) \o Decoded(tail)
<1> DEFINE whole == head \o tail
           x == Decoded(head)
           y == Decoded(tail)
           z == Decoded(whole)
           decode(char) == CASE char = "ref_lf" -> "lf"
                             [] char = "ref_lt" -> "lt"
                             [] char = "ref_cr" -> "cr"
                             [] OTHER -> char
<1>1. /\ Len(whole) = Len(head) + Len(tail) /\ Len(head) \in Nat /\ Len(tail) \in Nat
      /\ \A i \in 1..Len(head) + Len(tail) : whole[i] = IF i <= Len(head) THEN head[i] ELSE tail[i - Len(head)]
  BY ConcatProperties
<1>2. whole \in Seq(Strings)
  OBVIOUS
<1> HIDE DEF whole
<1>3. x = [i \in 1..Len(head) |-> decode(head[i])] /\ y = [i \in 1..Len(tail) |-> decode(tail[i])]
      /\ z = [i \in 1..Len(whole) |-> decode(whole[i])]
  BY DEF Decoded
<1>4. x \in Seq(Strings) /\ y \in Seq(Strings) /\ z \in Seq(Strings)
  BY <1>2, DecodedType
<1> HIDE DEF decode, x, y, z
<1>5. Len(x) = Len(head) /\ Len(y) = Len(tail) /\ Len(z) = Len(whole)
  BY <1>1, <1>2, <1>3, <1>4
<1>6. /\ x \o y \in Seq(Strings) /\ Len(x \o y) = Len(x) + Len(y)
      /\ \A i \in 1..Len(x) + Len(y) : (x \o y)[i] = IF i <= Len(x) THEN x[i] ELSE y[i - Len(x)]
  BY <1>4, ConcatProperties
<1>7. ASSUME NEW i \in 1..Len(z) PROVE z[i] = (x \o y)[i]
  <2>1. i \in 1..Len(head) + Len(tail) /\ z[i] = decode(whole[i])
    BY <1>1, <1>3, <1>5
  <2>2. CASE i <= Len(head)
    <3>1. i \in 1..Len(head)
      BY <1>1, <2>1, <2>2
    <3>2. whole[i] = head[i] /\ x[i] = decode(head[i]) /\ (x \o y)[i] = x[i]
      BY <1>1, <1>3, <1>5, <1>6, <2>1, <2>2, <3>1
    <3> QED
      BY <2>1, <3>2
  <2>3. CASE ~ (i <= Len(head))
    <3>1. i - Len(head) \in 1..Len(tail)
      BY <1>1, <2>1, <2>3
    <3>2. /\ whole[i] = tail[i - Len(head)] /\ y[i - Len(head)] = decode(tail[i - Len(head)])
          /\ (x \o y)[i] = y[i - Len(head)]
      BY <1>1, <1>3, <1>5, <1>6, <2>1, <2>3, <3>1
    <3> QED
      BY <2>1, <3>2
  <2> QED
    BY <2>2, <2>3
<1>8. Len(z) = Len(x \o y)
  BY <1>1, <1>5, <1>6
<1>9. z = x \o y
  BY <1>4, <1>6, <1>7, <1>8, SeqEqual
<1> QED
  BY <1>9 DEF x, y, z, whole

\* Text where the builder inserts it, in one piece or in two.
LEMMA TextWhereverInTwo ==
  ASSUME NEW c, Sound(c), NEW head \in Seq(Strings), NEW tail \in Seq(Strings), NEW foster
  PROVE  InsertText(InsertText(c, head, foster), tail, foster) = InsertText(c, head \o tail, foster)
<1> DEFINE location == LocationFor(c, foster)
           r == InsertText(c, head, foster)
<1>1. LocationOK(c, location)
  BY LocatedFor
<1>2. Decoded(head) \in Seq(Strings) /\ Decoded(tail) \in Seq(Strings)
  BY DecodedType
<1>3. /\ \A n \in Ids(c.nodes) : r.nodes[n].parent = c.nodes[n].parent
      /\ r.open = c.open
  BY <1>1, <1>2, TextLeaves, InsertTextOK DEF InsertText, KeepsStack
<1>4. LocationFor(r, foster) = location
  <2> DEFINE at == LastOfKind(c.open, "Table")
             table == c.open.stack[at].id
  <2>1. CurrentParent(r) = CurrentParent(c)
    BY <1>3 DEF CurrentParent
  <2>2. at # 0 => table \in Ids(c.nodes)
    <3>1. at \in 0..Len(c.open.stack)
      BY LastOfKindRange, OpenEntries DEF Sound
    <3> QED
      BY <3>1, SoundStack
  <2>3. at # 0 => r.nodes[table].parent = c.nodes[table].parent
    BY <1>3, <2>2
  <2>4. FosterLocation(r) = FosterLocation(c)
    BY <1>3, <2>1, <2>3 DEF FosterLocation
  <2> QED
    BY <1>3, <2>1, <2>4 DEF LocationFor
<1>5. InsertText(r, tail, foster) = InsertTextAt(InsertTextAt(c, Decoded(head), location), Decoded(tail), location)
  BY <1>4 DEF InsertText
<1>6. InsertText(c, head \o tail, foster) = InsertTextAt(c, Decoded(head) \o Decoded(tail), location)
  BY DecodedInTwo DEF InsertText
<1> HIDE DEF location
<1>7. InsertTextAt(InsertTextAt(c, Decoded(head), location), Decoded(tail), location)
        = InsertTextAt(c, Decoded(head) \o Decoded(tail), location)
  BY <1>1, <1>2, TextAtInTwo
<1> QED
  BY <1>5, <1>6, <1>7

\* A text is blank when its pieces are.
LEMMA BlankInTwo ==
  ASSUME NEW head \in Seq(Strings), NEW tail \in Seq(Strings)
  PROVE  IsBlank(head \o tail) <=> IsBlank(head) /\ IsBlank(tail)
<1> DEFINE whole == head \o tail
<1>1. /\ Len(whole) = Len(head) + Len(tail) /\ Len(head) \in Nat /\ Len(tail) \in Nat
      /\ \A i \in 1..Len(head) + Len(tail) : whole[i] = IF i <= Len(head) THEN head[i] ELSE tail[i - Len(head)]
  BY ConcatProperties
<1> HIDE DEF whole
<1>2. ASSUME IsBlank(whole) PROVE IsBlank(head) /\ IsBlank(tail)
  <2>1. ASSUME NEW i \in 1..Len(head) PROVE head[i] \in Whitespace
    <3>1. i \in 1..Len(head) + Len(tail) /\ whole[i] = head[i]
      BY <1>1
    <3> QED
      BY <1>1, <1>2, <3>1 DEF IsBlank
  <2>2. ASSUME NEW i \in 1..Len(tail) PROVE tail[i] \in Whitespace
    <3>1. Len(head) + i \in 1..Len(head) + Len(tail) /\ ~ (Len(head) + i <= Len(head))
          /\ Len(head) + i - Len(head) = i
      BY <1>1
    <3>2. whole[Len(head) + i] = tail[i]
      BY <1>1, <3>1
    <3> QED
      BY <1>1, <1>2, <3>1, <3>2 DEF IsBlank
  <2> QED
    BY <2>1, <2>2 DEF IsBlank
<1>3. ASSUME IsBlank(head), IsBlank(tail) PROVE IsBlank(whole)
  <2>1. ASSUME NEW i \in 1..Len(whole) PROVE whole[i] \in Whitespace
    <3>1. i \in 1..Len(head) + Len(tail)
      BY <1>1
    <3>2. CASE i <= Len(head)
      BY <1>1, <1>3, <3>1, <3>2 DEF IsBlank
    <3>3. CASE ~ (i <= Len(head))
      <4>1. i - Len(head) \in 1..Len(tail)
        BY <1>1, <3>1, <3>3
      <4> QED
        BY <1>1, <1>3, <3>1, <3>3, <4>1 DEF IsBlank
    <3> QED
      BY <3>2, <3>3
  <2> QED
    BY <2>1 DEF IsBlank
<1> QED
  BY <1>2, <1>3 DEF whole

\* How many characters are dropped as the newline after a `pre`.
Dropped(skip, x) ==
  IF skip = "Newline" /\ Len(x) > 1 /\ x[1] = "cr" /\ x[2] = "lf" THEN 2
  ELSE IF \/ skip = "Newline" /\ x[1] \in {"cr", "lf", "ref_lf"}
          \/ skip = "LineFeedAfterCr" /\ x[1] = "lf"
       THEN 1
  ELSE 0

\* What is skipped of the text that follows.
SkipAfter(skip, x) ==
  IF skip = "Newline" /\ x[1] = "cr" /\ Len(x) = 1 THEN "LineFeedAfterCr" ELSE "None"

\* They are what the model's skip does.
LEMMA SkipDrops ==
  ASSUME NEW skip \in {"None", "Newline", "LineFeedAfterCr"}, NEW x \in Seq(Strings), x # <<>>
  PROVE  /\ SkipLeadingNewline(skip, x).text = SubSeq(x, Dropped(skip, x) + 1, Len(x))
         /\ SkipLeadingNewline(skip, x).skip = SkipAfter(skip, x)
         /\ Dropped(skip, x) \in 0..Len(x)
<1>1. Len(x) \in Nat /\ Len(x) >= 1
  BY EmptySeq, LenProperties
<1>2. Dropped(skip, x) \in 0..Len(x)
  BY <1>1 DEF Dropped
<1> DEFINE crlf == Len(x) > 1 /\ x[1] = "cr" /\ x[2] = "lf"
           kept(from) == [text |-> SubSeq(x, from, Len(x)), skip |-> "None"]
           s == SkipLeadingNewline(skip, x)
<1>3. CASE skip = "Newline" /\ crlf
  <2>1. s = kept(3)
    BY <1>3 DEF SkipLeadingNewline
  <2>2. Dropped(skip, x) = 2 /\ SkipAfter(skip, x) = "None"
    BY <1>1, <1>3 DEF Dropped, SkipAfter
  <2> QED
    BY <1>2, <2>1, <2>2
<1>4. CASE skip = "Newline" /\ ~ crlf /\ x[1] = "cr"
  <2>1. s = [kept(2) EXCEPT !.skip = IF Len(x) = 1 THEN "LineFeedAfterCr" ELSE "None"]
    BY <1>4 DEF SkipLeadingNewline
  <2>2. Dropped(skip, x) = 1 /\ SkipAfter(skip, x) = IF Len(x) = 1 THEN "LineFeedAfterCr" ELSE "None"
    BY <1>1, <1>4 DEF Dropped, SkipAfter
  <2> QED
    BY <1>2, <2>1, <2>2
<1>5. CASE skip = "Newline" /\ x[1] \in {"lf", "ref_lf"}
  <2>1. s = kept(2)
    BY <1>5 DEF SkipLeadingNewline
  <2>2. Dropped(skip, x) = 1 /\ SkipAfter(skip, x) = "None"
    BY <1>1, <1>5 DEF Dropped, SkipAfter
  <2> QED
    BY <1>2, <2>1, <2>2
<1>6. CASE skip = "LineFeedAfterCr" /\ x[1] = "lf"
  <2>1. s = kept(2)
    BY <1>6 DEF SkipLeadingNewline
  <2>2. Dropped(skip, x) = 1 /\ SkipAfter(skip, x) = "None"
    BY <1>1, <1>6 DEF Dropped, SkipAfter
  <2> QED
    BY <1>2, <2>1, <2>2
<1>7. CASE /\ skip = "Newline" => x[1] \notin {"cr", "lf", "ref_lf"}
           /\ skip = "LineFeedAfterCr" => x[1] # "lf"
  <2>1. s = kept(1)
    BY <1>7 DEF SkipLeadingNewline
  <2>2. Dropped(skip, x) = 0 /\ SkipAfter(skip, x) = "None"
    BY <1>1, <1>7 DEF Dropped, SkipAfter
  <2> QED
    BY <1>2, <2>1, <2>2
<1> QED
  BY <1>3, <1>4, <1>5, <1>6, <1>7

\* What the skip leaves of a text, and of its two pieces.
Skipped(skip, head, tail, whole, first, second) ==
  /\ whole = SkipLeadingNewline(skip, head \o tail)
  /\ first = SkipLeadingNewline(skip, head)
  /\ second = SkipLeadingNewline(first.skip, tail)

\* They are the same, and the second piece is whole if the first has text left.
SkipAgrees(tail, whole, first, second) ==
  /\ first.text \o second.text = whole.text /\ second.skip = whole.skip
  /\ first.text # <<>> => first.skip = whole.skip /\ second.text = tail

\* The newline after a `pre` is skipped in one piece as in two.
LEMMA SkipInTwo ==
  ASSUME NEW skip \in {"None", "Newline", "LineFeedAfterCr"},
         NEW head \in Seq(Strings), head # <<>>, NEW tail \in Seq(Strings), tail # <<>>,
         NEW whole, NEW first, NEW second, Skipped(skip, head, tail, whole, first, second)
  PROVE  SkipAgrees(tail, whole, first, second)
<1> DEFINE x == head \o tail
           d == Dropped(skip, head)
           mid == SkipAfter(skip, head)
           e == Dropped(mid, tail)
           n == Len(head)
<1>0. /\ whole = SkipLeadingNewline(skip, head \o tail) /\ first = SkipLeadingNewline(skip, head)
      /\ second = SkipLeadingNewline(first.skip, tail)
  BY DEF Skipped
<1>1. /\ x \in Seq(Strings) /\ Len(x) = n + Len(tail) /\ x # <<>>
      /\ n \in Nat /\ n >= 1 /\ Len(tail) \in Nat /\ Len(tail) >= 1
      /\ \A i \in 1..n + Len(tail) : x[i] = IF i <= n THEN head[i] ELSE tail[i - n]
  BY ConcatProperties, EmptySeq
<1>2. x[1] = head[1] /\ Len(x) > 1 /\ x[2] = IF n = 1 THEN tail[1] ELSE head[2]
  <2> HIDE DEF x, n
  <2>1. 1 \in 1..n + Len(tail) /\ 2 \in 1..n + Len(tail) /\ (2 <= n <=> n # 1) /\ Len(x) > 1
    BY <1>1
  <2>2. x[1] = IF 1 <= n THEN head[1] ELSE tail[1 - n]
    BY <1>1, <2>1
  <2>3. x[2] = IF 2 <= n THEN head[2] ELSE tail[2 - n]
    BY <1>1, <2>1
  <2>4. n = 1 => 2 - n = 1
    OBVIOUS
  <2> QED
    BY <1>1, <2>1, <2>2, <2>3, <2>4
<1>3. mid \in {"None", "Newline", "LineFeedAfterCr"}
  BY DEF SkipAfter
<1>4. /\ first.text = SubSeq(head, d + 1, n) /\ first.skip = mid /\ d \in 0..n
      /\ whole.text = SubSeq(x, Dropped(skip, x) + 1, Len(x)) /\ whole.skip = SkipAfter(skip, x)
      /\ Dropped(skip, x) \in 0..Len(x)
  BY <1>0, <1>1, SkipDrops
<1>5. second.text = SubSeq(tail, e + 1, Len(tail)) /\ second.skip = SkipAfter(mid, tail) /\ e \in 0..Len(tail)
  BY <1>0, <1>3, <1>4, SkipDrops
<1> HIDE DEF x, n
<1>6. whole.skip = "None" /\ second.skip = "None"
  <2>1. Len(x) # 1
    BY <1>2
  <2>2. whole.skip = "None"
    BY <1>4, <2>1 DEF SkipAfter
  <2>3. mid # "Newline"
    BY DEF SkipAfter
  <2>4. second.skip = "None"
    BY <1>5, <2>3 DEF SkipAfter
  <2> QED
    BY <2>2, <2>4
<1>7. CASE mid = "None"
  <2>1. e = 0
    BY <1>7 DEF Dropped
  <2>2. second.text = tail
    BY <1>5, <2>1, WholeSuffix
  <2>3. Dropped(skip, x) = d
    <3>1. ~ (skip = "Newline" /\ head[1] = "cr" /\ n = 1)
      BY <1>7 DEF SkipAfter, n
    <3>2. n # 1 => n > 1
      BY <1>1
    <3> QED
      BY <1>2, <3>1, <3>2 DEF Dropped, n
  <2>4. whole.text = first.text \o tail
    BY <1>4, <2>3, SuffixInTwo DEF x, n
  <2> QED
    BY <1>4, <1>6, <1>7, <2>2, <2>4 DEF SkipAgrees
<1>8. CASE mid # "None"
  <2>1. skip = "Newline" /\ head[1] = "cr" /\ n = 1 /\ mid = "LineFeedAfterCr"
    BY <1>8 DEF SkipAfter, n
  <2>2. d = 1 /\ first.text = <<>>
    <3>1. d = 1
      BY <2>1 DEF Dropped, n
    <3> QED
      BY <1>4, <2>1, <3>1, SubSeqEmpty
  <2>3. second.text \in Seq(Strings)
    BY <1>5, SuffixEntries
  <2>4. first.text \o second.text = second.text
    BY <2>2, <2>3, ConcatEmptySeq
  <2>5. Dropped(skip, x) = 1 + e
    BY <1>2, <2>1 DEF Dropped
  <2>6. whole.text = second.text
    <3>1. Dropped(skip, x) + 1 = n + e + 1
      <4> HIDE DEF e
      <4> QED
        BY <1>5, <2>1, <2>5
    <3>2. whole.text = SubSeq(x, n + e + 1, Len(x))
      BY <1>4, <3>1
    <3> QED
      BY <1>5, <3>2, SuffixAcross DEF x, n
  <2> QED
    BY <1>6, <2>2, <2>4, <2>6 DEF SkipAgrees
<1> QED
  BY <1>7, <1>8

\* Inserted text leaves the fields that say what is held back.
LEMMA TextKeeps ==
  ASSUME NEW c, Sound(c), NEW content \in Seq(Strings), NEW foster, NEW r, r = InsertText(c, content, foster)
  PROVE  r.pending = c.pending /\ r.foster_run = c.foster_run /\ r.newline_skip = c.newline_skip
<1> DEFINE location == LocationFor(c, foster)
<1>1. LocationOK(c, location) /\ Decoded(content) \in Seq(Strings)
  BY LocatedFor, DecodedType
<1> QED
  BY <1>1, TextLeaves DEF InsertText

\* Text fostered, and in place.
Fostered(c, content) == InsertText(c, content, TRUE)
InPlace(c, content)  == InsertText(c, content, FALSE)

\* Either, in one piece or in two.
LEMMA InsertedInTwo ==
  ASSUME NEW c, Sound(c), NEW head \in Seq(Strings), NEW tail \in Seq(Strings)
  PROVE  /\ Fostered(Fostered(c, head), tail) = Fostered(c, head \o tail)
         /\ InPlace(InPlace(c, head), tail) = InPlace(c, head \o tail)
<1> DEFINE yes == TRUE
           no == FALSE
<1> HIDE DEF yes, no
<1>1. InsertText(InsertText(c, head, yes), tail, yes) = InsertText(c, head \o tail, yes)
  BY TextWhereverInTwo
<1>2. InsertText(InsertText(c, head, no), tail, no) = InsertText(c, head \o tail, no)
  BY TextWhereverInTwo
<1> QED
  BY <1>1, <1>2 DEF yes, no, Fostered, InPlace

\* Either leaves the stack, the place of comments and what is held back.
LEMMA InsertedKeeps ==
  ASSUME NEW c, Sound(c), NEW content \in Seq(Strings), NEW r, r \in {Fostered(c, content), InPlace(c, content)}
  PROVE  /\ KeepsStack(r, c)
         /\ r.pending = c.pending /\ r.foster_run = c.foster_run /\ r.newline_skip = c.newline_skip
<1> DEFINE yes == TRUE
           no == FALSE
<1> HIDE DEF yes, no
<1>1. r = InsertText(c, content, yes) \/ r = InsertText(c, content, no)
  BY DEF yes, no, Fostered, InPlace
<1>2. ASSUME NEW foster, r = InsertText(c, content, foster)
      PROVE  /\ KeepsStack(r, c)
             /\ r.pending = c.pending /\ r.foster_run = c.foster_run /\ r.newline_skip = c.newline_skip
  BY <1>2, TextKeeps, InsertTextOK
<1> QED
  BY <1>1, <1>2

\* How text in a table is handled.
LEMMA TableTextCases ==
  ASSUME NEW c, NEW content, NEW run, run = [c EXCEPT !.foster_run = TRUE, !.pending = <<>>]
  PROVE  /\ c.foster_run => HandleTableText(c, content) = Fostered(c, content)
         /\ ~ c.foster_run /\ IsBlank(content)
              => HandleTableText(c, content) = [c EXCEPT !.pending = c.pending \o content]
         /\ ~ c.foster_run /\ ~ IsBlank(content)
              => HandleTableText(c, content) = Fostered(run, c.pending \o content)
BY DEF HandleTableText, Fostered

\* Text in a table, in one piece or in two: blanks are held back until the run decides.
LEMMA TableTextInTwo ==
  ASSUME NEW c, Sound(c), NEW head \in Seq(Strings), NEW tail \in Seq(Strings)
  PROVE  HandleTableText(HandleTableText(c, head), tail) = HandleTableText(c, head \o tail)
<1> DEFINE r == HandleTableText(c, head)
           whole == head \o tail
           run == [c EXCEPT !.foster_run = TRUE, !.pending = <<>>]
           held == c.pending
           text == held \o head
<1>1. c \in Builder /\ held \in Seq(Strings) /\ whole \in Seq(Strings) /\ c.foster_run \in BOOLEAN
  BY BuilderFields DEF Sound
<1>2. IsBlank(whole) <=> IsBlank(head) /\ IsBlank(tail)
  BY BlankInTwo
<1> HIDE DEF held
<1>3. text \in Seq(Strings) /\ text \o tail = held \o whole
  <2>1. text \in Seq(Strings)
    BY <1>1
  <2>2. text \o tail = held \o whole
    BY <1>1, ConcatAssociative
  <2> QED
    BY <2>1, <2>2
<1> HIDE DEF whole, text
<1>4. Sound(run) /\ run.foster_run = TRUE
  <2>1. <<>> \in Seq(Strings)
    OBVIOUS
  <2>2. run.foster_run = TRUE
    BY <1>1 DEF Builder
  <2> QED
    BY <2>1, <2>2, SoundRun DEF KeepsStack
<1> HIDE DEF run, r
<1>5. CASE c.foster_run
  <2>1. r = Fostered(c, head)
    BY <1>5, TableTextCases DEF r
  <2>2. HandleTableText(c, whole) = Fostered(c, whole)
    BY <1>5, TableTextCases
  <2>3. r.foster_run = c.foster_run
    BY <2>1, InsertedKeeps
  <2>4. HandleTableText(r, tail) = Fostered(r, tail)
    BY <1>5, <2>3, TableTextCases
  <2>5. Fostered(Fostered(c, head), tail) = Fostered(c, whole)
    BY InsertedInTwo DEF whole
  <2> QED
    BY <2>1, <2>2, <2>4, <2>5 DEF r, whole
<1>6. CASE ~ c.foster_run /\ IsBlank(head)
  <2>1. r = [c EXCEPT !.pending = text]
    BY <1>6, TableTextCases DEF r, held, text
  <2>2. r.foster_run = c.foster_run /\ r.pending = text
    BY <1>1, <1>3, <2>1 DEF Builder
  <2>5. ~ r.foster_run
    BY <1>6, <2>2
  <2>3. CASE IsBlank(tail)
    <3>4. HandleTableText(r, tail) = [r EXCEPT !.pending = r.pending \o tail]
      BY <2>3, <2>5, TableTextCases
    <3>1. HandleTableText(r, tail) = [r EXCEPT !.pending = held \o whole]
      BY <1>3, <2>2, <3>4
    <3>2. HandleTableText(c, whole) = [c EXCEPT !.pending = held \o whole]
      BY <1>2, <1>6, <2>3, TableTextCases DEF held
    <3>3. [r EXCEPT !.pending = held \o whole] = [c EXCEPT !.pending = held \o whole]
      BY <1>1, <1>3, <2>1 DEF Builder
    <3> QED
      BY <3>1, <3>2, <3>3 DEF r, whole
  <2>4. CASE ~ IsBlank(tail)
    <3>1. [r EXCEPT !.foster_run = TRUE, !.pending = <<>>] = run
      BY <1>1, <1>3, <2>1 DEF Builder, run
    <3>4. HandleTableText(r, tail) = Fostered([r EXCEPT !.foster_run = TRUE, !.pending = <<>>], r.pending \o tail)
      BY <2>4, <2>5, TableTextCases
    <3>2. HandleTableText(r, tail) = Fostered(run, text \o tail)
      BY <2>2, <3>1, <3>4
    <3>3. HandleTableText(c, whole) = Fostered(run, held \o whole)
      BY <1>2, <1>6, <2>4, TableTextCases DEF run, held
    <3> QED
      BY <1>3, <3>2, <3>3 DEF r, whole
  <2> QED
    BY <2>3, <2>4
<1>7. CASE ~ c.foster_run /\ ~ IsBlank(head)
  <2>1. r = Fostered(run, text)
    BY <1>7, TableTextCases DEF r, run, held, text
  <2>2. HandleTableText(c, whole) = Fostered(run, held \o whole)
    BY <1>2, <1>7, TableTextCases DEF run, held
  <2>3. r.foster_run = run.foster_run
    BY <1>3, <1>4, <2>1, InsertedKeeps
  <2>4. HandleTableText(r, tail) = Fostered(r, tail)
    BY <1>4, <2>3, TableTextCases
  <2>5. Fostered(Fostered(run, text), tail) = Fostered(run, text \o tail)
    BY <1>3, <1>4, InsertedInTwo
  <2> QED
    BY <1>3, <2>1, <2>2, <2>4, <2>5 DEF r, whole
<1> QED
  BY <1>1, <1>5, <1>6, <1>7

\* Text whose column group, if any, was left, in one piece or in two.
LEMMA SettledTextInTwo ==
  ASSUME NEW c, Sound(c), NEW head \in Seq(Strings), NEW tail \in Seq(Strings)
  PROVE  HandleSettledText(HandleSettledText(c, head), tail) = HandleSettledText(c, head \o tail)
<1> DEFINE r == HandleSettledText(c, head)
<1>1. r.open = c.open
  BY SettledTextOK DEF KeepsStack
<1>2. CASE CurrentNodeIsTablePart(c.open)
  <2>1. r = HandleTableText(c, head) /\ HandleSettledText(c, head \o tail) = HandleTableText(c, head \o tail)
    BY <1>2 DEF HandleSettledText
  <2> HIDE DEF r
  <2>2. HandleSettledText(r, tail) = HandleTableText(r, tail)
    BY <1>1, <1>2 DEF HandleSettledText
  <2> QED
    BY <2>1, <2>2, TableTextInTwo DEF r
<1>3. CASE ~ CurrentNodeIsTablePart(c.open)
  <2>1. r = InPlace(c, head) /\ HandleSettledText(c, head \o tail) = InPlace(c, head \o tail)
    BY <1>3 DEF HandleSettledText, InPlace
  <2> HIDE DEF r
  <2>2. HandleSettledText(r, tail) = InPlace(r, tail)
    BY <1>1, <1>3 DEF HandleSettledText, InPlace
  <2> QED
    BY <2>1, <2>2, InsertedInTwo DEF r
<1> QED
  BY <1>2, <1>3

\* A mode of columns needs a column group that no other part of a table is open in.
LEMMA ColumnsWhenOutside ==
  ASSUME NEW o, StackOK(o, OpenEntry), OutsideColumns(o.stack, Len(o.stack))
  PROVE  o.mode # "InColumnGroup"
<1> DEFINE s == o.stack
           n == Len(s)
<1>1. n \in Nat /\ n \in 1..n
  BY DEF StackOK, StackType, Rooted
<1>2. IsModeAt(s, n, o.mode)
  BY <1>1 DEF StackOK, CachesAgree, Top
<1>3. OutsideColumns(s, n)
  OBVIOUS
<1> HIDE DEF n
<1>4. SUFFICES ASSUME o.mode = "InColumnGroup" PROVE FALSE
  OBVIOUS
<1>5. PICK i \in 1..n : /\ s[i].kind \in ModeKinds /\ ModeOf[s[i].kind] = "InColumnGroup"
                        /\ \A m \in i + 1 .. n : s[m].kind \notin ModeKinds
  BY <1>2, <1>4 DEF IsModeAt
<1>6. s[i].kind = "ColGroup"
  BY <1>5 DEF ModeKinds, ModeOf
<1> QED
  BY <1>3, <1>5, <1>6 DEF OutsideColumns

\* Leaving the column group ends the mode: it is in no other one.
LEMMA LeftColumns ==
  ASSUME NEW c, Sound(c), IsCurrentKind(c.open, "ColGroup"), NEW o, o = PopOpenElement(c.open)
  PROVE  Shrinks(o, c.open, OpenEntry) /\ o.mode # "InColumnGroup"
<1> DEFINE s == c.open.stack
           n == Len(s)
<1>1. StackOK(c.open, OpenEntry) /\ n > 1 /\ s[n].kind = "ColGroup" /\ n \in Nat
  BY SoundStack DEF Sound, IsCurrentKind, Top
<1>2. Shrinks(o, c.open, OpenEntry)
  BY <1>1, PopShrinks, OpenEntries
<1>3. Len(o.stack) = n - 1
  <2>1. o = TruncateStack(c.open, n - 1)
    BY <1>1, PopIsTruncation, OpenEntries
  <2>2. n - 1 \in Int /\ n - 1 \in 1..n
    BY <1>1
  <2> QED
    BY <1>1, <2>1, <2>2, TruncateOK, OpenEntries
<1>4. OutsideColumns(s, n - 1)
  <2>1. PICK h : Grounded(c.nodes, s, h)
    BY DEF Sound, TreeOK
  <2>2. n \in 1..n
    BY <1>1
  <2>3. InTableAt(s, n)
    BY <2>1, <2>2 DEF Grounded, Branch
  <2> QED
    BY <1>1, <2>3 DEF InTableAt
<1>5. OutsideColumns(o.stack, Len(o.stack))
  <2> DEFINE m == n - 1
  <2>1. m \in Nat /\ \A i \in 1..m : o.stack[i] = s[i]
    BY <1>1, <1>2, <1>3 DEF Shrinks
  <2>2. OutsideColumns(s, m) /\ Len(o.stack) = m
    BY <1>3, <1>4
  <2> HIDE DEF m
  <2>3. ASSUME NEW j \in 1..m, o.stack[j].kind = "ColGroup"
        PROVE  \E k \in j + 1 .. m : o.stack[k].kind \in ModeKinds
    <3>1. PICK k \in j + 1 .. m : s[k].kind \in ModeKinds
      BY <2>1, <2>2, <2>3 DEF OutsideColumns
    <3>2. k \in 1..m
      BY <2>1
    <3> QED
      BY <2>1, <3>1, <3>2
  <2> QED
    BY <2>2, <2>3 DEF OutsideColumns
<1>6. o.mode # "InColumnGroup"
  BY <1>2, <1>5, ColumnsWhenOutside DEF Shrinks
<1> QED
  BY <1>2, <1>6

\* The position of the first character that is not blank, and the blanks before it.
Leading(x) == FirstOf({i \in 1..Len(x) : x[i] \notin Whitespace})

Blanks(x) == IF Leading(x) = 0 THEN x ELSE SubSeq(x, 1, Leading(x) - 1)

\* It is there, unless all of the text is blank.
LEMMA LeadingPosition ==
  ASSUME NEW x \in Seq(Strings)
  PROVE  /\ Leading(x) \in 0..Len(x)
         /\ Leading(x) = 0 <=> IsBlank(x)
         /\ Leading(x) # 0 => /\ x[Leading(x)] \notin Whitespace
                              /\ \A i \in 1..Leading(x) - 1 : x[i] \in Whitespace
<1> DEFINE n == Len(x)
           hits == {i \in 1..n : x[i] \notin Whitespace}
           at == Leading(x)
<1>1. n \in Nat /\ hits \subseteq 1..n
  OBVIOUS
<1>2. at = FirstOf(hits)
  BY DEF Leading
<1> HIDE DEF n, hits, at
<1>3. at \in 0..n /\ (at # 0 => at \in hits) /\ \A i \in hits : at <= i
  BY <1>1, <1>2, FirstOfPosition
<1>4. at = 0 <=> hits = {}
  <2>1. ASSUME hits # {} PROVE at \in hits
    <3>1. hits \subseteq Nat
      BY <1>1
    <3>2. \E i \in hits : \A j \in hits : i <= j
      BY <2>1, <3>1, LeastElement
    <3> QED
      BY <1>2, <2>1, <3>2 DEF FirstOf
  <2>2. 0 \notin hits
    BY <1>1
  <2> QED
    BY <1>3, <2>1, <2>2
<1>5. hits = {} <=> IsBlank(x)
  BY DEF hits, n, IsBlank
<1>6. at # 0 => x[at] \notin Whitespace
  BY <1>3 DEF hits
<1>7. ASSUME at # 0, NEW i \in 1..at - 1 PROVE x[i] \in Whitespace
  <2>1. i \in 1..n /\ ~ (at <= i)
    BY <1>1, <1>3, <1>7
  <2> QED
    BY <1>3, <2>1 DEF hits
<1> QED
  BY <1>3, <1>4, <1>5, <1>6, <1>7 DEF at, n

\* The first character that is not blank is the only one with that position.
LEMMA LeadingIs ==
  ASSUME NEW x \in Seq(Strings), NEW k \in 1..Len(x), x[k] \notin Whitespace,
         \A i \in 1..k - 1 : x[i] \in Whitespace
  PROVE  Leading(x) = k
<1> DEFINE at == Leading(x)
<1>1. ~ IsBlank(x)
  BY DEF IsBlank
<1>2. at \in 1..Len(x) /\ x[at] \notin Whitespace /\ \A i \in 1..at - 1 : x[i] \in Whitespace
  BY <1>1, LeadingPosition
<1> HIDE DEF at
<1>3. ~ (at < k)
  <2>1. at < k => at \in 1..k - 1
    BY <1>2
  <2> QED
    BY <1>2, <2>1
<1>4. ~ (k < at)
  <2>1. k < at => k \in 1..at - 1
    BY <1>2
  <2> QED
    BY <1>2, <2>1
<1>5. at \in Int /\ k \in Int
  BY <1>2
<1> QED
  BY <1>3, <1>4, <1>5 DEF at

\* The text from the first character that is not blank.
FromLeading(x) == SubSeq(x, Leading(x), Len(x))

\* A text that is not blank, in these two pieces.
LEMMA LeadingParts ==
  ASSUME NEW x \in Seq(Strings), ~ IsBlank(x)
  PROVE  /\ Blanks(x) \in Seq(Strings) /\ FromLeading(x) \in Seq(Strings)
         /\ Blanks(x) \o FromLeading(x) = x /\ FromLeading(x) # <<>>
<1> DEFINE k == Leading(x)
           d == k - 1
<1>1. k \in 1..Len(x)
  BY LeadingPosition
<1>2. d \in 0..Len(x) /\ d + 1 = k /\ Len(x) - d > 0
  BY <1>1
<1>3. Blanks(x) = SubSeq(x, 1, d)
  BY <1>1 DEF Blanks
<1>4. FromLeading(x) = SubSeq(x, d + 1, Len(x))
  BY <1>2 DEF FromLeading
<1> HIDE DEF k, d
<1>5. SubSeq(x, 1, d) \in Seq(Strings) /\ SubSeq(x, 1, d) \o SubSeq(x, d + 1, Len(x)) = x
  BY <1>2, Parted
<1>6. SubSeq(x, d + 1, Len(x)) \in Seq(Strings) /\ Len(SubSeq(x, d + 1, Len(x))) = Len(x) - d
  BY <1>2, SuffixEntries
<1>7. FromLeading(x) # <<>>
  <2> DEFINE y == SubSeq(x, d + 1, Len(x))
  <2>1. Len(<<>>) = 0
    OBVIOUS
  <2>2. Len(y) > 0
    BY <1>2, <1>6
  <2> HIDE DEF y
  <2>3. y # <<>>
    BY <2>1, <2>2
  <2> QED
    BY <1>4, <2>3 DEF y
<1> QED
  BY <1>3, <1>4, <1>5, <1>6, <1>7

\* Three pieces, joined in either order.
LEMMA JoinedAlike ==
  ASSUME NEW S, NEW x \in Seq(S), NEW y \in Seq(S), NEW z \in Seq(S)
  PROVE  (x \o y) \o z = x \o (y \o z)
BY ConcatAssociative

\* What stands before the same end.
LEMMA SameBefore ==
  ASSUME NEW S, NEW x \in Seq(S), NEW y \in Seq(S), NEW z \in Seq(S), x \o z = y \o z
  PROVE  x = y
BY ConcatSimplifications

\* The pieces of a text that comes in two: its first character that is not blank is in one
\* of them.
LEMMA LeadingInTwo ==
  ASSUME NEW head \in Seq(Strings), NEW tail \in Seq(Strings), NEW whole, whole = head \o tail
  PROVE  /\ ~ IsBlank(head) => /\ Blanks(whole) = Blanks(head)
                               /\ FromLeading(whole) = FromLeading(head) \o tail
         /\ IsBlank(head) /\ ~ IsBlank(tail)
              => Blanks(whole) = head \o Blanks(tail) /\ FromLeading(whole) = FromLeading(tail)
<1>1. /\ whole \in Seq(Strings) /\ Len(whole) = Len(head) + Len(tail)
      /\ \A i \in 1..Len(head) : whole[i] = head[i]
      /\ \A i \in 1..Len(tail) : whole[Len(head) + i] = tail[i]
  OBVIOUS
<1>4. ~ IsBlank(whole) <=> ~ IsBlank(head) \/ ~ IsBlank(tail)
  BY BlankInTwo
<1>2. ASSUME ~ IsBlank(head)
      PROVE  Blanks(whole) = Blanks(head) /\ FromLeading(whole) = FromLeading(head) \o tail
  <2> DEFINE k == Leading(head)
             d == k - 1
  <2>1. /\ k \in 1..Len(head) /\ head[k] \notin Whitespace
        /\ \A i \in 1..k - 1 : head[i] \in Whitespace
    BY <1>2, LeadingPosition
  <2>2. d \in 0..Len(head) /\ d + 1 = k /\ k \in 1..Len(whole)
    BY <1>1, <2>1
  <2> HIDE DEF k, d
  <2>3. Leading(whole) = k
    <3>1. whole[k] \notin Whitespace
      BY <1>1, <2>1
    <3>2. ASSUME NEW i \in 1..k - 1 PROVE whole[i] \in Whitespace
      <4>1. i \in 1..Len(head)
        BY <2>1
      <4> QED
        BY <1>1, <2>1, <4>1
    <3> QED
      BY <1>1, <2>2, <3>1, <3>2, LeadingIs
  <2>4. FromLeading(whole) = FromLeading(head) \o tail
    <3>1. SubSeq(head \o tail, d + 1, Len(head \o tail)) = SubSeq(head, d + 1, Len(head)) \o tail
      BY <2>2, SuffixInTwo
    <3>2. FromLeading(whole) = SubSeq(head \o tail, d + 1, Len(head \o tail))
      BY <2>2, <2>3 DEF FromLeading
    <3>3. FromLeading(head) = SubSeq(head, d + 1, Len(head))
      BY <2>2 DEF FromLeading, k
    <3> QED
      BY <3>1, <3>2, <3>3
  <2>5. Blanks(whole) = Blanks(head)
    <3>1. Blanks(whole) \o FromLeading(whole) = Blanks(head) \o FromLeading(whole)
      <4>1. Blanks(whole) \o FromLeading(whole) = head \o tail
        BY <1>1, <1>4, <1>2, LeadingParts
      <4>2. (Blanks(head) \o FromLeading(head)) \o tail = Blanks(head) \o (FromLeading(head) \o tail)
        <5>1. Blanks(head) \in Seq(Strings) /\ FromLeading(head) \in Seq(Strings)
          BY <1>2, LeadingParts
        <5> QED
          BY <5>1, JoinedAlike
      <4> QED
        BY <1>2, <2>4, <4>1, <4>2, LeadingParts
    <3> QED
      BY <1>1, <1>2, <1>4, <3>1, LeadingParts, SameBefore
  <2> QED
    BY <2>4, <2>5
<1>3. ASSUME IsBlank(head), ~ IsBlank(tail)
      PROVE  Blanks(whole) = head \o Blanks(tail) /\ FromLeading(whole) = FromLeading(tail)
  <2> DEFINE k == Leading(tail)
             e == k - 1
             n == Len(head)
  <2>1. /\ k \in 1..Len(tail) /\ tail[k] \notin Whitespace
        /\ \A i \in 1..k - 1 : tail[i] \in Whitespace
    BY <1>3, LeadingPosition
  <2>2. e \in 0..Len(tail) /\ e + 1 = k /\ n \in Nat /\ n + k \in 1..Len(whole) /\ n + e + 1 = n + k
    BY <1>1, <2>1
  <2> HIDE DEF k, e
  <2>3. Leading(whole) = n + k
    <3>1. whole[n + k] \notin Whitespace
      BY <1>1, <2>1
    <3>2. ASSUME NEW i \in 1..n + k - 1 PROVE whole[i] \in Whitespace
      <4>1. CASE i \in 1..n
        BY <1>1, <1>3, <4>1 DEF IsBlank
      <4>2. CASE i \notin 1..n
        <5>1. i - n \in 1..k - 1 /\ i - n \in 1..Len(tail) /\ i = n + (i - n)
          BY <2>1, <2>2, <4>2
        <5>2. whole[i] = tail[i - n]
          BY <1>1, <5>1
        <5> QED
          BY <2>1, <5>1, <5>2
      <4> QED
        BY <4>1, <4>2
    <3> DEFINE at == n + k
    <3>3. at \in 1..Len(whole) /\ whole[at] \notin Whitespace /\ \A i \in 1..at - 1 : whole[i] \in Whitespace
      BY <2>2, <3>1, <3>2
    <3> HIDE DEF at
    <3>4. Leading(whole) = at
      BY <1>1, <3>3, LeadingIs
    <3> QED
      BY <3>4 DEF at
  <2>4. FromLeading(whole) = FromLeading(tail)
    <3>1. SubSeq(head \o tail, Len(head) + e + 1, Len(head \o tail)) = SubSeq(tail, e + 1, Len(tail))
      BY <2>2, SuffixAcross
    <3>2. FromLeading(whole) = SubSeq(head \o tail, Len(head) + e + 1, Len(head \o tail))
      BY <2>2, <2>3 DEF FromLeading
    <3>3. FromLeading(tail) = SubSeq(tail, e + 1, Len(tail))
      BY <2>2 DEF FromLeading, k
    <3> QED
      BY <3>1, <3>2, <3>3
  <2>5. Blanks(whole) = head \o Blanks(tail)
    <3>1. Blanks(whole) \o FromLeading(tail) = (head \o Blanks(tail)) \o FromLeading(tail)
      <4>1. Blanks(whole) \o FromLeading(whole) = head \o tail
        BY <1>1, <1>3, <1>4, LeadingParts
      <4>2. (head \o Blanks(tail)) \o FromLeading(tail) = head \o (Blanks(tail) \o FromLeading(tail))
        <5>1. Blanks(tail) \in Seq(Strings) /\ FromLeading(tail) \in Seq(Strings)
          BY <1>3, LeadingParts
        <5>2. \A y, z \in Seq(Strings) : (head \o y) \o z = head \o (y \o z)
          BY JoinedAlike
        <5> QED
          BY <5>1, <5>2
      <4> QED
        BY <1>3, <2>4, <4>1, <4>2, LeadingParts
    <3>2. Blanks(whole) \in Seq(Strings) /\ head \o Blanks(tail) \in Seq(Strings) /\ FromLeading(tail) \in Seq(Strings)
      <4>1. Blanks(tail) \in Seq(Strings) /\ FromLeading(tail) \in Seq(Strings)
        BY <1>3, LeadingParts
      <4>2. Blanks(whole) \in Seq(Strings)
        BY <1>1, <1>3, <1>4, LeadingParts
      <4> QED
        BY <4>1, <4>2
    <3> QED
      BY <3>1, <3>2, SameBefore
  <2> QED
    BY <2>4, <2>5
<1> QED
  BY <1>2, <1>3

\* Text in place, unless there is none.
Led(c, x) == IF x = <<>> THEN c ELSE InPlace(c, x)

\* It keeps what InPlace keeps, and does not mind the pieces.
LEMMA LedKeeps ==
  ASSUME NEW c, Sound(c), NEW x \in Seq(Strings), NEW r, r = Led(c, x)
  PROVE  KeepsStack(r, c) /\ r.newline_skip = c.newline_skip
<1>1. CASE x = <<>>
  BY <1>1, KeepsStackReflexive DEF Led
<1>2. CASE x # <<>>
  BY <1>2, InsertedKeeps DEF Led
<1> QED
  BY <1>1, <1>2

\* In one piece or in two.
LEMMA LedInTwo ==
  ASSUME NEW c, Sound(c), NEW head \in Seq(Strings), NEW tail \in Seq(Strings)
  PROVE  Led(Led(c, head), tail) = Led(c, head \o tail)
<1> DEFINE whole == head \o tail
<1>1. CASE head = <<>>
  <2>1. whole = tail
    BY <1>1, ConcatEmptySeq
  <2> HIDE DEF whole
  <2>2. Led(c, head) = c
    BY <1>1 DEF Led
  <2> QED
    BY <2>1, <2>2 DEF whole
<1>2. CASE tail = <<>>
  <2>1. whole = head
    BY <1>2, ConcatEmptySeq
  <2> HIDE DEF whole
  <2>2. Led(Led(c, head), tail) = Led(c, head)
    BY <1>2 DEF Led
  <2> QED
    BY <2>1, <2>2 DEF whole
<1>3. CASE head # <<>> /\ tail # <<>>
  <2>1. whole # <<>>
    BY <1>3, ConcatSimplifications
  <2>2. InPlace(InPlace(c, head), tail) = InPlace(c, whole)
    BY InsertedInTwo
  <2> HIDE DEF whole
  <2>3. Led(c, head) = InPlace(c, head) /\ Led(c, whole) = InPlace(c, whole)
        /\ Led(Led(c, head), tail) = InPlace(Led(c, head), tail)
    BY <1>3, <2>1 DEF Led
  <2> QED
    BY <2>2, <2>3 DEF whole
<1> QED
  BY <1>1, <1>2, <1>3

\* Text in a column group: its blanks stay there.
LEMMA ColumnGroupTextCases ==
  ASSUME NEW c, NEW x \in Seq(Strings)
  PROVE  /\ IsBlank(x) => HandleColumnGroupText(c, x) = Led(c, x)
         /\ ~ IsBlank(x)
              => HandleColumnGroupText(c, x) = LeaveColumnGroup(Led(c, Blanks(x)), FromLeading(x))
<1>1. HandleColumnGroupText(c, x)
        = IF Leading(x) = 0 THEN Led(c, Blanks(x)) ELSE LeaveColumnGroup(Led(c, Blanks(x)), FromLeading(x))
  BY DEF HandleColumnGroupText, Led, InPlace, Blanks, FromLeading, Leading
<1>2. Leading(x) = 0 <=> IsBlank(x)
  BY LeadingPosition
<1>3. Leading(x) = 0 => Blanks(x) = x
  BY DEF Blanks
<1> QED
  BY <1>1, <1>2, <1>3

\* With the column group left behind, or never the current node, the mode does not matter.
LEMMA NotInColumnGroup ==
  ASSUME NEW c, Sound(c), ~ IsCurrentKind(c.open, "ColGroup"), NEW x \in Seq(Strings)
  PROVE  HandleColumnGroupText(c, x) = Led(c, x)
<1>1. CASE IsBlank(x)
  BY <1>1, ColumnGroupTextCases
<1>2. CASE ~ IsBlank(x)
  <2> DEFINE y == Blanks(x)
             z == FromLeading(x)
             p == Led(c, y)
  <2>1. y \in Seq(Strings) /\ z \in Seq(Strings) /\ y \o z = x /\ z # <<>>
    BY <1>2, LeadingParts
  <2>2. HandleColumnGroupText(c, x) = LeaveColumnGroup(p, z)
    BY <1>2, ColumnGroupTextCases
  <2> HIDE DEF y, z
  <2>3. p.open = c.open
    BY <2>1, LedKeeps DEF KeepsStack
  <2>4. LeaveColumnGroup(p, z) = InPlace(p, z)
    BY <2>3 DEF LeaveColumnGroup, InPlace
  <2>5. InPlace(p, z) = Led(p, z)
    BY <2>1 DEF Led
  <2>6. Led(p, z) = Led(c, y \o z)
    BY <2>1, LedInTwo
  <2> QED
    BY <2>1, <2>2, <2>4, <2>5, <2>6
<1> QED
  BY <1>1, <1>2

\* Text, wherever the parser is.
PlacedText(c, x) == IF c.open.mode = "InColumnGroup" THEN HandleColumnGroupText(c, x) ELSE HandleSettledText(c, x)

\* Leaving the column group for the first piece leaves it for both.
LEMMA LeftInTwo ==
  ASSUME NEW p, Sound(p), NEW head \in Seq(Strings), head # <<>>, NEW tail \in Seq(Strings),
         NEW r, r = LeaveColumnGroup(p, head), p.open.mode = "InColumnGroup"
  PROVE  PlacedText(r, tail) = LeaveColumnGroup(p, head \o tail)
<1>1. CASE IsCurrentKind(p.open, "ColGroup")
  <2> DEFINE o == PopOpenElement(p.open)
             q == [p EXCEPT !.open = o]
  <2>1. Shrinks(o, p.open, OpenEntry) /\ o.mode # "InColumnGroup"
    BY <1>1, LeftColumns
  <2>2. r = HandleSettledText(q, head) /\ LeaveColumnGroup(p, head \o tail) = HandleSettledText(q, head \o tail)
    BY <1>1 DEF LeaveColumnGroup
  <2> HIDE DEF o
  <2>3. Sound(q)
    BY <2>1, SoundOpen
  <2>4. q.open = o
    BY DEF Sound, Builder
  <2> HIDE DEF q
  <2>5. r.open = o
    BY <2>2, <2>3, <2>4, SettledTextOK DEF KeepsStack
  <2>6. PlacedText(r, tail) = HandleSettledText(r, tail)
    BY <2>1, <2>5 DEF PlacedText
  <2> QED
    BY <2>2, <2>3, <2>6, SettledTextInTwo
<1>2. CASE ~ IsCurrentKind(p.open, "ColGroup")
  <2> DEFINE whole == head \o tail
  <2>1. whole # <<>> /\ whole \in Seq(Strings)
    BY ConcatSimplifications
  <2>2. Led(Led(p, head), tail) = Led(p, whole)
    BY LedInTwo
  <2> HIDE DEF whole
  <2>3. r = Led(p, head) /\ LeaveColumnGroup(p, whole) = Led(p, whole)
    BY <1>2, <2>1 DEF LeaveColumnGroup, Led, InPlace
  <2>4. Sound(r) /\ r.open = p.open
    BY <2>3, LedKeeps DEF KeepsStack
  <2>5. PlacedText(r, tail) = HandleColumnGroupText(r, tail)
    BY <2>4 DEF PlacedText
  <2>6. HandleColumnGroupText(r, tail) = Led(r, tail)
    BY <1>2, <2>4, NotInColumnGroup
  <2> QED
    BY <2>2, <2>3, <2>5, <2>6 DEF whole
<1> QED
  BY <1>1, <1>2

\* Text, wherever the parser is, in one piece or in two.
LEMMA PlacedTextInTwo ==
  ASSUME NEW c, Sound(c), NEW head \in Seq(Strings), NEW tail \in Seq(Strings)
  PROVE  PlacedText(PlacedText(c, head), tail) = PlacedText(c, head \o tail)
<1> DEFINE r == PlacedText(c, head)
           whole == head \o tail
<1>0. whole \in Seq(Strings)
  OBVIOUS
<1>1. CASE c.open.mode # "InColumnGroup"
  <2>1. r = HandleSettledText(c, head) /\ PlacedText(c, whole) = HandleSettledText(c, whole)
    BY <1>1 DEF PlacedText
  <2> HIDE DEF r
  <2>2. r.open = c.open
    BY <2>1, SettledTextOK DEF KeepsStack
  <2>3. PlacedText(r, tail) = HandleSettledText(r, tail)
    BY <1>1, <2>2 DEF PlacedText
  <2> QED
    BY <2>1, <2>3, SettledTextInTwo DEF r
<1>2. CASE c.open.mode = "InColumnGroup" /\ IsBlank(head)
  <2>1. r = Led(c, head) /\ PlacedText(c, whole) = HandleColumnGroupText(c, whole)
    BY <1>2, ColumnGroupTextCases DEF PlacedText
  <2> HIDE DEF r
  <2>2. r.open = c.open /\ Sound(r)
    BY <2>1, LedKeeps DEF KeepsStack
  <2>3. PlacedText(r, tail) = HandleColumnGroupText(r, tail)
    BY <1>2, <2>2 DEF PlacedText
  <2>4. IsBlank(whole) <=> IsBlank(tail)
    BY <1>2, BlankInTwo
  <2>5. CASE IsBlank(tail)
    <3>1. HandleColumnGroupText(r, tail) = Led(r, tail)
      BY <2>5, ColumnGroupTextCases
    <3>2. Led(Led(c, head), tail) = Led(c, whole)
      BY LedInTwo
    <3> HIDE DEF whole
    <3>3. HandleColumnGroupText(c, whole) = Led(c, whole)
      BY <1>0, <2>4, <2>5, ColumnGroupTextCases
    <3> QED
      BY <2>1, <2>3, <3>1, <3>2, <3>3 DEF r, whole
  <2>6. CASE ~ IsBlank(tail)
    <3> DEFINE y == Blanks(tail)
               z == FromLeading(tail)
    <3>1. y \in Seq(Strings) /\ HandleColumnGroupText(r, tail) = LeaveColumnGroup(Led(r, y), z)
      BY <2>6, LeadingParts, ColumnGroupTextCases
    <3>2. Blanks(whole) = head \o y /\ FromLeading(whole) = z
      BY <1>2, <2>6, LeadingInTwo
    <3> HIDE DEF y, z
    <3>3. Led(Led(c, head), y) = Led(c, head \o y)
      BY <3>1, LedInTwo
    <3> HIDE DEF whole
    <3>4. HandleColumnGroupText(c, whole) = LeaveColumnGroup(Led(c, Blanks(whole)), FromLeading(whole))
      BY <1>0, <2>4, <2>6, ColumnGroupTextCases
    <3> QED
      BY <2>1, <2>3, <3>1, <3>2, <3>3, <3>4 DEF r, whole
  <2> QED
    BY <2>5, <2>6
<1>3. CASE c.open.mode = "InColumnGroup" /\ ~ IsBlank(head)
  <2> DEFINE y == Blanks(head)
             z == FromLeading(head)
             p == Led(c, y)
  <2>1. y \in Seq(Strings) /\ z \in Seq(Strings) /\ z # <<>>
    BY <1>3, LeadingParts
  <2>2. r = LeaveColumnGroup(p, z)
    BY <1>3, ColumnGroupTextCases DEF PlacedText
  <2>3. PlacedText(c, whole) = HandleColumnGroupText(c, whole)
    BY <1>3 DEF PlacedText
  <2>4. Blanks(whole) = y /\ FromLeading(whole) = z \o tail
    BY <1>3, LeadingInTwo
  <2>5. ~ IsBlank(whole)
    BY <1>3, BlankInTwo
  <2> HIDE DEF whole, r, y, z
  <2>6. HandleColumnGroupText(c, whole) = LeaveColumnGroup(p, z \o tail)
    BY <1>0, <2>4, <2>5, ColumnGroupTextCases
  <2>7. Sound(p) /\ p.open = c.open
    BY <2>1, LedKeeps DEF KeepsStack
  <2> HIDE DEF p
  <2>8. PlacedText(r, tail) = LeaveColumnGroup(p, z \o tail)
    BY <1>3, <2>1, <2>2, <2>7, LeftInTwo
  <2> QED
    BY <2>3, <2>6, <2>8 DEF r, whole
<1> QED
  BY <1>1, <1>2, <1>3

\* The place of comments after the body, given up.
Forget(c) == [c EXCEPT !.after_body = NULL]

\* It says nothing else of a builder.
LEMMA ForgetOK ==
  ASSUME NEW c, Sound(c), NEW r, r = Forget(c)
  PROVE  /\ Sound(r) /\ r.nodes = c.nodes /\ r.open = c.open /\ r.last_text = c.last_text
         /\ r.pending = c.pending /\ r.foster_run = c.foster_run /\ r.newline_skip = c.newline_skip
<1>1. c \in Builder /\ NULL \in Nat
  BY DEF Sound, NULL
<1>2. /\ r \in Builder /\ r.nodes = c.nodes /\ r.stale = c.stale /\ r.open = c.open
      /\ r.after_body = NULL /\ r.last_text = c.last_text /\ r.flushed = c.flushed /\ r.ret = c.ret
      /\ r.pending = c.pending /\ r.foster_run = c.foster_run /\ r.newline_skip = c.newline_skip
  BY <1>1 DEF Builder, Forget
<1>3. r.ret \in Ids(c.nodes) \cup {NULL}
  BY <1>2 DEF Sound, Refers
<1>4. Sound(r)
  BY <1>2, <1>3, SoundFlags
<1> QED
  BY <1>2, <1>4

\* Text at a location does not depend on it.
LEMMA ForgetTextAt ==
  ASSUME NEW c, Sound(c), NEW content, NEW location
  PROVE  InsertTextAt(Forget(c), content, location) = Forget(InsertTextAt(c, content, location))
<1> DEFINE d == Forget(c)
<1>1. c \in Builder /\ d.nodes = c.nodes /\ d.last_text = c.last_text
  BY ForgetOK DEF Sound
<1>2. CoalescingNode(d, location) = CoalescingNode(c, location)
  BY <1>1 DEF CoalescingNode
<1> DEFINE x == CoalescingNode(c, location)
<1>3. CASE x = NULL
  <2> DEFINE n == Len(c.nodes) + 1
             depth == c.nodes[location.parent].depth + 1
             nodes == LinkAt(Append(c.nodes, BlankNode("text", "", "none", content, depth)), n, location)
  <2>1. InsertTextAt(c, content, location) = [c EXCEPT !.nodes = nodes, !.last_text = n, !.ret = n]
    BY <1>3 DEF InsertTextAt, NewText
  <2>2. InsertTextAt(d, content, location) = [d EXCEPT !.nodes = nodes, !.last_text = n, !.ret = n]
    <3>1. InsertTextAt(d, content, location) = NewText(d, content, location)
      BY <1>2, <1>3 DEF InsertTextAt
    <3> HIDE DEF d
    <3> QED
      BY <1>1, <3>1 DEF NewText
  <2> HIDE DEF n, nodes
  <2>3. [d EXCEPT !.nodes = nodes, !.last_text = n, !.ret = n]
          = Forget([c EXCEPT !.nodes = nodes, !.last_text = n, !.ret = n])
    BY <1>1 DEF Builder, Forget
  <2> HIDE DEF d
  <2> QED
    BY <2>1, <2>2, <2>3, Zenon DEF d
<1>4. CASE x # NULL
  <2> DEFINE nodes == [c.nodes EXCEPT ![x].text = @ \o content]
  <2>1. InsertTextAt(c, content, location) = [c EXCEPT !.nodes = nodes, !.ret = x]
    <3>1. InsertTextAt(c, content, location) = [c EXCEPT !.nodes[x].text = @ \o content, !.ret = x]
      BY <1>4 DEF InsertTextAt
    <3> HIDE DEF x
    <3> QED
      BY <1>1, <3>1 DEF Builder
  <2>2. InsertTextAt(d, content, location) = [d EXCEPT !.nodes = nodes, !.ret = x]
    <3>1. InsertTextAt(d, content, location) = [d EXCEPT !.nodes[x].text = @ \o content, !.ret = x]
      BY <1>2, <1>4 DEF InsertTextAt
    <3>2. d \in Builder
      BY ForgetOK DEF Sound
    <3> HIDE DEF x, d
    <3> QED
      BY <1>1, <3>1, <3>2 DEF Builder
  <2> HIDE DEF x, nodes
  <2>3. [d EXCEPT !.nodes = nodes, !.ret = x] = Forget([c EXCEPT !.nodes = nodes, !.ret = x])
    BY <1>1 DEF Builder, Forget
  <2> HIDE DEF d
  <2> QED
    BY <2>1, <2>2, <2>3, Zenon DEF d
<1> QED
  BY <1>3, <1>4

\* Nor does where text goes.
LEMMA ForgetInserts ==
  ASSUME NEW c, Sound(c), NEW content
  PROVE  /\ Fostered(Forget(c), content) = Forget(Fostered(c, content))
         /\ InPlace(Forget(c), content) = Forget(InPlace(c, content))
<1> DEFINE yes == TRUE
           no == FALSE
           d == Forget(c)
<1>1. d.nodes = c.nodes /\ d.open = c.open
  BY ForgetOK
<1> HIDE DEF yes, no, d
<1>2. ASSUME NEW foster PROVE InsertText(d, content, foster) = Forget(InsertText(c, content, foster))
  <2>1. LocationFor(d, foster) = LocationFor(c, foster)
    BY <1>1 DEF LocationFor, FosterLocation, CurrentParent
  <2> QED
    BY <2>1, ForgetTextAt DEF InsertText, d
<1>3. InsertText(d, content, yes) = Forget(InsertText(c, content, yes))
      /\ InsertText(d, content, no) = Forget(InsertText(c, content, no))
  BY <1>2
<1> QED
  BY <1>3 DEF yes, no, d, Fostered, InPlace

\* Nor does text in a table.
LEMMA ForgetTableText ==
  ASSUME NEW c, Sound(c), NEW content \in Seq(Strings)
  PROVE  HandleTableText(Forget(c), content) = Forget(HandleTableText(c, content))
<1> DEFINE d == Forget(c)
           run == [c EXCEPT !.foster_run = TRUE, !.pending = <<>>]
           also == [d EXCEPT !.foster_run = TRUE, !.pending = <<>>]
<1>1. c \in Builder /\ d.pending = c.pending /\ d.foster_run = c.foster_run
  BY ForgetOK DEF Sound
<1>2. also = Forget(run) /\ Sound(run)
  <2>1. <<>> \in Seq(Strings)
    OBVIOUS
  <2>2. Sound(run)
    BY <1>1, <2>1, SoundRun DEF KeepsStack
  <2>3. also = Forget(run)
    BY <1>1 DEF Builder, Forget
  <2> QED
    BY <2>2, <2>3
<1> HIDE DEF d, run, also
<1>3. CASE c.foster_run
  <2>1. HandleTableText(c, content) = Fostered(c, content) /\ HandleTableText(d, content) = Fostered(d, content)
    BY <1>1, <1>3, TableTextCases
  <2> QED
    BY <2>1, ForgetInserts DEF d
<1>4. CASE ~ c.foster_run /\ IsBlank(content)
  <2> DEFINE held == c.pending \o content
  <2>1. HandleTableText(c, content) = [c EXCEPT !.pending = held]
        /\ HandleTableText(d, content) = [d EXCEPT !.pending = held]
    BY <1>1, <1>4, TableTextCases
  <2> HIDE DEF held
  <2>2. [d EXCEPT !.pending = held] = Forget([c EXCEPT !.pending = held])
    BY <1>1 DEF d, Builder, Forget
  <2> QED
    BY <2>1, <2>2, Zenon DEF d
<1>5. CASE ~ c.foster_run /\ ~ IsBlank(content)
  <2> DEFINE held == c.pending \o content
  <2>1. HandleTableText(c, content) = Fostered(run, held)
    BY <1>5, TableTextCases DEF run
  <2>2. HandleTableText(d, content) = Fostered(also, held)
    <3>1. also = [d EXCEPT !.foster_run = TRUE, !.pending = <<>>]
      BY DEF also
    <3>2. HandleTableText(d, content) = Fostered(also, d.pending \o content)
      BY <1>1, <1>5, <3>1, TableTextCases
    <3> QED
      BY <1>1, <3>2
  <2> HIDE DEF held
  <2> QED
    BY <1>2, <2>1, <2>2, ForgetInserts DEF d
<1> QED
  BY <1>3, <1>4, <1>5

\* Nor does text whose column group was left.
LEMMA ForgetSettledText ==
  ASSUME NEW c, Sound(c), NEW content \in Seq(Strings)
  PROVE  HandleSettledText(Forget(c), content) = Forget(HandleSettledText(c, content))
<1> DEFINE d == Forget(c)
<1>1. d.open = c.open
  BY ForgetOK
<1> HIDE DEF d
<1>2. CASE CurrentNodeIsTablePart(c.open)
  <2>1. HandleSettledText(c, content) = HandleTableText(c, content)
        /\ HandleSettledText(d, content) = HandleTableText(d, content)
    BY <1>1, <1>2 DEF HandleSettledText
  <2> QED
    BY <2>1, ForgetTableText DEF d
<1>3. CASE ~ CurrentNodeIsTablePart(c.open)
  <2>1. HandleSettledText(c, content) = InPlace(c, content)
        /\ HandleSettledText(d, content) = InPlace(d, content)
    BY <1>1, <1>3 DEF HandleSettledText, InPlace
  <2> QED
    BY <2>1, ForgetInserts DEF d
<1> QED
  BY <1>2, <1>3

\* Nor does blank text, wherever the parser is.
LEMMA ForgetPlacedText ==
  ASSUME NEW c, Sound(c), NEW content \in Seq(Strings)
  PROVE  PlacedText(Forget(c), content) = Forget(PlacedText(c, content))
<1> DEFINE d == Forget(c)
<1>1. d.open = c.open /\ Sound(d) /\ c \in Builder
  BY ForgetOK DEF Sound
<1>2. ASSUME NEW x PROVE Led(d, x) = Forget(Led(c, x))
  BY ForgetInserts DEF Led
<1> HIDE DEF d
<1>3. CASE c.open.mode # "InColumnGroup"
  BY <1>1, <1>3, ForgetSettledText DEF PlacedText, d
<1>4. CASE c.open.mode = "InColumnGroup" /\ IsBlank(content)
  <2>1. PlacedText(c, content) = Led(c, content) /\ PlacedText(d, content) = Led(d, content)
    BY <1>1, <1>4, ColumnGroupTextCases DEF PlacedText
  <2> QED
    BY <1>2, <2>1 DEF d
<1>5. CASE c.open.mode = "InColumnGroup" /\ ~ IsBlank(content)
  <2> DEFINE y == Blanks(content)
             z == FromLeading(content)
             p == Led(c, y)
             q == Led(d, y)
  <2>1. y \in Seq(Strings) /\ z \in Seq(Strings)
    BY <1>5, LeadingParts
  <2>2. PlacedText(c, content) = LeaveColumnGroup(p, z) /\ PlacedText(d, content) = LeaveColumnGroup(q, z)
    BY <1>1, <1>5, ColumnGroupTextCases DEF PlacedText
  <2> HIDE DEF y, z
  <2>3. q = Forget(p)
    BY <1>2
  <2>4. Sound(p) /\ p \in Builder
    BY <2>1, LedKeeps DEF KeepsStack, Sound
  <2> HIDE DEF p, q
  <2>5. q.open = p.open
    BY <2>3, <2>4, ForgetOK
  <2>6. LeaveColumnGroup(q, z) = Forget(LeaveColumnGroup(p, z))
    <3>1. CASE IsCurrentKind(p.open, "ColGroup")
      <4> DEFINE o == PopOpenElement(p.open)
                 e == [p EXCEPT !.open = o]
      <4>1. Sound(e)
        BY <2>4, <3>1, LeftColumns, SoundOpen
      <4>2. LeaveColumnGroup(p, z) = HandleSettledText(e, z)
        BY <3>1 DEF LeaveColumnGroup
      <4>3. LeaveColumnGroup(q, z) = HandleSettledText([q EXCEPT !.open = o], z)
        BY <2>5, <3>1 DEF LeaveColumnGroup
      <4> HIDE DEF o
      <4>4. [q EXCEPT !.open = o] = Forget(e)
        BY <2>3, <2>4 DEF Builder, Forget
      <4> HIDE DEF e
      <4> QED
        BY <2>1, <4>1, <4>2, <4>3, <4>4, ForgetSettledText
    <3>2. CASE ~ IsCurrentKind(p.open, "ColGroup")
      <4>1. LeaveColumnGroup(p, z) = InPlace(p, z) /\ LeaveColumnGroup(q, z) = InPlace(q, z)
        BY <2>5, <3>2 DEF LeaveColumnGroup, InPlace
      <4> QED
        BY <2>3, <2>4, <4>1, ForgetInserts
    <3> QED
      BY <3>1, <3>2
  <2> QED
    BY <2>2, <2>6 DEF d
<1> QED
  BY <1>3, <1>4, <1>5

\* The state text is handled in: what is skipped is set, and text that is not blank gives
\* up the place of comments after the body.
Ready(c, skip, x) ==
  [c EXCEPT !.newline_skip = skip, !.after_body = IF IsBlank(x) THEN @ ELSE NULL]

\* It says nothing of the tree.
LEMMA ReadyOK ==
  ASSUME NEW c, Sound(c), NEW skip \in {"None", "Newline", "LineFeedAfterCr"}, NEW x, NEW r, r = Ready(c, skip, x)
  PROVE  Sound(r) /\ r.open = c.open /\ r.newline_skip = skip
<1> DEFINE after == IF IsBlank(x) THEN c.after_body ELSE NULL
<1>1. c \in Builder /\ c.after_body \in Nat
  BY BuilderFields DEF Sound
<1>2. after \in {c.after_body, NULL} /\ after \in Nat
  BY <1>1 DEF NULL
<1>3. r = [c EXCEPT !.newline_skip = skip, !.after_body = after]
  BY <1>1 DEF Ready, Builder
<1> HIDE DEF after
<1>4. /\ r \in Builder /\ r.nodes = c.nodes /\ r.stale = c.stale /\ r.open = c.open
      /\ r.after_body = after /\ r.last_text = c.last_text /\ r.flushed = c.flushed /\ r.ret = c.ret
      /\ r.newline_skip = skip
  BY <1>1, <1>2, <1>3 DEF Builder
<1>5. r.ret \in Ids(c.nodes) \cup {NULL}
  BY <1>4 DEF Sound, Refers
<1>6. Sound(r)
  BY <1>2, <1>4, <1>5, SoundFlags
<1> QED
  BY <1>4, <1>6

\* A run of characters: what is left of it after the skip goes where the parser is.
LEMMA TextCases ==
  ASSUME NEW c, Sound(c), NEW x \in Seq(Strings), x # <<>>,
         NEW s, s = SkipLeadingNewline(c.newline_skip, x)
  PROVE  /\ s.text \in Seq(Strings) /\ s.skip \in {"None", "Newline", "LineFeedAfterCr"}
         /\ s.text = <<>> => HandleText(c, x) = Ready(c, s.skip, s.text)
         /\ s.text # <<>> => HandleText(c, x) = PlacedText(Ready(c, s.skip, s.text), s.text)
<1>1. c.newline_skip \in {"None", "Newline", "LineFeedAfterCr"}
  BY BuilderFields DEF Sound
<1>2. s.text \in Seq(Strings) /\ s.skip \in {"None", "Newline", "LineFeedAfterCr"}
  BY <1>1, SkipType
<1> DEFINE next == Ready(c, s.skip, s.text)
<1>3. HandleText(c, x) = IF s.text = <<>> THEN next
                         ELSE IF c.open.mode = "InColumnGroup" THEN HandleColumnGroupText(next, s.text)
                         ELSE HandleSettledText(next, s.text)
  BY DEF HandleText, Ready
<1>4. next.open = c.open
  BY <1>2, ReadyOK
<1> HIDE DEF next
<1>5. PlacedText(next, s.text) = IF c.open.mode = "InColumnGroup" THEN HandleColumnGroupText(next, s.text)
                                 ELSE HandleSettledText(next, s.text)
  BY <1>4 DEF PlacedText
<1> QED
  BY <1>2, <1>3, <1>5 DEF next

\* Handling text leaves what is skipped next.
LEMMA PlacedKeepsSkip ==
  ASSUME NEW c, Sound(c), NEW x \in Seq(Strings)
  PROVE  PlacedText(c, x).newline_skip = c.newline_skip
<1>1. ASSUME NEW d, Sound(d), NEW y \in Seq(Strings) PROVE HandleTableText(d, y).newline_skip = d.newline_skip
  <2> DEFINE run == [d EXCEPT !.foster_run = TRUE, !.pending = <<>>]
  <2>1. d \in Builder /\ d.pending \o y \in Seq(Strings) /\ <<>> \in Seq(Strings)
    <3>1. d \in Builder /\ d.pending \in Seq(Strings)
      BY <1>1, BuilderFields DEF Sound
    <3> QED
      BY <1>1, <3>1
  <2>2. Sound(run) /\ run.newline_skip = d.newline_skip
    <3>1. run.newline_skip = d.newline_skip
      BY <2>1 DEF Builder
    <3> QED
      BY <1>1, <2>1, <3>1, SoundRun DEF KeepsStack
  <2>3. [d EXCEPT !.pending = d.pending \o y].newline_skip = d.newline_skip
    BY <2>1 DEF Builder
  <2> HIDE DEF run
  <2>4. Fostered(d, y).newline_skip = d.newline_skip
    BY <1>1, InsertedKeeps
  <2>5. Fostered(run, d.pending \o y).newline_skip = d.newline_skip
    BY <2>1, <2>2, InsertedKeeps
  <2>6. HandleTableText(d, y) \in {Fostered(d, y), [d EXCEPT !.pending = d.pending \o y], Fostered(run, d.pending \o y)}
    BY TableTextCases DEF run
  <2> QED
    BY <2>3, <2>4, <2>5, <2>6
<1>2. ASSUME NEW d, Sound(d), NEW y \in Seq(Strings) PROVE InPlace(d, y).newline_skip = d.newline_skip
  BY <1>2, InsertedKeeps
<1>3. ASSUME NEW d, Sound(d), NEW y \in Seq(Strings) PROVE HandleSettledText(d, y).newline_skip = d.newline_skip
  BY <1>1, <1>2, <1>3 DEF HandleSettledText, InPlace
<1>4. ASSUME NEW d, Sound(d), NEW y \in Seq(Strings) PROVE LeaveColumnGroup(d, y).newline_skip = d.newline_skip
  <2>1. CASE IsCurrentKind(d.open, "ColGroup")
    <3> DEFINE o == PopOpenElement(d.open)
               e == [d EXCEPT !.open = o]
    <3>1. Sound(e) /\ e.newline_skip = d.newline_skip
      <4>1. e.newline_skip = d.newline_skip
        BY <1>4 DEF Sound, Builder
      <4> QED
        BY <1>4, <2>1, <4>1, LeftColumns, SoundOpen
    <3>2. LeaveColumnGroup(d, y) = HandleSettledText(e, y)
      BY <2>1 DEF LeaveColumnGroup
    <3> HIDE DEF e
    <3> QED
      BY <1>3, <1>4, <3>1, <3>2
  <2>2. CASE ~ IsCurrentKind(d.open, "ColGroup")
    BY <1>2, <1>4, <2>2 DEF LeaveColumnGroup, InPlace
  <2> QED
    BY <2>1, <2>2
<1>5. CASE c.open.mode # "InColumnGroup"
  BY <1>3, <1>5 DEF PlacedText
<1>6. CASE c.open.mode = "InColumnGroup" /\ IsBlank(x)
  BY <1>6, ColumnGroupTextCases, LedKeeps DEF PlacedText
<1>7. CASE c.open.mode = "InColumnGroup" /\ ~ IsBlank(x)
  <2> DEFINE p == Led(c, Blanks(x))
  <2>1. PlacedText(c, x) = LeaveColumnGroup(p, FromLeading(x))
    BY <1>7, ColumnGroupTextCases DEF PlacedText
  <2>2. Blanks(x) \in Seq(Strings) /\ FromLeading(x) \in Seq(Strings)
    BY <1>7, LeadingParts
  <2>3. Sound(p) /\ p.newline_skip = c.newline_skip
    BY <2>2, LedKeeps DEF KeepsStack
  <2> HIDE DEF p
  <2> QED
    BY <1>4, <2>1, <2>2, <2>3
<1> QED
  BY <1>5, <1>6, <1>7

\* A run of characters, in one token or in two.
LEMMA TextInTwo ==
  ASSUME NEW c, Sound(c), NEW head \in Seq(Strings), head # <<>>, NEW tail \in Seq(Strings), tail # <<>>
  PROVE  HandleText(HandleText(c, head), tail) = HandleText(c, head \o tail)
<1> DEFINE all == head \o tail
           r == HandleText(c, head)
           whole == SkipLeadingNewline(c.newline_skip, all)
           first == SkipLeadingNewline(c.newline_skip, head)
           second == SkipLeadingNewline(first.skip, tail)
<1>0. c \in Builder /\ c.newline_skip \in {"None", "Newline", "LineFeedAfterCr"} /\ c.after_body \in Nat
  BY BuilderFields DEF Sound
<1>1. all \in Seq(Strings) /\ all # <<>>
  BY ConcatSimplifications
<1>2. /\ first.text \o second.text = whole.text /\ second.skip = whole.skip
      /\ first.text # <<>> => first.skip = whole.skip /\ second.text = tail
  <2>1. Skipped(c.newline_skip, head, tail, whole, first, second)
    BY DEF Skipped
  <2>2. SkipAgrees(tail, whole, first, second)
    <3> HIDE DEF all, whole, first, second
    <3> QED
      BY <1>0, <2>1, SkipInTwo
  <2> HIDE DEF all, whole, first, second
  <2> QED
    BY <2>2 DEF SkipAgrees
<1> HIDE DEF all, whole, first, second
<1>3. /\ whole.text \in Seq(Strings) /\ whole.skip \in {"None", "Newline", "LineFeedAfterCr"}
      /\ whole.text = <<>> => HandleText(c, all) = Ready(c, whole.skip, whole.text)
      /\ whole.text # <<>> => HandleText(c, all) = PlacedText(Ready(c, whole.skip, whole.text), whole.text)
  BY <1>1, TextCases DEF whole
<1>4. /\ first.text \in Seq(Strings) /\ first.skip \in {"None", "Newline", "LineFeedAfterCr"}
      /\ first.text = <<>> => r = Ready(c, first.skip, first.text)
      /\ first.text # <<>> => r = PlacedText(Ready(c, first.skip, first.text), first.text)
  BY TextCases DEF first
<1> HIDE DEF r
<1>5. ASSUME Sound(r), r.newline_skip = first.skip
      PROVE  /\ second.text \in Seq(Strings) /\ second.skip \in {"None", "Newline", "LineFeedAfterCr"}
             /\ second.text = <<>> => HandleText(r, tail) = Ready(r, second.skip, second.text)
             /\ second.text # <<>> => HandleText(r, tail) = PlacedText(Ready(r, second.skip, second.text), second.text)
  BY <1>5, TextCases DEF second
<1>6. CASE first.text = <<>>
  <2>1. Sound(r) /\ r.newline_skip = first.skip
    BY <1>4, <1>6, ReadyOK
  <2>2. second.text = whole.text
    BY <1>2, <1>5, <1>6, <2>1, ConcatEmptySeq
  <2>3. Ready(r, second.skip, second.text) = Ready(c, whole.skip, whole.text)
    <3>1. r = [c EXCEPT !.newline_skip = first.skip]
      <4>1. IsBlank(first.text)
        BY <1>6 DEF IsBlank
      <4> QED
        BY <1>0, <1>4, <1>6, <4>1 DEF Ready, Builder
    <3>2. ASSUME NEW k, NEW x PROVE Ready(r, k, x) = Ready(c, k, x)
      BY <1>0, <3>1 DEF Ready, Builder
    <3> QED
      BY <1>2, <2>2, <3>2
  <2> QED
    BY <1>3, <1>5, <2>1, <2>2, <2>3 DEF r, all
<1>7. CASE first.text # <<>>
  <2> DEFINE x == first.text
             k == whole.skip
             p == Ready(c, k, x)
             q == Ready(c, k, whole.text)
  <2>1. second.text = tail /\ first.skip = k /\ second.skip = k /\ whole.text = x \o tail
    BY <1>2, <1>7
  <2>2. x \in Seq(Strings) /\ x # <<>> /\ k \in {"None", "Newline", "LineFeedAfterCr"} /\ r = PlacedText(p, x)
    BY <1>3, <1>4, <1>7, <2>1
  <2>3. whole.text # <<>>
    <3>1. x \o tail # <<>>
      BY <2>2, ConcatSimplifications
    <3> QED
      BY <2>1, <3>1
  <2>4. HandleText(c, all) = PlacedText(q, whole.text)
    BY <1>3, <2>3
  <2> HIDE DEF x, k
  <2>5. Sound(p) /\ p.newline_skip = k /\ Sound(q)
    BY <2>2, ReadyOK
  <2>6. Sound(r) /\ r.newline_skip = k
    <3> HIDE DEF p, q
    <3>1. r.newline_skip = k
      BY <2>2, <2>5, PlacedKeepsSkip
    <3>2. Sound(r)
      BY HandleTextOK DEF r
    <3> QED
      BY <3>1, <3>2
  <2>7. HandleText(r, tail) = PlacedText(Ready(r, k, tail), tail)
    BY <1>5, <2>1, <2>6
  <2>8. Ready(r, k, tail) = PlacedText(q, x)
    <3>1. IsBlank(whole.text) <=> IsBlank(x) /\ IsBlank(tail)
      <4>1. IsBlank(x \o tail) <=> IsBlank(x) /\ IsBlank(tail)
        BY <2>2, BlankInTwo
      <4> QED
        BY <2>1, <4>1
    <3>2. CASE IsBlank(tail)
      <4>1. q = p
        BY <3>1, <3>2 DEF Ready
      <4>2. Ready(r, k, tail) = r
        <5>1. r \in Builder
          BY <2>6 DEF Sound
        <5> QED
          BY <2>6, <3>2, <5>1 DEF Ready, Builder
      <4> QED
        BY <2>2, <4>1, <4>2
    <3>3. CASE ~ IsBlank(tail)
      <4>1. q = Forget(p)
        BY <1>0, <3>1, <3>3 DEF Ready, Forget, Builder
      <4>2. Ready(r, k, tail) = Forget(r)
        <5>1. r \in Builder
          BY <2>6 DEF Sound
        <5> QED
          BY <2>6, <3>3, <5>1 DEF Ready, Forget, Builder
      <4> HIDE DEF p, q
      <4>3. PlacedText(Forget(p), x) = Forget(PlacedText(p, x))
        BY <2>2, <2>5, ForgetPlacedText
      <4> QED
        BY <2>2, <4>1, <4>2, <4>3
    <3> QED
      BY <3>2, <3>3
  <2>9. PlacedText(PlacedText(q, x), tail) = PlacedText(q, x \o tail)
    <3> HIDE DEF q
    <3> QED
      BY <2>2, <2>5, PlacedTextInTwo
  <2> QED
    BY <2>1, <2>4, <2>7, <2>8, <2>9 DEF r, all
<1> QED
  BY <1>6, <1>7

-----------------------------------------------------------------------------
\* What soundness says of the builder, part by part.
LEMMA SoundTypes == IInv => TypeOK
<1> SUFFICES ASSUME IInv PROVE TypeOK
  OBVIOUS
<1>1. Sound(b) /\ b \in Builder /\ Refers(b) /\ Arena(b.nodes)
  BY SoundArena DEF IInv, Sound
<1>2. Len(b.nodes) \in Nat
  BY <1>1 DEF Arena
<1>3. \A n \in NodeIds :
        /\ b.nodes[n].type \in NodeTypes
        /\ b.nodes[n].type # "text" => b.nodes[n].text = <<>>
        /\ b.nodes[n].depth \in Nat
        /\ {b.nodes[n].parent, b.nodes[n].prev, b.nodes[n].next,
            b.nodes[n].first, b.nodes[n].last} \subseteq 0..Len(b.nodes)
  <2> SUFFICES ASSUME NEW n \in Ids(b.nodes)
               PROVE /\ b.nodes[n].type \in NodeTypes
                     /\ b.nodes[n].type # "text" => b.nodes[n].text = <<>>
                     /\ b.nodes[n].depth \in Nat
                     /\ {b.nodes[n].parent, b.nodes[n].prev, b.nodes[n].next,
                         b.nodes[n].first, b.nodes[n].last} \subseteq 0..Len(b.nodes)
    BY DEF NodeIds, Ids
  <2>1. b.nodes[n] \in Node
    BY <1>1 DEF Arena, Ids
  <2>2. {b.nodes[n].parent, b.nodes[n].prev, b.nodes[n].next,
         b.nodes[n].first, b.nodes[n].last} \subseteq Ids(b.nodes) \cup {NULL}
    BY <1>1 DEF Arena, Linked
  <2>3. Ids(b.nodes) \cup {NULL} \subseteq 0..Len(b.nodes)
    BY <1>2 DEF Ids, NULL
  <2> QED
    BY <1>1, <2>1, <2>2, <2>3, NodeFields DEF Arena, OnlyTextHasText
<1>4. b.stale.before \in 0..Len(b.nodes) /\ b.stale.exact \subseteq NodeIds
  BY <1>1, <1>2, BuilderFields DEF Refers, NodeIds, Ids
<1>5. \A i \in 1..Len(b.open.stack) :
        /\ b.open.stack[i].id \in Elements
        /\ b.open.stack[i].kind \in Kinds
        /\ b.open.stack[i].mode \in Modes
        /\ b.open.stack[i].children \in Nat
  BY <1>1, SoundStack DEF Elements, NodeIds, Ids, IsElement, OpenEntry
<1>6. b.open.mode \in Modes
  BY <1>1 DEF Sound, StackOK, StackType
<1>7. {b.after_body, b.last_text, b.flushed, b.ret} \subseteq 0..Len(b.nodes)
  <2>1. b.after_body \in Ids(b.nodes) \cup {NULL}
    BY <1>1 DEF Sound, TreeOK, TakesComments
  <2>2. {b.last_text, b.flushed, b.ret} \subseteq Ids(b.nodes) \cup {NULL}
    BY <1>1 DEF Refers
  <2> QED
    BY <1>2, <2>1, <2>2 DEF Ids, NULL
<1>8. b.newline_skip \in {"None", "Newline", "LineFeedAfterCr"}
  BY <1>1, BuilderFields
<1> QED
  BY <1>3, <1>4, <1>5, <1>6, <1>7, <1>8 DEF IInv, TypeOK

\* Of the tree, the stack and the nesting limit.
LEMMA SoundTree == IInv => TreeLinked /\ OpenParents /\ CachesExact /\ DepthBound
<1> SUFFICES ASSUME IInv PROVE TreeLinked /\ OpenParents /\ CachesExact /\ DepthBound
  OBVIOUS
<1>1. PICK h : Grounded(b.nodes, b.open.stack, h)
  BY DEF IInv, Sound, TreeOK
<1>2. Arena(b.nodes) /\ Hung(b.nodes, h) /\ Branch(b.nodes, b.open.stack, h)
  BY <1>1 DEF Grounded
<1>3. TreeLinked
  BY <1>2, ArenaLinksAgree, HungRooted DEF TreeLinked
<1>4. OpenParents
  <2> SUFFICES ASSUME NEW i \in 2..Len(b.open.stack)
               PROVE \E j \in 1..i - 1 : b.open.stack[j].id = b.nodes[b.open.stack[i].id].parent
    BY DEF OpenParents
  <2>1. OpenParentAt(b.nodes, b.open.stack, i)
    BY <1>2 DEF Branch
  <2> QED
    BY <2>1 DEF OpenParentAt
<1>5. CachesExact
  BY DEF IInv, Sound, StackOK, CachesExact
<1>6. DepthBound
  <2>1. Len(b.open.stack) <= MaxDepth + 1
    BY <1>2 DEF Branch
  <2>2. ASSUME NEW n \in Ids(b.nodes) PROVE TrueDepth(b.nodes, n) <= MaxDepth + 1
    <3>1. TrueDepth(b.nodes, n) \in Nat /\ TrueDepth(b.nodes, n) <= h[n]
      BY <1>2, TrueDepthBound
    <3>2. h[n] \in Nat /\ h[n] <= MaxDepth + 1
      BY <1>2 DEF Hung
    <3> QED
      BY <3>1, <3>2, MaxDepthAssumption
  <2> QED
    BY <2>1, <2>2 DEF DepthBound, NodeIds, Ids
<1> QED
  BY <1>3, <1>4, <1>5, <1>6

\* Whatever the tokens, the builder's data stay well-formed.
THEOREM TypeCorrect == Spec => []TypeOK
<1> QED
  BY InitSound, NextSound, SoundTypes, PTL DEF Spec

\* No token, fostering, adoption or reopening breaks a link, loses a node or makes a cycle.
THEOREM TreeStaysLinked == Spec => []TreeLinked
<1> QED
  BY InitSound, NextSound, SoundTree, PTL DEF Spec

\* The documented nesting limit holds for every node, although reopening and adoption push without
\* the check that insert_element makes.
THEOREM DepthBounded == Spec => []DepthBound
<1> QED
  BY InitSound, NextSound, SoundTree, PTL DEF Spec

\* An observer of the builder learns of every element that a token makes, and learns of it once:
\* what is cloned, implied or reopened is listed, and the tag's own element is returned.
THEOREM EveryElementIsReported == Spec => EveryElementReported
<1> QED
  BY InitSound, NextSound, NextReports, PTL DEF Spec, EveryElementReported

\* Reprocessing a tag ends, whatever is open: as long as it closes elements it closes one that is
\* open, and it is settled when as many were closed as were open.
THEOREM ReprocessingEnds == Spec => []ReprocessEnds
<1>1. ASSUME IInv PROVE ReprocessEnds
  <2>1. StackOK(b.open, OpenEntry)
    BY <1>1 DEF IInv, Sound
  <2>2. \A name : LET o == SettleStartTag(b.open, name) IN Settled(o, StartTagCloses(o, name))
    BY <2>1, StartTagSettles
  <2>3. \A name : LET o == SettleEndTag(b.open, name) IN Settled(o, EndTagCloses(o, name))
    BY <2>1, EndTagSettles
  <2> QED
    BY <2>2, <2>3 DEF ReprocessEnds, Settled
<1> QED
  BY <1>1, InitSound, NextSound, PTL DEF Spec

\* A formatting end tag that the agency has turns enough for leaves exactly one element of its name
\* fewer open: the innermost, whatever adoption cloned or reopened on the way.
THEOREM EndTagsCloseOne == Spec => []EndTagClosesOne
<1>1. ASSUME IInv PROVE EndTagClosesOne
  <2> SUFFICES ASSUME NEW name \in EndTags \cap FormattingNames,
                      NEW f, f = FindNamedInScope(b.open, name, "Standard"), f # 0,
                      Cardinality(SpecialsAbove(b.open.stack, f)) < OuterLoops, InBody(b.open)
               PROVE  Cardinality(OpenNamed(HandleCloseTag(b, name).open, name)) =
                        Cardinality(OpenNamed(b.open, name)) - 1
    BY DEF EndTagClosesOne, SpecialsAbove, InBody
  <2>1. Sound(b) /\ StackOK(b.open, OpenEntry)
    BY <1>1 DEF IInv, Sound
  <2>2. OpenNamed(HandleCloseTag(b, name).open, name) = NamedBelow(b.open.stack, f, name)
    BY <2>1, CloseTagCloses
  <2>3. /\ Cardinality(OpenNamed(b.open, name)) = Cardinality(NamedBelow(b.open.stack, f, name)) + 1
        /\ Cardinality(NamedBelow(b.open.stack, f, name)) \in Nat
    BY <2>1, FoundElement
  <2> QED
    BY <2>2, <2>3
<1> QED
  BY <1>1, InitSound, NextSound, PTL DEF Spec

\* A closed element is final: no fostering, adoption or reopening reaches into it, and no text is
\* added to it, so an observer may act on what it was told as soon as the element is closed.
THEOREM ClosedStaysFrozen == Spec => ClosedSubtreeFrozen
<1> QED
  BY InitSound, NextSound, NextFrozen, PTL DEF Spec, ClosedSubtreeFrozen

\* Where the tokenizer cuts a run of characters is not seen in the document: not in what is skipped
\* after a `pre`, not in what is held back or fostered in a table, not in which node is joined, and
\* not in which column group is closed.
THEOREM TextChunksDoNotMatter == Spec => []TextChunkInvariant
<1>1. ASSUME IInv PROVE TextChunkInvariant
  <2> SUFFICES ASSUME NEW content \in Texts, NEW cut \in 1..Len(content) - 1,
                      NEW head, head = SubSeq(content, 1, cut),
                      NEW tail, tail = SubSeq(content, cut + 1, Len(content))
               PROVE  Lasting(HandleText(HandleText(b, head), tail)) = Lasting(HandleText(b, content))
    BY DEF TextChunkInvariant
  <2>1. Sound(b) /\ scenario \in DOMAIN Alphabets
    BY <1>1 DEF IInv
  <2>2. content \in Seq(Strings)
    <3>1. Text(content) \in Tokens
      BY <2>1, AlphabetsAssumption DEF Texts
    <3> DEFINE token == Text(content)
    <3>2. token.content = content /\ token.type = "text"
      BY DEF Text
    <3>3. token \in Tokens
      BY <3>1
    <3> HIDE DEF token
    <3>4. token \in [type : {"text"}, content : Seq(STRING)]
      BY <3>2, <3>3 DEF Tokens, CommentToken, DoctypeToken
    <3>5. token.content \in Seq(STRING)
      BY <3>4
    <3>6. STRING \subseteq Strings
      BY DEF Strings
    <3> QED
      BY <3>2, <3>5, <3>6, SequenceIn
  <2>3. cut \in 0..Len(content) /\ Len(content) - cut > 0 /\ cut > 0
    BY <2>2
  <2>4. head \in Seq(Strings) /\ head \o tail = content
    BY <2>2, <2>3, Parted
  <2>5. tail \in Seq(Strings) /\ Len(tail) = Len(content) - cut
    BY <2>2, <2>3, SuffixEntries
  <2>6. head # <<>> /\ tail # <<>>
    <3>1. Len(content) = Len(head) + Len(tail)
      BY <2>4, <2>5, ConcatProperties
    <3>2. Len(head) \in Nat /\ Len(tail) \in Nat /\ Len(content) \in Nat
      BY <2>2, <2>4, <2>5
    <3>3. Len(head) > 0 /\ Len(tail) > 0
      BY <2>3, <2>5, <3>1, <3>2
    <3>4. ASSUME NEW x, Len(x) > 0 PROVE x # <<>>
      BY <3>4
    <3> HIDE DEF Strings
    <3> QED
      BY <3>3, <3>4, Zenon
  <2>7. HandleText(HandleText(b, head), tail) = HandleText(b, head \o tail)
    BY <2>1, <2>4, <2>5, <2>6, TextInTwo
  <2> QED
    BY <2>4, <2>7
<1> QED
  BY <1>1, InitSound, NextSound, PTL DEF Spec

\* Everything the handlers rely on in the tree and on the stack.
THEOREM BuilderCorrect == Spec => []TreeSound
<1>1. IInv => TreeSound
  BY SoundTypes, SoundTree DEF TreeSound
<1> QED
  BY <1>1, InitSound, NextSound, PTL DEF Spec
==============================================================================
