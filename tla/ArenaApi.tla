------------------------------ MODULE ArenaApi ------------------------------
(***************************************************************************)
(* The public way to build a tree (crates/fhp-tree/src/arena.rs): nodes    *)
(* are allocated unlinked, and append_child links them in any order a      *)
(* caller likes, or panics and changes nothing.                            *)
(***************************************************************************)
EXTENDS Integers, FiniteSets

CONSTANTS
  Nodes,  \* The ids the arena may allocate.
  NULL

ASSUME NullAssumption == NULL \notin Nodes

VARIABLES
  allocated,  \* The ids in use.
  elements,   \* Those that are neither text, comment nor doctype.
  parent, first, last, prev, next,
  index,      \* element_index, 0 when there is none.
  clock,      \* History: how many nodes were linked ...
  linked      \* ... and when each was, 0 when it was not.

links == <<parent, first, last, prev, next>>
vars == <<allocated, elements, links, index, clock, linked>>

Init ==
  /\ allocated = {} /\ elements = {}
  /\ parent = [n \in Nodes |-> NULL]
  /\ first = [n \in Nodes |-> NULL] /\ last = [n \in Nodes |-> NULL]
  /\ prev = [n \in Nodes |-> NULL] /\ next = [n \in Nodes |-> NULL]
  /\ index = [n \in Nodes |-> 0]
  /\ clock = 0
  /\ linked = [n \in Nodes |-> 0]

\* new_element, and new_text, new_comment and new_doctype
NewNode(n) ==
  /\ n \in Nodes \ allocated
  /\ allocated' = allocated \union {n}
  /\ elements' \in {elements, elements \union {n}}
  /\ UNCHANGED <<links, index, clock, linked>>

Unlinked(c) == parent[c] = NULL /\ prev[c] = NULL /\ next[c] = NULL

Childless(c) == first[c] = NULL /\ last[c] = NULL

\* The assertions about the child links of the parent.
ChildLinksConsistent(p, c) ==
  /\ first[p] = NULL <=> last[p] = NULL
  /\ last[p] # NULL =>
       /\ last[p] \in allocated
       /\ last[p] \notin {p, c}
       /\ parent[last[p]] = p /\ next[last[p]] = NULL

Accepts(p, c) ==
  /\ p \in allocated /\ c \in allocated /\ p # c
  /\ Unlinked(c) /\ Childless(c)
  /\ ChildLinksConsistent(p, c)

\* The nearest element from m back.
NearestElement(m) ==
  LET back[k \in Nodes \union {NULL}] ==
        IF k = NULL \/ k \in elements THEN k ELSE back[prev[k]]
  IN  back[m]

\* Seeded fault: only the node in front is looked at, though it may be text.
IndexAfterNeighbour(m) == IF m = NULL THEN 1 ELSE index[m] + 1

IndexAfter(m) == IF NearestElement(m) \in elements THEN index[NearestElement(m)] + 1 ELSE 1

\* Seeded fault: the former last child does not get its successor.
NextWithoutLink(p, c) == next

NextWith(p, c) == IF last[p] = NULL THEN next ELSE [next EXCEPT ![last[p]] = c]

AppendChild(p, c) ==
  /\ Accepts(p, c)
  /\ parent' = [parent EXCEPT ![c] = p]
  /\ next' = NextWith(p, c)
  /\ prev' = [prev EXCEPT ![c] = last[p]]
  /\ first' = IF last[p] = NULL THEN [first EXCEPT ![p] = c] ELSE first
  /\ last' = [last EXCEPT ![p] = c]
  /\ index' = IF c \in elements THEN [index EXCEPT ![c] = IndexAfter(last[p])] ELSE index
  /\ clock' = clock + 1
  /\ linked' = [linked EXCEPT ![c] = clock + 1]
  /\ UNCHANGED <<allocated, elements>>

Next ==
  \/ \E n \in Nodes : NewNode(n)
  \/ \E p, c \in Nodes : AppendChild(p, c)

Spec == Init /\ [][Next]_vars

-----------------------------------------------------------------------------
Link == Nodes \union {NULL}

TypeOK ==
  /\ allocated \subseteq Nodes /\ elements \subseteq allocated
  /\ parent \in [Nodes -> Link]
  /\ first \in [Nodes -> Link] /\ last \in [Nodes -> Link]
  /\ prev \in [Nodes -> Link] /\ next \in [Nodes -> Link]
  /\ index \in [Nodes -> Nat]
  /\ clock \in Nat
  /\ linked \in [Nodes -> Nat]

NextAgrees ==
  \A n \in Nodes : next[n] # NULL =>
    prev[next[n]] = n /\ parent[next[n]] = parent[n] /\ parent[n] # NULL

PrevAgrees ==
  \A n \in Nodes : prev[n] # NULL =>
    next[prev[n]] = n /\ parent[prev[n]] = parent[n] /\ parent[n] # NULL

ChildAgrees ==
  \A n \in Nodes : parent[n] # NULL =>
    /\ first[parent[n]] # NULL /\ last[parent[n]] # NULL
    /\ prev[n] = NULL <=> first[parent[n]] = n
    /\ next[n] = NULL <=> last[parent[n]] = n

EndsAgree ==
  /\ \A n \in Nodes : first[n] # NULL => parent[first[n]] = n
  /\ \A n \in Nodes : last[n] # NULL => parent[last[n]] = n

\* Whatever was linked in which order, the five links of every node agree with
\* those of its neighbours, and free ids have none.
LinksAgree ==
  /\ NextAgrees /\ PrevAgrees /\ ChildAgrees /\ EndsAgree
  /\ \A n \in Nodes \ allocated : Unlinked(n) /\ Childless(n)

\* A node is linked once, and before everything below it: no sequence of calls
\* can close a cycle of parents.
LinkedBeforeChildren ==
  \A n \in Nodes : parent[n] # NULL =>
    /\ linked[n] # 0
    /\ linked[parent[n]] < linked[n]
    /\ linked[n] <= clock

\* Every sequence of calls makes a forest with links that agree.
LinksSound == LinksAgree /\ LinkedBeforeChildren

EarlierElementSiblings(n) ==
  {m \in elements : parent[m] = parent[n] /\ linked[m] < linked[n]}

\* "An element child also gets its 1-based index among its element siblings"
\* (append_child).
IndexExact ==
  \A n \in elements : parent[n] # NULL => index[n] = Cardinality(EarlierElementSiblings(n)) + 1
=============================================================================
