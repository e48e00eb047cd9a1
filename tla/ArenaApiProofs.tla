--------------------------- MODULE ArenaApiProofs ---------------------------
(***************************************************************************)
(* Proofs about ArenaApi, for every set of ids.  The inductive invariant   *)
(* is the agreement of the links together with the times of linking: a     *)
(* node that may be appended has no children, so everything below it is    *)
(* linked later, and parents can never form a cycle.                       *)
(***************************************************************************)
EXTENDS ArenaApi, FiniteSetTheorems, WellFoundedInduction, TLAPS

TimesBounded == \A n \in Nodes : linked[n] <= clock

IInv == TypeOK /\ LinksAgree /\ LinkedBeforeChildren /\ TimesBounded

-----------------------------------------------------------------------------
\* A node without children is nobody's parent.
LEMMA ChildlessIsNoParent ==
  ASSUME LinksAgree, TypeOK, NEW c \in Nodes, Childless(c)
  PROVE  \A n \in Nodes : parent[n] # c
BY NullAssumption DEF LinksAgree, ChildAgrees, Childless

\* The index of a new sibling is a number.
LEMMA IndexAfterType ==
  ASSUME TypeOK, NEW m PROVE IndexAfter(m) \in Nat
<1> DEFINE e == NearestElement(m)
<1> HIDE DEF e
<1>1. e \in elements => index[e] \in Nat
  BY DEF TypeOK
<1> QED
  BY <1>1 DEF IndexAfter, e

\* Initially nothing is linked.
LEMMA InitInvariant == Init => IInv
<1> SUFFICES ASSUME Init PROVE IInv
  OBVIOUS
<1>1. TypeOK
  BY DEF Init, TypeOK, Link
<1>2. LinksAgree
  BY NullAssumption DEF Init, LinksAgree, NextAgrees, PrevAgrees, ChildAgrees, EndsAgree, Unlinked, Childless
<1>3. LinkedBeforeChildren /\ TimesBounded
  BY DEF Init, LinkedBeforeChildren, TimesBounded
<1> QED
  BY <1>1, <1>2, <1>3 DEF IInv

\* A new node without links disturbs none.
LEMMA NewNodeInvariant ==
  ASSUME IInv, NEW n \in Nodes, NewNode(n) PROVE IInv'
<1>1. TypeOK'
  BY DEF IInv, TypeOK, NewNode, links, Link
<1>2. LinksAgree'
  BY DEF IInv, LinksAgree, NextAgrees, PrevAgrees, ChildAgrees, EndsAgree, Unlinked, Childless, NewNode, links
<1>3. LinkedBeforeChildren' /\ TimesBounded'
  BY DEF IInv, LinkedBeforeChildren, TimesBounded, NewNode, links
<1> QED
  BY <1>1, <1>2, <1>3 DEF IInv

\* What an accepted call may rely on.
LEMMA AcceptedCall ==
  ASSUME IInv, NEW p \in Nodes, NEW c \in Nodes, AppendChild(p, c)
  PROVE  /\ p # c /\ p \in allocated /\ c \in allocated /\ p # NULL /\ c # NULL
         /\ parent[c] = NULL /\ prev[c] = NULL /\ next[c] = NULL /\ first[c] = NULL /\ last[c] = NULL
         /\ last[p] \in Link /\ last[p] # c /\ last[p] # p
         /\ last[p] # NULL => last[p] \in Nodes /\ parent[last[p]] = p /\ next[last[p]] = NULL
         /\ first[p] = NULL <=> last[p] = NULL
         /\ \A n \in Nodes : parent[n] # c
<1>1. Accepts(p, c)
  BY DEF AppendChild
<1>2. \A n \in Nodes : parent[n] # c
  BY <1>1, ChildlessIsNoParent DEF Accepts, IInv
<1>3. p # NULL /\ c # NULL /\ last[p] \in Link
  BY NullAssumption DEF IInv, TypeOK
<1> QED
  BY <1>1, <1>2, <1>3, NullAssumption DEF Accepts, Unlinked, Childless, ChildLinksConsistent, Link

\* Linking a node keeps the types.
LEMMA AppendTypeCorrect ==
  ASSUME IInv, NEW p \in Nodes, NEW c \in Nodes, AppendChild(p, c)
  PROVE  TypeOK'
<1>1. c \in Link /\ p \in Link /\ last[p] \in Link /\ IndexAfter(last[p]) \in Nat
  BY IndexAfterType DEF IInv, TypeOK, Link
<1>2. parent' \in [Nodes -> Link] /\ prev' \in [Nodes -> Link] /\ last' \in [Nodes -> Link]
  BY <1>1 DEF IInv, TypeOK, AppendChild
<1>3. first' \in [Nodes -> Link] /\ next' \in [Nodes -> Link]
  BY <1>1 DEF IInv, TypeOK, AppendChild, NextWith
<1>4. index' \in [Nodes -> Nat]
  BY <1>1 DEF IInv, TypeOK, AppendChild
<1>5. clock' \in Nat /\ linked' \in [Nodes -> Nat]
  BY DEF IInv, TypeOK, AppendChild
<1>6. allocated' \subseteq Nodes /\ elements' \subseteq allocated'
  BY DEF IInv, TypeOK, AppendChild
<1> QED
  BY <1>2, <1>3, <1>4, <1>5, <1>6 DEF TypeOK, Link

\* The links that a call changes, spelled out for every node.
LEMMA ChangedLinks ==
  ASSUME IInv, NEW p \in Nodes, NEW c \in Nodes, AppendChild(p, c), NEW n \in Nodes
  PROVE  /\ parent'[n] = IF n = c THEN p ELSE parent[n]
         /\ prev'[n] = IF n = c THEN last[p] ELSE prev[n]
         /\ last'[n] = IF n = p THEN c ELSE last[n]
         /\ first'[n] = IF n = p /\ last[p] = NULL THEN c ELSE first[n]
         /\ next'[n] = IF last[p] # NULL /\ n = last[p] THEN c ELSE next[n]
BY DEF IInv, TypeOK, AppendChild, NextWith

\* Linking a node keeps the links in agreement.
LEMMA AppendLinksAgree ==
  ASSUME IInv, NEW p \in Nodes, NEW c \in Nodes, AppendChild(p, c)
  PROVE  LinksAgree'
<1> USE AcceptedCall, ChangedLinks, NullAssumption
<1>1. /\ NextAgrees /\ PrevAgrees /\ ChildAgrees /\ EndsAgree
      /\ \A n \in Nodes \ allocated : Unlinked(n) /\ Childless(n)
  BY DEF IInv, LinksAgree
<1>2. \A n \in Nodes : parent[n] \in Link /\ prev[n] \in Link /\ next[n] \in Link
                          /\ first[n] \in Link /\ last[n] \in Link
  BY DEF IInv, TypeOK
<1>3. NextAgrees'
  <2> SUFFICES ASSUME NEW n \in Nodes, next'[n] # NULL
               PROVE  prev'[next'[n]] = n /\ parent'[next'[n]] = parent'[n] /\ parent'[n] # NULL
    BY DEF NextAgrees
  <2>1. CASE n = last[p] /\ last[p] # NULL
    BY <2>1
  <2>2. CASE ~ (n = last[p] /\ last[p] # NULL)
    <3>1. next'[n] = next[n] /\ next[n] \in Nodes
      BY <2>2, <1>2 DEF Link
    <3>2. prev[next[n]] = n /\ parent[next[n]] = parent[n] /\ parent[n] # NULL
      BY <3>1, <1>1 DEF NextAgrees
    <3>3. n # c /\ next[n] # c
      BY <3>1, <3>2
    <3> QED
      BY <3>1, <3>2, <3>3
  <2> QED
    BY <2>1, <2>2
<1>4. PrevAgrees'
  <2> SUFFICES ASSUME NEW n \in Nodes, prev'[n] # NULL
               PROVE  next'[prev'[n]] = n /\ parent'[prev'[n]] = parent'[n] /\ parent'[n] # NULL
    BY DEF PrevAgrees
  <2>1. CASE n = c
    BY <2>1
  <2>2. CASE n # c
    <3>1. prev'[n] = prev[n] /\ prev[n] \in Nodes
      BY <2>2, <1>2 DEF Link
    <3>2. next[prev[n]] = n /\ parent[prev[n]] = parent[n] /\ parent[n] # NULL
      BY <3>1, <1>1 DEF PrevAgrees
    <3>3. prev[n] # c /\ prev[n] # last[p]
      BY <3>1, <3>2
    <3> QED
      BY <2>2, <3>1, <3>2, <3>3
  <2> QED
    BY <2>1, <2>2
<1>5. ChildAgrees'
  <2> SUFFICES ASSUME NEW n \in Nodes, parent'[n] # NULL
               PROVE  /\ first'[parent'[n]] # NULL /\ last'[parent'[n]] # NULL
                      /\ prev'[n] = NULL <=> first'[parent'[n]] = n
                      /\ next'[n] = NULL <=> last'[parent'[n]] = n
    BY DEF ChildAgrees
  <2>1. CASE n = c
    <3>1. parent'[n] = p /\ last'[p] = c /\ prev'[c] = last[p] /\ next'[c] = NULL
      BY <2>1
    <3>2. first'[p] # NULL /\ (last[p] = NULL <=> first'[p] = c)
      <4>1. last[p] # NULL => first[p] # c
        BY <1>1 DEF EndsAgree
      <4> QED
        BY <4>1
    <3> QED
      BY <2>1, <3>1, <3>2
  <2>2. CASE n # c
    <3>1. parent'[n] = parent[n] /\ parent[n] \in Nodes /\ prev'[n] = prev[n]
      BY <2>2, <1>2 DEF Link
    <3>2. /\ first[parent[n]] # NULL /\ last[parent[n]] # NULL
          /\ prev[n] = NULL <=> first[parent[n]] = n
          /\ next[n] = NULL <=> last[parent[n]] = n
      BY <2>2, <3>1, <1>1 DEF ChildAgrees
    <3>3. CASE parent[n] = p
      BY <2>2, <3>1, <3>2, <3>3
    <3>4. CASE parent[n] # p
      <4>1. n # last[p] \/ last[p] = NULL
        BY <3>4
      <4> QED
        BY <2>2, <3>1, <3>2, <3>4, <4>1
    <3> QED
      BY <3>3, <3>4
  <2> QED
    BY <2>1, <2>2
<1>6. EndsAgree'
  <2>1. ASSUME NEW n \in Nodes, first'[n] # NULL PROVE parent'[first'[n]] = n
    <3>1. CASE n = p /\ last[p] = NULL
      BY <3>1
    <3>2. CASE ~ (n = p /\ last[p] = NULL)
      <4>1. first'[n] = first[n] /\ first[n] \in Nodes /\ parent[first[n]] = n
        BY <2>1, <3>2, <1>1, <1>2 DEF EndsAgree, Link
      <4>2. first[n] # c
        BY <4>1
      <4> QED
        BY <4>1, <4>2
    <3> QED
      BY <3>1, <3>2
  <2>2. ASSUME NEW n \in Nodes, last'[n] # NULL PROVE parent'[last'[n]] = n
    <3>1. CASE n = p
      BY <3>1
    <3>2. CASE n # p
      <4>1. last'[n] = last[n] /\ last[n] \in Nodes /\ parent[last[n]] = n
        BY <2>2, <3>2, <1>1, <1>2 DEF EndsAgree, Link
      <4>2. last[n] # c
        BY <4>1
      <4> QED
        BY <4>1, <4>2
    <3> QED
      BY <3>1, <3>2
  <2> QED
    BY <2>1, <2>2 DEF EndsAgree
<1>7. \A n \in Nodes \ allocated' : Unlinked(n)' /\ Childless(n)'
  <2> SUFFICES ASSUME NEW n \in Nodes \ allocated PROVE Unlinked(n)' /\ Childless(n)'
    BY DEF AppendChild
  <2>1. n # c /\ n # p /\ Unlinked(n) /\ Childless(n)
    BY <1>1
  <2>2. n # last[p] \/ last[p] = NULL
    BY <2>1 DEF Unlinked
  <2> QED
    BY <2>1, <2>2 DEF Unlinked, Childless
<1> QED
  BY <1>3, <1>4, <1>5, <1>6, <1>7 DEF LinksAgree

\* Linking a node later than all others keeps the order of linking.
LEMMA AppendTimes ==
  ASSUME IInv, NEW p \in Nodes, NEW c \in Nodes, AppendChild(p, c)
  PROVE  LinkedBeforeChildren' /\ TimesBounded'
<1>1. clock' = clock + 1 /\ \A n \in Nodes : linked'[n] = IF n = c THEN clock + 1 ELSE linked[n]
  BY DEF IInv, TypeOK, AppendChild
<1>2. clock \in Nat /\ \A n \in Nodes : linked[n] \in Nat /\ linked[n] <= clock /\ parent[n] \in Link
  BY DEF IInv, TypeOK, TimesBounded
<1>3. TimesBounded'
  BY <1>1, <1>2 DEF TimesBounded
<1>4. LinkedBeforeChildren'
  <2> SUFFICES ASSUME NEW n \in Nodes, parent'[n] # NULL
               PROVE  linked'[n] # 0 /\ linked'[parent'[n]] < linked'[n] /\ linked'[n] <= clock'
    BY DEF LinkedBeforeChildren
  <2>1. CASE n = c
    <3>1. parent'[n] = p /\ p # c
      BY <2>1, AcceptedCall, ChangedLinks
    <3> QED
      BY <2>1, <3>1, <1>1, <1>2
  <2>2. CASE n # c
    <3>1. parent'[n] = parent[n] /\ parent[n] # c /\ parent[n] \in Nodes
      BY <2>2, <1>2, AcceptedCall, ChangedLinks DEF Link
    <3>2. linked[n] # 0 /\ linked[parent[n]] < linked[n] /\ linked[n] <= clock
      BY <3>1 DEF IInv, LinkedBeforeChildren
    <3> QED
      BY <2>2, <3>1, <3>2, <1>1, <1>2
  <2> QED
    BY <2>1, <2>2
<1> QED
  BY <1>3, <1>4

\* No call breaks the invariant.
LEMMA NextInvariant == IInv /\ [Next]_vars => IInv'
<1> SUFFICES ASSUME IInv, [Next]_vars PROVE IInv'
  OBVIOUS
<1>1. ASSUME NEW n \in Nodes, NewNode(n) PROVE IInv'
  BY <1>1, NewNodeInvariant
<1>2. ASSUME NEW p \in Nodes, NEW c \in Nodes, AppendChild(p, c) PROVE IInv'
  BY <1>2, AppendTypeCorrect, AppendLinksAgree, AppendTimes DEF IInv
<1>3. CASE UNCHANGED vars
  BY <1>3 DEF vars, links, IInv, TypeOK, Link, LinksAgree, NextAgrees, PrevAgrees, ChildAgrees, EndsAgree,
              Unlinked, Childless, LinkedBeforeChildren, TimesBounded
<1> QED
  BY <1>1, <1>2, <1>3 DEF Next

\* It holds in every state.
LEMMA Invariance == Spec => []IInv
BY InitInvariant, NextInvariant, PTL DEF Spec

\* Every variable keeps its type.
THEOREM ArenaTypeCorrect == Spec => []TypeOK
<1>1. IInv => TypeOK
  BY DEF IInv
<1> QED
  BY <1>1, Invariance, PTL

\* The links agree, whatever accepted calls are made in whatever order.
THEOREM ArenaLinksAgree == Spec => []LinksAgree
<1>1. IInv => LinksAgree
  BY DEF IInv
<1> QED
  BY <1>1, Invariance, PTL

\* A node is linked before everything below it, so parents form no cycle.
THEOREM ArenaNoCycle == Spec => []LinkedBeforeChildren
<1>1. IInv => LinkedBeforeChildren
  BY DEF IInv
<1> QED
  BY <1>1, Invariance, PTL

\* Any calls of new_node and append_child that the arena accepts make a forest with
\* links that agree.
THEOREM ArenaLinksSound == Spec => []LinksSound
<1>1. LinksAgree /\ LinkedBeforeChildren => LinksSound
  BY DEF LinksSound
<1> QED
  BY <1>1, ArenaLinksAgree, ArenaNoCycle, PTL
-----------------------------------------------------------------------------
(* The order of siblings is the order of linking, and indices count it. *)

Attached == {n \in Nodes : parent[n] # NULL}

\* No two nodes were linked at once; the node in front of one is the sibling
\* that was linked just before it, and the last child the one linked last.
TimesDistinct == \A m, n \in Attached : linked[m] = linked[n] => m = n
PrevEarlier == \A n \in Attached : prev[n] # NULL => linked[prev[n]] < linked[n]
NoneBetween ==
  \A n \in Attached : \A m \in Attached :
    parent[m] = parent[n] /\ linked[m] < linked[n] => prev[n] # NULL /\ linked[m] <= linked[prev[n]]
LastLatest == \A n \in Attached : linked[n] <= linked[last[parent[n]]]

OrderInv == TimesDistinct /\ PrevEarlier /\ NoneBetween /\ LastLatest

\* The children of a node are finitely many, so that they can be counted.
IndexInv == IsFiniteSet(Attached) /\ IndexExact

\* Initially nothing is linked.
LEMMA OrderInit == Init => OrderInv /\ IndexInv
<1> SUFFICES ASSUME Init PROVE OrderInv /\ IndexInv
  OBVIOUS
<1>1. Attached = {} /\ IsFiniteSet({})
  BY FS_EmptySet DEF Init, Attached
<1>2. IndexExact
  BY DEF Init, IndexExact
<1> QED
  BY <1>1, <1>2 DEF OrderInv, IndexInv, TimesDistinct, PrevEarlier, NoneBetween, LastLatest

\* What a call changes for the order.
LEMMA ChangedOrder ==
  ASSUME IInv, NEW p \in Nodes, NEW c \in Nodes, AppendChild(p, c)
  PROVE  /\ Attached' = Attached \union {c} /\ c \notin Attached
         /\ linked'[c] = clock + 1 /\ parent'[c] = p /\ prev'[c] = last[p]
         /\ \A n \in Attached : /\ n \in Nodes /\ n # c /\ parent[n] \in Nodes
                                /\ parent'[n] = parent[n] /\ prev'[n] = prev[n]
                                /\ linked'[n] = linked[n] /\ linked[n] \in Nat /\ linked[n] <= clock
                                /\ linked[n] < linked'[c]
         /\ \A n \in Nodes : last'[n] = IF n = p THEN c ELSE last[n]
<1>1. clock \in Nat /\ linked'[c] = clock + 1 /\ \A n \in Nodes : n # c => linked'[n] = linked[n]
  BY DEF IInv, TypeOK, AppendChild
<1>2. \A n \in Nodes : linked[n] \in Nat /\ linked[n] <= clock /\ parent[n] \in Link
  BY DEF IInv, TypeOK, TimesBounded
<1>3. \A n \in Nodes : /\ parent'[n] = IF n = c THEN p ELSE parent[n]
                       /\ prev'[n] = IF n = c THEN last[p] ELSE prev[n]
                       /\ last'[n] = IF n = p THEN c ELSE last[n]
  BY ChangedLinks
<1>4. parent[c] = NULL /\ p # NULL
  BY AcceptedCall
<1>5. Attached' = Attached \union {c} /\ c \notin Attached
  BY <1>3, <1>4 DEF Attached
<1> QED
  BY <1>1, <1>2, <1>3, <1>5 DEF Attached, Link

\* Linking a node behind the last child keeps the order.
LEMMA AppendOrder ==
  ASSUME IInv, OrderInv, NEW p \in Nodes, NEW c \in Nodes, AppendChild(p, c)
  PROVE  OrderInv'
<1> USE ChangedOrder
<1>1. TimesDistinct'
  <2> SUFFICES ASSUME NEW m \in Attached', NEW n \in Attached', linked'[m] = linked'[n]
               PROVE  m = n
    BY DEF TimesDistinct
  <2>1. CASE m = c
    <3>1. n \notin Attached
      BY <2>1
    <3> QED
      BY <2>1, <3>1
  <2>2. CASE n = c
    <3>1. m \notin Attached
      BY <2>2
    <3> QED
      BY <2>2, <3>1
  <2>3. CASE m \in Attached /\ n \in Attached
    BY <2>3 DEF OrderInv, TimesDistinct
  <2> QED
    BY <2>1, <2>2, <2>3
<1>2. last[p] # NULL => last[p] \in Attached /\ parent[last[p]] = p
  BY AcceptedCall DEF Attached
<1>3. PrevEarlier'
  <2> SUFFICES ASSUME NEW n \in Attached', prev'[n] # NULL
               PROVE  linked'[prev'[n]] < linked'[n]
    BY DEF PrevEarlier
  <2>1. CASE n = c
    BY <1>2, <2>1
  <2>2. CASE n \in Attached
    <3>1. prev[n] \in Nodes /\ parent[prev[n]] = parent[n]
      BY <2>2 DEF IInv, LinksAgree, PrevAgrees, TypeOK, Link, Attached
    <3>2. prev[n] \in Attached
      BY <2>2, <3>1 DEF Attached
    <3> QED
      BY <2>2, <3>2 DEF OrderInv, PrevEarlier
  <2> QED
    BY <2>1, <2>2
<1>4. \A m \in Attached : parent[m] = p => last[p] # NULL /\ linked[m] <= linked[last[p]]
  <2> TAKE m \in Attached
  <2> HAVE parent[m] = p
  <2>1. last[p] # NULL
    BY DEF IInv, LinksAgree, ChildAgrees, Attached
  <2> QED
    BY <2>1 DEF OrderInv, LastLatest
<1>5. NoneBetween'
  <2> SUFFICES ASSUME NEW n \in Attached', NEW m \in Attached',
                      parent'[m] = parent'[n], linked'[m] < linked'[n]
               PROVE  prev'[n] # NULL /\ linked'[m] <= linked'[prev'[n]]
    BY DEF NoneBetween
  <2>1. CASE n = c
    <3>1. m \in Attached
      <4>1. linked'[c] \in Nat
        BY DEF IInv, TypeOK
      <4> QED
        BY <2>1, <4>1
    <3>2. parent[m] = p /\ last[p] \in Attached
      BY <1>2, <1>4, <2>1, <3>1
    <3> QED
      BY <1>4, <2>1, <3>1, <3>2
  <2>2. CASE n \in Attached
    <3>1. m \in Attached
      BY <2>2, linked'[c] \in Nat DEF IInv, TypeOK
    <3>2. prev[n] # NULL /\ linked[m] <= linked[prev[n]]
      BY <2>2, <3>1 DEF OrderInv, NoneBetween
    <3>3. prev[n] \in Attached
      BY <2>2, <3>2 DEF IInv, LinksAgree, PrevAgrees, TypeOK, Link, Attached
    <3> QED
      BY <2>2, <3>1, <3>2, <3>3
  <2> QED
    BY <2>1, <2>2
<1>6. LastLatest'
  <2> SUFFICES ASSUME NEW n \in Attached'
               PROVE  linked'[n] <= linked'[last'[parent'[n]]]
    BY DEF LastLatest
  <2>0. linked'[c] \in Nat
    BY DEF IInv, TypeOK
  <2>1. CASE n = c
    BY <2>0, <2>1
  <2>2. CASE n \in Attached /\ parent[n] = p
    BY <2>0, <2>2
  <2>3. CASE n \in Attached /\ parent[n] # p
    <3>1. last'[parent'[n]] = last[parent[n]] /\ last[parent[n]] # NULL
      BY <2>3 DEF IInv, LinksAgree, ChildAgrees, Attached
    <3>2. last[parent[n]] \in Attached
      <4>1. parent[last[parent[n]]] = parent[n] /\ last[parent[n]] \in Nodes
        BY <2>3, <3>1 DEF IInv, LinksAgree, EndsAgree, TypeOK, Link
      <4> QED
        BY <2>3, <4>1 DEF Attached
    <3> QED
      BY <2>3, <3>1, <3>2 DEF OrderInv, LastLatest
  <2> QED
    BY <2>1, <2>2, <2>3
<1> QED
  BY <1>1, <1>3, <1>5, <1>6 DEF OrderInv

-----------------------------------------------------------------------------
(* The walk back to the nearest element. *)

NatLess == {pair \in Nat \X Nat : pair[1] < pair[2]}

\* Every non-empty set of naturals has a least element.
LEMMA LeastElement ==
  ASSUME NEW T, T \subseteq Nat, T # {}
  PROVE  \E x \in T : \A y \in T : x <= y
<1>1. IsWellFoundedOn(NatLess, Nat)
  BY NatLessThanWellFounded, Zenon DEF OpToRel, NatLess
<1>2. PICK x \in T : \A y \in T : ~ (<<y, x>> \in NatLess)
  BY <1>1, WFMin, Zenon
<1>3. ASSUME NEW y \in T PROVE x <= y
  <2>1. <<y, x>> \notin NatLess
    BY <1>2
  <2> QED
    BY <2>1 DEF NatLess
<1> QED
  BY <1>3

\* The elements among the siblings of a node up to the node itself.
ElementsUpTo(k) == {e \in elements : parent[e] = parent[k] /\ linked[e] <= linked[k]}

\* e is the nearest element from k back, NULL when there is none.
IsNearest(e, k) ==
  IF ElementsUpTo(k) = {} THEN e = NULL
  ELSE e \in ElementsUpTo(k) /\ \A x \in ElementsUpTo(k) : linked[x] <= linked[e]

\* The recursion that NearestElement goes through.
IsWalkBack(f) ==
  f = [k \in Nodes \union {NULL} |-> IF k = NULL \/ k \in elements THEN k ELSE f[prev[k]]]

\* The nearest element, of itself or of the sibling in front.
LEMMA NearestStep ==
  ASSUME IInv, OrderInv, NEW k \in Attached
  PROVE  /\ k \in elements => IsNearest(k, k)
         /\ k \notin elements /\ prev[k] = NULL => IsNearest(NULL, k)
         /\ prev[k] # NULL => prev[k] \in Attached /\ linked[prev[k]] < linked[k]
         /\ k \notin elements /\ prev[k] # NULL => ElementsUpTo(k) = ElementsUpTo(prev[k])
<1>1. /\ elements \subseteq Nodes /\ k \in Nodes /\ parent[k] # NULL
      /\ \A n \in Nodes : linked[n] \in Nat
  BY DEF IInv, TypeOK, Attached
<1>2. k \in elements => IsNearest(k, k)
  BY <1>1 DEF IsNearest, ElementsUpTo
<1>3. \A e \in ElementsUpTo(k) : e \in Attached /\ parent[e] = parent[k] /\ (e = k \/ linked[e] < linked[k])
  BY <1>1 DEF ElementsUpTo, Attached, OrderInv, TimesDistinct
<1>4. k \notin elements /\ prev[k] = NULL => IsNearest(NULL, k)
  <2> HAVE k \notin elements /\ prev[k] = NULL
  <2>1. ElementsUpTo(k) = {}
    BY <1>3 DEF OrderInv, NoneBetween, ElementsUpTo
  <2> QED
    BY <2>1 DEF IsNearest
<1>5. ASSUME prev[k] # NULL
      PROVE  prev[k] \in Attached /\ linked[prev[k]] < linked[k] /\ parent[prev[k]] = parent[k]
  <2>1. prev[k] \in Nodes /\ parent[prev[k]] = parent[k]
    BY <1>1, <1>5 DEF IInv, TypeOK, Link, LinksAgree, PrevAgrees
  <2> QED
    BY <1>1, <1>5, <2>1 DEF Attached, OrderInv, PrevEarlier
<1>6. ASSUME k \notin elements, prev[k] # NULL
      PROVE  ElementsUpTo(k) = ElementsUpTo(prev[k])
  <2>1. ASSUME NEW e \in ElementsUpTo(k) PROVE e \in ElementsUpTo(prev[k])
    <3>1. e \in Attached /\ parent[e] = parent[k] /\ linked[e] < linked[k] /\ e \in elements
      BY <1>3, <1>6, <2>1 DEF ElementsUpTo
    <3>2. linked[e] <= linked[prev[k]]
      BY <3>1 DEF OrderInv, NoneBetween
    <3> QED
      BY <1>5, <1>6, <3>1, <3>2 DEF ElementsUpTo
  <2>2. ASSUME NEW e \in ElementsUpTo(prev[k]) PROVE e \in ElementsUpTo(k)
    <3>1. e \in elements /\ parent[e] = parent[k] /\ linked[e] <= linked[prev[k]]
      BY <1>5, <1>6, <2>2 DEF ElementsUpTo
    <3>2. linked[e] \in Nat /\ linked[prev[k]] \in Nat /\ linked[k] \in Nat
      BY <1>1, <1>5, <1>6, <3>1 DEF Attached
    <3> QED
      BY <1>5, <1>6, <3>1, <3>2 DEF ElementsUpTo
  <2> QED
    BY <2>1, <2>2
<1> QED
  BY <1>2, <1>4, <1>5, <1>6

\* Of the elements up to a node one was linked last.
LEMMA NearestExists ==
  ASSUME IInv, OrderInv, NEW k \in Attached
  PROVE  \E e : IsNearest(e, k)
<1>1. elements \subseteq Nodes /\ k \in Nodes /\ \A n \in Nodes : linked[n] \in Nat
  BY DEF IInv, TypeOK, Attached
<1>2. CASE ElementsUpTo(k) = {}
  BY <1>2 DEF IsNearest
<1>3. CASE ElementsUpTo(k) # {}
  <2> DEFINE Late == {linked[k] - linked[e] : e \in ElementsUpTo(k)}
  <2>1. \A e \in ElementsUpTo(k) : linked[e] \in Nat /\ linked[e] <= linked[k]
    BY <1>1 DEF ElementsUpTo
  <2>2. Late \subseteq Nat /\ Late # {}
    <3>1. \A e \in ElementsUpTo(k) : linked[k] - linked[e] \in Nat
      BY <1>1, <2>1
    <3> QED
      BY <1>3, <3>1
  <2>3. PICK x \in Late : \A y \in Late : x <= y
    BY <2>2, LeastElement
  <2>4. PICK e \in ElementsUpTo(k) : x = linked[k] - linked[e]
    OBVIOUS
  <2>5. ASSUME NEW d \in ElementsUpTo(k) PROVE linked[d] <= linked[e]
    <3>1. linked[k] - linked[e] <= linked[k] - linked[d]
      BY <2>3, <2>4
    <3> QED
      BY <1>1, <2>1, <3>1
  <2> QED
    BY <1>3, <2>4, <2>5 DEF IsNearest
<1> QED
  BY <1>2, <1>3

\* Two nodes that are nearest are one.
LEMMA NearestUnique ==
  ASSUME IInv, OrderInv, NEW k \in Attached, NEW d, NEW e, IsNearest(d, k), IsNearest(e, k)
  PROVE  d = e
<1>1. CASE ElementsUpTo(k) = {}
  BY <1>1 DEF IsNearest
<1>2. CASE ElementsUpTo(k) # {}
  <2>1. d \in ElementsUpTo(k) /\ e \in ElementsUpTo(k) /\ linked[d] <= linked[e] /\ linked[e] <= linked[d]
    BY <1>2 DEF IsNearest
  <2>2. d \in Attached /\ e \in Attached /\ linked[d] \in Nat /\ linked[e] \in Nat
    BY <2>1 DEF ElementsUpTo, Attached, IInv, TypeOK
  <2> QED
    BY <2>1, <2>2 DEF OrderInv, TimesDistinct
<1> QED
  BY <1>1, <1>2

\* The recursion has a solution: the nearest element of every linked node.
LEMMA WalkBackExists ==
  ASSUME IInv, OrderInv
  PROVE  \E f : IsWalkBack(f)
<1> DEFINE N(k) == CHOOSE e : IsNearest(e, k)
           F == [k \in Nodes \union {NULL} |-> IF k = NULL \/ k \in elements THEN k
                                                ELSE IF k \in Attached THEN N(k) ELSE NULL]
<1>1. \A k \in Attached : IsNearest(N(k), k)
  BY NearestExists, Zenon
<1> HIDE DEF N
<1>2. ASSUME NEW k \in Nodes, k # NULL, k \notin elements
      PROVE  F[k] = F[prev[k]]
  <2>1. prev[k] \in Nodes \union {NULL}
    BY DEF IInv, TypeOK, Link
  <2>2. CASE k \notin Attached
    <3>1. prev[k] = NULL
      BY <2>1, <2>2 DEF Attached, IInv, LinksAgree, PrevAgrees
    <3> QED
      BY <1>2, <2>2, <3>1
  <2>3. CASE k \in Attached /\ prev[k] = NULL
    <3>1. IsNearest(NULL, k)
      BY <1>2, <2>3, NearestStep
    <3>2. N(k) = NULL
      BY <1>1, <2>3, <3>1, NearestUnique
    <3> QED
      BY <1>2, <2>3, <3>2
  <2>4. CASE k \in Attached /\ prev[k] # NULL
    <3>1. prev[k] \in Attached /\ ElementsUpTo(k) = ElementsUpTo(prev[k])
      BY <1>2, <2>4, NearestStep
    <3>2. \A e : IsNearest(e, prev[k]) => e = N(k)
      <4>1. \A e : IsNearest(e, prev[k]) => IsNearest(e, k)
        BY <3>1 DEF IsNearest
      <4> QED
        BY <1>1, <2>4, <4>1, NearestUnique
    <3>3. CASE prev[k] \in elements
      <4>1. IsNearest(prev[k], prev[k])
        BY <3>1, <3>3, NearestStep
      <4> QED
        BY <1>2, <2>1, <2>4, <3>2, <3>3, <4>1
    <3>4. CASE prev[k] \notin elements
      <4>1. N(prev[k]) = N(k)
        BY <1>1, <3>1, <3>2
      <4> QED
        BY <1>2, <2>1, <2>4, <3>1, <3>4, <4>1
    <3> QED
      BY <3>3, <3>4
  <2> QED
    BY <2>2, <2>3, <2>4
<1>3. ASSUME NEW k \in Nodes \union {NULL}
      PROVE  F[k] = IF k = NULL \/ k \in elements THEN k ELSE F[prev[k]]
  <2>1. CASE k = NULL \/ k \in elements
    BY <2>1
  <2>2. CASE ~ (k = NULL \/ k \in elements)
    BY <1>2, <2>2
  <2> QED
    BY <2>1, <2>2
<1>4. IsWalkBack(F)
  <2>1. F = [k \in Nodes \union {NULL} |-> F[k]]
    OBVIOUS
  <2> HIDE DEF F
  <2> QED
    BY <1>3, <2>1 DEF IsWalkBack
<1> QED
  BY <1>4

\* Whatever solves the recursion gives the nearest element.
LEMMA WalkBackFinds ==
  ASSUME IInv, OrderInv, NEW f, IsWalkBack(f)
  PROVE  \A k \in Attached : IsNearest(f[k], k)
<1> DEFINE Bad == {linked[k] : k \in {n \in Attached : ~IsNearest(f[n], n)}}
<1>1. SUFFICES ASSUME NEW b \in Attached, ~IsNearest(f[b], b) PROVE FALSE
  OBVIOUS
<1>2. \A n \in Attached : n \in Nodes /\ linked[n] \in Nat /\ n # NULL
  BY NullAssumption DEF Attached, IInv, TypeOK
<1>3. Bad \subseteq Nat /\ Bad # {}
  BY <1>1, <1>2
<1>4. PICK t \in Bad : \A u \in Bad : t <= u
  BY <1>3, LeastElement
<1>5. PICK k \in Attached : t = linked[k] /\ ~IsNearest(f[k], k)
  OBVIOUS
<1>6. ASSUME NEW n \in Attached, linked[n] < linked[k]
      PROVE  IsNearest(f[n], n)
  <2>1. SUFFICES ASSUME ~IsNearest(f[n], n) PROVE FALSE
    OBVIOUS
  <2>2. linked[n] \in Bad
    BY <2>1
  <2>3. linked[k] <= linked[n]
    BY <1>4, <1>5, <2>2
  <2> QED
    BY <1>2, <1>6, <2>3
<1> HIDE DEF Bad
<1>7. /\ f[k] = IF k \in elements THEN k ELSE f[prev[k]]
      /\ f[NULL] = NULL
  BY <1>2, <1>5 DEF IsWalkBack
<1>8. CASE k \in elements
  BY <1>5, <1>7, <1>8, NearestStep
<1>9. CASE k \notin elements /\ prev[k] = NULL
  BY <1>5, <1>7, <1>9, NearestStep
<1>10. CASE k \notin elements /\ prev[k] # NULL
  <2>1. prev[k] \in Attached /\ linked[prev[k]] < linked[k] /\ ElementsUpTo(k) = ElementsUpTo(prev[k])
    BY <1>10, NearestStep
  <2>2. IsNearest(f[prev[k]], prev[k])
    BY <1>6, <2>1
  <2> QED
    BY <1>5, <1>7, <1>10, <2>1, <2>2 DEF IsNearest
<1> QED
  BY <1>8, <1>9, <1>10

\* The walk back from a linked node ends at the nearest element.
LEMMA NearestCorrect ==
  ASSUME IInv, OrderInv
  PROVE  /\ \A k \in Attached : IsNearest(NearestElement(k), k)
         /\ NearestElement(NULL) = NULL
<1> DEFINE B == CHOOSE f : f = [k \in Nodes \union {NULL} |->
                                  IF k = NULL \/ k \in elements THEN k ELSE f[prev[k]]]
<1>1. \A m : NearestElement(m) = B[m]
  BY DEF NearestElement
<1>2. IsWalkBack(B)
  BY WalkBackExists, Zenon DEF IsWalkBack
<1> HIDE DEF B
<1>3. B[NULL] = NULL
  BY <1>2 DEF IsWalkBack
<1> QED
  BY <1>1, <1>2, <1>3, WalkBackFinds

-----------------------------------------------------------------------------
(* Indices. *)

\* A node that is linked gets the number of the elements in front of it, and one.
LEMMA IndexOfNew ==
  ASSUME IInv, OrderInv, IndexInv, NEW p \in Nodes, NEW c \in Nodes, AppendChild(p, c)
  PROVE  IndexAfter(last[p]) = Cardinality({m \in elements : parent[m] = p}) + 1
<1> DEFINE Siblings == {m \in elements : parent[m] = p}
           e == NearestElement(last[p])
<1>1. NULL \notin elements /\ elements \subseteq Nodes
  BY NullAssumption DEF IInv, TypeOK
<1>2. \A m \in Siblings : m \in Attached /\ last[p] # NULL /\ linked[m] <= linked[last[p]]
  <2> TAKE m \in Siblings
  <2>1. m \in Attached /\ parent[m] = p
    BY <1>1, NullAssumption DEF Attached
  <2>2. last[p] # NULL
    BY <2>1 DEF IInv, LinksAgree, ChildAgrees, Attached
  <2> QED
    BY <2>1, <2>2 DEF OrderInv, LastLatest
<1>3. CASE last[p] = NULL
  <2>1. e = NULL /\ Siblings = {}
    BY <1>2, <1>3, NearestCorrect
  <2>2. Cardinality(Siblings) = 0
    BY <2>1, FS_EmptySet
  <2> HIDE DEF e, Siblings
  <2>3. IndexAfter(last[p]) = 1
    BY <1>1, <2>1 DEF IndexAfter, e
  <2> QED
    BY <2>2, <2>3 DEF Siblings
<1>4. CASE last[p] # NULL
  <2>1. last[p] \in Attached /\ parent[last[p]] = p
    BY <1>4, AcceptedCall DEF Attached
  <2>2. ElementsUpTo(last[p]) = Siblings
    BY <1>2, <2>1 DEF ElementsUpTo
  <2>3. IsNearest(e, last[p])
    BY <2>1, NearestCorrect
  <2>4. IF Siblings = {} THEN e = NULL ELSE e \in Siblings /\ \A x \in Siblings : linked[x] <= linked[e]
    BY <2>2, <2>3 DEF IsNearest
  <2>5. IndexAfter(last[p]) = IF e \in elements THEN index[e] + 1 ELSE 1
    BY DEF IndexAfter
  <2> HIDE DEF e
  <2>6. CASE Siblings = {}
    <3>1. Cardinality(Siblings) = 0 /\ e \notin elements
      BY <1>1, <2>4, <2>6, FS_EmptySet
    <3> HIDE DEF Siblings
    <3> QED
      BY <2>5, <3>1 DEF Siblings
  <2>7. CASE Siblings # {}
    <3>1. e \in elements /\ parent[e] = p /\ e \in Attached /\ \A x \in Siblings : linked[x] <= linked[e]
      BY <1>2, <2>4, <2>7
    <3>2. index[e] = Cardinality(EarlierElementSiblings(e)) + 1
      BY <3>1, NullAssumption DEF IndexInv, IndexExact
    <3>3. \A m \in Siblings : m = e \/ linked[m] < linked[e]
      BY <1>2, <3>1 DEF OrderInv, TimesDistinct, IInv, TypeOK, Attached
    <3>4. linked[e] \in Nat
      BY <3>1 DEF IInv, TypeOK, Attached
    <3>5. Siblings = EarlierElementSiblings(e) \union {e} /\ e \notin EarlierElementSiblings(e)
      BY <3>1, <3>3, <3>4 DEF EarlierElementSiblings
    <3>6. EarlierElementSiblings(e) \in SUBSET Attached
      BY <1>2, <3>5
    <3> HIDE DEF Siblings
    <3>7. IsFiniteSet(EarlierElementSiblings(e))
      BY <3>6, FS_Subset DEF IndexInv
    <3>8. /\ Cardinality(Siblings) = Cardinality(EarlierElementSiblings(e)) + 1
          /\ Cardinality(EarlierElementSiblings(e)) \in Nat
      BY <3>5, <3>7, FS_AddElement, FS_CardinalityType
    <3> QED
      BY <2>5, <3>1, <3>2, <3>8 DEF Siblings
  <2> QED
    BY <2>6, <2>7
<1> QED
  BY <1>3, <1>4

\* A call leaves the indices of the others what they are, and they stay exact.
LEMMA AppendIndex ==
  ASSUME IInv, OrderInv, IndexInv, NEW p \in Nodes, NEW c \in Nodes, AppendChild(p, c)
  PROVE  IndexInv'
<1>1. /\ Attached' = Attached \union {c} /\ c \notin Attached
      /\ linked'[c] = clock + 1 /\ parent'[c] = p
      /\ \A n \in Attached : n # c /\ parent'[n] = parent[n] /\ linked'[n] = linked[n]
                             /\ linked[n] \in Nat /\ linked[n] < linked'[c]
  BY ChangedOrder
<1>2. IsFiniteSet(Attached')
  BY <1>1, FS_AddElement DEF IndexInv
<1>3. elements' = elements /\ elements \subseteq Nodes /\ p # NULL
  BY NullAssumption DEF AppendChild, IInv, TypeOK
<1>4. \A m \in elements : parent'[m] # NULL => m \in Attached \/ m = c
  BY <1>1, <1>3 DEF Attached
<1>5. \A m \in elements : m # c /\ parent[m] # NULL => m \in Attached
  BY <1>3 DEF Attached
<1>6. parent[c] = NULL
  BY AcceptedCall
<1>7. ASSUME NEW n \in elements, n \in Attached
      PROVE  index'[n] = Cardinality(EarlierElementSiblings(n)') + 1
  <2>1. EarlierElementSiblings(n)' = EarlierElementSiblings(n)
    <3>1. parent[n] # NULL /\ linked'[n] = linked[n] /\ parent'[n] = parent[n] /\ linked[n] \in Nat
          /\ linked[n] < linked'[c]
      BY <1>1, <1>7 DEF Attached
    <3>2. \A m \in elements : (parent'[m] = parent'[n] /\ linked'[m] < linked'[n])
                                <=> (parent[m] = parent[n] /\ linked[m] < linked[n])
      <4> TAKE m \in elements
      <4>0. linked'[c] \in Nat
        BY <1>1 DEF IInv, TypeOK
      <4>1. CASE m = c
        BY <1>1, <1>6, <3>1, <4>0, <4>1
      <4>2. CASE m # c /\ m \in Attached
        BY <1>1, <3>1, <4>2
      <4>3. CASE m # c /\ m \notin Attached
        BY <1>4, <1>5, <3>1, <4>3
      <4> QED
        BY <4>1, <4>2, <4>3
    <3> QED
      BY <1>3, <3>2 DEF EarlierElementSiblings
  <2>2. index'[n] = index[n]
    BY <1>1, <1>7, <1>3 DEF AppendChild, IInv, TypeOK
  <2>3. index[n] = Cardinality(EarlierElementSiblings(n)) + 1
    BY <1>7 DEF IndexInv, IndexExact, Attached
  <2> QED
    BY <2>1, <2>2, <2>3
<1>8. ASSUME c \in elements
      PROVE  index'[c] = Cardinality(EarlierElementSiblings(c)') + 1
  <2>1. EarlierElementSiblings(c)' = {m \in elements : parent[m] = p}
    <3>1. \A m \in elements : (parent'[m] = p /\ linked'[m] < linked'[c]) <=> parent[m] = p
      <4> TAKE m \in elements
      <4>0. linked'[c] \in Nat
        BY <1>1 DEF IInv, TypeOK
      <4>1. CASE m = c
        BY <1>3, <1>6, <4>0, <4>1
      <4>2. CASE m # c /\ m \in Attached
        BY <1>1, <4>2
      <4>3. CASE m # c /\ m \notin Attached
        BY <1>3, <1>4, <1>5, <4>3
      <4> QED
        BY <4>1, <4>2, <4>3
    <3> QED
      BY <1>1, <1>3, <3>1 DEF EarlierElementSiblings
  <2>2. index'[c] = IndexAfter(last[p])
    BY <1>8 DEF AppendChild, IInv, TypeOK
  <2> QED
    BY <2>1, <2>2, IndexOfNew
<1>9. IndexExact'
  <2>1. ASSUME NEW n \in elements', parent'[n] # NULL
        PROVE  index'[n] = Cardinality(EarlierElementSiblings(n)') + 1
    BY <1>3, <1>4, <1>7, <1>8, <2>1
  <2> QED
    BY <2>1 DEF IndexExact
<1> QED
  BY <1>2, <1>9 DEF IndexInv

\* A new node stands nowhere yet.
LEMMA NewNodeOrder ==
  ASSUME IInv, OrderInv, IndexInv, NEW n \in Nodes, NewNode(n)
  PROVE  OrderInv' /\ IndexInv'
<1>1. /\ UNCHANGED <<parent, first, last, prev, next, index, clock, linked>>
      /\ elements' \in {elements, elements \union {n}} /\ parent[n] = NULL
  BY DEF NewNode, links, IInv, LinksAgree, Unlinked
<1>2. Attached' = Attached
  BY <1>1 DEF Attached
<1>3. OrderInv'
  BY <1>1, <1>2 DEF OrderInv, TimesDistinct, PrevEarlier, NoneBetween, LastLatest
<1>4. \A m \in Nodes : parent[m] # NULL => EarlierElementSiblings(m)' = EarlierElementSiblings(m)
  BY <1>1 DEF EarlierElementSiblings
<1>5. IndexExact'
  <2>1. ASSUME NEW m \in elements', parent'[m] # NULL
        PROVE  index'[m] = Cardinality(EarlierElementSiblings(m)') + 1
    <3>1. m \in elements /\ m \in Nodes /\ parent[m] # NULL
      BY <1>1, <2>1 DEF IInv, TypeOK
    <3>2. index[m] = Cardinality(EarlierElementSiblings(m)) + 1
      BY <3>1 DEF IndexInv, IndexExact
    <3> QED
      BY <1>1, <1>4, <3>1, <3>2
  <2> QED
    BY <2>1 DEF IndexExact
<1> QED
  BY <1>2, <1>3, <1>5 DEF IndexInv

\* No call breaks order or indices.
LEMMA OrderStep == IInv /\ OrderInv /\ IndexInv /\ [Next]_vars => OrderInv' /\ IndexInv'
<1> SUFFICES ASSUME IInv, OrderInv, IndexInv, [Next]_vars PROVE OrderInv' /\ IndexInv'
  OBVIOUS
<1>1. ASSUME NEW n \in Nodes, NewNode(n) PROVE OrderInv' /\ IndexInv'
  BY <1>1, NewNodeOrder
<1>2. ASSUME NEW p \in Nodes, NEW c \in Nodes, AppendChild(p, c) PROVE OrderInv' /\ IndexInv'
  BY <1>2, AppendOrder, AppendIndex
<1>3. CASE UNCHANGED vars
  <2>1. UNCHANGED <<allocated, elements, parent, first, last, prev, next, index, clock, linked>>
    BY <1>3 DEF vars, links
  <2>2. OrderInv'
    BY <2>1 DEF OrderInv, TimesDistinct, PrevEarlier, NoneBetween, LastLatest, Attached
  <2>3. Attached' = Attached /\ \A n : EarlierElementSiblings(n)' = EarlierElementSiblings(n)
    BY <2>1 DEF Attached, EarlierElementSiblings
  <2>4. IndexInv'
    BY <2>1, <2>3 DEF IndexInv, IndexExact
  <2> QED
    BY <2>2, <2>4
<1> QED
  BY <1>1, <1>2, <1>3 DEF Next

\* The index of an element is its place among the element siblings, whatever
\* text and comments stand between them and in whatever order parents are
\* filled: the walk back through prev finds the element linked before it.
THEOREM ArenaIndexExact == Spec => []IndexExact
<1>1. IndexInv => IndexExact
  BY DEF IndexInv
<1> QED
  BY <1>1, OrderInit, OrderStep, Invariance, PTL DEF Spec
=============================================================================
