------------------------------ MODULE Lookups ------------------------------
(***************************************************************************)
(* The lookups without selectors (find_by_* and DocumentIndex of           *)
(* crates/fhp-selector/src/lib.rs).  DocumentIndex::build walks the        *)
(* document once and fills three maps; a lookup reads one of them.         *)
(***************************************************************************)
EXTENDS SelectorOps

CONSTANTS
  Documents,  \* The documents that are indexed.
  Names       \* The names looked for: tags, ids, classes, attribute values.

VARIABLES
  ns,        \* The document.
  ahead,     \* The nodes the walk has still to come to.
  id_map, class_map, tag_map

vars == <<ns, ahead, id_map, class_map, tag_map>>

EmptyMap == [key \in {} |-> NULL]
Lookup(map, key, none) == IF key \in DOMAIN map THEN map[key] ELSE none

Init ==
  /\ ns \in Documents
  /\ ahead = WalkOrder(ns, RootId)
  /\ id_map = EmptyMap /\ class_map = EmptyMap /\ tag_map = EmptyMap

\* The first element with an id keeps it ...
InsertFirst(map, key, n) == map @@ (key :> n)

Push(map, key, n) == (key :> Append(Lookup(map, key, <<>>), n)) @@ map

\* Seeded fault: a class named twice lists the element twice.
PushAgain(map, key, n) == Push(map, key, n)

\* ... and an element that names a class twice is listed once.
PushOnce(map, key, n) ==
  IF Lookup(map, key, <<>>) # <<>> /\ Last(map[key]) = n THEN map ELSE Push(map, key, n)

Indexed(doc, n) == IsDocumentElement(doc, n)

IndexElement(n, node) ==
  /\ tag_map' = Push(tag_map, TagOf(node), n)
  /\ id_map' = FoldSet(LAMBDA id, map : InsertFirst(map, id, n), id_map, node.attrs.ids)
  /\ class_map' = FoldLeft(LAMBDA map, class : PushOnce(map, class, n), class_map, node.attrs.classes)

IndexNext ==
  /\ ahead # <<>>
  /\ ahead' = Tail(ahead)
  /\ IF Indexed(ns, Head(ahead)) THEN IndexElement(Head(ahead), ns[Head(ahead)])
     ELSE UNCHANGED <<id_map, class_map, tag_map>>
  /\ UNCHANGED ns

Next == IndexNext

Spec == Init /\ [][Next]_vars

-----------------------------------------------------------------------------
(***************************************************************************)
(* The scans: find_by_tag, find_by_id, find_by_class, find_by_attr.        *)
(***************************************************************************)
Elements == {n \in DOMAIN ns : IsDocumentElement(ns, n)}

Scan(wanted) == LET isWanted(n) == n \in wanted IN SelectSeq(WalkOrder(ns, RootId), isWanted)

FindByTag(tag) == Scan({n \in Elements : TagOf(ns[n]) = tag})
FindById(id) ==
  LET found == Scan({n \in Elements : id \in ns[n].attrs.ids}) IN IF found = <<>> THEN NULL ELSE Head(found)
FindByClass(class) == Scan({n \in Elements : class \in Classes(ns[n])})
FindByAttr(value) == Scan({n \in Elements : value \in ns[n].attrs.titles})

\* What selectors find in the whole document.
Selected(part) ==
  SetToSortSeq({n \in DOMAIN ns : MatchCompound(ns, n, {part})}, LAMBDA m, n : Precedes(ns, m, n))

-----------------------------------------------------------------------------
ListsOf(map) == UNION {ToSet(map[key]) : key \in DOMAIN map}

\* The maps hold elements of the document.
TypeOK ==
  \A n \in {id_map[id] : id \in DOMAIN id_map} \union ListsOf(class_map) \union ListsOf(tag_map) :
    IsDocumentElement(ns, n)

\* At every moment the lists of the index are in document order, without
\* duplicates.
ListsInOrder ==
  \A list \in {class_map[key] : key \in DOMAIN class_map} \union {tag_map[key] : key \in DOMAIN tag_map} :
    \A i, j \in DOMAIN list : i < j => Precedes(ns, list[i], list[j])

\* "Every lookup has the same order as CSS selection" (DocumentIndex::build): the
\* index, the scans and selectors find the same elements, hash collisions included.
LookupsAgree ==
  ahead = <<>> =>
    \A name \in Names :
      /\ Lookup(tag_map, name, <<>>) = FindByTag(name)
      /\ Lookup(id_map, name, NULL) = FindById(name)
      /\ Lookup(class_map, name, <<>>) = FindByClass(name)
      /\ name \in KnownNames => Selected(Tag(name)) = FindByTag(name)
      /\ name \in DOMAIN ClassBit => Selected(Class(name)) = FindByClass(name)
      /\ name \in DOMAIN IdHash =>
           FindById(name) = (IF Selected(Id(name)) = <<>> THEN NULL ELSE Head(Selected(Id(name))))
      /\ Selected(Attr("equals", <<name>>)) = FindByAttr(<<name>>)

LookupsExact == TypeOK /\ ListsInOrder /\ LookupsAgree
=============================================================================
