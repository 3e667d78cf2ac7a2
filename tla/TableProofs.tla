----------------------------- MODULE TableProofs -----------------------------
(***************************************************************************)
(* Theorems of Table.tla for every choice of names, types, options and     *)
(* bounds: the Table stays typed, its name maps stay in step with its      *)
(* slices, swapOrder stays in range, and its columns' names are those of   *)
(* the database, as long as the name of a column that was dropped comes    *)
(* back at the default position only (Reuse # "any").  They rest on what    *)
(* the operations of NamedList.tla preserve.                                *)
(***************************************************************************)
EXTENDS Table, TLAPS, SequenceTheorems

----------------------------------------------------------------------------
(* What the operations of a named list preserve, whatever the nodes and the    *)
(* names are.  A list is sound when its map and its slice agree: every name     *)
(* points to a node that bears it, and every live node is the one its name      *)
(* points to.                                                                   *)
Sound(l, Items, Names) ==
  /\ IsList(l, Items, Names)
  /\ Coherent(l)
  /\ Reachable(l)

\* Nodes stay nodes under another action and under another name, and then bear
\* them.
NodeSet(Items, Names) ==
  \A item \in Items :
    /\ item.name \in Names
    /\ \A action \in Actions :
         /\ WithAction(item, action) \in Items
         /\ WithAction(item, action).name = item.name
         /\ WithAction(item, action).action = action

----------------------------------------------------------------------------
\* The empty list is sound and holds nothing (NewTableWithAction,
\* element/table.go).
LEMMA EmptyListSound ==
  ASSUME NEW Items, NEW Names
  PROVE  Sound(EmptyList, Items, Names) /\ LiveNames(EmptyList) = {}
BY DEF Sound, EmptyList, IsList, Coherent, Reachable, LiveNames

\* Appending a node under a name the map does not have keeps the list sound and
\* adds the name if the node is live.
LEMMA AppendItemSound ==
  ASSUME NEW Items, NEW Names, NEW l, Sound(l, Items, Names),
         NEW item \in Items, item.name \in Names, item.name \notin DOMAIN l.id
  PROVE  /\ Sound(AppendItem(l, item), Items, Names)
         /\ LiveNames(AppendItem(l, item)) =
              IF IsLive(item.action) THEN LiveNames(l) \cup {item.name} ELSE LiveNames(l)
<1> DEFINE r == AppendItem(l, item)
<1>1. /\ l.items \in Seq(Items)
      /\ l.id \in [DOMAIN l.id -> Nat \ {0}]
      /\ DOMAIN l.id \subseteq Names
      /\ Len(l.items) \in Nat
  BY DEF Sound, IsList
<1>2. /\ r.items = Append(l.items, item)
      /\ r.id = Point(l, item.name, Len(l.items) + 1)
      /\ r = [items |-> r.items, id |-> r.id]
  BY DEF AppendItem
<1>3. /\ r.items \in Seq(Items)
      /\ Len(r.items) = Len(l.items) + 1
      /\ r.items[Len(r.items)] = item
      /\ \A i \in 1 .. Len(l.items) : r.items[i] = l.items[i]
  BY <1>1, <1>2
<1>4. /\ DOMAIN r.id = DOMAIN l.id \cup {item.name}
      /\ r.id[item.name] = Len(r.items)
      /\ \A n \in DOMAIN l.id : r.id[n] = l.id[n]
  BY <1>1, <1>2, <1>3 DEF Point
<1>5. IsList(r, Items, Names)
  <2>1. r.id \in [DOMAIN r.id -> Nat \ {0}]
    BY <1>1, <1>2, <1>3, <1>4 DEF Point
  <2> QED BY <2>1, <1>1, <1>2, <1>3, <1>4 DEF IsList
<1>6. Coherent(r)
  <2> SUFFICES ASSUME NEW n \in DOMAIN r.id
               PROVE  r.id[n] \in 1 .. Len(r.items) /\ r.items[r.id[n]].name = n
    BY DEF Coherent
  <2>1. CASE n = item.name BY <2>1, <1>1, <1>3, <1>4
  <2>2. CASE n \in DOMAIN l.id
    <3>1. l.id[n] \in 1 .. Len(l.items) /\ l.items[l.id[n]].name = n
      BY <2>2 DEF Sound, Coherent
    <3> QED BY <3>1, <2>2, <1>1, <1>3, <1>4
  <2> QED BY <2>1, <2>2, <1>4
<1>7. Reachable(r)
  <2> SUFFICES ASSUME NEW i \in 1 .. Len(r.items), IsLive(r.items[i].action)
               PROVE  r.items[i].name \in DOMAIN r.id /\ r.id[r.items[i].name] = i
    BY DEF Reachable
  <2>1. CASE i = Len(r.items) BY <2>1, <1>3, <1>4
  <2>2. CASE i \in 1 .. Len(l.items)
    <3>1. l.items[i].name \in DOMAIN l.id /\ l.id[l.items[i].name] = i
      BY <2>2, <1>3 DEF Sound, Reachable
    <3> QED BY <3>1, <2>2, <1>3, <1>4
  <2> QED BY <2>1, <2>2, <1>1, <1>3
<1>8. LiveNames(r) = IF IsLive(item.action) THEN LiveNames(l) \cup {item.name} ELSE LiveNames(l)
  BY <1>1, <1>3, SMTT(30) DEF LiveNames
<1> HIDE DEF r
<1> QED BY <1>5, <1>6, <1>7, <1>8 DEF Sound, r

----------------------------------------------------------------------------
\* Overwriting the node a name points to by one of the same name keeps the list
\* sound; the name is live afterwards exactly if the new node is.
LEMMA SetItemSound ==
  ASSUME NEW Items, NEW Names, NEW l, Sound(l, Items, Names),
         NEW item \in Items, item.name \in DOMAIN l.id
  PROVE  LET r == SetItem(l, l.id[item.name], item)
         IN  /\ Sound(r, Items, Names)
             /\ DOMAIN r.id = DOMAIN l.id
             /\ Len(r.items) = Len(l.items)
             /\ LiveNames(r) = (LiveNames(l) \ {item.name}) \cup
                                  (IF IsLive(item.action) THEN {item.name} ELSE {})
<1> DEFINE k == l.id[item.name]
           r == SetItem(l, k, item)
<1>1. /\ l.items \in Seq(Items)
      /\ l.id \in [DOMAIN l.id -> Nat \ {0}]
      /\ l = [items |-> l.items, id |-> l.id]
      /\ DOMAIN l.id \subseteq Names
      /\ Len(l.items) \in Nat
  BY DEF Sound, IsList
<1>2. k \in 1 .. Len(l.items) /\ l.items[k].name = item.name
  BY DEF Sound, Coherent
<1>3. /\ r.items = [l.items EXCEPT ![k] = item]
      /\ r.id = l.id
      /\ r = [items |-> r.items, id |-> r.id]
  BY <1>1 DEF SetItem
<1>4. /\ r.items \in Seq(Items)
      /\ Len(r.items) = Len(l.items)
      /\ r.items[k] = item
      /\ \A i \in 1 .. Len(l.items) : i # k => r.items[i] = l.items[i]
  BY <1>1, <1>2, <1>3
<1>5. IsList(r, Items, Names) BY <1>1, <1>3, <1>4 DEF IsList
<1>6. Coherent(r)
  BY <1>1, <1>2, <1>3, <1>4 DEF Sound, Coherent
<1>7. Reachable(r)
  BY <1>1, <1>2, <1>3, <1>4, ZenonT(60) DEF Sound, Reachable
<1>8. \A i \in 1 .. Len(l.items) :
        i # k /\ IsLive(l.items[i].action) => l.items[i].name # item.name
  BY <1>2 DEF Sound, Reachable
<1>9. LiveNames(r) = (LiveNames(l) \ {item.name}) \cup
                       (IF IsLive(item.action) THEN {item.name} ELSE {})
  <2>1. LiveNames(r) \ {item.name} = LiveNames(l) \ {item.name}
    <3>1. \A i \in 1 .. Len(l.items) : l.items[i].name # item.name =>
            i # k /\ r.items[i] = l.items[i]
      BY <1>2, <1>4
    <3>2. \A i \in 1 .. Len(l.items) : r.items[i].name # item.name =>
            r.items[i] = l.items[i]
      BY <1>4
    <3>3. LiveNames(r) = {r.items[i].name : i \in {j \in 1 .. Len(l.items) :
                                                    IsLive(r.items[j].action)}}
      BY <1>1, <1>4 DEF LiveNames
    <3>4. LiveNames(l) = {l.items[i].name : i \in {j \in 1 .. Len(l.items) :
                                                    IsLive(l.items[j].action)}}
      BY <1>1 DEF LiveNames
    <3> HIDE DEF r, k
    <3> QED BY <3>1, <3>2, <3>3, <3>4
  <2>2. item.name \in LiveNames(r) <=> IsLive(item.action)
    BY <1>1, <1>2, <1>4, <1>8 DEF LiveNames
  <2> HIDE DEF r
  <2> QED BY <2>1, <2>2
<1> HIDE DEF r
<1> QED BY <1>3, <1>4, <1>5, <1>6, <1>7, <1>9 DEF Sound, r, k

\* Putting a live node adds its name, known before or not, and puts no other.
LEMMA PutItemSound ==
  ASSUME NEW Items, NEW Names, NEW l, Sound(l, Items, Names),
         NEW item \in Items, item.name \in Names, IsLive(item.action)
  PROVE  /\ Sound(PutItem(l, item), Items, Names)
         /\ LiveNames(PutItem(l, item)) = LiveNames(l) \cup {item.name}
<1>1. CASE item.name \in DOMAIN l.id
  <2>1. PutItem(l, item) = SetItem(l, l.id[item.name], item)
    <3>1. l.id[item.name] # 0 BY <1>1 DEF Sound, IsList
    <3> QED BY <3>1, <1>1 DEF PutItem, IdOf
  <2>2. LiveNames(SetItem(l, l.id[item.name], item)) = LiveNames(l) \cup {item.name}
    BY <1>1, SetItemSound
  <2> QED BY <2>1, <2>2, <1>1, SetItemSound
<1>2. CASE item.name \notin DOMAIN l.id
  <2>1. PutItem(l, item) = AppendItem(l, item) BY <1>2 DEF PutItem, IdOf
  <2> QED BY <2>1, <1>2, AppendItemSound
<1> QED BY <1>1, <1>2

\* Removing a live name keeps the list sound, leaves the name in the map and
\* takes it from the live ones.
LEMMA RemoveItemSound ==
  ASSUME NEW Items, NEW Names, NEW l, Sound(l, Items, Names), NodeSet(Items, Names),
         NEW n \in LiveNames(l), NEW tombstone
  PROVE  LET r == RemoveItem(l, n, tombstone)
         IN  /\ Sound(r, Items, Names)
             /\ DOMAIN r.id = DOMAIN l.id
             /\ LiveNames(r) = LiveNames(l) \ {n}
<1>1. n \in DOMAIN l.id /\ l.id[n] \in 1 .. Len(l.items) /\ l.items[l.id[n]].name = n
  BY DEF Sound, Coherent, Reachable, LiveNames
<1>2. l.items \in Seq(Items) BY DEF Sound, IsList
<1> DEFINE was == l.items[l.id[n]]
           item == WithAction(was, RemovedAction(was.action))
<1>3. was \in Items BY <1>1, <1>2
<1>4. RemovedAction(was.action) \in Actions /\ ~IsLive(RemovedAction(was.action))
  BY DEF RemovedAction, Actions, IsLive
<1>5. item \in Items /\ item.name = n /\ ~IsLive(item.action)
  BY <1>1, <1>3, <1>4 DEF NodeSet
<1>6. RemoveItem(l, n, tombstone) = SetItem(l, l.id[n], item)
  BY <1>1 DEF RemoveItem, IdOf
<1> HIDE DEF item
<1> QED BY <1>1, <1>5, <1>6, SetItemSound

\* The same of nodes that can be renamed.
RenameSet(Items, Names) ==
  \A item \in Items, old \in Names, new \in Names, action \in Actions :
    /\ Renamed(item, old, new, action) \in Items
    /\ Renamed(item, old, new, action).name = new
    /\ Renamed(item, old, new, action).action = action

\* Renaming a live name to one that no live node bears keeps the list sound,
\* even if the map still has the new name for a dropped node (RenameColumn and
\* RenameIndex of element/table.go delete the old name after adding the new one).
LEMMA RenameItemSound ==
  ASSUME NEW Items, NEW Names, NEW l, Sound(l, Items, Names), RenameSet(Items, Names),
         NEW old \in LiveNames(l), NEW new \in Names, new \notin LiveNames(l)
  PROVE  LET r == RenameItem(l, old, new, "rename")
         IN  /\ Sound(r, Items, Names)
             /\ DOMAIN r.id \subseteq DOMAIN l.id \cup {new}
             /\ LiveNames(r) = (LiveNames(l) \ {old}) \cup {new}
<1> DEFINE k == l.id[old]
           node == Renamed(l.items[k], old, new, "rename")
           r == RenameItem(l, old, new, "rename")
<1>1. /\ l.items \in Seq(Items)
      /\ l.id \in [DOMAIN l.id -> Nat \ {0}]
      /\ DOMAIN l.id \subseteq Names
      /\ Len(l.items) \in Nat
  BY DEF Sound, IsList
<1>2. /\ old \in DOMAIN l.id
      /\ k \in 1 .. Len(l.items)
      /\ l.items[k].name = old
      /\ IsLive(l.items[k].action)
  BY DEF Sound, Coherent, Reachable, LiveNames
<1>3. old # new BY DEF LiveNames
<1>4. node \in Items /\ node.name = new /\ node.action = "rename"
  <2>1. l.items[k] \in Items /\ old \in Names BY <1>1, <1>2
  <2>2. "rename" \in Actions BY DEF Actions
  <2> HIDE DEF k
  <2> QED BY <2>1, <2>2 DEF RenameSet
<1>5. /\ r.items = [l.items EXCEPT ![k] = node]
      /\ r.id = [m \in DOMAIN Point(l, new, k) \ {old} |-> Point(l, new, k)[m]]
      /\ r = [items |-> r.items, id |-> r.id]
  BY <1>1, <1>2 DEF RenameItem, IdOf
<1> HIDE DEF node, r
<1>6. /\ r.items \in Seq(Items)
      /\ Len(r.items) = Len(l.items)
      /\ r.items[k] = node
      /\ \A i \in 1 .. Len(l.items) : i # k => r.items[i] = l.items[i]
  BY <1>1, <1>2, <1>4, <1>5
<1>7. /\ DOMAIN r.id = (DOMAIN l.id \cup {new}) \ {old}
      /\ r.id[new] = k
      /\ \A n \in DOMAIN l.id \ {old, new} : r.id[n] = l.id[n]
  BY <1>3, <1>5 DEF Point
<1>8. IsList(r, Items, Names)
  <2>1. r.id \in [DOMAIN r.id -> Nat \ {0}]
    <3>1. \A n \in DOMAIN r.id : r.id[n] \in Nat \ {0}
      BY <1>1, <1>2, <1>7
    <3> QED BY <3>1, <1>5
  <2> QED BY <2>1, <1>1, <1>5, <1>6, <1>7 DEF IsList
<1>9. \A i \in 1 .. Len(l.items) : i # k /\ IsLive(l.items[i].action) =>
         l.items[i].name \notin {old, new}
  BY <1>2 DEF Sound, Reachable, LiveNames
<1>10. Coherent(r)
  <2> SUFFICES ASSUME NEW n \in DOMAIN r.id
               PROVE  r.id[n] \in 1 .. Len(r.items) /\ r.items[r.id[n]].name = n
    BY DEF Coherent
  <2>1. CASE n = new BY <2>1, <1>2, <1>4, <1>6, <1>7
  <2>2. CASE n # new
    <3>1. n \in DOMAIN l.id /\ n # old /\ r.id[n] = l.id[n] BY <2>2, <1>7
    <3>2. l.id[n] \in 1 .. Len(l.items) /\ l.items[l.id[n]].name = n
      BY <3>1 DEF Sound, Coherent
    <3>3. l.id[n] # k BY <3>1, <3>2, <1>2
    <3> QED BY <3>1, <3>2, <3>3, <1>6
  <2> QED BY <2>1, <2>2
<1>11. Reachable(r)
  <2> SUFFICES ASSUME NEW i \in 1 .. Len(r.items), IsLive(r.items[i].action)
               PROVE  r.items[i].name \in DOMAIN r.id /\ r.id[r.items[i].name] = i
    BY DEF Reachable
  <2>1. CASE i = k BY <2>1, <1>3, <1>4, <1>6, <1>7
  <2>2. CASE i # k
    <3>1. r.items[i] = l.items[i] /\ i \in 1 .. Len(l.items) BY <2>2, <1>6
    <3>2. l.items[i].name \in DOMAIN l.id /\ l.id[l.items[i].name] = i
      BY <3>1 DEF Sound, Reachable
    <3> QED BY <3>1, <3>2, <2>2, <1>7, <1>9
  <2> QED BY <2>1, <2>2
<1>12. LiveNames(r) = (LiveNames(l) \ {old}) \cup {new}
  <2>1. IsLive(node.action) BY <1>4 DEF IsLive
  <2>2. ASSUME NEW n \in LiveNames(r) PROVE n \in (LiveNames(l) \ {old}) \cup {new}
    <3>1. PICK i \in 1 .. Len(r.items) : IsLive(r.items[i].action) /\ n = r.items[i].name
      BY DEF LiveNames
    <3> QED BY <3>1, <1>4, <1>6, <1>9 DEF LiveNames
  <2>3. ASSUME NEW n \in LiveNames(l), n # old PROVE n \in LiveNames(r)
    <3>1. PICK i \in 1 .. Len(l.items) : IsLive(l.items[i].action) /\ n = l.items[i].name
      BY DEF LiveNames
    <3>2. i # k BY <3>1, <2>3, <1>2
    <3> QED BY <3>1, <3>2, <1>6 DEF LiveNames
  <2>4. new \in LiveNames(r) BY <2>1, <1>2, <1>4, <1>6 DEF LiveNames
  <2> QED BY <2>2, <2>3, <2>4
<1> QED BY <1>7, <1>8, <1>10, <1>11, <1>12 DEF Sound, r

----------------------------------------------------------------------------
(* LiveItems by its recursion over the slice: the node of one more place.   *)
NextLive(l, before, n) ==
  IF IsLive(l.items[n].action) THEN Append(before, l.items[n]) ELSE before

Living == INSTANCE Folding WITH Op <- NextLive, Holds <- LAMBDA l, before : TRUE

----------------------------------------------------------------------------

\* Merging the options of two definitions (AddColumn, element/table.go) gives
\* options of the two.
LEMMA MergeOptionsTyped ==
  ASSUME NEW S, NEW opts \in Seq(S), NEW more \in Seq(S)
  PROVE  MergeOptions(opts, more) \in Seq(S)
<1> DEFINE all == opts \o more
           keys == {i \in 1 .. Len(all) - 1 : IsPrimaryKey(all[i])}
           k == CHOOSE i \in keys : \A j \in keys : i <= j
<1>1. all \in Seq(S) /\ Len(all) \in Nat OBVIOUS
<1>2. CASE keys = {} BY <1>1, <1>2 DEF MergeOptions
<1>3. CASE keys # {}
  <2>1. k \in keys
    <3>1. keys \in SUBSET Nat BY <1>1
    <3> HIDE DEF keys
    <3>2. \E i \in keys : \A j \in keys : i <= j BY <1>3, <3>1, Living!SmallestOf
    <3> QED BY <3>2
  <2>2. k \in 1 .. Len(all) /\ Len(all) \in 1 .. Len(all)
    <3>1. k \in 1 .. Len(all) - 1 BY <2>1
    <3> HIDE DEF k, all
    <3> QED BY <3>1, <1>1
  <2>3. MergeOptions(opts, more) = [all EXCEPT ![k] = all[Len(all)], ![Len(all)] = all[k]]
    BY <1>3 DEF MergeOptions
  <2> HIDE DEF k, all
  <2>4. all[k] \in S /\ all[Len(all)] \in S BY <1>1, <2>2
  <2> QED BY <1>1, <2>2, <2>3, <2>4
<1> QED BY <1>2, <1>3

----------------------------------------------------------------------------
\* t is a record with the fields of a table.
IsTable(t) ==
  t \in [name : {t.name}, oldName : {t.oldName}, action : {t.action}, cols : {t.cols},
         idxs : {t.idxs}, fks : {t.fks}, pos : {t.pos}, panic : {t.panic}]

\* r is table t with another list of columns and another pending position.
OnlyColumns(r, t) ==
  /\ IsTable(r)
  /\ r.action = t.action /\ r.idxs = t.idxs /\ r.fks = t.fks /\ r.panic = t.panic

\* The nodes of columns and indexes stay nodes when they are removed or renamed,
\* those of foreign keys when they are removed.
LEMMA NodeSets ==
  /\ NodeSet(ColumnItems, ColumnNames) /\ RenameSet(ColumnItems, ColumnNames)
  /\ NodeSet(IndexItems, IndexNames) /\ RenameSet(IndexItems, IndexNames)
  /\ NodeSet(FkItems, FkNames)
<1>1. NodeSet(ColumnItems, ColumnNames) BY DEF NodeSet, WithAction, ColumnItems
<1>2. RenameSet(ColumnItems, ColumnNames) BY DEF RenameSet, Renamed, ColumnItems
<1>3. NodeSet(IndexItems, IndexNames) BY DEF NodeSet, WithAction, IndexItems
<1>4. RenameSet(IndexItems, IndexNames) BY DEF RenameSet, Renamed, IndexItems
<1>5. NodeSet(FkItems, FkNames) BY DEF NodeSet, WithAction, FkItems
<1> QED BY <1>1, <1>2, <1>3, <1>4, <1>5

----------------------------------------------------------------------------
\* r holds the nodes of l, name is at place and the names from place on are one
\* further.
PutAt(r, l, name, place) ==
  /\ Len(r.items) = Len(l.items)
  /\ \A m \in DOMAIN r.id :
       /\ r.items[r.id[m]] = l.items[l.id[m]]
       /\ r.id[m] = IF m = name THEN place
                    ELSE IF place <= l.id[m] THEN l.id[m] + 1 ELSE l.id[m]

\* The place that position pos stands for in l, or the last one.
PlaceFor(l, pos, last) ==
  CASE pos.tp = "first" -> 1
    [] pos.tp = "after" /\ IdOf(l, pos.rel) > 0 -> IdOf(l, pos.rel) + 1
    [] OTHER -> last

\* swapOrder moves the last column, which is the one its name points to, to
\* place new: the list stays sound with the same nodes.
LEMMA SwapOrderFromLast ==
  ASSUME NEW Items, NEW Names, NEW l, Sound(l, Items, Names), NEW name \in DOMAIN l.id,
         l.id[name] = Len(l.items), NEW new \in 1 .. Len(l.items)
  PROVE  LET r == SwapOrder(l, name, Len(l.items), new)
         IN  /\ Sound(r, Items, Names)
             /\ DOMAIN r.id = DOMAIN l.id
             /\ LiveNames(r) = LiveNames(l)
             /\ PutAt(r, l, name, new)
<1> DEFINE old == Len(l.items)
           r == SwapOrder(l, name, old, new)
           items2 == SubSeq(l.items, 1, new - 1) \o <<l.items[old]>>
           grown == items2 \o SubSeq(l.items, new, old)
           moved(i) == IF i = old THEN new ELSE IF new <= i THEN i + 1 ELSE i
           back(i) == IF i = new THEN old ELSE IF new < i THEN i - 1 ELSE i
<1>1. /\ l.items \in Seq(Items)
      /\ l.id \in [DOMAIN l.id -> Nat \ {0}]
      /\ DOMAIN l.id \subseteq Names
      /\ old \in Nat \ {0}
  BY DEF Sound, IsList
<1>2. CASE new = old
  <2>1. r = l BY <1>2 DEF SwapOrder
  <2>2. PutAt(l, l, name, new)
    <3> SUFFICES ASSUME NEW m \in DOMAIN l.id
                 PROVE  l.id[m] = IF m = name THEN new
                                  ELSE IF new <= l.id[m] THEN l.id[m] + 1 ELSE l.id[m]
      BY DEF PutAt
    <3>1. l.id[m] \in 1 .. old /\ l.items[l.id[m]].name = m BY DEF Sound, Coherent
    <3>2. l.items[old].name = name BY DEF Sound, Coherent
    <3> QED BY <1>1, <1>2, <3>1, <3>2
  <2> QED BY <2>1, <2>2
<1>3. CASE new # old
  <2>1. new < old BY <1>1, <1>3
  <2>2. /\ items2 \in Seq(Items)
        /\ Len(items2) = new
        /\ \A i \in 1 .. new : items2[i] = IF i = new THEN l.items[old] ELSE l.items[i]
    BY <1>1, <2>1
  <2>3. /\ grown \in Seq(Items)
        /\ Len(grown) = old + 1
        /\ \A i \in 1 .. old + 1 :
             grown[i] = IF i <= new THEN items2[i] ELSE l.items[i - 1]
    <3> HIDE DEF items2
    <3> QED BY <1>1, <2>1, <2>2
  <2>4. Copied(l.items, old, new) = grown
    <3>1. Copied(l.items, old, new) = InsertAt(l.items, new, l.items[old])
      BY <1>1, <2>1 DEF Copied
    <3>2. InsertAt(l.items, new, l.items[old]) = grown BY DEF InsertAt
    <3> QED BY <3>1, <3>2
  <2> HIDE DEF grown
  <2>5. /\ r.items = SubSeq(grown, 1, old)
        /\ r.id = [n \in DOMAIN l.id \cup {name} |->
                     IF n = name THEN new
                     ELSE IF new <= l.id[n] /\ l.id[n] < old THEN l.id[n] + 1 ELSE l.id[n]]
        /\ r = [items |-> r.items, id |-> r.id]
    <3>1. CutAfterMoveUp(grown, old) = SubSeq(grown, 1, old)
      BY <1>1, <2>3 DEF CutAfterMoveUp, Front
    <3>2. r = [items |-> SubSeq(grown, 1, old),
               id |-> [n \in DOMAIN l.id \cup {name} |->
                         IF n = name THEN new
                         ELSE IF new <= l.id[n] /\ l.id[n] < old THEN l.id[n] + 1 ELSE l.id[n]]]
      BY <1>3, <2>1, <2>4, <3>1 DEF SwapOrder
    <3> HIDE DEF r
    <3> QED BY <3>2
  <2>6. /\ r.items \in Seq(Items)
        /\ Len(r.items) = old
        /\ \A i \in 1 .. old : r.items[i] = grown[i]
    <3> HIDE DEF r
    <3> QED BY <1>1, <2>3, <2>5
  <2> HIDE DEF r, items2
  <2>7. \A i \in 1 .. old : back(i) \in 1 .. old /\ r.items[i] = l.items[back(i)]
    <3> TAKE i \in 1 .. old
    <3>1. i \in 1 .. old + 1 /\ r.items[i] = grown[i] BY <1>1, <2>6
    <3>2. CASE i < new
      <4>1. i \in 1 .. new /\ grown[i] = l.items[i] BY <3>1, <3>2, <2>2, <2>3
      <4> QED BY <3>1, <3>2, <4>1
    <3>3. CASE i = new
      <4>1. grown[i] = l.items[old] BY <3>1, <3>3, <2>2, <2>3
      <4> QED BY <3>1, <3>3, <4>1, <1>1
    <3>4. CASE new < i
      <4>1. grown[i] = l.items[i - 1] BY <3>1, <3>4, <2>3
      <4> QED BY <3>1, <3>4, <4>1, <1>1
    <3> QED BY <3>2, <3>3, <3>4
  <2>8. \A i \in 1 .. old : /\ moved(i) \in 1 .. old
                            /\ back(moved(i)) = i
                            /\ r.items[moved(i)] = l.items[i]
    BY <1>1, <2>1, <2>7, SMTT(30)
  <2>9. \A n \in DOMAIN l.id : /\ l.id[n] \in 1 .. old
                               /\ l.items[l.id[n]].name = n
                               /\ n # name => l.id[n] # old
    BY DEF Sound, Coherent
  <2>10. /\ DOMAIN r.id = DOMAIN l.id
         /\ \A n \in DOMAIN l.id : r.id[n] = moved(l.id[n])
    BY <1>1, <2>1, <2>5, <2>9
  <2>11. \A i \in 1 .. old : moved(back(i)) = i BY <1>1, <2>1
  <2> HIDE DEF moved, back
  <2>12. IsList(r, Items, Names)
    <3>1. \A n \in DOMAIN r.id : r.id[n] \in Nat \ {0}
      BY <1>1, <2>8, <2>9, <2>10, SMTT(30)
    <3>2. r.id \in [DOMAIN r.id -> Nat \ {0}] BY <2>5, <3>1
    <3> QED BY <3>2, <1>1, <2>5, <2>6, <2>10 DEF IsList
  <2>13. Coherent(r)
    <3> SUFFICES ASSUME NEW n \in DOMAIN l.id
                 PROVE  r.id[n] \in 1 .. Len(r.items) /\ r.items[r.id[n]].name = n
      BY <2>10 DEF Coherent
    <3>1. l.id[n] \in 1 .. old /\ l.items[l.id[n]].name = n BY <2>9
    <3>2. r.id[n] = moved(l.id[n]) BY <2>10
    <3>3. moved(l.id[n]) \in 1 .. old /\ r.items[moved(l.id[n])] = l.items[l.id[n]]
      BY <3>1, <2>8
    <3> QED BY <3>1, <3>2, <3>3, <2>6
  <2>14. Reachable(r)
    <3> SUFFICES ASSUME NEW i \in 1 .. old, IsLive(r.items[i].action)
                 PROVE  r.items[i].name \in DOMAIN r.id /\ r.id[r.items[i].name] = i
      BY <2>6 DEF Reachable
    <3>1. IsLive(l.items[back(i)].action) /\ back(i) \in 1 .. old BY <2>7
    <3>2. /\ l.items[back(i)].name \in DOMAIN l.id
          /\ l.id[l.items[back(i)].name] = back(i)
      BY <3>1 DEF Sound, Reachable
    <3> QED BY <3>2, <2>7, <2>10, <2>11
  <2>15. LiveNames(r) = LiveNames(l)
    <3>1. ASSUME NEW n \in LiveNames(r) PROVE n \in LiveNames(l)
      <4>1. PICK i \in 1 .. old : IsLive(r.items[i].action) /\ n = r.items[i].name
        BY <2>6 DEF LiveNames
      <4>2. back(i) \in 1 .. old /\ r.items[i] = l.items[back(i)] BY <2>7
      <4> QED BY <4>1, <4>2 DEF LiveNames
    <3>2. ASSUME NEW n \in LiveNames(l) PROVE n \in LiveNames(r)
      <4>1. PICK i \in 1 .. old : IsLive(l.items[i].action) /\ n = l.items[i].name
        BY DEF LiveNames
      <4>2. moved(i) \in 1 .. old /\ r.items[moved(i)] = l.items[i] BY <2>8
      <4> QED BY <4>1, <4>2, <2>6 DEF LiveNames
    <3> QED BY <3>1, <3>2
  <2>16. PutAt(r, l, name, new)
    <3> SUFFICES ASSUME NEW m \in DOMAIN l.id
                 PROVE  /\ r.items[r.id[m]] = l.items[l.id[m]]
                        /\ r.id[m] = IF m = name THEN new
                                     ELSE IF new <= l.id[m] THEN l.id[m] + 1 ELSE l.id[m]
      BY <2>6, <2>10 DEF PutAt
    <3>1. l.id[m] \in 1 .. old /\ (m # name => l.id[m] # old) BY <2>9
    <3>2. r.id[m] = moved(l.id[m]) /\ r.items[moved(l.id[m])] = l.items[l.id[m]]
      BY <3>1, <2>8, <2>10
    <3> QED BY <3>1, <3>2 DEF moved
  <2> QED BY <2>10, <2>12, <2>13, <2>14, <2>15, <2>16 DEF Sound, r
<1> QED BY <1>2, <1>3

----------------------------------------------------------------------------
\* The same for the table: the move stays in range (SwapColumns).
LEMMA SwapColumnsFromLast ==
  ASSUME NEW t, IsTable(t), Sound(t.cols, ColumnItems, ColumnNames),
         NEW name \in DOMAIN t.cols.id, t.cols.id[name] = Len(t.cols.items),
         NEW new \in 1 .. Len(t.cols.items)
  PROVE  LET r == SwapColumns(t, name, Len(t.cols.items), new)
         IN  /\ OnlyColumns(r, t) /\ r.pos = t.pos
             /\ Sound(r.cols, ColumnItems, ColumnNames)
             /\ DOMAIN r.cols.id = DOMAIN t.cols.id
             /\ LiveNames(r.cols) = LiveNames(t.cols)
             /\ PutAt(r.cols, t.cols, name, new)
<1> DEFINE swapped == SwapOrder(t.cols, name, Len(t.cols.items), new)
           r == [t EXCEPT !.cols = swapped]
<1>1. Len(t.cols.items) \in Nat BY DEF Sound, IsList
<1>2. ~SwapPanics(t.cols, Len(t.cols.items), new) BY <1>1 DEF SwapPanics
<1>3. SwapColumns(t, name, Len(t.cols.items), new) = r
  BY <1>2 DEF SwapColumns
<1>4. /\ Sound(swapped, ColumnItems, ColumnNames)
      /\ DOMAIN swapped.id = DOMAIN t.cols.id
      /\ LiveNames(swapped) = LiveNames(t.cols)
      /\ PutAt(swapped, t.cols, name, new)
  BY SwapOrderFromLast
<1> HIDE DEF swapped
<1>5. OnlyColumns(r, t) /\ r.pos = t.pos /\ r.cols = swapped
  BY DEF IsTable, OnlyColumns
<1> QED BY <1>3, <1>4, <1>5

\* Applying the pending position to the last column keeps the columns sound and
\* forgets the position, unless the column is to follow itself.
LEMMA PlaceColumnSound ==
  ASSUME NEW t, IsTable(t), Sound(t.cols, ColumnItems, ColumnNames),
         NEW name \in DOMAIN t.cols.id, t.cols.id[name] = Len(t.cols.items),
         t.pos.tp = "after" => t.pos.rel # name
  PROVE  LET r == PlaceColumn(t, name, Len(t.cols.items))
         IN  /\ OnlyColumns(r, t) /\ r.pos = NoPosition
             /\ Sound(r.cols, ColumnItems, ColumnNames)
             /\ DOMAIN r.cols.id = DOMAIN t.cols.id
             /\ LiveNames(r.cols) = LiveNames(t.cols)
             /\ PutAt(r.cols, t.cols, name, PlaceFor(t.cols, t.pos, Len(t.cols.items)))
<1> DEFINE last == Len(t.cols.items)
           afterId == IdOf(t.cols, t.pos.rel)
           place == PlaceFor(t.cols, t.pos, last)
           Kept(r) == /\ OnlyColumns(r, t)
                      /\ Sound(r.cols, ColumnItems, ColumnNames)
                      /\ DOMAIN r.cols.id = DOMAIN t.cols.id
                      /\ LiveNames(r.cols) = LiveNames(t.cols)
                      /\ PutAt(r.cols, t.cols, name, place)
<1>1. last \in Nat \ {0} BY DEF Sound, IsList, Coherent
<1>2. ASSUME NEW m, Kept(m) PROVE Kept([m EXCEPT !.pos = NoPosition])
                                  /\ [m EXCEPT !.pos = NoPosition].pos = NoPosition
  BY <1>2 DEF OnlyColumns, IsTable
<1>3. PutAt(t.cols, t.cols, name, last)
  <2> SUFFICES ASSUME NEW m \in DOMAIN t.cols.id
               PROVE  t.cols.id[m] = IF m = name THEN last
                                     ELSE IF last <= t.cols.id[m] THEN t.cols.id[m] + 1
                                     ELSE t.cols.id[m]
    BY DEF PutAt
  <2>1. t.cols.id[m] \in 1 .. last /\ t.cols.items[t.cols.id[m]].name = m
    BY DEF Sound, Coherent
  <2>2. t.cols.items[last].name = name BY DEF Sound, Coherent
  <2> QED BY <1>1, <2>1, <2>2
<1>4. CASE t.pos.tp = "first"
  <2>1. PlaceColumn(t, name, last) = [SwapColumns(t, name, last, 1) EXCEPT !.pos = NoPosition]
    BY <1>4 DEF PlaceColumn
  <2>2. place = 1 BY <1>4 DEF PlaceFor
  <2>3. Kept(SwapColumns(t, name, last, 1))
    <3> HIDE DEF place
    <3> QED BY <1>1, <2>2, SwapColumnsFromLast
  <2> QED BY <1>2, <2>1, <2>3
<1>5. CASE t.pos.tp = "after" /\ afterId > 0
  <2>1. PlaceColumn(t, name, last)
          = [SwapColumns(t, name, last, afterId + 1) EXCEPT !.pos = NoPosition]
    BY <1>5 DEF PlaceColumn
  <2>2. afterId + 1 \in 1 .. last
    <3>1. t.pos.rel \in DOMAIN t.cols.id /\ afterId = t.cols.id[t.pos.rel]
      BY <1>5 DEF IdOf
    <3>2. afterId \in 1 .. last /\ t.cols.items[afterId].name = t.pos.rel
      BY <3>1 DEF Sound, Coherent
    <3>3. t.cols.items[last].name = name BY DEF Sound, Coherent
    <3>4. afterId # last BY <1>5, <3>2, <3>3
    <3> HIDE DEF afterId
    <3> QED BY <1>1, <3>2, <3>4
  <2>4. place = afterId + 1 BY <1>5 DEF PlaceFor
  <2>3. Kept(SwapColumns(t, name, last, afterId + 1))
    <3> HIDE DEF place, afterId
    <3> QED BY <2>2, <2>4, SwapColumnsFromLast
  <2> QED BY <1>2, <2>1, <2>3
<1>6. CASE t.pos.tp # "first" /\ ~(t.pos.tp = "after" /\ afterId > 0)
  <2>1. PlaceColumn(t, name, last) = [t EXCEPT !.pos = NoPosition]
    BY <1>6 DEF PlaceColumn
  <2>2. place = last BY <1>6 DEF PlaceFor
  <2>3. Kept(t) BY <1>3, <2>2 DEF OnlyColumns
  <2> QED BY <1>2, <2>1, <2>3
<1> QED BY <1>4, <1>5, <1>6

\* AddColumn of a name that the table does not have.
LEMMA AddNewColumn ==
  ASSUME NEW t, IsTable(t), Sound(t.cols, ColumnItems, ColumnNames),
         NEW col \in ColumnItems, IsLive(col.action), col.name \notin DOMAIN t.cols.id,
         t.pos.tp = "after" => t.pos.rel # col.name
  PROVE  LET r == AddColumn(t, col)
         IN  /\ OnlyColumns(r, t) /\ r.pos = NoPosition
             /\ Sound(r.cols, ColumnItems, ColumnNames)
             /\ DOMAIN r.cols.id = DOMAIN t.cols.id \cup {col.name}
             /\ LiveNames(r.cols) = LiveNames(t.cols) \cup {col.name}
             /\ PutAt(r.cols, AppendItem(t.cols, col), col.name,
                      PlaceFor(t.cols, t.pos, Len(t.cols.items) + 1))
<1> DEFINE grown == AppendItem(t.cols, col)
           u == [t EXCEPT !.cols = grown]
<1>1. /\ Sound(grown, ColumnItems, ColumnNames)
      /\ LiveNames(grown) = LiveNames(t.cols) \cup {col.name}
  <2>1. col.name \in ColumnNames BY DEF ColumnItems
  <2> QED BY <2>1, AppendItemSound
<1>2. t.cols.items \in Seq(ColumnItems) BY DEF Sound, IsList
<1>3. /\ DOMAIN grown.id = DOMAIN t.cols.id \cup {col.name}
      /\ grown.id[col.name] = Len(t.cols.items) + 1
      /\ Len(grown.items) = Len(t.cols.items) + 1
  BY <1>2 DEF AppendItem, Point
<1>4. AddColumn(t, col) = PlaceColumn(u, col.name, Len(t.cols.items) + 1)
  <2>1. IdOf(t.cols, col.name) = 0 BY DEF IdOf
  <2>2. ~IsStale(t.cols, col.name) BY <1>2, <2>1 DEF IsStale
  <2>3. PutItem(t.cols, col) = grown BY <2>1 DEF PutItem
  <2> QED BY <2>1, <2>2, <2>3 DEF AddColumn
<1> HIDE DEF grown
<1>5. OnlyColumns(u, t) /\ u.pos = t.pos /\ u.cols = grown
  BY DEF IsTable, OnlyColumns
<1> HIDE DEF u
<1>6. LET r == PlaceColumn(u, col.name, Len(u.cols.items))
      IN  /\ OnlyColumns(r, u) /\ r.pos = NoPosition
          /\ Sound(r.cols, ColumnItems, ColumnNames)
          /\ DOMAIN r.cols.id = DOMAIN u.cols.id
          /\ LiveNames(r.cols) = LiveNames(u.cols)
          /\ PutAt(r.cols, u.cols, col.name, PlaceFor(u.cols, u.pos, Len(u.cols.items)))
  BY <1>1, <1>3, <1>5, PlaceColumnSound DEF OnlyColumns
<1>7. PlaceFor(u.cols, u.pos, Len(u.cols.items))
        = PlaceFor(t.cols, t.pos, Len(t.cols.items) + 1)
  <2>1. t.pos.tp = "after" => IdOf(grown, t.pos.rel) = IdOf(t.cols, t.pos.rel)
    BY <1>3 DEF IdOf, grown, AppendItem, Point
  <2> QED BY <2>1, <1>3, <1>5 DEF PlaceFor
<1> QED BY <1>1, <1>3, <1>4, <1>5, <1>6, <1>7 DEF OnlyColumns, grown

\* AddColumn of a name that the table has or had, without a position that moves it.
LEMMA AddKnownColumn ==
  ASSUME NEW t, IsTable(t), Sound(t.cols, ColumnItems, ColumnNames),
         NEW col \in ColumnItems, IsLive(col.action), col.name \in DOMAIN t.cols.id,
         t.pos.tp \in {"nil", "none"}
  PROVE  LET r == AddColumn(t, col)
         IN  /\ OnlyColumns(r, t)
             /\ r.pos = NoPosition \/ (r.pos = t.pos /\ col.name \in LiveNames(t.cols))
             /\ Sound(r.cols, ColumnItems, ColumnNames)
             /\ DOMAIN r.cols.id = DOMAIN t.cols.id
             /\ LiveNames(r.cols) = LiveNames(t.cols) \cup {col.name}
<1> DEFINE id == t.cols.id[col.name]
           was == t.cols.items[id]
<1>1. /\ t.cols.items \in Seq(ColumnItems)
      /\ Len(t.cols.items) \in Nat
      /\ id \in 1 .. Len(t.cols.items)
      /\ was \in ColumnItems
      /\ was.name = col.name
  BY DEF Sound, IsList, Coherent
<1>2. IdOf(t.cols, col.name) = id /\ id # 0 /\ id > 0 BY <1>1 DEF IdOf
<1>3. ~IsStale(t.cols, col.name) BY <1>1, <1>2 DEF IsStale
<1>4. CASE was.action = "add"
  <2> DEFINE opts == MergeOptions(was.attr.opts, col.attr.opts)
             node == [was EXCEPT !.attr = [type |-> col.attr.type, opts |-> opts]]
             cols == SetItem(t.cols, id, node)
             r == [t EXCEPT !.cols = cols]
  <2>1. AddColumn(t, col) = r
    <3>1. AddColumn(t, col) = MergeColumn(t, id, col)
      BY <1>2, <1>3, <1>4 DEF AddColumn
    <3> QED BY <3>1 DEF MergeColumn
  <2>2. opts \in Seq(Options \cup {Reference})
    BY <1>1, MergeOptionsTyped DEF ColumnItems, Attrs
  <2> HIDE DEF opts, was, id
  <2>3. node \in ColumnItems /\ node.name = col.name /\ node.action = "add"
    BY <1>1, <1>4, <2>2 DEF ColumnItems, Attrs
  <2> HIDE DEF node
  <2>7. cols = SetItem(t.cols, t.cols.id[node.name], node) /\ IsLive(node.action)
    BY <2>3 DEF IsLive, id
  <2>4. /\ Sound(cols, ColumnItems, ColumnNames)
        /\ DOMAIN cols.id = DOMAIN t.cols.id
        /\ LiveNames(cols) = LiveNames(t.cols) \cup {col.name}
    <3>1. node.name \in DOMAIN t.cols.id BY <2>3
    <3> HIDE DEF cols
    <3>2. cols = SetItem(t.cols, t.cols.id[node.name], node) BY <2>7
    <3>3. LiveNames(cols) = (LiveNames(t.cols) \ {node.name}) \cup {node.name}
      BY <2>3, <2>7, <3>1, <3>2, SetItemSound
    <3> QED BY <2>3, <3>1, <3>2, <3>3, SetItemSound
  <2> HIDE DEF cols
  <2>5. col.name \in LiveNames(t.cols)
    BY <1>1, <1>4 DEF LiveNames, IsLive, was
  <2>6. OnlyColumns(r, t) /\ r.pos = t.pos /\ r.cols = cols
    BY DEF IsTable, OnlyColumns
  <2> QED BY <2>1, <2>4, <2>5, <2>6
<1>5. CASE was.action # "add"
  <2> DEFINE cols == PutItem(t.cols, col)
             u == [t EXCEPT !.cols = cols]
             r == [u EXCEPT !.pos = NoPosition]
  <2>1. AddColumn(t, col) = PlaceColumn(u, col.name, id)
    BY <1>2, <1>3, <1>5 DEF AddColumn
  <2>2. /\ Sound(cols, ColumnItems, ColumnNames)
        /\ LiveNames(cols) = LiveNames(t.cols) \cup {col.name}
    <3>1. col.name \in ColumnNames BY DEF ColumnItems
    <3> QED BY <3>1, PutItemSound
  <2>3. DOMAIN cols.id = DOMAIN t.cols.id
    BY <1>2 DEF PutItem, SetItem
  <2> HIDE DEF cols
  <2>4. OnlyColumns(u, t) /\ u.pos = t.pos /\ u.cols = cols
    BY DEF IsTable, OnlyColumns
  <2>5. PlaceColumn(u, col.name, id) = r
    BY <2>4 DEF PlaceColumn
  <2> HIDE DEF u
  <2>6. OnlyColumns(r, u) /\ r.pos = NoPosition /\ r.cols = u.cols
    BY <2>4 DEF IsTable, OnlyColumns
  <2> QED BY <2>1, <2>2, <2>3, <2>4, <2>5, <2>6 DEF OnlyColumns
<1> QED BY <1>4, <1>5

\* removeColumn and RenameColumn of a live column, to a name no live column has.
LEMMA RemoveColumnSound ==
  ASSUME NEW t, IsTable(t), Sound(t.cols, ColumnItems, ColumnNames),
         NEW n \in LiveNames(t.cols)
  PROVE  LET r == RemoveColumn(t, n)
         IN  /\ OnlyColumns(r, t) /\ r.pos = t.pos
             /\ Sound(r.cols, ColumnItems, ColumnNames)
             /\ DOMAIN r.cols.id = DOMAIN t.cols.id
             /\ LiveNames(r.cols) = LiveNames(t.cols) \ {n}
<1> DEFINE cols == RemoveItem(t.cols, n, Column(n, "remove", NilAttr))
           r == [t EXCEPT !.cols = cols]
<1>1. n \in DOMAIN t.cols.id /\ t.cols.id[n] \in 1 .. Len(t.cols.items)
  BY DEF Sound, Coherent, Reachable, LiveNames
<1>2. t.cols.items \in Seq(ColumnItems) BY DEF Sound, IsList
<1>3. RemoveColumn(t, n) = r
  BY <1>1, <1>2 DEF RemoveColumn, IsStale, IdOf
<1>4. /\ Sound(cols, ColumnItems, ColumnNames)
      /\ DOMAIN cols.id = DOMAIN t.cols.id
      /\ LiveNames(cols) = LiveNames(t.cols) \ {n}
  BY NodeSets, RemoveItemSound
<1> HIDE DEF cols
<1>5. OnlyColumns(r, t) /\ r.pos = t.pos /\ r.cols = cols
  BY DEF IsTable, OnlyColumns
<1> QED BY <1>3, <1>4, <1>5

\* RenameColumn gives a live column another name and keeps the list sound.
LEMMA RenameColumnSound ==
  ASSUME NEW t, IsTable(t), Sound(t.cols, ColumnItems, ColumnNames),
         NEW old \in LiveNames(t.cols), NEW new \in ColumnNames, new \notin LiveNames(t.cols)
  PROVE  LET r == RenameColumn(t, old, new)
         IN  /\ OnlyColumns(r, t) /\ r.pos = t.pos
             /\ Sound(r.cols, ColumnItems, ColumnNames)
             /\ DOMAIN r.cols.id \subseteq DOMAIN t.cols.id \cup {new}
             /\ LiveNames(r.cols) = (LiveNames(t.cols) \ {old}) \cup {new}
<1> DEFINE cols == RenameItem(t.cols, old, new, "rename")
           r == [t EXCEPT !.cols = cols]
<1>1. old \in DOMAIN t.cols.id /\ t.cols.id[old] \in 1 .. Len(t.cols.items)
  BY DEF Sound, Coherent, Reachable, LiveNames
<1>2. t.cols.items \in Seq(ColumnItems) BY DEF Sound, IsList
<1>3. RenameColumn(t, old, new) = r
  BY <1>1, <1>2 DEF RenameColumn, IsStale, IdOf
<1>4. /\ Sound(cols, ColumnItems, ColumnNames)
      /\ DOMAIN cols.id \subseteq DOMAIN t.cols.id \cup {new}
      /\ LiveNames(cols) = (LiveNames(t.cols) \ {old}) \cup {new}
  BY NodeSets, RenameItemSound
<1> HIDE DEF cols
<1>5. OnlyColumns(r, t) /\ r.pos = t.pos /\ r.cols = cols
  BY DEF IsTable, OnlyColumns
<1> QED BY <1>3, <1>4, <1>5

\* AddForeignKey marks columns and leaves everything else of them alone.
LEMMA AddForeignKeySound ==
  ASSUME NEW t, IsTable(t), Sound(t.cols, ColumnItems, ColumnNames),
         Sound(t.fks, FkItems, FkNames), NEW fk \in FkItems, IsLive(fk.action)
  PROVE  LET r == AddForeignKey(t, fk)
         IN  /\ IsTable(r) /\ r.action = t.action /\ r.idxs = t.idxs
             /\ r.panic = t.panic /\ r.pos = t.pos
             /\ Sound(r.cols, ColumnItems, ColumnNames)
             /\ r.cols.id = t.cols.id
             /\ LiveNames(r.cols) = LiveNames(t.cols)
             /\ Sound(r.fks, FkItems, FkNames)
             /\ LiveNames(r.fks) = LiveNames(t.fks) \cup {fk.name}
<1> DEFINE mark(item) == [item EXCEPT !.attr.opts = Append(@, Reference)]
           cols == MarkReferenced(t.cols, fk.column)
           fks == PutItem(t.fks, fk)
           r == AddForeignKey(t, fk)
<1>1. /\ t.cols.items \in Seq(ColumnItems)
      /\ t.cols.id \in [DOMAIN t.cols.id -> Nat \ {0}]
      /\ DOMAIN t.cols.id \subseteq ColumnNames
  BY DEF Sound, IsList
<1>2. \A item \in ColumnItems : /\ mark(item) \in ColumnItems
                                /\ mark(item).name = item.name
                                /\ mark(item).action = item.action
  <2> DEFINE Marked == Seq(Options \cup {Reference})
  <2>1. \A opts \in Marked : Append(opts, Reference) \in Marked OBVIOUS
  <2> HIDE DEF Marked
  <2>2. \A attr \in Attrs : [attr EXCEPT !.opts = Append(@, Reference)] \in Attrs
    BY <2>1, SMTT(30) DEF Attrs, Marked
  <2>3. \A item \in ColumnItems :
          /\ item.attr \in Attrs
          /\ mark(item) = [item EXCEPT !.attr = [item.attr EXCEPT !.opts = Append(@, Reference)]]
    BY SMTT(30) DEF ColumnItems
  <2> QED BY <2>2, <2>3, SMTT(30) DEF ColumnItems
<1>3. /\ cols = [items |-> cols.items, id |-> t.cols.id]
      /\ cols.items = [i \in DOMAIN t.cols.items |->
                         IF t.cols.items[i].name = fk.column
                         THEN mark(t.cols.items[i]) ELSE t.cols.items[i]]
  BY DEF MarkReferenced
<1> HIDE DEF mark, cols
<1>4. /\ cols.items \in Seq(ColumnItems)
      /\ Len(cols.items) = Len(t.cols.items)
      /\ \A i \in 1 .. Len(cols.items) : /\ cols.items[i].name = t.cols.items[i].name
                                         /\ cols.items[i].action = t.cols.items[i].action
  BY <1>1, <1>2, <1>3, SMTT(30)
<1>5. IsList(cols, ColumnItems, ColumnNames) BY <1>1, <1>3, <1>4, SMTT(30) DEF IsList
<1>6. Coherent(cols) /\ Reachable(cols)
  <2>1. cols.id = t.cols.id BY <1>3
  <2>2. Coherent(cols)
    <3> SUFFICES ASSUME NEW n \in DOMAIN t.cols.id
                 PROVE  t.cols.id[n] \in 1 .. Len(cols.items) /\ cols.items[t.cols.id[n]].name = n
      BY <2>1 DEF Coherent
    <3>1. t.cols.id[n] \in 1 .. Len(t.cols.items) /\ t.cols.items[t.cols.id[n]].name = n
      BY DEF Sound, Coherent
    <3> QED BY <3>1, <1>4
  <2>3. Reachable(cols)
    <3> SUFFICES ASSUME NEW i \in 1 .. Len(cols.items), IsLive(cols.items[i].action)
                 PROVE  cols.items[i].name \in DOMAIN t.cols.id /\ t.cols.id[cols.items[i].name] = i
      BY <2>1 DEF Reachable
    <3> QED BY <1>4 DEF Sound, Reachable
  <2> QED BY <2>2, <2>3
<1>7. LiveNames(cols) = LiveNames(t.cols) BY <1>4 DEF LiveNames
<1>8. /\ Sound(fks, FkItems, FkNames)
      /\ LiveNames(fks) = LiveNames(t.fks) \cup {fk.name}
  <2>1. fk.name \in FkNames BY DEF FkItems
  <2> QED BY <2>1, PutItemSound
<1> HIDE DEF fks
<1>9. /\ IsTable(r) /\ r.action = t.action /\ r.idxs = t.idxs
      /\ r.panic = t.panic /\ r.pos = t.pos
      /\ r.fks = fks
      /\ r.cols = cols
  BY DEF AddForeignKey, IsTable, fks, cols
<1> HIDE DEF r
<1> QED BY <1>3, <1>5, <1>6, <1>7, <1>8, <1>9 DEF Sound, r

----------------------------------------------------------------------------
(* The database: its column names stay distinct.                            *)
DbColumns == [name : ColumnNames, type : Types, opts : SUBSET Options]

DistinctNames(cols) ==
  \A i, j \in 1 .. Len(cols) : cols[i].name = cols[j].name => i = j

IsDb(d) ==
  /\ d \in [cols : Seq(DbColumns), idxs : {d.idxs}, fks : {d.fks}]
  /\ DistinctNames(d.cols)

\* PlaceOf finds the column of a name.
LEMMA PlaceOfName ==
  ASSUME NEW d, NEW n \in ColumnNamesOf(d)
  PROVE  PlaceOf(d, n) \in 1 .. Len(d.cols) /\ d.cols[PlaceOf(d, n)].name = n
BY DEF PlaceOf, ColumnNamesOf

\* The option lists of the statements hold options.
LEMMA OptionListTyped ==
  ASSUME NEW opts \in OptionLists
  PROVE  /\ opts \in Seq(Options \cup {Reference})
         /\ {opts[i] : i \in DOMAIN opts} \in SUBSET Options
<1>1. opts \in Seq([tp : STRING, val : STRING]) BY TableAssumption DEF TableAssumption
<1>2. \A i \in DOMAIN opts : opts[i] \in Options BY DEF Options
<1> HIDE DEF Options
<1>3. opts \in [1 .. Len(opts) -> Options] /\ Len(opts) \in Nat BY <1>1, <1>2
<1> QED BY <1>2, <1>3

\* Putting a column of a new name anywhere adds the name.
LEMMA InsertedNames ==
  ASSUME NEW cols \in Seq(DbColumns), DistinctNames(cols), NEW new \in DbColumns,
         \A i \in 1 .. Len(cols) : cols[i].name # new.name,
         NEW at \in 1 .. Len(cols) + 1
  PROVE  LET r == SubSeq(cols, 1, at - 1) \o <<new>> \o SubSeq(cols, at, Len(cols))
         IN  /\ r \in Seq(DbColumns)
             /\ DistinctNames(r)
             /\ {r[i].name : i \in 1 .. Len(r)} =
                  {cols[i].name : i \in 1 .. Len(cols)} \cup {new.name}
<1> DEFINE front == SubSeq(cols, 1, at - 1) \o <<new>>
           r == front \o SubSeq(cols, at, Len(cols))
           back(i) == IF i < at THEN i ELSE i - 1
<1>1. Len(cols) \in Nat OBVIOUS
<1>2. /\ front \in Seq(DbColumns)
      /\ Len(front) = at
      /\ \A i \in 1 .. at : front[i] = IF i = at THEN new ELSE cols[i]
  <2> DEFINE head == SubSeq(cols, 1, at - 1)
  <2>1. /\ head \in Seq(DbColumns)
        /\ Len(head) = at - 1
        /\ \A i \in 1 .. at - 1 : head[i] = cols[i]
    BY <1>1, SubSeqProperties
  <2> HIDE DEF head
  <2>2. front = Append(head, new) BY <2>1 DEF head
  <2> HIDE DEF front
  <2> QED BY <1>1, <2>1, <2>2
<1> HIDE DEF front
<1>3. /\ r \in Seq(DbColumns)
      /\ Len(r) = Len(cols) + 1
      /\ \A i \in 1 .. Len(cols) + 1 : r[i] = IF i <= at THEN front[i] ELSE cols[i - 1]
  BY <1>1, <1>2
<1> HIDE DEF r
<1>4. /\ r[at] = new
      /\ \A i \in 1 .. Len(r) : i # at => /\ back(i) \in 1 .. Len(cols)
                                          /\ r[i] = cols[back(i)]
  BY <1>1, <1>2, <1>3
<1>5. \A i, j \in 1 .. Len(r) : i # at /\ j # at /\ back(i) = back(j) => i = j
  BY <1>1, <1>3
<1>6. \A k \in 1 .. Len(cols) : \E i \in 1 .. Len(r) : i # at /\ back(i) = k
  <2> TAKE k \in 1 .. Len(cols)
  <2>1. CASE k < at BY <2>1, <1>1, <1>3
  <2>2. CASE k >= at
    <3>1. k + 1 \in 1 .. Len(r) /\ k + 1 # at /\ back(k + 1) = k BY <2>2, <1>1, <1>3
    <3> HIDE DEF back
    <3> QED BY <3>1
  <2> QED BY <2>1, <2>2, <1>1
<1> HIDE DEF back
<1>7. DistinctNames(r)
  <2> SUFFICES ASSUME NEW i \in 1 .. Len(r), NEW j \in 1 .. Len(r), r[i].name = r[j].name
               PROVE  i = j
    BY DEF DistinctNames
  <2>1. CASE i = at /\ j # at BY <2>1, <1>4
  <2>2. CASE i # at /\ j = at BY <2>2, <1>4
  <2>3. CASE i # at /\ j # at
    <3>1. back(i) = back(j) BY <2>3, <1>4 DEF DistinctNames
    <3> QED BY <2>3, <3>1, <1>5
  <2> QED BY <2>1, <2>2, <2>3
<1>8. {r[i].name : i \in 1 .. Len(r)} = {cols[i].name : i \in 1 .. Len(cols)} \cup {new.name}
  <2>1. at \in 1 .. Len(r) BY <1>1, <1>3
  <2>2. ASSUME NEW i \in 1 .. Len(r)
        PROVE  r[i].name \in {cols[k].name : k \in 1 .. Len(cols)} \cup {new.name}
    BY <1>4
  <2>3. ASSUME NEW k \in 1 .. Len(cols)
        PROVE  cols[k].name \in {r[i].name : i \in 1 .. Len(r)}
    <3>1. PICK i \in 1 .. Len(r) : i # at /\ back(i) = k BY <1>6
    <3> QED BY <3>1, <1>4
  <2>4. new.name \in {r[i].name : i \in 1 .. Len(r)} BY <2>1, <1>4
  <2> QED BY <2>2, <2>3, <2>4
<1> QED BY <1>3, <1>7, <1>8 DEF r, front

\* Taking out a column takes out its name.
LEMMA DeletedNames ==
  ASSUME NEW cols \in Seq(DbColumns), DistinctNames(cols), NEW at \in 1 .. Len(cols)
  PROVE  LET r == SubSeq(cols, 1, at - 1) \o SubSeq(cols, at + 1, Len(cols))
         IN  /\ r \in Seq(DbColumns)
             /\ DistinctNames(r)
             /\ {r[i].name : i \in 1 .. Len(r)} =
                  {cols[i].name : i \in 1 .. Len(cols)} \ {cols[at].name}
<1> DEFINE r == SubSeq(cols, 1, at - 1) \o SubSeq(cols, at + 1, Len(cols))
           back(i) == IF i < at THEN i ELSE i + 1
<1>1. Len(cols) \in Nat OBVIOUS
<1>2. /\ r \in Seq(DbColumns)
      /\ Len(r) = Len(cols) - 1
      /\ \A i \in 1 .. Len(cols) - 1 : r[i] = IF i < at THEN cols[i] ELSE cols[i + 1]
  <2> DEFINE head == SubSeq(cols, 1, at - 1)
             rest == SubSeq(cols, at + 1, Len(cols))
  <2>1. /\ head \in Seq(DbColumns)
        /\ Len(head) = at - 1
        /\ \A i \in 1 .. at - 1 : head[i] = cols[i]
    BY <1>1, SubSeqProperties
  <2>2. /\ rest \in Seq(DbColumns)
        /\ Len(rest) = Len(cols) - at
        /\ \A i \in 1 .. Len(cols) - at : rest[i] = cols[at + i]
    BY <1>1, SubSeqProperties
  <2> HIDE DEF head, rest
  <2>3. r = head \o rest BY DEF head, rest
  <2> HIDE DEF r
  <2>4. /\ r \in Seq(DbColumns)
        /\ Len(r) = Len(head) + Len(rest)
        /\ \A i \in 1 .. Len(head) + Len(rest) :
             r[i] = IF i <= Len(head) THEN head[i] ELSE rest[i - Len(head)]
    BY <2>1, <2>2, <2>3, ConcatProperties
  <2>5. ASSUME NEW i \in 1 .. Len(cols) - 1
        PROVE  r[i] = IF i < at THEN cols[i] ELSE cols[i + 1]
    <3>1. CASE i < at BY <3>1, <1>1, <2>1, <2>2, <2>4
    <3>2. CASE i >= at
      <4>1. i - Len(head) \in 1 .. Len(cols) - at /\ at + (i - Len(head)) = i + 1
        BY <3>2, <1>1, <2>1
      <4>2. r[i] = rest[i - Len(head)] BY <3>2, <1>1, <2>1, <2>2, <2>4
      <4>3. rest[i - Len(head)] = cols[i + 1] BY <4>1, <2>2
      <4> QED BY <3>2, <4>2, <4>3
    <3> QED BY <3>1, <3>2, <1>1
  <2> QED BY <1>1, <2>1, <2>2, <2>4, <2>5
<1> HIDE DEF r
<1>3. \A i \in 1 .. Len(r) : /\ back(i) \in 1 .. Len(cols)
                             /\ back(i) # at
                             /\ r[i] = cols[back(i)]
  BY <1>1, <1>2
<1>4. \A i, j \in 1 .. Len(r) : back(i) = back(j) => i = j BY <1>1, <1>2
<1>5. \A k \in 1 .. Len(cols) : k # at => \E i \in 1 .. Len(r) : back(i) = k
  <2> SUFFICES ASSUME NEW k \in 1 .. Len(cols), k # at
               PROVE  \E i \in 1 .. Len(r) : back(i) = k
    OBVIOUS
  <2>1. CASE k < at BY <2>1, <1>1, <1>2
  <2>2. CASE k > at
    <3>1. k - 1 \in 1 .. Len(r) /\ back(k - 1) = k BY <2>2, <1>1, <1>2
    <3> HIDE DEF back
    <3> QED BY <3>1
  <2> QED BY <2>1, <2>2, <1>1
<1> HIDE DEF back
<1>6. DistinctNames(r) BY <1>3, <1>4 DEF DistinctNames
<1>7. \A k \in 1 .. Len(cols) : k # at => cols[k].name # cols[at].name
  BY DEF DistinctNames
<1>8. ASSUME NEW i \in 1 .. Len(r)
      PROVE  r[i].name \in {cols[k].name : k \in 1 .. Len(cols)} \ {cols[at].name}
  BY <1>3, <1>7
<1>9. ASSUME NEW k \in 1 .. Len(cols), cols[k].name # cols[at].name
      PROVE  cols[k].name \in {r[i].name : i \in 1 .. Len(r)}
  <2>1. PICK i \in 1 .. Len(r) : back(i) = k BY <1>5, <1>9
  <2> QED BY <2>1, <1>3
<1>10. {r[i].name : i \in 1 .. Len(r)} = {cols[i].name : i \in 1 .. Len(cols)} \ {cols[at].name}
  BY <1>8, <1>9
<1> QED BY <1>2, <1>6, <1>10 DEF r

\* Overwriting a column replaces its name.
LEMMA ReplacedNames ==
  ASSUME NEW cols \in Seq(DbColumns), DistinctNames(cols), NEW at \in 1 .. Len(cols),
         NEW new \in DbColumns,
         \A i \in 1 .. Len(cols) : cols[i].name = new.name => i = at
  PROVE  LET r == [cols EXCEPT ![at] = new]
         IN  /\ r \in Seq(DbColumns)
             /\ DistinctNames(r)
             /\ {r[i].name : i \in 1 .. Len(r)} =
                  ({cols[i].name : i \in 1 .. Len(cols)} \ {cols[at].name}) \cup {new.name}
<1> DEFINE r == [cols EXCEPT ![at] = new]
<1>1. /\ r \in Seq(DbColumns)
      /\ Len(r) = Len(cols)
      /\ r[at] = new
      /\ \A i \in 1 .. Len(cols) : i # at => r[i] = cols[i]
  OBVIOUS
<1> HIDE DEF r
<1>2. DistinctNames(r) BY <1>1 DEF DistinctNames
<1>3. \A k \in 1 .. Len(cols) \ {at} : cols[k].name # cols[at].name
  BY DEF DistinctNames
<1>4. \A n : n \in {r[i].name : i \in 1 .. Len(r)} <=>
              n \in ({cols[i].name : i \in 1 .. Len(cols)} \ {cols[at].name}) \cup {new.name}
  BY <1>1, <1>3
<1> QED BY <1>1, <1>2, <1>4 DEF r

----------------------------------------------------------------------------
(* What each statement does to the names of the database (DbOps.tla).       *)

\* ADD COLUMN adds the column's name to those of the database, wherever it is put.
LEMMA AddColumnExec ==
  ASSUME NEW d, IsDb(d), NEW n \in ColumnNames, n \notin ColumnNamesOf(d),
         NEW type \in Types, NEW opts \in OptionLists, NEW pos \in AddPositions,
         pos.tp = "after" => pos.rel \in ColumnNamesOf(d)
  PROVE  LET r == Exec(d, [op |-> "addColumn", col |-> n, type |-> type,
                           opts |-> opts, pos |-> pos])
         IN  /\ IsDb(r) /\ r.idxs = d.idxs /\ r.fks = d.fks
             /\ ColumnNamesOf(r) = ColumnNamesOf(d) \cup {n}
<1> DEFINE stm == [op |-> "addColumn", col |-> n, type |-> type, opts |-> opts, pos |-> pos]
           new == [name |-> n, type |-> type, opts |-> {opts[i] : i \in DOMAIN opts}]
           at == CASE pos.tp = "first" -> 1
                   [] pos.tp = "after" -> PlaceOf(d, pos.rel) + 1
                   [] OTHER -> Len(d.cols) + 1
           cols == SubSeq(d.cols, 1, at - 1) \o <<new>> \o SubSeq(d.cols, at, Len(d.cols))
<1>1. d.cols \in Seq(DbColumns) /\ DistinctNames(d.cols) /\ Len(d.cols) \in Nat
  BY DEF IsDb
<1>2. new \in DbColumns /\ new.name = n
  <2>1. {opts[i] : i \in DOMAIN opts} \in SUBSET Options BY OptionListTyped
  <2> QED BY <2>1 DEF DbColumns
<1>3. at \in 1 .. Len(d.cols) + 1
  <2>1. CASE pos.tp = "after"
    <3>1. PlaceOf(d, pos.rel) \in 1 .. Len(d.cols) BY <2>1, PlaceOfName
    <3> QED BY <2>1, <3>1, <1>1
  <2>2. CASE pos.tp # "after" BY <2>2, <1>1
  <2> QED BY <2>1, <2>2
<1>4. Exec(d, stm) = [d EXCEPT !.cols = cols] BY DEF Exec, KeyDrops, AddDbColumn
<1> HIDE DEF at, new
<1>5. \A i \in 1 .. Len(d.cols) : d.cols[i].name # new.name BY <1>2 DEF ColumnNamesOf
<1>6. /\ cols \in Seq(DbColumns)
      /\ DistinctNames(cols)
      /\ {cols[i].name : i \in 1 .. Len(cols)} =
           {d.cols[i].name : i \in 1 .. Len(d.cols)} \cup {n}
  BY <1>1, <1>2, <1>3, <1>5, InsertedNames
<1> HIDE DEF cols
<1> DEFINE r == [d EXCEPT !.cols = cols]
<1>7. /\ r \in [cols : Seq(DbColumns), idxs : {d.idxs}, fks : {d.fks}]
      /\ r.cols = cols
  BY <1>6 DEF IsDb
<1> HIDE DEF r
<1>8. IsDb(r) /\ r.idxs = d.idxs /\ r.fks = d.fks BY <1>6, <1>7 DEF IsDb
<1>9. ColumnNamesOf(r) = ColumnNamesOf(d) \cup {n} BY <1>6, <1>7 DEF ColumnNamesOf
<1> QED BY <1>4, <1>8, <1>9 DEF r

\* The indexes that column n leads and the foreign keys on it.
LedBy(d, n)  == {i \in DOMAIN d.idxs : d.idxs[i].columns[1] = n}
KeysOn(d, n) == {f \in DOMAIN d.fks : d.fks[f].column = n}

\* DROP COLUMN takes the name away, with the indexes the column leads and its keys.
LEMMA DropColumnExec ==
  ASSUME NEW d, IsDb(d), NEW n \in ColumnNamesOf(d)
  PROVE  LET r == Exec(d, [op |-> "dropColumn", col |-> n])
         IN  /\ IsDb(r)
             /\ ColumnNamesOf(r) = ColumnNamesOf(d) \ {n}
             /\ r.idxs = Without(d.idxs, LedBy(d, n))
             /\ r.fks = Without(d.fks, KeysOn(d, n))
<1> DEFINE at == PlaceOf(d, n)
           cols == SubSeq(d.cols, 1, at - 1) \o SubSeq(d.cols, at + 1, Len(d.cols))
           idxs == Without(d.idxs, LedBy(d, n))
           fks == Without(d.fks, KeysOn(d, n))
           r == [cols |-> cols, idxs |-> idxs, fks |-> fks]
<1>1. d.cols \in Seq(DbColumns) /\ DistinctNames(d.cols) BY DEF IsDb
<1>2. at \in 1 .. Len(d.cols) /\ d.cols[at].name = n BY PlaceOfName
<1>3. Exec(d, [op |-> "dropColumn", col |-> n]) = r
  BY DEF Exec, KeyDrops, DropDbColumn, LedBy, KeysOn
<1> HIDE DEF at
<1>4. /\ cols \in Seq(DbColumns)
      /\ DistinctNames(cols)
      /\ {cols[i].name : i \in 1 .. Len(cols)} = {d.cols[i].name : i \in 1 .. Len(d.cols)} \ {n}
  BY <1>1, <1>2, DeletedNames
<1> HIDE DEF cols, idxs, fks
<1>6. IsDb(r) BY <1>4 DEF IsDb
<1>7. ColumnNamesOf(r) = ColumnNamesOf(d) \ {n} BY <1>4 DEF ColumnNamesOf
<1>8. r.idxs = idxs /\ r.fks = fks OBVIOUS
<1> HIDE DEF r
<1> QED BY <1>3, <1>6, <1>7, <1>8 DEF idxs, fks

\* RENAME COLUMN replaces one name by the other.
LEMMA RenameColumnExec ==
  ASSUME NEW d, IsDb(d), NEW n \in ColumnNamesOf(d), NEW to \in ColumnNames,
         to \notin ColumnNamesOf(d)
  PROVE  LET r == Exec(d, [op |-> "renameColumn", col |-> n, to |-> to])
         IN  /\ IsDb(r) /\ r.idxs = d.idxs /\ r.fks = d.fks
             /\ ColumnNamesOf(r) = (ColumnNamesOf(d) \ {n}) \cup {to}
<1> DEFINE at == PlaceOf(d, n)
           new == [d.cols[at] EXCEPT !.name = to]
           cols == [d.cols EXCEPT ![at] = new]
           r == [d EXCEPT !.cols = cols]
<1>1. d.cols \in Seq(DbColumns) /\ DistinctNames(d.cols) BY DEF IsDb
<1>2. at \in 1 .. Len(d.cols) /\ d.cols[at].name = n BY PlaceOfName
<1>3. Exec(d, [op |-> "renameColumn", col |-> n, to |-> to]) = r
  BY DEF Exec, KeyDrops, RenameDbColumn, SetDbColumn
<1> HIDE DEF at
<1>4. new \in DbColumns /\ new.name = to
  <2>1. d.cols[at] \in DbColumns BY <1>1, <1>2
  <2> QED BY <2>1 DEF DbColumns
<1> HIDE DEF new
<1>5. \A i \in 1 .. Len(d.cols) : d.cols[i].name = new.name => i = at
  BY <1>4 DEF ColumnNamesOf
<1>6. /\ cols \in Seq(DbColumns)
      /\ DistinctNames(cols)
      /\ {cols[i].name : i \in 1 .. Len(cols)} =
           ({d.cols[i].name : i \in 1 .. Len(d.cols)} \ {n}) \cup {to}
  BY <1>1, <1>2, <1>4, <1>5, ReplacedNames, ZenonT(60)
<1> HIDE DEF cols
<1>7. /\ r \in [cols : Seq(DbColumns), idxs : {d.idxs}, fks : {d.fks}]
      /\ r.cols = cols
  BY <1>6 DEF IsDb
<1> HIDE DEF r
<1>8. IsDb(r) /\ r.idxs = d.idxs /\ r.fks = d.fks BY <1>6, <1>7 DEF IsDb
<1>9. ColumnNamesOf(r) = (ColumnNamesOf(d) \ {n}) \cup {to} BY <1>6, <1>7 DEF ColumnNamesOf
<1> QED BY <1>3, <1>8, <1>9 DEF r

\* MODIFY COLUMN leaves the names alone.
LEMMA ModifyColumnExec ==
  ASSUME NEW d, IsDb(d), NEW n \in ColumnNamesOf(d), NEW type \in Types, NEW opts \in OptionLists
  PROVE  LET r == Exec(d, [op |-> "modifyColumn", col |-> n, type |-> type, opts |-> opts])
         IN  /\ IsDb(r) /\ r.idxs = d.idxs /\ r.fks = d.fks
             /\ ColumnNamesOf(r) = ColumnNamesOf(d)
<1> DEFINE at == PlaceOf(d, n)
           new == [name |-> n, type |-> type,
                   opts |-> {opts[i] : i \in DOMAIN opts}
                              \cup {o \in d.cols[at].opts : o.tp = "primary"}]
           cols == [d.cols EXCEPT ![at] = new]
           r == [d EXCEPT !.cols = cols]
<1>1. d.cols \in Seq(DbColumns) /\ DistinctNames(d.cols) BY DEF IsDb
<1>2. at \in 1 .. Len(d.cols) /\ d.cols[at].name = n BY PlaceOfName
<1>3. Exec(d, [op |-> "modifyColumn", col |-> n, type |-> type, opts |-> opts]) = r
  BY DEF Exec, KeyDrops, ModifyDbColumn, SetDbColumn
<1> HIDE DEF at
<1>4. new \in DbColumns /\ new.name = n
  <2>1. d.cols[at] \in DbColumns BY <1>1, <1>2
  <2>2. n \in ColumnNames /\ d.cols[at].opts \in SUBSET Options BY <2>1, <1>2 DEF DbColumns
  <2>3. {opts[i] : i \in DOMAIN opts} \in SUBSET Options BY OptionListTyped
  <2> QED BY <2>2, <2>3 DEF DbColumns
<1> HIDE DEF new
<1>5. \A i \in 1 .. Len(d.cols) : d.cols[i].name = new.name => i = at
  BY <1>1, <1>2, <1>4 DEF DistinctNames
<1>6. /\ cols \in Seq(DbColumns)
      /\ DistinctNames(cols)
      /\ {cols[i].name : i \in 1 .. Len(cols)} =
           ({d.cols[i].name : i \in 1 .. Len(d.cols)} \ {n}) \cup {n}
  BY <1>1, <1>2, <1>4, <1>5, ReplacedNames
<1> HIDE DEF cols
<1>7. /\ r \in [cols : Seq(DbColumns), idxs : {d.idxs}, fks : {d.fks}]
      /\ r.cols = cols
  BY <1>6 DEF IsDb
<1> HIDE DEF r
<1>8. IsDb(r) /\ r.idxs = d.idxs /\ r.fks = d.fks BY <1>6, <1>7 DEF IsDb
<1>9. ColumnNamesOf(r) = ColumnNamesOf(d) BY <1>6, <1>7 DEF ColumnNamesOf
<1> QED BY <1>3, <1>8, <1>9 DEF r

\* Statements on indexes leave columns and foreign keys alone.
LEMMA IndexesExec ==
  ASSUME NEW d, IsDb(d), NEW x
  PROVE  LET r == [d EXCEPT !.idxs = x]
         IN  IsDb(r) /\ r.idxs = x /\ r.fks = d.fks /\ ColumnNamesOf(r) = ColumnNamesOf(d)
BY DEF IsDb, ColumnNamesOf

\* Statements on foreign keys leave columns and indexes alone.
LEMMA KeysExec ==
  ASSUME NEW d, IsDb(d), NEW x
  PROVE  LET r == [d EXCEPT !.fks = x]
         IN  IsDb(r) /\ r.fks = x /\ r.idxs = d.idxs /\ ColumnNamesOf(r) = ColumnNamesOf(d)
BY DEF IsDb, ColumnNamesOf

----------------------------------------------------------------------------
(* The inductive invariant.  The names that the parser believes in are those *)
(* of the database, so that every legal statement names a column the map     *)
(* has, and AFTER never names a column that was dropped: this is what keeps  *)
(* swapOrder in range and the map in step with the slice.  A name the map    *)
(* has was used before, so that a new name is inserted from the last place.  *)
ColumnsInv ==
  /\ IsTable(table) /\ table.action = "add" /\ table.pos = NoPosition /\ table.panic \in BOOLEAN
  /\ Sound(table.cols, ColumnItems, ColumnNames)
  /\ LiveNames(table.cols) = ColumnNamesOf(db)
  /\ DOMAIN table.cols.id \subseteq used
  /\ used \subseteq ColumnNames
  /\ IsDb(db)
  /\ Sound(table.fks, FkItems, FkNames)
  /\ DOMAIN db.fks \subseteq LiveNames(table.fks)

\* As long as no column is dropped or renamed that an index mentions, the
\* parser's indexes are those of the database too.
IndexesInv ==
  /\ Sound(table.idxs, IndexItems, IndexNames)
  /\ LiveNames(table.idxs) = DOMAIN db.idxs
  /\ \A i \in DOMAIN db.idxs : db.idxs[i].columns \in Seq(ColumnNames) \ {<<>>}

\* A definition read from a statement is an attribute, and a node that bears it a
\* column node.
LEMMA AttrTyped ==
  ASSUME NEW type \in Types, NEW opts \in OptionLists
  PROVE  /\ [type |-> type, opts |-> opts] \in Attrs
         /\ [type |-> type, opts |-> <<>>] \in Attrs
<1>1. opts \in Seq(Options \cup {Reference}) BY OptionListTyped
<1>2. <<>> \in Seq(Options \cup {Reference}) OBVIOUS
<1> QED BY <1>1, <1>2 DEF Attrs

\* The column that the parser makes of a definition is a well-typed node.
LEMMA ColumnTyped ==
  ASSUME NEW n \in ColumnNames, NEW attr \in Attrs, NEW action \in {"add", "modify"}
  PROVE  /\ Column(n, action, attr) \in ColumnItems
         /\ Column(n, action, attr).name = n
         /\ Column(n, action, attr).action = action
         /\ IsLive(action)
BY DEF Column, ColumnItems, Actions, IsLive

\* CREATE TABLE establishes both.
LEMMA InitInv == Init => ColumnsInv /\ IndexesInv
<1> SUFFICES ASSUME NEW n \in ColumnNames, NEW type \in Types, NEW opts \in OptionLists,
                    Create(n, [type |-> type, opts |-> opts])
             PROVE  ColumnsInv /\ IndexesInv
  BY DEF Init
<1> DEFINE t == NewTable(Own)
           col == Column(n, "add", [type |-> type, opts |-> opts])
           shown == {opts[i] : i \in DOMAIN opts}
           new == [name |-> n, type |-> type, opts |-> shown]
<1>1. /\ table = AddColumn(t, col)
      /\ db = [EmptyDbTable EXCEPT !.cols = <<new>>]
      /\ used = {n}
  BY DEF Create
<1>2. col \in ColumnItems /\ col.name = n /\ col.action = "add"
  BY AttrTyped, ColumnTyped, ZenonT(60)
<1> HIDE DEF col
<1>3. /\ IsTable(t) /\ t.action = "add" /\ t.pos = NoPosition /\ t.panic = FALSE
      /\ t.cols = EmptyList /\ t.idxs = EmptyList /\ t.fks = EmptyList
  BY DEF NewTable, NewTableWithAction, IsTable
<1> HIDE DEF t
<1>4. /\ Sound(t.cols, ColumnItems, ColumnNames) /\ Sound(t.idxs, IndexItems, IndexNames)
      /\ Sound(t.fks, FkItems, FkNames)
      /\ LiveNames(t.cols) = {} /\ LiveNames(t.idxs) = {}
      /\ DOMAIN t.cols.id = {}
  BY <1>3, EmptyListSound DEF EmptyList
<1>5. /\ OnlyColumns(table, t) /\ table.pos = NoPosition
      /\ Sound(table.cols, ColumnItems, ColumnNames)
      /\ DOMAIN table.cols.id = {n}
      /\ LiveNames(table.cols) = {n}
  <2>1. IsLive(col.action) BY <1>2 DEF IsLive
  <2>2. t.pos.tp # "after" BY <1>3 DEF NoPosition
  <2> QED BY <1>1, <1>2, <1>3, <1>4, <2>1, <2>2, AddNewColumn
<1>6. new \in DbColumns
  <2>1. shown \in SUBSET Options BY OptionListTyped
  <2> HIDE DEF shown
  <2> QED BY <2>1 DEF DbColumns
<1>7. new.name = n OBVIOUS
<1> HIDE DEF new
<1>8. IsDb(db) /\ ColumnNamesOf(db) = {n} /\ DOMAIN db.fks = {} /\ DOMAIN db.idxs = {}
  <2>1. /\ db.cols = <<new>>
        /\ db.idxs = EmptyFunction /\ db.fks = EmptyFunction
        /\ db = [cols |-> db.cols, idxs |-> db.idxs, fks |-> db.fks]
    BY <1>1 DEF EmptyDbTable
  <2>2. db.cols \in Seq(DbColumns) /\ Len(db.cols) = 1 /\ db.cols[1] = new BY <2>1, <1>6
  <2>3. DistinctNames(db.cols) BY <2>2 DEF DistinctNames
  <2>4. ColumnNamesOf(db) = {n} BY <2>2, <1>7 DEF ColumnNamesOf
  <2> QED BY <2>1, <2>2, <2>3, <2>4 DEF IsDb, EmptyFunction
<1>9. ColumnsInv BY <1>1, <1>3, <1>4, <1>5, <1>8 DEF ColumnsInv, OnlyColumns
<1>10. IndexesInv BY <1>3, <1>4, <1>5, <1>8 DEF IndexesInv, OnlyColumns
<1> QED BY <1>9, <1>10

----------------------------------------------------------------------------
\* ADD COLUMN, with a name the table never had or without a position.
LEMMA AddColumnStep ==
  ASSUME ColumnsInv, Reuse # "any",
         NEW n \in ColumnNames, NEW type \in Types, NEW opts \in OptionLists,
         NEW pos \in AddPositions, AddColumnStatement(n, type, opts, pos)
  PROVE  /\ ColumnsInv' /\ table'.idxs = table.idxs /\ db'.idxs = db.idxs
         /\ table'.fks = table.fks /\ db'.fks = db.fks /\ table'.panic = table.panic
<1> DEFINE stm == [op |-> "addColumn", col |-> n, type |-> type, opts |-> opts, pos |-> pos]
           col == Column(n, "add", [type |-> type, opts |-> opts])
           u == IF pos = NoPosition THEN table ELSE [table EXCEPT !.pos = pos]
<1>1. /\ n \in used => pos.tp \in {"nil", "none"}
      /\ Legal(db, stm) /\ db' = Exec(db, stm) /\ table' = ReadStatement(table, stm)
      /\ used' = used \cup {n}
  BY DEF AddColumnStatement, Statement
<1>2. /\ n \notin ColumnNamesOf(db)
      /\ pos.tp = "after" => pos.rel \in ColumnNamesOf(db)
  BY <1>1 DEF Legal, KeyDrops
<1>3. /\ IsDb(db') /\ db'.idxs = db.idxs /\ db'.fks = db.fks
      /\ ColumnNamesOf(db') = ColumnNamesOf(db) \cup {n}
  BY <1>1, <1>2, AddColumnExec DEF ColumnsInv
<1>4. table' = AddColumn(u, col) BY <1>1 DEF ReadStatement, ReadAdd
<1>5. col \in ColumnItems /\ col.name = n /\ IsLive(col.action)
  BY AttrTyped, ColumnTyped
<1>6. OnlyColumns(u, table) /\ u.pos = pos /\ u.cols = table.cols
  BY DEF ColumnsInv, OnlyColumns, IsTable
<1> HIDE DEF u, col
<1>7. /\ OnlyColumns(table', u) /\ table'.pos = NoPosition
      /\ Sound(table'.cols, ColumnItems, ColumnNames)
      /\ DOMAIN table'.cols.id \subseteq DOMAIN table.cols.id \cup {n}
      /\ LiveNames(table'.cols) = LiveNames(table.cols) \cup {n}
  <2>1. CASE n \notin DOMAIN table.cols.id
    <3>1. u.pos.tp = "after" => u.pos.rel # n BY <1>2, <1>6
    <3> QED BY <2>1, <3>1, <1>4, <1>5, <1>6, AddNewColumn DEF ColumnsInv, OnlyColumns
  <2>2. CASE n \in DOMAIN table.cols.id
    <3>1. u.pos.tp \in {"nil", "none"} BY <2>2, <1>1, <1>6 DEF ColumnsInv
    <3>2. n \notin LiveNames(u.cols) BY <1>2, <1>6 DEF ColumnsInv
    <3> QED BY <2>2, <3>1, <3>2, <1>4, <1>5, <1>6, AddKnownColumn DEF ColumnsInv, OnlyColumns
  <2> QED BY <2>1, <2>2
<1>8. ColumnsInv'
  BY <1>1, <1>3, <1>6, <1>7 DEF ColumnsInv, OnlyColumns
<1> QED BY <1>3, <1>6, <1>7, <1>8 DEF OnlyColumns

\* DROP COLUMN: what the column leads goes with it in the database.
LEMMA DropColumnStep ==
  ASSUME ColumnsInv, NEW n \in ColumnNames, DropColumnStatement(n)
  PROVE  /\ ColumnsInv' /\ table'.idxs = table.idxs /\ table'.fks = table.fks
         /\ table'.panic = table.panic
         /\ db'.idxs = Without(db.idxs, LedBy(db, n)) /\ db'.fks = Without(db.fks, KeysOn(db, n))
<1> DEFINE stm == [op |-> "dropColumn", col |-> n]
<1>1. /\ Legal(db, stm) /\ db' = Exec(db, stm) /\ table' = ReadStatement(table, stm)
      /\ used' = used
  BY DEF DropColumnStatement, Statement
<1>2. n \in ColumnNamesOf(db) BY <1>1 DEF Legal, KeyDrops
<1>3. /\ IsDb(db')
      /\ db'.idxs = Without(db.idxs, LedBy(db, n)) /\ db'.fks = Without(db.fks, KeysOn(db, n))
      /\ ColumnNamesOf(db') = ColumnNamesOf(db) \ {n}
  <2>1. IsDb(db) BY DEF ColumnsInv
  <2> QED BY <2>1, <1>1, <1>2, DropColumnExec, SMTT(30)
<1>4. table' = RemoveColumn(table, n) BY <1>1 DEF ReadStatement
<1>5. /\ OnlyColumns(table', table) /\ table'.pos = table.pos
      /\ Sound(table'.cols, ColumnItems, ColumnNames)
      /\ DOMAIN table'.cols.id = DOMAIN table.cols.id
      /\ LiveNames(table'.cols) = LiveNames(table.cols) \ {n}
  BY <1>2, <1>4, RemoveColumnSound DEF ColumnsInv
<1>6. DOMAIN db'.fks \subseteq DOMAIN db.fks BY <1>3 DEF Without
<1>7. ColumnsInv' BY <1>1, <1>3, <1>5, <1>6 DEF ColumnsInv, OnlyColumns
<1> QED BY <1>3, <1>5, <1>7 DEF OnlyColumns

\* RENAME COLUMN.
LEMMA RenameColumnStep ==
  ASSUME ColumnsInv, NEW n \in ColumnNames, NEW to \in ColumnNames,
         RenameColumnStatement(n, to)
  PROVE  /\ ColumnsInv' /\ table'.idxs = table.idxs /\ db'.idxs = db.idxs
         /\ table'.fks = table.fks /\ db'.fks = db.fks /\ table'.panic = table.panic
<1> DEFINE stm == [op |-> "renameColumn", col |-> n, to |-> to]
<1>1. /\ Legal(db, stm) /\ db' = Exec(db, stm) /\ table' = ReadStatement(table, stm)
      /\ used' = used \cup {to}
  BY DEF RenameColumnStatement, Statement
<1>2. n \in ColumnNamesOf(db) /\ to \notin ColumnNamesOf(db) BY <1>1 DEF Legal, KeyDrops
<1>3. /\ IsDb(db') /\ db'.idxs = db.idxs /\ db'.fks = db.fks
      /\ ColumnNamesOf(db') = (ColumnNamesOf(db) \ {n}) \cup {to}
  BY <1>1, <1>2, RenameColumnExec DEF ColumnsInv
<1>4. table' = RenameColumn(table, n, to) BY <1>1 DEF ReadStatement
<1>5. /\ OnlyColumns(table', table) /\ table'.pos = table.pos
      /\ Sound(table'.cols, ColumnItems, ColumnNames)
      /\ DOMAIN table'.cols.id \subseteq DOMAIN table.cols.id \cup {to}
      /\ LiveNames(table'.cols) = (LiveNames(table.cols) \ {n}) \cup {to}
  BY <1>2, <1>4, RenameColumnSound DEF ColumnsInv
<1>6. ColumnsInv' BY <1>1, <1>3, <1>5 DEF ColumnsInv, OnlyColumns
<1> QED BY <1>3, <1>5, <1>6 DEF OnlyColumns

\* MODIFY COLUMN, which the parser reads twice.
LEMMA ModifyColumnStep ==
  ASSUME ColumnsInv, NEW n \in ColumnNames, NEW type \in Types, NEW opts \in OptionLists,
         ModifyColumnStatement(n, type, opts)
  PROVE  /\ ColumnsInv' /\ table'.idxs = table.idxs /\ db'.idxs = db.idxs
         /\ table'.fks = table.fks /\ db'.fks = db.fks /\ table'.panic = table.panic
<1> DEFINE stm == [op |-> "modifyColumn", col |-> n, type |-> type, opts |-> opts]
           attr == [type |-> type, opts |-> opts]
           bare == [type |-> type, opts |-> <<>>]
           first == Column(n, "modify", bare)
           col == Column(n, "add", attr)
           u == AddColumn(table, first)
<1>1. /\ Legal(db, stm) /\ db' = Exec(db, stm) /\ table' = ReadStatement(table, stm)
      /\ used' = used
  BY DEF ModifyColumnStatement, Statement
<1>2. n \in ColumnNamesOf(db) BY <1>1 DEF Legal, KeyDrops
<1>3. /\ IsDb(db') /\ db'.idxs = db.idxs /\ db'.fks = db.fks
      /\ ColumnNamesOf(db') = ColumnNamesOf(db)
  BY <1>1, <1>2, ModifyColumnExec DEF ColumnsInv
<1>4. table' = AddColumn(u, col) BY <1>1 DEF ReadStatement, ReadModify
<1>5. /\ first \in ColumnItems /\ first.name = n /\ IsLive(first.action)
      /\ col \in ColumnItems /\ col.name = n /\ IsLive(col.action)
  <2>1. attr \in Attrs /\ bare \in Attrs BY AttrTyped
  <2> HIDE DEF attr, bare
  <2> QED BY <2>1, ColumnTyped
<1> HIDE DEF first, col
<1>6. n \in LiveNames(table.cols) /\ n \in DOMAIN table.cols.id
  BY <1>2 DEF ColumnsInv, Sound, Reachable, LiveNames
<1>7. /\ OnlyColumns(u, table) /\ u.pos = NoPosition
      /\ Sound(u.cols, ColumnItems, ColumnNames)
      /\ DOMAIN u.cols.id = DOMAIN table.cols.id
      /\ LiveNames(u.cols) = LiveNames(table.cols) \cup {n}
  BY <1>5, <1>6, AddKnownColumn DEF ColumnsInv, NoPosition
<1> HIDE DEF u
<1>8. /\ OnlyColumns(table', u) /\ table'.pos = NoPosition
      /\ Sound(table'.cols, ColumnItems, ColumnNames)
      /\ DOMAIN table'.cols.id = DOMAIN u.cols.id
      /\ LiveNames(table'.cols) = LiveNames(u.cols) \cup {n}
  <2>1. IsTable(u) /\ u.pos.tp \in {"nil", "none"} BY <1>7 DEF OnlyColumns, NoPosition
  <2>2. col.name \in DOMAIN u.cols.id BY <1>5, <1>6, <1>7
  <2>3. LET r == AddColumn(u, col)
        IN  /\ OnlyColumns(r, u) /\ r.pos = NoPosition
            /\ Sound(r.cols, ColumnItems, ColumnNames)
            /\ DOMAIN r.cols.id = DOMAIN u.cols.id
            /\ LiveNames(r.cols) = LiveNames(u.cols) \cup {col.name}
    BY <1>5, <1>7, <2>1, <2>2, AddKnownColumn
  <2> QED BY <1>4, <1>5, <2>3
<1>9. ColumnsInv' BY <1>1, <1>3, <1>6, <1>7, <1>8 DEF ColumnsInv, OnlyColumns
<1> QED BY <1>3, <1>7, <1>8, <1>9 DEF OnlyColumns

\* ADD FOREIGN KEY.
LEMMA AddForeignKeyStep ==
  ASSUME ColumnsInv, NEW f \in FkNames, NEW n \in ColumnNames, NEW ref \in References,
         AddForeignKeyStatement(f, n, ref)
  PROVE  /\ ColumnsInv' /\ table'.idxs = table.idxs /\ db'.idxs = db.idxs
         /\ table'.panic = table.panic
<1> DEFINE stm == [op |-> "addForeignKey", fk |-> f, col |-> n, ref |-> ref]
           fk == ForeignKey(f, "add", n, ref)
           fks == With(db.fks, f, [column |-> n, ref |-> ref])
<1>1. /\ db' = Exec(db, stm) /\ table' = ReadStatement(table, stm) /\ used' = used
  BY DEF AddForeignKeyStatement, Statement
<1>2. /\ IsDb(db') /\ db'.idxs = db.idxs /\ db'.fks = fks
      /\ ColumnNamesOf(db') = ColumnNamesOf(db)
  <2>1. db' = [db EXCEPT !.fks = fks] BY <1>1 DEF Exec, KeyDrops
  <2> HIDE DEF fks
  <2>2. IsDb(db) BY DEF ColumnsInv
  <2> QED BY <2>1, <2>2, KeysExec
<1>3. DOMAIN fks = DOMAIN db.fks \cup {f} BY DEF With
<1>4. fk \in FkItems /\ fk.name = f /\ IsLive(fk.action)
  BY DEF ForeignKey, FkItems, Actions, IsLive
<1>5. table' = AddForeignKey(table, fk) BY <1>1 DEF ReadStatement
<1> HIDE DEF fk, fks
<1>6. /\ IsTable(table') /\ table'.action = table.action /\ table'.idxs = table.idxs
      /\ table'.panic = table.panic /\ table'.pos = table.pos
      /\ Sound(table'.cols, ColumnItems, ColumnNames)
      /\ table'.cols.id = table.cols.id
      /\ LiveNames(table'.cols) = LiveNames(table.cols)
      /\ Sound(table'.fks, FkItems, FkNames)
      /\ LiveNames(table'.fks) = LiveNames(table.fks) \cup {f}
  BY <1>4, <1>5, AddForeignKeySound DEF ColumnsInv
<1>7. ColumnsInv' BY <1>1, <1>2, <1>3, <1>6 DEF ColumnsInv
<1> QED BY <1>2, <1>6, <1>7

\* Dropping a key: the database has it no more, the parser keeps it.
LEMMA DropKeyStep ==
  ASSUME ColumnsInv, NEW op \in KeyDrops, NEW f \in FkNames,
         Statement([op |-> op, fk |-> f]), used' = used
  PROVE  /\ ColumnsInv' /\ table'.idxs = table.idxs /\ db'.idxs = db.idxs
         /\ table'.cols = table.cols /\ db'.cols = db.cols
         /\ table'.fks = table.fks /\ db'.fks = Without(db.fks, {f})
         /\ op = "dropConstraint" => table'.panic = table.panic
<1> DEFINE stm == [op |-> op, fk |-> f]
           dbFks == Without(db.fks, {f})
<1>1. db' = Exec(db, stm) /\ table' = ReadStatement(table, stm) BY DEF Statement
<1>2. db' = [db EXCEPT !.fks = dbFks] BY <1>1 DEF Exec, KeyDrops
<1>3. DOMAIN dbFks \subseteq DOMAIN db.fks BY DEF Without
<1>4. table' = Panicked(table) \/ table' = table BY <1>1 DEF ReadStatement, KeyDrops
<1>5. op = "dropConstraint" => table' = table BY <1>1 DEF ReadStatement
<1> HIDE DEF dbFks
<1>6. /\ IsDb(db') /\ db'.idxs = db.idxs /\ db'.fks = dbFks
      /\ ColumnNamesOf(db') = ColumnNamesOf(db)
  <2>1. IsDb(db) BY DEF ColumnsInv
  <2> QED BY <1>2, <2>1, KeysExec
<1>7. db'.cols = db.cols BY <1>2 DEF ColumnsInv, IsDb
<1>8. /\ IsTable(table') /\ table'.action = table.action /\ table'.idxs = table.idxs
      /\ table'.pos = table.pos /\ table'.panic \in BOOLEAN
      /\ table'.cols = table.cols /\ table'.fks = table.fks
  BY <1>4 DEF ColumnsInv, IsTable, Panicked
<1>9. ColumnsInv' BY <1>3, <1>6, <1>8 DEF ColumnsInv
<1> QED BY <1>5, <1>6, <1>7, <1>8, <1>9 DEF dbFks

LEMMA DropForeignKeyStep ==
  ASSUME ColumnsInv, NEW f \in FkNames, DropForeignKeyStatement(f)
  PROVE  /\ ColumnsInv' /\ table'.idxs = table.idxs /\ db'.idxs = db.idxs
         /\ table'.cols = table.cols /\ db'.cols = db.cols
         /\ table'.fks = table.fks /\ db'.fks = Without(db.fks, {f})
BY DropKeyStep DEF DropForeignKeyStatement, KeyDrops

LEMMA DropConstraintStep ==
  ASSUME ColumnsInv, NEW f \in FkNames, DropConstraintStatement(f)
  PROVE  /\ ColumnsInv' /\ table'.idxs = table.idxs /\ db'.idxs = db.idxs
         /\ table'.cols = table.cols /\ db'.cols = db.cols
         /\ table'.fks = table.fks /\ db'.fks = Without(db.fks, {f})
         /\ table'.panic = table.panic
BY DropKeyStep DEF DropConstraintStatement, KeyDrops

----------------------------------------------------------------------------
\* Statements on indexes change the indexes only.
LEMMA IndexStep ==
  ASSUME ColumnsInv, NEW idxs, NEW dbIdxs,
         table' = [table EXCEPT !.idxs = idxs], db' = [db EXCEPT !.idxs = dbIdxs],
         used' = used
  PROVE  /\ ColumnsInv' /\ table'.idxs = idxs /\ db'.idxs = dbIdxs
         /\ table'.cols = table.cols /\ table'.fks = table.fks /\ db'.fks = db.fks
         /\ table'.panic = table.panic
<1>1. /\ IsDb(db') /\ db'.idxs = dbIdxs /\ db'.fks = db.fks
      /\ ColumnNamesOf(db') = ColumnNamesOf(db)
  <2>1. IsDb(db) BY DEF ColumnsInv
  <2> QED BY <2>1, IndexesExec
<1>2. /\ IsTable(table') /\ table'.action = table.action /\ table'.idxs = idxs
      /\ table'.panic = table.panic /\ table'.pos = table.pos
      /\ table'.cols = table.cols /\ table'.fks = table.fks
  BY DEF ColumnsInv, IsTable
<1>3. ColumnsInv' BY <1>1, <1>2 DEF ColumnsInv
<1> QED BY <1>1, <1>2, <1>3

\* CREATE INDEX, DROP INDEX and RENAME INDEX; the parser and the database may
\* differ about the indexes only where a column was taken from under one.
LEMMA CreateIndexStep ==
  ASSUME ColumnsInv, NEW i \in IndexNames, NEW typ \in IndexTypes, NEW n \in ColumnNames,
         CreateIndexStatement(i, typ, <<n>>)
  PROVE  ColumnsInv' /\ table'.panic = table.panic /\ (IndexesInv => IndexesInv')
<1> DEFINE stm == [op |-> "createIndex", idx |-> i, typ |-> typ, columns |-> <<n>>]
           item == Index(i, "add", typ, <<n>>)
           made == [typ |-> typ, columns |-> <<n>>]
           idxs == PutItem(table.idxs, item)
           dbIdxs == With(db.idxs, i, made)
<1>1. /\ db' = Exec(db, stm) /\ table' = ReadStatement(table, stm) /\ used' = used
  BY DEF CreateIndexStatement, Statement
<1>2. db' = [db EXCEPT !.idxs = dbIdxs] BY <1>1 DEF Exec, KeyDrops
<1>3. table' = [table EXCEPT !.idxs = idxs] BY <1>1 DEF ReadStatement, AddIndex
<1>4. item \in IndexItems /\ item.name = i /\ IsLive(item.action)
  BY DEF Index, IndexItems, Actions, IsLive
<1>5. /\ DOMAIN dbIdxs = DOMAIN db.idxs \cup {i}
      /\ dbIdxs[i] = made
      /\ \A j \in DOMAIN db.idxs : j # i => dbIdxs[j] = db.idxs[j]
  BY DEF With
<1>6. made.columns \in Seq(ColumnNames) \ {<<>>} OBVIOUS
<1> HIDE DEF item, made, idxs, dbIdxs
<1>7. ColumnsInv' /\ table'.panic = table.panic /\ table'.idxs = idxs /\ db'.idxs = dbIdxs
  BY <1>1, <1>2, <1>3, IndexStep
<1>8. ASSUME IndexesInv PROVE IndexesInv'
  <2>1. /\ Sound(idxs, IndexItems, IndexNames)
        /\ LiveNames(idxs) = LiveNames(table.idxs) \cup {i}
    BY <1>4, <1>8, PutItemSound DEF IndexesInv, idxs
  <2>2. \A j \in DOMAIN dbIdxs : dbIdxs[j].columns \in Seq(ColumnNames) \ {<<>>}
    BY <1>5, <1>6, <1>8 DEF IndexesInv
  <2> QED BY <2>1, <2>2, <1>5, <1>7, <1>8 DEF IndexesInv
<1> QED BY <1>7, <1>8

\* DROP INDEX takes the index from both sides.
LEMMA DropIndexStep ==
  ASSUME ColumnsInv, NEW i \in IndexNames, DropIndexStatement(i)
  PROVE  ColumnsInv' /\ table'.panic = table.panic /\ (IndexesInv => IndexesInv')
<1> DEFINE stm == [op |-> "dropIndex", idx |-> i]
           idxs == RemoveItem(table.idxs, i, Index(i, "remove", "none", <<>>))
           dbIdxs == Without(db.idxs, {i})
<1>1. /\ Legal(db, stm) /\ db' = Exec(db, stm) /\ table' = ReadStatement(table, stm)
      /\ used' = used
  BY DEF DropIndexStatement, Statement
<1>2. db' = [db EXCEPT !.idxs = dbIdxs] BY <1>1 DEF Exec, KeyDrops
<1>3. table' = [table EXCEPT !.idxs = idxs] BY <1>1 DEF ReadStatement, RemoveIndex
<1>4. i \in DOMAIN db.idxs BY <1>1 DEF Legal, KeyDrops
<1>5. /\ DOMAIN dbIdxs = DOMAIN db.idxs \ {i}
      /\ \A j \in DOMAIN dbIdxs : dbIdxs[j] = db.idxs[j]
  BY DEF Without
<1>6. ASSUME IndexesInv
      PROVE  /\ Sound(idxs, IndexItems, IndexNames)
             /\ LiveNames(idxs) = LiveNames(table.idxs) \ {i}
  BY <1>4, <1>6, NodeSets, RemoveItemSound DEF IndexesInv
<1> HIDE DEF idxs, dbIdxs
<1>7. ColumnsInv' /\ table'.panic = table.panic /\ table'.idxs = idxs /\ db'.idxs = dbIdxs
  BY <1>1, <1>2, <1>3, IndexStep
<1>8. ASSUME IndexesInv PROVE IndexesInv'
  BY <1>5, <1>6, <1>7, <1>8 DEF IndexesInv
<1> QED BY <1>7, <1>8

\* RENAME INDEX renames it on both sides.
LEMMA RenameIndexStep ==
  ASSUME ColumnsInv, NEW i \in IndexNames, NEW to \in IndexNames, RenameIndexStatement(i, to)
  PROVE  ColumnsInv' /\ table'.panic = table.panic /\ (IndexesInv => IndexesInv')
<1> DEFINE stm == [op |-> "renameIndex", idx |-> i, to |-> to]
           idxs == RenameItem(table.idxs, i, to, "rename")
           dbIdxs == Without(With(db.idxs, to, db.idxs[i]), {i})
<1>1. /\ Legal(db, stm) /\ db' = Exec(db, stm) /\ table' = ReadStatement(table, stm)
      /\ used' = used
  BY DEF RenameIndexStatement, Statement
<1>2. db' = [db EXCEPT !.idxs = dbIdxs] BY <1>1 DEF Exec, KeyDrops
<1>3. table' = [table EXCEPT !.idxs = idxs] BY <1>1 DEF ReadStatement, RenameIndex
<1>4. i \in DOMAIN db.idxs /\ to \notin DOMAIN db.idxs BY <1>1 DEF Legal, KeyDrops
<1>5. /\ DOMAIN dbIdxs = (DOMAIN db.idxs \cup {to}) \ {i}
      /\ \A j \in DOMAIN dbIdxs : dbIdxs[j] = IF j = to THEN db.idxs[i] ELSE db.idxs[j]
  BY DEF Without, With
<1>6. ASSUME IndexesInv
      PROVE  /\ Sound(idxs, IndexItems, IndexNames)
             /\ LiveNames(idxs) = (LiveNames(table.idxs) \ {i}) \cup {to}
  BY <1>4, <1>6, NodeSets, RenameItemSound DEF IndexesInv
<1> HIDE DEF idxs, dbIdxs
<1>7. ColumnsInv' /\ table'.panic = table.panic /\ table'.idxs = idxs /\ db'.idxs = dbIdxs
  BY <1>1, <1>2, <1>3, IndexStep
<1>8. ASSUME IndexesInv PROVE IndexesInv'
  <2>1. DOMAIN dbIdxs = (DOMAIN db.idxs \ {i}) \cup {to} BY <1>4, <1>5
  <2>2. \A j \in DOMAIN dbIdxs : dbIdxs[j].columns \in Seq(ColumnNames) \ {<<>>}
    BY <1>4, <1>5, <1>8 DEF IndexesInv
  <2> QED BY <2>1, <2>2, <1>6, <1>7, <1>8 DEF IndexesInv
<1> QED BY <1>7, <1>8

----------------------------------------------------------------------------
\* Every statement preserves the invariant of the columns, and no one but DROP FOREIGN
\* KEY ends the program.
MayPanic == table'.panic = table.panic \/ \E f \in FkNames : DropForeignKeyStatement(f)

LEMMA ColumnsInvStep ==
  ASSUME ColumnsInv, [Next]_vars, Reuse # "any"
  PROVE  ColumnsInv' /\ MayPanic
<1>1. CASE UNCHANGED vars BY <1>1 DEF ColumnsInv, vars, MayPanic
<1>2. CASE Next
  <2>1. ASSUME NEW n \in ColumnNames, NEW type \in Types, NEW opts \in OptionLists,
               NEW pos \in AddPositions, AddColumnStatement(n, type, opts, pos)
        PROVE  ColumnsInv' /\ MayPanic
    BY <2>1, AddColumnStep DEF MayPanic
  <2>2. ASSUME NEW n \in ColumnNames, DropColumnStatement(n) PROVE ColumnsInv' /\ MayPanic
    BY <2>2, DropColumnStep DEF MayPanic
  <2>3. ASSUME NEW n \in ColumnNames, NEW to \in ColumnNames, RenameColumnStatement(n, to)
        PROVE  ColumnsInv' /\ MayPanic
    BY <2>3, RenameColumnStep DEF MayPanic
  <2>4. ASSUME NEW n \in ColumnNames, NEW type \in Types, NEW opts \in OptionLists,
               ModifyColumnStatement(n, type, opts)
        PROVE  ColumnsInv' /\ MayPanic
    BY <2>4, ModifyColumnStep DEF MayPanic
  <2>5. ASSUME NEW i \in IndexNames, NEW typ \in IndexTypes, NEW n \in ColumnNames,
               CreateIndexStatement(i, typ, <<n>>)
        PROVE  ColumnsInv' /\ MayPanic
    BY <2>5, CreateIndexStep DEF MayPanic
  <2>6. ASSUME NEW i \in IndexNames, DropIndexStatement(i) PROVE ColumnsInv' /\ MayPanic
    BY <2>6, DropIndexStep DEF MayPanic
  <2>7. ASSUME NEW i \in IndexNames, NEW to \in IndexNames, RenameIndexStatement(i, to)
        PROVE  ColumnsInv' /\ MayPanic
    BY <2>7, RenameIndexStep DEF MayPanic
  <2>8. ASSUME NEW f \in FkNames, NEW n \in ColumnNames, NEW ref \in References,
               AddForeignKeyStatement(f, n, ref)
        PROVE  ColumnsInv' /\ MayPanic
    BY <2>8, AddForeignKeyStep DEF MayPanic
  <2>9. ASSUME NEW f \in FkNames, DropForeignKeyStatement(f) PROVE ColumnsInv' /\ MayPanic
    BY <2>9, DropForeignKeyStep DEF MayPanic
  <2>10. ASSUME NEW f \in FkNames, DropConstraintStatement(f) PROVE ColumnsInv' /\ MayPanic
    BY <2>10, DropConstraintStep DEF MayPanic
  <2> QED BY <1>2, <2>1, <2>2, <2>3, <2>4, <2>5, <2>6, <2>7, <2>8, <2>9, <2>10 DEF Next
<1> QED BY <1>1, <1>2

\* A column that no index mentions leads none: dropping it drops no index and
\* no foreign key.
LEMMA NotMentioned ==
  ASSUME IndexesInv, NEW n, ~IsMentioned(db, n)
  PROVE  LedBy(db, n) = {} /\ KeysOn(db, n) = {}
<1>1. ASSUME NEW i \in DOMAIN db.idxs, db.idxs[i].columns[1] = n PROVE FALSE
  <2>1. db.idxs[i].columns \in Seq(ColumnNames) \ {<<>>} BY DEF IndexesInv
  <2>2. 1 \in DOMAIN db.idxs[i].columns BY <2>1
  <2> QED BY <1>1, <2>2 DEF IsMentioned
<1> QED BY <1>1 DEF LedBy, KeysOn, IsMentioned

\* Every statement preserves the invariant of the indexes.
LEMMA IndexesInvStep ==
  ASSUME ColumnsInv, IndexesInv, [Next]_vars, Reuse # "any", ~Cascades
  PROVE  IndexesInv'
<1>1. ASSUME table'.idxs = table.idxs, db'.idxs = db.idxs PROVE IndexesInv'
  BY <1>1 DEF IndexesInv
<1>2. CASE UNCHANGED vars BY <1>1, <1>2 DEF vars
<1>3. CASE Next
  <2>1. ASSUME NEW n \in ColumnNames, NEW type \in Types, NEW opts \in OptionLists,
               NEW pos \in AddPositions, AddColumnStatement(n, type, opts, pos)
        PROVE  IndexesInv'
    BY <1>1, <2>1, AddColumnStep
  <2>2. ASSUME NEW n \in ColumnNames, DropColumnStatement(n) PROVE IndexesInv'
    <3>1. ~IsMentioned(db, n) BY <2>2 DEF DropColumnStatement
    <3>2. table'.idxs = table.idxs /\ db'.idxs = Without(db.idxs, {})
      BY <2>2, <3>1, NotMentioned, DropColumnStep
    <3>3. /\ DOMAIN db'.idxs = DOMAIN db.idxs
          /\ \A i \in DOMAIN db.idxs : db'.idxs[i] = db.idxs[i]
      BY <3>2 DEF Without
    <3> QED BY <3>2, <3>3 DEF IndexesInv
  <2>3. ASSUME NEW n \in ColumnNames, NEW to \in ColumnNames, RenameColumnStatement(n, to)
        PROVE  IndexesInv'
    BY <1>1, <2>3, RenameColumnStep
  <2>4. ASSUME NEW n \in ColumnNames, NEW type \in Types, NEW opts \in OptionLists,
               ModifyColumnStatement(n, type, opts)
        PROVE  IndexesInv'
    BY <1>1, <2>4, ModifyColumnStep
  <2>5. ASSUME NEW i \in IndexNames, NEW typ \in IndexTypes, NEW n \in ColumnNames,
               CreateIndexStatement(i, typ, <<n>>)
        PROVE  IndexesInv'
    BY <2>5, CreateIndexStep
  <2>6. ASSUME NEW i \in IndexNames, DropIndexStatement(i) PROVE IndexesInv'
    BY <2>6, DropIndexStep
  <2>7. ASSUME NEW i \in IndexNames, NEW to \in IndexNames, RenameIndexStatement(i, to)
        PROVE  IndexesInv'
    BY <2>7, RenameIndexStep
  <2>8. ASSUME NEW f \in FkNames, NEW n \in ColumnNames, NEW ref \in References,
               AddForeignKeyStatement(f, n, ref)
        PROVE  IndexesInv'
    BY <1>1, <2>8, AddForeignKeyStep
  <2>9. ASSUME NEW f \in FkNames, DropForeignKeyStatement(f) PROVE IndexesInv'
    BY <1>1, <2>9, DropForeignKeyStep
  <2>10. ASSUME NEW f \in FkNames, DropConstraintStatement(f) PROVE IndexesInv'
    BY <1>1, <2>10, DropConstraintStep
  <2> QED BY <1>3, <2>1, <2>2, <2>3, <2>4, <2>5, <2>6, <2>7, <2>8, <2>9, <2>10 DEF Next
<1> QED BY <1>2, <1>3

----------------------------------------------------------------------------
\* The column names that the parser believes in are exactly those of the
\* database after every history of statements in which the name of a dropped
\* column comes back at the default position only (AddColumn, removeColumn and
\* RenameColumn of element/table.go).
THEOREM ColumnsInvariant == ASSUME Reuse # "any" PROVE Spec => []ColumnsInv
<1>1. Init => ColumnsInv BY InitInv
<1>2. ColumnsInv /\ [Next]_vars => ColumnsInv' BY ColumnsInvStep
<1> QED BY <1>1, <1>2, PTL DEF Spec

\* The names of the columns the parser believes in are those of the database.
THEOREM NamesAgree ==
  ASSUME Reuse # "any" PROVE Spec => [](LiveNames(table.cols) = ColumnNamesOf(db))
<1>1. ColumnsInv => LiveNames(table.cols) = ColumnNamesOf(db) BY DEF ColumnsInv
<1> QED BY <1>1, ColumnsInvariant, PTL

\* The name map of the columns stays in step with the slice that swapOrder
\* rearranges: columnIndexes finds every live column where it is.
THEOREM ColumnsFound == ASSUME Reuse # "any" PROVE Spec => []ColumnsCoherent
<1>1. ColumnsInv => ColumnsCoherent BY DEF ColumnsInv, ColumnsCoherent, Sound
<1> QED BY <1>1, ColumnsInvariant, PTL

\* Reading a statement ends the program only when it is a DROP FOREIGN KEY (Enter of
\* sqlparser/mysql.go): swapOrder and the lookups by position stay within the slice of
\* columns, whatever capacity the Go run time gave it.
THEOREM ReadingPanicsOnKeyDrops == ASSUME Reuse # "any" PROVE Spec => OnlyKeyDropsPanic
<1>1. ColumnsInv /\ [Next]_vars =>
        [~table.panic /\ table'.panic => \E f \in FkNames : DropForeignKeyStatement(f)]_vars
  BY ColumnsInvStep DEF MayPanic
<1> QED BY <1>1, ColumnsInvariant, PTL DEF Spec, OnlyKeyDropsPanic

\* The name map of the foreign keys stays in step with their slice.
THEOREM ForeignKeysFound == ASSUME Reuse # "any" PROVE Spec => []ForeignKeysCoherent
<1>1. ColumnsInv => ForeignKeysCoherent BY DEF ColumnsInv, ForeignKeysCoherent, Sound
<1> QED BY <1>1, ColumnsInvariant, PTL

\* The name map of the indexes stays in step with their slice, as long as no column
\* is dropped that an index mentions: the parser would keep the index.
THEOREM IndexesFound ==
  ASSUME Reuse # "any", ~Cascades PROVE Spec => []IndexesCoherent
<1>1. Init => ColumnsInv /\ IndexesInv BY InitInv
<1>2. ColumnsInv /\ IndexesInv /\ [Next]_vars => ColumnsInv' /\ IndexesInv'
  BY ColumnsInvStep, IndexesInvStep
<1>3. IndexesInv => IndexesCoherent BY DEF IndexesInv, IndexesCoherent, Sound
<1> QED BY <1>1, <1>2, <1>3, PTL DEF Spec

LEMMA HereTyped ==
  ASSUME here \in BOOLEAN, [Next]_vars
  PROVE  here' \in BOOLEAN
<1>1. ASSUME NEW stm, Statement(stm) PROVE here' \in BOOLEAN
  BY <1>1 DEF Statement, StaysHere
<1>2. CASE Next
  BY <1>1, <1>2 DEF Next, AddColumnStatement, DropColumnStatement, RenameColumnStatement,
     ModifyColumnStatement, CreateIndexStatement, DropIndexStatement, RenameIndexStatement,
     AddForeignKeyStatement, DropForeignKeyStatement, DropConstraintStatement
<1> QED BY <1>2 DEF vars

\* The type invariant of the parser's table: nodes of the right kind in every list,
\* and no column position left pending between two statements.
THEOREM TypeCorrect == ASSUME Reuse # "any", ~Cascades PROVE Spec => []TypeOK
<1>1. Init => ColumnsInv /\ IndexesInv BY InitInv
<1>2. ColumnsInv /\ IndexesInv /\ [Next]_vars => ColumnsInv' /\ IndexesInv'
  BY ColumnsInvStep, IndexesInvStep
<1>3. Init => here \in BOOLEAN BY DEF Init, Create
<1>4. here \in BOOLEAN /\ [Next]_vars => (here \in BOOLEAN)' BY HereTyped
<1>5. ASSUME ColumnsInv, IndexesInv, here \in BOOLEAN PROVE TypeOK
  <2>1. ColumnNamesOf(db) \subseteq used
    BY <1>5 DEF ColumnsInv, Sound, Reachable, LiveNames
  <2>2. table.panic \in BOOLEAN BY <1>5 DEF ColumnsInv
  <2> QED BY <1>5, <2>1, <2>2 DEF ColumnsInv, IndexesInv, Sound, TypeOK
<1> QED BY <1>1, <1>2, <1>3, <1>4, <1>5, PTL DEF Spec

=============================================================================
