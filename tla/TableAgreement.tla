--------------------------- MODULE TableAgreement ---------------------------
(***************************************************************************)
(* More theorems of Table.tla: the parser does not only know the names of  *)
(* the database's columns, indexes and foreign keys (TableProofs.tla), it  *)
(* knows their definitions and the order of the columns, and is itself a   *)
(* database table (DbTable.tla) under the mapping View.                    *)
(***************************************************************************)
EXTENDS TableProofs, FiniteSetTheorems

----------------------------------------------------------------------------
(* LiveItems by its recursion over the slice.                               *)
LiveUpTo(l, n) == Living!Iterate(l, <<>>, n)

LivePlaces(l) == {i \in 1 .. Len(l.items) : IsLive(l.items[i].action)}

\* The equation of LiveItems.
LEMMA LiveItemsStep ==
  ASSUME NEW l
  PROVE  /\ LiveItems(l) = LiveUpTo(l, Len(l.items))
         /\ LiveUpTo(l, 0) = <<>>
         /\ \A n \in Nat : LiveUpTo(l, n + 1) = NextLive(l, LiveUpTo(l, n), n + 1)
<1>1. LiveItems(l) = LiveUpTo(l, Len(l.items))
  BY DEF LiveItems, LiveUpTo, Living!Iterate, NextLive
<1> QED BY <1>1, Living!IterateStep DEF LiveUpTo

\* s holds the live nodes of the first n places.
HoldsLive(Items, l, s, n) ==
  /\ s \in Seq(Items)
  /\ {s[k] : k \in 1 .. Len(s)} = {l.items[i] : i \in {j \in LivePlaces(l) : j <= n}}

\* LiveItems has the live nodes and no others.
LEMMA LiveItemsAre ==
  ASSUME NEW Items, NEW l, l.items \in Seq(Items)
  PROVE  HoldsLive(Items, l, LiveItems(l), Len(l.items))
<1> DEFINE upTo(n) == LiveUpTo(l, n)
           Has(s, n) == HoldsLive(Items, l, s, n)
           T == {n \in Nat : n <= Len(l.items) => Has(upTo(n), n)}
<1>1. 0 \in T
  <2>1. upTo(0) = <<>> BY LiveItemsStep
  <2>2. {j \in LivePlaces(l) : j <= 0} = {} BY DEF LivePlaces
  <2>3. HoldsLive(Items, l, <<>>, 0) BY <2>2 DEF HoldsLive
  <2> QED BY <2>1, <2>3
<1>2. ASSUME NEW n \in Nat, n \in T PROVE n + 1 \in T
  <2> SUFFICES ASSUME n + 1 <= Len(l.items) PROVE Has(upTo(n + 1), n + 1) OBVIOUS
  <2>1. upTo(n + 1) = NextLive(l, upTo(n), n + 1) BY LiveItemsStep
  <2>2. Has(upTo(n), n) BY <1>2
  <2>3. n + 1 \in 1 .. Len(l.items) /\ l.items[n + 1] \in Items OBVIOUS
  <2> HIDE DEF upTo
  <2> DEFINE s == upTo(n)
  <2>4. CASE IsLive(l.items[n + 1].action)
    <3> DEFINE r == Append(s, l.items[n + 1])
    <3>1. /\ r \in Seq(Items) /\ Len(s) \in Nat /\ Len(r) = Len(s) + 1 /\ r[Len(s) + 1] = l.items[n + 1]
          /\ \A k \in 1 .. Len(s) : r[k] = s[k]
      BY <2>2, <2>3 DEF HoldsLive
    <3>2. upTo(n + 1) = r BY <2>1, <2>4 DEF NextLive
    <3> HIDE DEF r
    <3>3. {r[k] : k \in 1 .. Len(r)} = {s[k] : k \in 1 .. Len(s)} \cup {l.items[n + 1]}
      BY <3>1
    <3>4. {j \in LivePlaces(l) : j <= n + 1} = {j \in LivePlaces(l) : j <= n} \cup {n + 1}
      BY <2>3, <2>4 DEF LivePlaces
    <3>5. {r[k] : k \in 1 .. Len(r)} = {l.items[i] : i \in {j \in LivePlaces(l) : j <= n + 1}}
      BY <2>2, <3>3, <3>4 DEF HoldsLive
    <3> QED BY <3>1, <3>2, <3>5 DEF HoldsLive
  <2>5. CASE ~IsLive(l.items[n + 1].action)
    <3>1. upTo(n + 1) = s BY <2>1, <2>5 DEF NextLive
    <3>2. {j \in LivePlaces(l) : j <= n + 1} = {j \in LivePlaces(l) : j <= n}
      BY <2>3, <2>5 DEF LivePlaces
    <3> QED BY <2>2, <3>1, <3>2 DEF HoldsLive
  <2> QED BY <2>4, <2>5
<1> HIDE DEF T
<1>3. \A n \in Nat : n \in T BY <1>1, <1>2, Living!EveryNatural
<1>4. Len(l.items) \in Nat OBVIOUS
<1>5. Has(upTo(Len(l.items)), Len(l.items)) BY <1>3, <1>4 DEF T
<1>6. upTo(Len(l.items)) = LiveItems(l) BY LiveItemsStep
<1> QED BY <1>5, <1>6

\* s is the beginning of the numbering p of the live nodes, up to place n.
Numbers(Items, l, m, p, s, n) ==
  /\ s \in Seq(Items) /\ Len(s) <= m
  /\ \A i \in LivePlaces(l) : IF i <= n THEN p[i] \in 1 .. Len(s) /\ s[p[i]] = l.items[i]
                                       ELSE p[i] > Len(s)

\* p numbers the live nodes from 1 to m, going up with the slice.
Numbering(l, m, p) ==
  /\ p \in [LivePlaces(l) -> 1 .. m]
  /\ \A i, j \in LivePlaces(l) : i < j => p[i] < p[j]
  /\ \A k \in 1 .. m : \E i \in LivePlaces(l) : p[i] = k

\* s has the m live nodes at their numbers.
IsNumbered(l, m, p, s) ==
  /\ Len(s) = m
  /\ \A i \in LivePlaces(l) : s[p[i]] = l.items[i]

\* A way to number the live nodes that goes up with the slice is their order in
\* LiveItems.
LEMMA LiveItemsInOrder ==
  ASSUME NEW Items, NEW l, l.items \in Seq(Items), NEW m \in Nat, NEW p, Numbering(l, m, p)
  PROVE  IsNumbered(l, m, p, LiveItems(l))
<1> DEFINE upTo(n) == LiveUpTo(l, n)
           Has(s, n) == Numbers(Items, l, m, p, s, n)
           T == {n \in Nat : n <= Len(l.items) => Has(upTo(n), n)}
<1> USE DEF Numbering
<1>0. LivePlaces(l) \subseteq Nat \ {0} /\ \A i \in LivePlaces(l) : p[i] \in 1 .. m
  <2>1. LivePlaces(l) \subseteq Nat \ {0} BY DEF LivePlaces
  <2> QED BY <2>1
<1>1. 0 \in T
  <2>1. upTo(0) = <<>> BY LiveItemsStep
  <2>2. \A i \in LivePlaces(l) : ~(i <= 0) /\ p[i] > 0 BY <1>0
  <2>3. Numbers(Items, l, m, p, <<>>, 0) BY <2>2 DEF Numbers
  <2> QED BY <2>1, <2>3
<1>2. ASSUME NEW n \in Nat, n \in T PROVE n + 1 \in T
  <2> SUFFICES ASSUME n + 1 <= Len(l.items) PROVE Has(upTo(n + 1), n + 1) OBVIOUS
  <2>1. upTo(n + 1) = NextLive(l, upTo(n), n + 1) BY LiveItemsStep
  <2>2. Has(upTo(n), n) BY <1>2
  <2>3. n + 1 \in 1 .. Len(l.items) /\ l.items[n + 1] \in Items OBVIOUS
  <2> HIDE DEF upTo
  <2> DEFINE s == upTo(n)
  <2>4. CASE IsLive(l.items[n + 1].action)
    <3> DEFINE r == Append(s, l.items[n + 1])
    <3>1. /\ r \in Seq(Items) /\ Len(s) \in Nat /\ Len(r) = Len(s) + 1
          /\ r[Len(s) + 1] = l.items[n + 1]
          /\ \A k \in 1 .. Len(s) : r[k] = s[k]
      BY <2>2, <2>3 DEF Numbers
    <3>2. upTo(n + 1) = r BY <2>1, <2>4 DEF NextLive
    <3> HIDE DEF r
    <3>3. n + 1 \in LivePlaces(l) BY <2>3, <2>4 DEF LivePlaces
    <3>4. p[n + 1] \in 1 .. m /\ p[n + 1] > Len(s) BY <2>2, <3>3, <1>0 DEF Numbers
    <3> HIDE DEF s
    <3>5. PICK i \in LivePlaces(l) : p[i] = Len(s) + 1
      <4>1. Len(s) + 1 \in 1 .. m BY <3>1, <3>4
      <4> QED BY <4>1
    <3>6. i = n + 1
      <4>1. ~(i <= n) BY <2>2, <3>5, <3>1 DEF s, Numbers
      <4>2. ~(i > n + 1) BY <3>3, <3>4, <3>5, <3>1, <1>0
      <4> QED BY <4>1, <4>2, <1>0
    <3>7. Len(r) <= m BY <3>1, <3>4
    <3>8. ASSUME NEW j \in LivePlaces(l)
          PROVE  IF j <= n + 1 THEN p[j] \in 1 .. Len(r) /\ r[p[j]] = l.items[j]
                               ELSE p[j] > Len(r)
      <4>1. CASE j <= n
        <5>1. p[j] \in 1 .. Len(s) /\ s[p[j]] = l.items[j] BY <2>2, <4>1 DEF s, Numbers
        <5> QED BY <4>1, <5>1, <3>1, <1>0
      <4>2. CASE j = n + 1 BY <4>2, <3>5, <3>6, <3>1
      <4>3. CASE j > n + 1 BY <4>3, <3>3, <3>5, <3>6, <3>1, <1>0
      <4> QED BY <4>1, <4>2, <4>3, <1>0
    <3> QED BY <3>1, <3>2, <3>7, <3>8 DEF Numbers
  <2>5. CASE ~IsLive(l.items[n + 1].action)
    <3>1. upTo(n + 1) = s BY <2>1, <2>5 DEF NextLive
    <3>2. \A i \in LivePlaces(l) : i <= n + 1 <=> i <= n
      BY <2>3, <2>5 DEF LivePlaces
    <3> QED BY <2>2, <3>1, <3>2 DEF Numbers
  <2> QED BY <2>4, <2>5
<1> HIDE DEF T
<1>3. \A n \in Nat : n \in T BY <1>1, <1>2, Living!EveryNatural
<1>4. Len(l.items) \in Nat OBVIOUS
<1> DEFINE all == upTo(Len(l.items))
<1>5. Has(all, Len(l.items)) BY <1>3, <1>4 DEF T
<1>6. all = LiveItems(l) BY LiveItemsStep
<1> HIDE DEF all
<1>7. \A i \in LivePlaces(l) : i <= Len(l.items) BY DEF LivePlaces
<1>8. \A i \in LivePlaces(l) : p[i] \in 1 .. Len(all) /\ all[p[i]] = l.items[i]
  BY <1>5, <1>7 DEF Numbers
<1>9. Len(all) = m
  <2>1. Len(all) \in Nat /\ Len(all) <= m BY <1>5 DEF Numbers
  <2>2. ASSUME Len(all) < m PROVE FALSE
    <3>1. m \in 1 .. m BY <2>1, <2>2
    <3>2. PICK i \in LivePlaces(l) : p[i] = m BY <3>1
    <3> QED BY <3>2, <1>8, <2>1, <2>2
  <2> QED BY <2>1, <2>2
<1> QED BY <1>6, <1>8, <1>9 DEF IsNumbered

----------------------------------------------------------------------------
(* The nodes of a list by name, and what its operations leave of them.      *)
Node(l, n) == l.items[l.id[n]]

\* The live nodes are those that their names point to.
LEMMA LiveByName ==
  ASSUME NEW Items, NEW Names, NEW l, Sound(l, Items, Names)
  PROVE  /\ LiveNames(l) = {n \in DOMAIN l.id : IsLive(Node(l, n).action)}
         /\ \A n \in LiveNames(l) : /\ n \in DOMAIN l.id /\ l.id[n] \in LivePlaces(l)
                                    /\ Node(l, n) \in Items /\ Node(l, n).name = n
         /\ \A i \in LivePlaces(l) : /\ l.items[i].name \in LiveNames(l)
                                     /\ l.id[l.items[i].name] = i
<1>1. \A n \in DOMAIN l.id : l.id[n] \in 1 .. Len(l.items) /\ l.items[l.id[n]].name = n
  BY DEF Sound, Coherent
<1>2. \A i \in LivePlaces(l) : l.items[i].name \in DOMAIN l.id /\ l.id[l.items[i].name] = i
  BY DEF Sound, Reachable, LivePlaces
<1>3. LiveNames(l) = {l.items[i].name : i \in LivePlaces(l)} BY DEF LiveNames, LivePlaces
<1>4. l.items \in Seq(Items) BY DEF Sound, IsList
<1>5. \A n \in DOMAIN l.id : IsLive(Node(l, n).action) <=> l.id[n] \in LivePlaces(l)
  BY <1>1 DEF LivePlaces, Node
<1>6. \A n \in DOMAIN l.id : Node(l, n) \in Items /\ Node(l, n).name = n
  BY <1>1, <1>4 DEF Node
<1>7. \A n \in LiveNames(l) : n \in DOMAIN l.id /\ l.id[n] \in LivePlaces(l)
  BY <1>2, <1>3
<1>8. \A n \in DOMAIN l.id : l.id[n] \in LivePlaces(l) => n \in LiveNames(l)
  BY <1>1, <1>3
<1> QED BY <1>2, <1>3, <1>5, <1>6, <1>7, <1>8

\* Putting a node changes no other.
LEMMA PutNodes ==
  ASSUME NEW Items, NEW Names, NEW l, Sound(l, Items, Names), NEW item \in Items
  PROVE  LET r == PutItem(l, item)
         IN  /\ DOMAIN r.id = DOMAIN l.id \cup {item.name}
             /\ Node(r, item.name) = item
             /\ \A n \in DOMAIN l.id \ {item.name} : Node(r, n) = Node(l, n)
             /\ \A n \in DOMAIN l.id : r.id[n] = l.id[n]
<1> DEFINE r == PutItem(l, item)
<1>1. /\ l.items \in Seq(Items) /\ Len(l.items) \in Nat
      /\ \A n \in DOMAIN l.id : l.id[n] \in 1 .. Len(l.items) /\ l.items[l.id[n]].name = n
  BY DEF Sound, IsList, Coherent
<1>2. CASE item.name \in DOMAIN l.id
  <2>1. r = SetItem(l, l.id[item.name], item)
    <3>1. l.id[item.name] # 0 BY <1>1, <1>2
    <3> QED BY <3>1, <1>2 DEF PutItem, IdOf
  <2>2. r.id = l.id /\ r.items = [l.items EXCEPT ![l.id[item.name]] = item]
    BY <2>1 DEF SetItem
  <2> HIDE DEF r
  <2>3. Node(r, item.name) = item BY <1>1, <1>2, <2>2 DEF Node
  <2>4. \A n \in DOMAIN l.id \ {item.name} : l.id[n] # l.id[item.name] BY <1>1, <1>2
  <2>5. \A n \in DOMAIN l.id \ {item.name} : Node(r, n) = Node(l, n)
    BY <1>1, <2>2, <2>4 DEF Node
  <2> QED BY <1>2, <2>2, <2>3, <2>5 DEF r
<1>3. CASE item.name \notin DOMAIN l.id
  <2>1. r = AppendItem(l, item) BY <1>3 DEF PutItem, IdOf
  <2>2. /\ r.items = Append(l.items, item)
        /\ r.id = Point(l, item.name, Len(l.items) + 1)
    BY <2>1 DEF AppendItem
  <2> HIDE DEF r
  <2>3. /\ DOMAIN r.id = DOMAIN l.id \cup {item.name}
        /\ r.id[item.name] = Len(l.items) + 1
        /\ \A n \in DOMAIN l.id : r.id[n] = l.id[n]
    BY <1>3, <2>2 DEF Point
  <2>4. /\ r.items[Len(l.items) + 1] = item
        /\ \A i \in 1 .. Len(l.items) : r.items[i] = l.items[i]
    BY <1>1, <2>2
  <2>5. Node(r, item.name) = item BY <2>3, <2>4 DEF Node
  <2>6. \A n \in DOMAIN l.id : Node(r, n) = Node(l, n) BY <1>1, <2>3, <2>4 DEF Node
  <2> QED BY <2>3, <2>5, <2>6 DEF r
<1> QED BY <1>2, <1>3

\* Removing a name changes no other node.
LEMMA RemoveNodes ==
  ASSUME NEW Items, NEW Names, NEW l, Sound(l, Items, Names), NEW n \in LiveNames(l),
         NEW tombstone
  PROVE  LET r == RemoveItem(l, n, tombstone)
         IN  /\ r.id = l.id /\ Len(r.items) = Len(l.items)
             /\ \A m \in DOMAIN l.id \ {n} : Node(r, m) = Node(l, m)
<1> DEFINE r == RemoveItem(l, n, tombstone)
           gone == WithAction(l.items[l.id[n]], RemovedAction(l.items[l.id[n]].action))
<1>1. /\ l.items \in Seq(Items) /\ Len(l.items) \in Nat
      /\ \A m \in DOMAIN l.id : l.id[m] \in 1 .. Len(l.items) /\ l.items[l.id[m]].name = m
  BY DEF Sound, IsList, Coherent
<1>2. n \in DOMAIN l.id BY DEF Sound, Reachable, LiveNames
<1>3. r = SetItem(l, l.id[n], gone)
  <2>1. l.id[n] # 0 BY <1>1, <1>2
  <2> QED BY <2>1, <1>2 DEF RemoveItem, IdOf
<1> HIDE DEF gone
<1>4. r.id = l.id /\ r.items = [l.items EXCEPT ![l.id[n]] = gone] BY <1>3 DEF SetItem
<1> HIDE DEF r
<1>5. \A m \in DOMAIN l.id \ {n} : l.id[m] # l.id[n] BY <1>1, <1>2
<1>6. \A m \in DOMAIN l.id \ {n} : Node(r, m) = Node(l, m) BY <1>1, <1>4, <1>5 DEF Node
<1>7. Len(r.items) = Len(l.items) BY <1>1, <1>4
<1> QED BY <1>4, <1>6, <1>7 DEF r

\* Renaming a live name takes its node to the new name and changes no other.
LEMMA RenameNodes ==
  ASSUME NEW Items, NEW Names, NEW l, Sound(l, Items, Names), NEW old \in LiveNames(l),
         NEW new, new \notin LiveNames(l)
  PROVE  LET r == RenameItem(l, old, new, "rename")
         IN  /\ Len(r.items) = Len(l.items)
             /\ Node(r, new) = Renamed(Node(l, old), old, new, "rename")
             /\ new \in DOMAIN r.id /\ r.id[new] = l.id[old]
             /\ \A m \in DOMAIN l.id \ {old, new} : /\ m \in DOMAIN r.id
                                                    /\ r.id[m] = l.id[m]
                                                    /\ Node(r, m) = Node(l, m)
<1> DEFINE k == l.id[old]
           node == Renamed(l.items[k], old, new, "rename")
           r == RenameItem(l, old, new, "rename")
<1>1. /\ l.items \in Seq(Items) /\ Len(l.items) \in Nat
      /\ \A m \in DOMAIN l.id : l.id[m] \in 1 .. Len(l.items) /\ l.items[l.id[m]].name = m
  BY DEF Sound, IsList, Coherent
<1>2. old \in DOMAIN l.id BY DEF Sound, Reachable, LiveNames
<1>3. old # new OBVIOUS
<1>4. /\ r.items = [l.items EXCEPT ![k] = node]
      /\ r.id = [m \in DOMAIN Point(l, new, k) \ {old} |-> Point(l, new, k)[m]]
  <2>1. k # 0 BY <1>1, <1>2
  <2>2. IdOf(l, old) = k BY <1>2 DEF IdOf
  <2> HIDE DEF k
  <2> QED BY <2>1, <2>2 DEF RenameItem
<1> HIDE DEF node, r
<1>5. /\ new \in DOMAIN r.id /\ r.id[new] = k
      /\ \A m \in DOMAIN l.id \ {old, new} : m \in DOMAIN r.id /\ r.id[m] = l.id[m]
  BY <1>3, <1>4 DEF Point
<1>6. \A m \in DOMAIN l.id \ {old, new} : l.id[m] # k BY <1>1, <1>2
<1>7. Node(r, new) = node BY <1>1, <1>2, <1>4, <1>5 DEF Node
<1>8. ASSUME NEW m \in DOMAIN l.id \ {old, new} PROVE Node(r, m) = Node(l, m)
  <2>1. l.id[m] \in 1 .. Len(l.items) /\ l.id[m] # k BY <1>1, <1>6
  <2>2. r.items[l.id[m]] = l.items[l.id[m]] BY <1>1, <1>4, <2>1
  <2> QED BY <1>5, <2>2 DEF Node
<1>9. Len(r.items) = Len(l.items) BY <1>1, <1>4
<1> QED BY <1>5, <1>7, <1>8, <1>9 DEF r, node, Node

----------------------------------------------------------------------------
(* The definitions of indexes and foreign keys that the parser holds.       *)
IdxDef(item) == [typ |-> item.typ, columns |-> item.columns]
FkDef(item)  == [column |-> item.column, ref |-> item.ref]

IdxDefs(l) == [n \in LiveNames(l) |-> IdxDef(Node(l, n))]
FkDefs(l)  == [n \in LiveNames(l) |-> FkDef(Node(l, n))]

\* They are what View shows.
LEMMA ViewKeys ==
  ASSUME NEW t
  PROVE  /\ Sound(t.idxs, IndexItems, IndexNames) => View(t).idxs = IdxDefs(t.idxs)
         /\ Sound(t.fks, FkItems, FkNames) => View(t).fks = FkDefs(t.fks)
<1>1. ASSUME Sound(t.idxs, IndexItems, IndexNames) PROVE View(t).idxs = IdxDefs(t.idxs)
  <2>1. LiveNames(t.idxs) = {n \in DOMAIN t.idxs.id : IsLive(t.idxs.items[t.idxs.id[n]].action)}
    BY <1>1, LiveByName DEF Node
  <2> QED BY <2>1 DEF View, IdxDefs, IdxDef, Node
<1>2. ASSUME Sound(t.fks, FkItems, FkNames) PROVE View(t).fks = FkDefs(t.fks)
  <2>1. LiveNames(t.fks) = {n \in DOMAIN t.fks.id : IsLive(t.fks.items[t.fks.id[n]].action)}
    BY <1>2, LiveByName DEF Node
  <2> QED BY <2>1 DEF View, FkDefs, FkDef, Node
<1> QED BY <1>1, <1>2

\* Putting, removing and renaming nodes does to the definitions what the database
\* does to them.
LEMMA PutDefs ==
  /\ \A l, item : Sound(l, IndexItems, IndexNames) /\ item \in IndexItems /\ IsLive(item.action)
       => IdxDefs(PutItem(l, item)) = With(IdxDefs(l), item.name, IdxDef(item))
  /\ \A l, item : Sound(l, FkItems, FkNames) /\ item \in FkItems /\ IsLive(item.action)
       => FkDefs(PutItem(l, item)) = With(FkDefs(l), item.name, FkDef(item))
<1>1. ASSUME NEW l, NEW item, Sound(l, IndexItems, IndexNames), item \in IndexItems,
             IsLive(item.action)
      PROVE  IdxDefs(PutItem(l, item)) = With(IdxDefs(l), item.name, IdxDef(item))
  <2> DEFINE r == PutItem(l, item)
  <2>1. LiveNames(r) = LiveNames(l) \cup {item.name}
    <3>1. item.name \in IndexNames BY <1>1 DEF IndexItems
    <3> QED BY <1>1, <3>1, PutItemSound
  <2>2. /\ Node(r, item.name) = item
        /\ \A n \in DOMAIN l.id \ {item.name} : Node(r, n) = Node(l, n)
    BY <1>1, PutNodes
  <2>3. \A n \in LiveNames(l) : n \in DOMAIN l.id BY <1>1, LiveByName
  <2> HIDE DEF r
  <2>4. \A n \in LiveNames(r) : IdxDef(Node(r, n)) = IF n = item.name THEN IdxDef(item)
                                                     ELSE IdxDef(Node(l, n))
    BY <2>1, <2>2, <2>3
  <2>5. IdxDefs(r) = With(IdxDefs(l), item.name, IdxDef(item))
    BY <2>1, <2>4 DEF IdxDefs, With
  <2> QED BY <2>5 DEF r
<1>2. ASSUME NEW l, NEW item, Sound(l, FkItems, FkNames), item \in FkItems, IsLive(item.action)
      PROVE  FkDefs(PutItem(l, item)) = With(FkDefs(l), item.name, FkDef(item))
  <2> DEFINE r == PutItem(l, item)
  <2>1. LiveNames(r) = LiveNames(l) \cup {item.name}
    <3>1. item.name \in FkNames BY <1>2 DEF FkItems
    <3> QED BY <1>2, <3>1, PutItemSound
  <2>2. /\ Node(r, item.name) = item
        /\ \A n \in DOMAIN l.id \ {item.name} : Node(r, n) = Node(l, n)
    BY <1>2, PutNodes
  <2>3. \A n \in LiveNames(l) : n \in DOMAIN l.id BY <1>2, LiveByName
  <2> HIDE DEF r
  <2>4. \A n \in LiveNames(r) : FkDef(Node(r, n)) = IF n = item.name THEN FkDef(item)
                                                    ELSE FkDef(Node(l, n))
    BY <2>1, <2>2, <2>3
  <2>5. FkDefs(r) = With(FkDefs(l), item.name, FkDef(item))
    BY <2>1, <2>4 DEF FkDefs, With
  <2> QED BY <2>5 DEF r
<1> QED BY <1>1, <1>2

\* Removing a name removes its definition.
LEMMA RemoveDefs ==
  ASSUME NEW l, NEW n \in LiveNames(l), NEW tombstone
  PROVE  /\ Sound(l, IndexItems, IndexNames)
              => IdxDefs(RemoveItem(l, n, tombstone)) = Without(IdxDefs(l), {n})
         /\ Sound(l, FkItems, FkNames)
              => FkDefs(RemoveItem(l, n, tombstone)) = Without(FkDefs(l), {n})
<1> DEFINE r == RemoveItem(l, n, tombstone)
           Kept == /\ LiveNames(r) = LiveNames(l) \ {n}
                   /\ \A m \in LiveNames(r) : Node(r, m) = Node(l, m)
<1>1. ASSUME Sound(l, IndexItems, IndexNames) PROVE Kept
  BY <1>1, NodeSets, RemoveItemSound, RemoveNodes, LiveByName
<1>2. ASSUME Sound(l, FkItems, FkNames) PROVE Kept
  BY <1>2, NodeSets, RemoveItemSound, RemoveNodes, LiveByName
<1> HIDE DEF r
<1>3. ASSUME Kept PROVE /\ IdxDefs(r) = Without(IdxDefs(l), {n})
                        /\ FkDefs(r) = Without(FkDefs(l), {n})
  <2>1. IdxDefs(r) = Without(IdxDefs(l), {n}) BY <1>3 DEF IdxDefs, Without
  <2>2. FkDefs(r) = Without(FkDefs(l), {n}) BY <1>3 DEF FkDefs, Without
  <2> QED BY <2>1, <2>2
<1> QED BY <1>1, <1>2, <1>3 DEF r

\* Renaming takes the definition to the new name.
LEMMA RenameDefs ==
  ASSUME NEW l, Sound(l, IndexItems, IndexNames), NEW i \in LiveNames(l),
         NEW to \in IndexNames, to \notin LiveNames(l)
  PROVE  IdxDefs(RenameItem(l, i, to, "rename"))
           = Without(With(IdxDefs(l), to, IdxDefs(l)[i]), {i})
<1> DEFINE r == RenameItem(l, i, to, "rename")
<1>1. LiveNames(r) = (LiveNames(l) \ {i}) \cup {to} BY NodeSets, RenameItemSound
<1>2. /\ Node(r, to) = Renamed(Node(l, i), i, to, "rename")
      /\ \A m \in DOMAIN l.id \ {i, to} : Node(r, m) = Node(l, m)
  BY RenameNodes
<1>3. \A n \in LiveNames(l) : n \in DOMAIN l.id /\ Node(l, n) \in IndexItems BY LiveByName
<1> HIDE DEF r
<1>4. IdxDef(Node(r, to)) = IdxDef(Node(l, i))
  BY <1>2, <1>3 DEF IdxDef, Renamed, IndexItems
<1>5. i # to OBVIOUS
<1>6. \A n \in LiveNames(r) : IdxDef(Node(r, n)) = IF n = to THEN IdxDef(Node(l, i))
                                                   ELSE IdxDef(Node(l, n))
  BY <1>1, <1>2, <1>3, <1>4
<1>7. LiveNames(r) = (LiveNames(l) \cup {to}) \ {i} BY <1>1, <1>5
<1>8. IdxDefs(r) = Without(With(IdxDefs(l), to, IdxDefs(l)[i]), {i})
  BY <1>6, <1>7 DEF IdxDefs, Without, With
<1> QED BY <1>8 DEF r

----------------------------------------------------------------------------
(* The inductive invariant of the indexes and the foreign keys: the parser   *)
(* holds the definitions of the database.  Together with IndexesInv it needs *)
(* that no column is dropped or renamed under one of them.  Of the keys that *)
(* it still holds, some may be gone from the database.                       *)
KeysKnown == \A f \in DOMAIN db.fks : f \in LiveNames(table.fks) /\ db.fks[f] = FkDefs(table.fks)[f]

KeysInv == db.idxs = IdxDefs(table.idxs) /\ KeysKnown

\* As long as no key is dropped, none is.
AllKeysInv == db.fks = FkDefs(table.fks)

\* CREATE TABLE makes no indexes and no foreign keys.
LEMMA KeysInit == Init => KeysInv /\ AllKeysInv
<1> SUFFICES ASSUME NEW n \in ColumnNames, NEW type \in Types, NEW opts \in OptionLists,
                    Create(n, [type |-> type, opts |-> opts])
             PROVE  KeysInv /\ AllKeysInv
  BY DEF Init
<1>1. db.idxs = EmptyFunction /\ db.fks = EmptyFunction BY DEF Create, EmptyDbTable
<1>2. Create(n, [type |-> type, opts |-> opts]) => Init BY DEF Init
<1>3. ColumnsInv /\ IndexesInv BY <1>2, InitInv
<1>4. LiveNames(table.idxs) = {} BY <1>1, <1>3 DEF IndexesInv, EmptyFunction
<1>5. LiveNames(table.fks) = {}
  <2> DEFINE t == NewTable(Own)
             col == Column(n, "add", [type |-> type, opts |-> opts])
  <2>1. IsTable(t) /\ t.fks = EmptyList /\ t.cols = EmptyList /\ t.pos = NoPosition
    BY DEF NewTable, NewTableWithAction, IsTable
  <2>2. col \in ColumnItems /\ col.name = n /\ col.action = "add"
    BY AttrTyped, ColumnTyped, ZenonT(60)
  <2>3. table = AddColumn(t, col) BY DEF Create
  <2> HIDE DEF t, col
  <2>4. table.fks = t.fks
    <3>1. Sound(t.cols, ColumnItems, ColumnNames) /\ col.name \notin DOMAIN t.cols.id
      BY <2>1, EmptyListSound DEF EmptyList
    <3>2. IsLive(col.action) /\ t.pos.tp # "after" BY <2>1, <2>2 DEF IsLive, NoPosition
    <3> QED BY <2>1, <2>2, <2>3, <3>1, <3>2, AddNewColumn DEF OnlyColumns
  <2> QED BY <2>1, <2>4, EmptyListSound
<1> QED BY <1>1, <1>4, <1>5 DEF KeysInv, KeysKnown, AllKeysInv, IdxDefs, FkDefs, EmptyFunction

\* What a statement does to the foreign keys on both sides.
KeysMove ==
  \/ table'.fks = table.fks /\ (db'.fks = db.fks \/ db'.fks = Without(db.fks, {}))
  \/ \E fk \in FkItems :
       /\ IsLive(fk.action)
       /\ table'.fks = PutItem(table.fks, fk) /\ db'.fks = With(db.fks, fk.name, FkDef(fk))
  \/ \E f \in FkNames : /\ DropForeignKeyStatement(f) \/ DropConstraintStatement(f)
                        /\ table'.fks = table.fks /\ db'.fks = Without(db.fks, {f})

\* Every statement does one of these, and keeps the indexes.
LEMMA KeysMoveStep ==
  ASSUME ColumnsInv, IndexesInv, db.idxs = IdxDefs(table.idxs), [Next]_vars, Reuse # "any", ~Cascades
  PROVE  db'.idxs = IdxDefs(table'.idxs) /\ KeysMove
<1> DEFINE Goal == db'.idxs = IdxDefs(table'.idxs) /\ KeysMove
<1> SUFFICES Goal OBVIOUS
<1> HIDE DEF Goal
<1>1. ASSUME table'.idxs = table.idxs, db'.idxs = db.idxs,
             table'.fks = table.fks, db'.fks = db.fks
      PROVE  Goal
  BY <1>1 DEF Goal, KeysMove
<1>2. CASE UNCHANGED vars BY <1>1, <1>2 DEF vars
<1>3. CASE Next
  <2>1. ASSUME NEW n \in ColumnNames, NEW type \in Types, NEW opts \in OptionLists,
               NEW pos \in AddPositions, AddColumnStatement(n, type, opts, pos)
        PROVE  Goal
    BY <1>1, <2>1, AddColumnStep
  <2>2. ASSUME NEW n \in ColumnNames, DropColumnStatement(n) PROVE Goal
    <3>1. ~IsMentioned(db, n) BY <2>2 DEF DropColumnStatement
    <3>2. /\ table'.idxs = table.idxs /\ table'.fks = table.fks
          /\ db'.idxs = Without(db.idxs, {}) /\ db'.fks = Without(db.fks, {})
      BY <2>2, <3>1, NotMentioned, DropColumnStep
    <3>3. db'.idxs = db.idxs BY <3>2 DEF IdxDefs, Without
    <3> QED BY <3>2, <3>3 DEF Goal, KeysMove
  <2>3. ASSUME NEW n \in ColumnNames, NEW to \in ColumnNames, RenameColumnStatement(n, to)
        PROVE  Goal
    BY <1>1, <2>3, RenameColumnStep
  <2>4. ASSUME NEW n \in ColumnNames, NEW type \in Types, NEW opts \in OptionLists,
               ModifyColumnStatement(n, type, opts)
        PROVE  Goal
    BY <1>1, <2>4, ModifyColumnStep
  <2>5. ASSUME NEW i \in IndexNames, NEW typ \in IndexTypes, NEW n \in ColumnNames,
               CreateIndexStatement(i, typ, <<n>>)
        PROVE  Goal
    <3> DEFINE item == Index(i, "add", typ, <<n>>)
    <3>1. /\ table' = [table EXCEPT !.idxs = PutItem(table.idxs, item)]
          /\ db' = [db EXCEPT !.idxs = With(db.idxs, i, IdxDef(item))] /\ used' = used
      BY <2>5 DEF CreateIndexStatement, Statement, Exec, KeyDrops, ReadStatement, AddIndex, Index, IdxDef
    <3>2. item \in IndexItems /\ item.name = i /\ IsLive(item.action)
      BY DEF Index, IndexItems, Actions, IsLive
    <3> HIDE DEF item
    <3>3. /\ table'.idxs = PutItem(table.idxs, item) /\ table'.fks = table.fks
          /\ db'.idxs = With(db.idxs, i, IdxDef(item)) /\ db'.fks = db.fks
      BY <3>1, IndexStep
    <3> QED BY <3>2, <3>3, PutDefs DEF Goal, KeysMove, IndexesInv
  <2>6. ASSUME NEW i \in IndexNames, DropIndexStatement(i) PROVE Goal
    <3> DEFINE tombstone == Index(i, "remove", "none", <<>>)
    <3>1. /\ table' = [table EXCEPT !.idxs = RemoveItem(table.idxs, i, tombstone)]
          /\ db' = [db EXCEPT !.idxs = Without(db.idxs, {i})] /\ used' = used
          /\ i \in DOMAIN db.idxs
      BY <2>6 DEF DropIndexStatement, Statement, Legal, Exec, KeyDrops, ReadStatement, RemoveIndex
    <3> HIDE DEF tombstone
    <3>2. /\ table'.idxs = RemoveItem(table.idxs, i, tombstone) /\ table'.fks = table.fks
          /\ db'.idxs = Without(db.idxs, {i}) /\ db'.fks = db.fks
      BY <3>1, IndexStep
    <3>3. i \in LiveNames(table.idxs) /\ Sound(table.idxs, IndexItems, IndexNames)
      BY <3>1 DEF IndexesInv
    <3>4. IdxDefs(RemoveItem(table.idxs, i, tombstone)) = Without(IdxDefs(table.idxs), {i})
      BY <3>3, RemoveDefs
    <3> QED BY <3>2, <3>4 DEF Goal, KeysMove
  <2>7. ASSUME NEW i \in IndexNames, NEW to \in IndexNames, RenameIndexStatement(i, to)
        PROVE  Goal
    <3>1. /\ table' = [table EXCEPT !.idxs = RenameItem(table.idxs, i, to, "rename")]
          /\ db' = [db EXCEPT !.idxs = Without(With(db.idxs, to, db.idxs[i]), {i})]
          /\ used' = used /\ i \in DOMAIN db.idxs /\ to \notin DOMAIN db.idxs
      BY <2>7 DEF RenameIndexStatement, Statement, Legal, Exec, KeyDrops, ReadStatement, RenameIndex
    <3>2. /\ table'.idxs = RenameItem(table.idxs, i, to, "rename") /\ table'.fks = table.fks
          /\ db'.idxs = Without(With(db.idxs, to, db.idxs[i]), {i}) /\ db'.fks = db.fks
      BY <3>1, IndexStep
    <3>3. Sound(table.idxs, IndexItems, IndexNames) /\ i \in LiveNames(table.idxs)
          /\ LiveNames(table.idxs) = DOMAIN db.idxs /\ IdxDefs(table.idxs) = db.idxs
      BY <3>1 DEF IndexesInv
    <3>4. IdxDefs(RenameItem(table.idxs, i, to, "rename"))
            = Without(With(IdxDefs(table.idxs), to, IdxDefs(table.idxs)[i]), {i})
      BY <3>1, <3>3, RenameDefs
    <3> QED BY <3>2, <3>3, <3>4 DEF Goal, KeysMove
  <2>8. ASSUME NEW f \in FkNames, NEW n \in ColumnNames, NEW ref \in References,
               AddForeignKeyStatement(f, n, ref)
        PROVE  Goal
    <3> DEFINE fk == ForeignKey(f, "add", n, ref)
    <3>1. /\ table' = AddForeignKey(table, fk)
          /\ db' = [db EXCEPT !.fks = With(db.fks, f, FkDef(fk))]
      BY <2>8 DEF AddForeignKeyStatement, Statement, Exec, KeyDrops, ReadStatement, ForeignKey, FkDef
    <3>2. fk \in FkItems /\ fk.name = f /\ IsLive(fk.action)
      BY DEF ForeignKey, FkItems, Actions, IsLive
    <3> HIDE DEF fk
    <3>3. table'.fks = PutItem(table.fks, fk) BY <3>1 DEF AddForeignKey, ColumnsInv, IsTable
    <3>4. db'.fks = With(db.fks, f, FkDef(fk)) BY <3>1 DEF ColumnsInv, IsDb
    <3>5. table'.idxs = table.idxs /\ db'.idxs = db.idxs BY <2>8, AddForeignKeyStep
    <3> QED BY <3>2, <3>3, <3>4, <3>5 DEF Goal, KeysMove
  <2>9. ASSUME NEW f \in FkNames, DropForeignKeyStatement(f) PROVE Goal
    BY <2>9, DropForeignKeyStep DEF Goal, KeysMove
  <2>10. ASSUME NEW f \in FkNames, DropConstraintStatement(f) PROVE Goal
    BY <2>10, DropConstraintStep DEF Goal, KeysMove
  <2> QED BY <1>3, <2>1, <2>2, <2>3, <2>4, <2>5, <2>6, <2>7, <2>8, <2>9, <2>10 DEF Next
<1> QED BY <1>2, <1>3

\* Every statement preserves the invariant.
LEMMA KeysInvStep ==
  ASSUME ColumnsInv, IndexesInv, KeysInv, [Next]_vars, Reuse # "any", ~Cascades
  PROVE  KeysInv'
<1>1. db'.idxs = IdxDefs(table'.idxs) /\ KeysMove BY KeysMoveStep DEF KeysInv
<1> DEFINE Known(d, l) == \A f \in DOMAIN d : f \in LiveNames(l) /\ d[f] = FkDefs(l)[f]
<1>2. Known(db.fks, table.fks) BY DEF KeysInv, KeysKnown
<1>3. ASSUME NEW F, table'.fks = table.fks, db'.fks = Without(db.fks, F)
      PROVE  Known(db'.fks, table'.fks)
  BY <1>2, <1>3 DEF Without
<1>4. ASSUME NEW fk \in FkItems, IsLive(fk.action), table'.fks = PutItem(table.fks, fk),
             db'.fks = With(db.fks, fk.name, FkDef(fk))
      PROVE  Known(db'.fks, table'.fks)
  <2>1. /\ LiveNames(table'.fks) = LiveNames(table.fks) \cup {fk.name}
        /\ FkDefs(table'.fks) = With(FkDefs(table.fks), fk.name, FkDef(fk))
    <3>1. Sound(table.fks, FkItems, FkNames) /\ fk.name \in FkNames BY DEF ColumnsInv, FkItems
    <3>2. LiveNames(PutItem(table.fks, fk)) = LiveNames(table.fks) \cup {fk.name}
      BY <1>4, <3>1, PutItemSound
    <3> QED BY <1>4, <3>1, <3>2, PutDefs
  <2>2. DOMAIN FkDefs(table.fks) = LiveNames(table.fks) BY DEF FkDefs
  <2> QED BY <1>2, <1>4, <2>1, <2>2 DEF With
<1>5. Known(db'.fks, table'.fks) BY <1>1, <1>2, <1>3, <1>4 DEF KeysMove
<1> QED BY <1>1, <1>5 DEF KeysInv, KeysKnown

\* Every statement that drops no key preserves the one of all keys.
LEMMA AllKeysStep ==
  ASSUME ColumnsInv, IndexesInv, KeysInv, AllKeysInv, [Next]_vars, Reuse # "any", ~Cascades,
         Operations \subseteq OperationsRead
  PROVE  AllKeysInv'
<1>1. KeysMove BY KeysMoveStep DEF KeysInv
<1>2. \A f \in FkNames : ~DropForeignKeyStatement(f) /\ ~DropConstraintStatement(f)
  BY DEF DropForeignKeyStatement, DropConstraintStatement, Statement, OperationsRead, KeyDrops
<1>3. Without(db.fks, {}) = db.fks BY DEF AllKeysInv, FkDefs, Without
<1>4. ASSUME NEW fk \in FkItems, IsLive(fk.action), table'.fks = PutItem(table.fks, fk),
             db'.fks = With(db.fks, fk.name, FkDef(fk))
      PROVE  AllKeysInv'
  BY <1>4, PutDefs DEF AllKeysInv, ColumnsInv
<1> QED BY <1>1, <1>2, <1>3, <1>4 DEF KeysMove, AllKeysInv

\* The three invariants together, under the conditions that the last one needs.
LEMMA KeysInvariant ==
  ASSUME Reuse # "any", ~Cascades PROVE Spec => [](ColumnsInv /\ IndexesInv /\ KeysInv)
<1>1. Init => ColumnsInv /\ IndexesInv /\ KeysInv BY InitInv, KeysInit
<1>2. ColumnsInv /\ IndexesInv /\ KeysInv /\ [Next]_vars => ColumnsInv' /\ IndexesInv' /\ KeysInv'
  BY ColumnsInvStep, IndexesInvStep, KeysInvStep
<1> QED BY <1>1, <1>2, PTL DEF Spec

\* The indexes the parser believes in are those of the database with their kinds
\* and columns (AddIndex, RemoveIndex and RenameIndex of element/table.go).
THEOREM IndexesAreThose == ASSUME Reuse # "any", ~Cascades PROVE Spec => []IndexesAgree
<1>1. IndexesInv /\ KeysInv => IndexesAgree
  BY ViewKeys DEF IndexesInv, KeysInv, IndexesAgree
<1> QED BY <1>1, KeysInvariant, PTL

\* Of the database's foreign keys the parser knows every one, with the column it is on
\* and what it refers to (AddForeignKey), also when it was dropped before by a statement
\* that the parser does not read, and added again otherwise.
THEOREM ForeignKeysAreKnown ==
  ASSUME Reuse # "any", ~Cascades PROVE Spec => []ForeignKeysKnown
<1>1. ColumnsInv /\ KeysInv => ForeignKeysKnown
  <2> SUFFICES ASSUME ColumnsInv, KeysInv PROVE ForeignKeysKnown OBVIOUS
  <2>1. View(table).fks = FkDefs(table.fks) BY ViewKeys DEF ColumnsInv
  <2>2. DOMAIN FkDefs(table.fks) = LiveNames(table.fks) BY DEF FkDefs
  <2> QED BY <2>1, <2>2 DEF KeysInv, KeysKnown, ForeignKeysKnown
<1> QED BY <1>1, KeysInvariant, PTL

----------------------------------------------------------------------------
(* Where the database has its columns after each statement.                 *)
DbColumn(d, n) == d.cols[PlaceOf(d, n)]

\* Names are distinct: the place of a column is the place of its name.
LEMMA PlaceIs ==
  ASSUME NEW d, IsDb(d), NEW i \in 1 .. Len(d.cols)
  PROVE  PlaceOf(d, d.cols[i].name) = i
<1> DEFINE n == d.cols[i].name
<1>1. n \in ColumnNamesOf(d) BY DEF ColumnNamesOf
<1>2. PlaceOf(d, n) \in 1 .. Len(d.cols) /\ d.cols[PlaceOf(d, n)].name = n
  BY <1>1, PlaceOfName
<1> QED BY <1>2 DEF IsDb, DistinctNames

\* What is where after an insertion and after a deletion.
Inserted(r, s, at, new) ==
  /\ Len(r) = Len(s) + 1
  /\ \A i \in 1 .. Len(s) + 1 : r[i] = IF i < at THEN s[i]
                                       ELSE IF i = at THEN new ELSE s[i - 1]

LEMMA InsertedAt ==
  ASSUME NEW S, NEW s \in Seq(S), NEW new \in S, NEW at \in 1 .. Len(s) + 1
  PROVE  Inserted(SubSeq(s, 1, at - 1) \o <<new>> \o SubSeq(s, at, Len(s)), s, at, new)
<1> DEFINE head == SubSeq(s, 1, at - 1)
           front == head \o <<new>>
           rest == SubSeq(s, at, Len(s))
<1>1. Len(s) \in Nat OBVIOUS
<1>2. head \in Seq(S) /\ Len(head) = at - 1 /\ \A i \in 1 .. at - 1 : head[i] = s[i]
  BY <1>1, SubSeqProperties
<1>3. /\ rest \in Seq(S) /\ Len(rest) = Len(s) - at + 1
      /\ \A i \in 1 .. Len(s) - at + 1 : rest[i] = s[at + i - 1]
  BY <1>1
<1> HIDE DEF head, rest
<1>4. front = Append(head, new) BY <1>2
<1> HIDE DEF front
<1>5. /\ front \in Seq(S) /\ Len(front) = at /\ front[at] = new
      /\ \A i \in 1 .. at - 1 : front[i] = s[i]
  BY <1>1, <1>2, <1>4
<1> DEFINE r == front \o rest
<1>6. /\ Len(r) = at + Len(rest)
      /\ \A i \in 1 .. at + Len(rest) : r[i] = IF i <= at THEN front[i] ELSE rest[i - at]
  BY <1>3, <1>5, ConcatProperties
<1> HIDE DEF r
<1>7. ASSUME NEW i \in 1 .. Len(s) + 1
      PROVE  r[i] = IF i < at THEN s[i] ELSE IF i = at THEN new ELSE s[i - 1]
  <2>1. CASE i <= at BY <2>1, <1>1, <1>3, <1>5, <1>6
  <2>2. CASE i > at
    <3>1. i - at \in 1 .. Len(s) - at + 1 /\ at + (i - at) - 1 = i - 1 BY <2>2, <1>1
    <3>2. r[i] = rest[i - at] BY <2>2, <1>1, <1>3, <1>6
    <3> QED BY <2>2, <3>1, <3>2, <1>3
  <2> QED BY <2>1, <2>2, <1>1
<1>8. Len(r) = Len(s) + 1 BY <1>1, <1>3, <1>6
<1>9. r = head \o <<new>> \o rest BY DEF r, front
<1> HIDE DEF r
<1>10. Inserted(r, s, at, new) BY <1>7, <1>8 DEF Inserted
<1> QED BY <1>9, <1>10 DEF head, rest

LEMMA DeletedAt ==
  ASSUME NEW S, NEW s \in Seq(S), NEW at \in 1 .. Len(s)
  PROVE  LET r == SubSeq(s, 1, at - 1) \o SubSeq(s, at + 1, Len(s))
         IN  /\ Len(r) = Len(s) - 1
             /\ \A i \in 1 .. Len(s) - 1 : r[i] = IF i < at THEN s[i] ELSE s[i + 1]
<1> DEFINE head == SubSeq(s, 1, at - 1)
           rest == SubSeq(s, at + 1, Len(s))
           r == head \o rest
<1>1. Len(s) \in Nat OBVIOUS
<1>2. head \in Seq(S) /\ Len(head) = at - 1 /\ \A i \in 1 .. at - 1 : head[i] = s[i]
  BY <1>1, SubSeqProperties
<1>3. /\ rest \in Seq(S) /\ Len(rest) = Len(s) - at
      /\ \A i \in 1 .. Len(s) - at : rest[i] = s[at + i]
  BY <1>1, SubSeqProperties
<1> HIDE DEF head, rest
<1>4. /\ Len(r) = Len(head) + Len(rest)
      /\ \A i \in 1 .. Len(head) + Len(rest) :
           r[i] = IF i <= Len(head) THEN head[i] ELSE rest[i - Len(head)]
  BY <1>2, <1>3, ConcatProperties
<1> HIDE DEF r
<1>5. ASSUME NEW i \in 1 .. Len(s) - 1 PROVE r[i] = IF i < at THEN s[i] ELSE s[i + 1]
  <2>1. CASE i < at
    <3>1. i \in 1 .. at - 1 /\ i <= Len(head) /\ i \in 1 .. Len(head) + Len(rest)
      BY <2>1, <1>1, <1>2, <1>3
    <3>2. r[i] = head[i] BY <3>1, <1>4
    <3>3. head[i] = s[i] BY <3>1, <1>2
    <3> QED BY <2>1, <3>2, <3>3
  <2>2. CASE i >= at
    <3>1. i - (at - 1) \in 1 .. Len(s) - at /\ at + (i - (at - 1)) = i + 1 BY <2>2, <1>1
    <3>2. i - Len(head) = i - (at - 1) /\ ~(i <= Len(head)) /\ i \in 1 .. Len(head) + Len(rest)
      BY <2>2, <1>1, <1>2, <1>3
    <3>3. r[i] = rest[i - Len(head)] BY <3>2, <1>4
    <3>4. rest[i - (at - 1)] = s[at + (i - (at - 1))] BY <3>1, <1>3
    <3>5. r[i] = s[i + 1] BY <3>1, <3>2, <3>3, <3>4
    <3> QED BY <2>2, <3>5, <1>1
  <2> QED BY <2>1, <2>2, <1>1
<1>6. Len(r) = Len(s) - 1 BY <1>1, <1>2, <1>3, <1>4
<1>7. r = head \o rest BY DEF r
<1> QED BY <1>5, <1>6, <1>7 DEF head, rest

\* The place that position pos stands for in the database.
DbPlaceFor(d, pos) == CASE pos.tp = "first" -> 1
                        [] pos.tp = "after" -> PlaceOf(d, pos.rel) + 1
                        [] OTHER -> Len(d.cols) + 1

\* r is d with a column n put at place at.
ColumnPut(r, d, n, at) ==
  /\ PlaceOf(r, n) = at
  /\ \A m \in ColumnNamesOf(d) :
       /\ PlaceOf(r, m) = IF PlaceOf(d, m) < at THEN PlaceOf(d, m) ELSE PlaceOf(d, m) + 1
       /\ DbColumn(r, m) = DbColumn(d, m)

\* ADD COLUMN moves the columns from the new one's place on one further.
LEMMA AddColumnPlaces ==
  ASSUME NEW d, IsDb(d), NEW n \in ColumnNames, n \notin ColumnNamesOf(d),
         NEW type \in Types, NEW opts \in OptionLists, NEW pos \in AddPositions,
         pos.tp = "after" => pos.rel \in ColumnNamesOf(d),
         NEW after, after = Exec(d, [op |-> "addColumn", col |-> n, type |-> type,
                                     opts |-> opts, pos |-> pos])
  PROVE  /\ ColumnPut(after, d, n, DbPlaceFor(d, pos))
         /\ DbColumn(after, n) = [name |-> n, type |-> type,
                                  opts |-> {opts[i] : i \in DOMAIN opts}]
<1> DEFINE stm == [op |-> "addColumn", col |-> n, type |-> type, opts |-> opts, pos |-> pos]
           new == [name |-> n, type |-> type, opts |-> {opts[i] : i \in DOMAIN opts}]
           at == DbPlaceFor(d, pos)
           cols == SubSeq(d.cols, 1, at - 1) \o <<new>> \o SubSeq(d.cols, at, Len(d.cols))
           r == Exec(d, stm)
<1>1. d.cols \in Seq(DbColumns) /\ Len(d.cols) \in Nat BY DEF IsDb
<1>2. new \in DbColumns
  <2>1. {opts[i] : i \in DOMAIN opts} \in SUBSET Options BY OptionListTyped
  <2> QED BY <2>1 DEF DbColumns
<1>3. at \in 1 .. Len(d.cols) + 1
  <2>1. CASE pos.tp = "after"
    <3>1. PlaceOf(d, pos.rel) \in 1 .. Len(d.cols) BY <2>1, PlaceOfName
    <3> QED BY <2>1, <3>1, <1>1 DEF DbPlaceFor
  <2>2. CASE pos.tp # "after" BY <2>2, <1>1 DEF DbPlaceFor
  <2> QED BY <2>1, <2>2
<1>4. r = [d EXCEPT !.cols = cols] BY DEF Exec, KeyDrops, AddDbColumn, DbPlaceFor
<1>5. IsDb(r) BY AddColumnExec
<1>6. new.name = n OBVIOUS
<1> HIDE DEF at, new
<1>7. /\ Len(cols) = Len(d.cols) + 1
      /\ \A i \in 1 .. Len(d.cols) + 1 :
           cols[i] = IF i < at THEN d.cols[i] ELSE IF i = at THEN new ELSE d.cols[i - 1]
  <2>1. Inserted(cols, d.cols, at, new)
    <3>1. d.cols \in Seq(DbColumns) /\ at \in 1 .. Len(d.cols) + 1 BY <1>1, <1>3
    <3> QED BY <3>1, <1>2, InsertedAt
  <2> QED BY <2>1 DEF Inserted
<1> HIDE DEF cols
<1>8. r.cols = cols BY <1>4 DEF IsDb
<1> HIDE DEF r
<1>9. PlaceOf(r, n) = at /\ DbColumn(r, n) = new
  <2>1. at \in 1 .. Len(r.cols) /\ r.cols[at] = new BY <1>1, <1>3, <1>7, <1>8
  <2> QED BY <2>1, <1>5, <1>6, PlaceIs DEF DbColumn
<1>10. ASSUME NEW m \in ColumnNamesOf(d)
       PROVE  /\ PlaceOf(r, m) = IF PlaceOf(d, m) < at THEN PlaceOf(d, m) ELSE PlaceOf(d, m) + 1
              /\ DbColumn(r, m) = DbColumn(d, m)
  <2> DEFINE k == PlaceOf(d, m)
             to == IF k < at THEN k ELSE k + 1
  <2>1. k \in 1 .. Len(d.cols) /\ d.cols[k].name = m BY PlaceOfName
  <2> HIDE DEF k
  <2>2. to \in 1 .. Len(r.cols) /\ r.cols[to] = d.cols[k]
    <3>1. to \in 1 .. Len(d.cols) + 1 BY <2>1, <1>1, <1>3
    <3>2. cols[to] = d.cols[k]
      <4>1. CASE k < at BY <4>1, <3>1, <1>7
      <4>2. CASE k >= at
        <5>1. to = k + 1 /\ to > at /\ to - 1 = k BY <4>2, <2>1, <1>1, <1>3
        <5> HIDE DEF to
        <5> QED BY <5>1, <3>1, <1>3, <1>7
      <4> QED BY <4>1, <4>2, <2>1, <1>1, <1>3
    <3> QED BY <3>1, <3>2, <1>7, <1>8
  <2> HIDE DEF to
  <2>3. PlaceOf(r, m) = to BY <2>1, <2>2, <1>5, PlaceIs
  <2> QED BY <2>2, <2>3 DEF k, to, DbColumn
<1>11. r = after BY DEF r
<1>12. ColumnPut(r, d, n, DbPlaceFor(d, pos)) BY <1>9, <1>10 DEF at, ColumnPut
<1> QED BY <1>9, <1>11, <1>12 DEF new

\* DROP COLUMN moves the columns after the one that goes one back.
LEMMA DropColumnPlaces ==
  ASSUME NEW d, IsDb(d), NEW n \in ColumnNamesOf(d)
  PROVE  LET r == Exec(d, [op |-> "dropColumn", col |-> n])
         IN  \A m \in ColumnNamesOf(d) \ {n} :
               /\ PlaceOf(r, m) = IF PlaceOf(d, m) < PlaceOf(d, n) THEN PlaceOf(d, m)
                                  ELSE PlaceOf(d, m) - 1
               /\ PlaceOf(d, m) # PlaceOf(d, n)
               /\ DbColumn(r, m) = DbColumn(d, m)
<1> DEFINE at == PlaceOf(d, n)
           cols == SubSeq(d.cols, 1, at - 1) \o SubSeq(d.cols, at + 1, Len(d.cols))
           r == Exec(d, [op |-> "dropColumn", col |-> n])
<1>1. d.cols \in Seq(DbColumns) /\ Len(d.cols) \in Nat BY DEF IsDb
<1>2. at \in 1 .. Len(d.cols) /\ d.cols[at].name = n BY PlaceOfName
<1>3. r.cols = cols BY DEF Exec, KeyDrops, DropDbColumn
<1>4. IsDb(r) BY DropColumnExec
<1> HIDE DEF r, at
<1>5. /\ Len(cols) = Len(d.cols) - 1
      /\ \A i \in 1 .. Len(d.cols) - 1 : cols[i] = IF i < at THEN d.cols[i] ELSE d.cols[i + 1]
  BY <1>1, <1>2, DeletedAt
<1> HIDE DEF cols
<1>6. ASSUME NEW m \in ColumnNamesOf(d) \ {n}
      PROVE  /\ PlaceOf(r, m) = IF PlaceOf(d, m) < at THEN PlaceOf(d, m) ELSE PlaceOf(d, m) - 1
             /\ PlaceOf(d, m) # at
             /\ DbColumn(r, m) = DbColumn(d, m)
  <2> DEFINE k == PlaceOf(d, m)
             to == IF k < at THEN k ELSE k - 1
  <2>1. k \in 1 .. Len(d.cols) /\ d.cols[k].name = m BY PlaceOfName
  <2>2. k # at BY <2>1, <1>2
  <2> HIDE DEF k
  <2>3. to \in 1 .. Len(r.cols) /\ r.cols[to] = d.cols[k]
    <3>1. to \in 1 .. Len(d.cols) - 1 BY <2>1, <2>2, <1>1, <1>2
    <3>2. cols[to] = d.cols[k]
      <4>1. CASE k < at BY <4>1, <3>1, <1>5
      <4>2. CASE k > at
        <5>1. to = k - 1 /\ ~(to < at) /\ to + 1 = k BY <4>2, <2>1, <1>1, <1>2
        <5> HIDE DEF to
        <5> QED BY <5>1, <3>1, <1>5
      <4> QED BY <4>1, <4>2, <2>1, <2>2, <1>1, <1>2
    <3> QED BY <3>1, <3>2, <1>3, <1>5
  <2> HIDE DEF to
  <2>4. PlaceOf(r, m) = to BY <2>1, <2>3, <1>4, PlaceIs
  <2> QED BY <2>2, <2>3, <2>4 DEF k, to, DbColumn
<1> QED BY <1>6 DEF r, at

\* r is d with column new in the place of column n.
ColumnSet(r, d, n, new) ==
  /\ PlaceOf(r, new.name) = PlaceOf(d, n)
  /\ DbColumn(r, new.name) = new
  /\ \A m \in ColumnNamesOf(d) \ {n} : /\ PlaceOf(r, m) = PlaceOf(d, m)
                                       /\ DbColumn(r, m) = DbColumn(d, m)

\* Overwriting the column at a name's place leaves the others where and what they are.
LEMMA SetColumnPlaces ==
  ASSUME NEW d, IsDb(d), NEW n \in ColumnNamesOf(d), NEW new,
         IsDb(SetDbColumn(d, n, new))
  PROVE  ColumnSet(SetDbColumn(d, n, new), d, n, new)
<1> DEFINE at == PlaceOf(d, n)
           r == SetDbColumn(d, n, new)
<1>1. d.cols \in Seq(DbColumns) /\ Len(d.cols) \in Nat BY DEF IsDb
<1>2. at \in 1 .. Len(d.cols) /\ d.cols[at].name = n BY PlaceOfName
<1>3. r.cols = [d.cols EXCEPT ![at] = new] BY DEF SetDbColumn, IsDb
<1> HIDE DEF r, at
<1>4. /\ Len(r.cols) = Len(d.cols)
      /\ r.cols[at] = new
      /\ \A i \in 1 .. Len(d.cols) : i # at => r.cols[i] = d.cols[i]
  BY <1>1, <1>2, <1>3
<1>5. IsDb(r) BY DEF r
<1>6. PlaceOf(r, new.name) = at /\ DbColumn(r, new.name) = new
  BY <1>2, <1>4, <1>5, PlaceIs DEF DbColumn
<1>7. ASSUME NEW m \in ColumnNamesOf(d) \ {n}
      PROVE  PlaceOf(r, m) = PlaceOf(d, m) /\ DbColumn(r, m) = DbColumn(d, m)
  <2>1. PlaceOf(d, m) \in 1 .. Len(d.cols) /\ d.cols[PlaceOf(d, m)].name = m BY PlaceOfName
  <2>2. r.cols[PlaceOf(d, m)] = d.cols[PlaceOf(d, m)] BY <2>1, <1>2, <1>4
  <2>3. PlaceOf(r, m) = PlaceOf(d, m) BY <2>1, <2>2, <1>4, <1>5, PlaceIs
  <2> QED BY <2>2, <2>3 DEF DbColumn
<1> QED BY <1>6, <1>7 DEF r, at, ColumnSet

----------------------------------------------------------------------------
(* The definitions of columns that the parser holds.                        *)
ColDef(item) == [name |-> item.name, type |-> item.attr.type, opts |-> OptionsOf(item.attr)]

\* Merging loses no option and makes none up.
LEMMA MergedOptions ==
  ASSUME NEW S, NEW opts \in Seq(S), NEW more \in Seq(S)
  PROVE  Range(MergeOptions(opts, more)) = Range(opts) \cup Range(more)
<1> DEFINE all == opts \o more
           keys == {i \in 1 .. Len(all) - 1 : IsPrimaryKey(all[i])}
           k == CHOOSE i \in keys : \A j \in keys : i <= j
<1>1. all \in Seq(S) /\ Len(all) \in Nat OBVIOUS
<1>2. Range(all) = Range(opts) \cup Range(more)
  <2>1. /\ Len(opts) \in Nat /\ Len(more) \in Nat /\ Len(all) = Len(opts) + Len(more)
        /\ \A i \in 1 .. Len(opts) : all[i] = opts[i]
        /\ \A i \in 1 .. Len(more) : all[Len(opts) + i] = more[i]
    OBVIOUS
  <2>2. \A i \in 1 .. Len(all) : i <= Len(opts) \/ (i - Len(opts) \in 1 .. Len(more)
                                                    /\ Len(opts) + (i - Len(opts)) = i)
    BY <2>1
  <2>3. \A i \in 1 .. Len(more) : Len(opts) + i \in 1 .. Len(all) BY <2>1
  <2>4. \A i \in 1 .. Len(opts) : i \in 1 .. Len(all) BY <2>1
  <2>5. DOMAIN all = 1 .. Len(all) /\ DOMAIN opts = 1 .. Len(opts) /\ DOMAIN more = 1 .. Len(more)
    BY <1>1
  <2> HIDE DEF all
  <2>6. ASSUME NEW x \in Range(all) PROVE x \in Range(opts) \cup Range(more)
    <3>1. PICK i \in 1 .. Len(all) : all[i] = x BY <2>5 DEF Range
    <3>2. CASE i <= Len(opts)
      <4>1. i \in DOMAIN opts /\ opts[i] = x BY <3>1, <3>2, <2>1, <2>5
      <4> QED BY <4>1 DEF Range
    <3>3. CASE ~(i <= Len(opts))
      <4>1. i - Len(opts) \in DOMAIN more /\ more[i - Len(opts)] = x
        BY <3>1, <3>3, <2>1, <2>2, <2>5
      <4> QED BY <4>1 DEF Range
    <3> QED BY <3>2, <3>3
  <2>7. ASSUME NEW x \in Range(opts) PROVE x \in Range(all) BY <2>1, <2>4, <2>5 DEF Range
  <2>8. ASSUME NEW x \in Range(more) PROVE x \in Range(all) BY <2>1, <2>3, <2>5 DEF Range
  <2> QED BY <2>6, <2>7, <2>8
<1>3. CASE keys = {} BY <1>2, <1>3 DEF MergeOptions
<1>4. CASE keys # {}
  <2>1. k \in keys
    <3>1. keys \in SUBSET Nat BY <1>1
    <3> HIDE DEF keys
    <3>2. \E i \in keys : \A j \in keys : i <= j BY <1>4, <3>1, Living!SmallestOf
    <3> QED BY <3>2
  <2>2. k \in 1 .. Len(all) /\ Len(all) \in 1 .. Len(all) /\ k # Len(all)
    <3>1. k \in 1 .. Len(all) - 1 BY <2>1
    <3> HIDE DEF k, all
    <3> QED BY <3>1, <1>1
  <2>3. MergeOptions(opts, more) = [all EXCEPT ![k] = all[Len(all)], ![Len(all)] = all[k]]
    BY <1>4 DEF MergeOptions
  <2> DEFINE r == MergeOptions(opts, more)
  <2> HIDE DEF k, all, r
  <2>4. /\ DOMAIN all = 1 .. Len(all) /\ DOMAIN r = 1 .. Len(all)
        /\ r[k] = all[Len(all)] /\ r[Len(all)] = all[k]
        /\ \A i \in 1 .. Len(all) : i # k /\ i # Len(all) => r[i] = all[i]
    BY <1>1, <2>2, <2>3 DEF r
  <2>5. ASSUME NEW x \in Range(r) PROVE x \in Range(all) BY <2>2, <2>4 DEF Range
  <2>6. ASSUME NEW x \in Range(all) PROVE x \in Range(r) BY <2>2, <2>4 DEF Range
  <2>7. Range(r) = Range(all) BY <2>5, <2>6
  <2> QED BY <1>2, <2>7 DEF r
<1> QED BY <1>3, <1>4

\* A column read from a statement has the statement's definition.
LEMMA ReadColumn ==
  ASSUME NEW n, NEW action, NEW type, NEW opts \in OptionLists
  PROVE  /\ ColDef(Column(n, action, [type |-> type, opts |-> opts]))
               = [name |-> n, type |-> type, opts |-> Range(opts)]
         /\ Reference \notin Range(opts)
         /\ {opts[i] : i \in DOMAIN opts} = Range(opts)
<1>1. Reference \notin Range(opts) BY TableAssumption DEF Range
<1>2. {opts[i] : i \in DOMAIN opts} = Range(opts) BY DEF Range
<1>3. OptionsOf([type |-> type, opts |-> opts]) = Range(opts) BY <1>1, <1>2 DEF OptionsOf
<1> QED BY <1>1, <1>2, <1>3 DEF ColDef, Column

\* What a definition of a known name makes of the node: it is merged with a node
\* added before and takes the place of any other (AddColumn).
AddedTo(was, col) ==
  IF was.action = "add"
  THEN [was EXCEPT !.attr = [type |-> col.attr.type,
                             opts |-> MergeOptions(was.attr.opts, col.attr.opts)]]
  ELSE col

LEMMA AddKnownNodes ==
  ASSUME NEW t, IsTable(t), Sound(t.cols, ColumnItems, ColumnNames),
         NEW col \in ColumnItems, col.name \in DOMAIN t.cols.id,
         t.pos.tp \in {"nil", "none"}
  PROVE  LET r == AddColumn(t, col).cols
         IN  /\ r.id = t.cols.id /\ Len(r.items) = Len(t.cols.items)
             /\ Node(r, col.name) = AddedTo(Node(t.cols, col.name), col)
             /\ \A m \in DOMAIN t.cols.id \ {col.name} : Node(r, m) = Node(t.cols, m)
<1> DEFINE id == t.cols.id[col.name]
           node == AddedTo(t.cols.items[id], col)
           r == AddColumn(t, col).cols
<1>1. /\ t.cols.items \in Seq(ColumnItems)
      /\ Len(t.cols.items) \in Nat
      /\ id \in 1 .. Len(t.cols.items)
      /\ \A m \in DOMAIN t.cols.id : /\ t.cols.id[m] \in 1 .. Len(t.cols.items)
                                     /\ t.cols.items[t.cols.id[m]].name = m
  BY DEF Sound, IsList, Coherent
<1>2. IdOf(t.cols, col.name) = id /\ id # 0 /\ id > 0 BY <1>1 DEF IdOf
<1>3. ~IsStale(t.cols, col.name) BY <1>1, <1>2 DEF IsStale
<1>4. r = SetItem(t.cols, id, node)
  <2>1. CASE t.cols.items[id].action = "add"
    <3>1. AddColumn(t, col) = MergeColumn(t, id, col) BY <1>2, <1>3, <2>1 DEF AddColumn
    <3>2. AddColumn(t, col) = [t EXCEPT !.cols = SetItem(t.cols, id, node)]
      BY <3>1, <2>1 DEF MergeColumn, AddedTo
    <3> QED BY <3>2 DEF IsTable
  <2>2. CASE t.cols.items[id].action # "add"
    <3> DEFINE u == [t EXCEPT !.cols = PutItem(t.cols, col)]
    <3>1. AddColumn(t, col) = PlaceColumn(u, col.name, id)
      BY <1>2, <1>3, <2>2 DEF AddColumn
    <3>2. u.pos = t.pos /\ u.cols = PutItem(t.cols, col) /\ IsTable(u) BY DEF IsTable
    <3> HIDE DEF u
    <3>3. PlaceColumn(u, col.name, id) = [u EXCEPT !.pos = NoPosition]
      BY <3>2 DEF PlaceColumn
    <3>4. r = PutItem(t.cols, col) BY <3>1, <3>2, <3>3 DEF IsTable
    <3>5. PutItem(t.cols, col) = SetItem(t.cols, id, col) BY <1>2 DEF PutItem
    <3> QED BY <3>4, <3>5, <2>2 DEF AddedTo
  <2> QED BY <2>1, <2>2
<1> HIDE DEF node, r
<1>5. r.id = t.cols.id /\ r.items = [t.cols.items EXCEPT ![id] = node]
  BY <1>4 DEF SetItem
<1>6. r.items[id] = node /\ \A i \in 1 .. Len(t.cols.items) : i # id => r.items[i] = t.cols.items[i]
  BY <1>1, <1>5
<1>7. Node(r, col.name) = node BY <1>5, <1>6 DEF Node
<1>8. ASSUME NEW m \in DOMAIN t.cols.id \ {col.name} PROVE Node(r, m) = Node(t.cols, m)
  <2>1. t.cols.id[m] # id BY <1>1
  <2> QED BY <2>1, <1>1, <1>5, <1>6 DEF Node
<1>9. Len(r.items) = Len(t.cols.items) BY <1>1, <1>5
<1> QED BY <1>5, <1>7, <1>8, <1>9 DEF r, node, Node

\* A Reference option is no part of the definition: AddForeignKey changes none.
LEMMA MarkedNodes ==
  ASSUME NEW l, Sound(l, ColumnItems, ColumnNames), NEW n
  PROVE  \A m \in DOMAIN l.id : ColDef(Node(MarkReferenced(l, n), m)) = ColDef(Node(l, m))
<1> SUFFICES ASSUME NEW m \in DOMAIN l.id
             PROVE  ColDef(Node(MarkReferenced(l, n), m)) = ColDef(Node(l, m))
  OBVIOUS
<1> DEFINE item == Node(l, m)
           opts == item.attr.opts
           more == Append(opts, Reference)
<1>1. l.id[m] \in DOMAIN l.items /\ item \in ColumnItems
  BY DEF Sound, IsList, Coherent, Node
<1>2. Node(MarkReferenced(l, n), m)
        = IF item.name = n THEN [item EXCEPT !.attr.opts = Append(@, Reference)] ELSE item
  BY <1>1 DEF MarkReferenced, Node
<1> HIDE DEF item
<1>3. opts \in Seq(Options \cup {Reference}) BY <1>1 DEF ColumnItems, Attrs
<1>4. Range(more) = Range(opts) \cup {Reference}
  <2> HIDE DEF opts
  <2>1. /\ DOMAIN opts = 1 .. Len(opts) /\ DOMAIN more = 1 .. Len(opts) + 1 /\ Len(opts) \in Nat
        /\ more[Len(opts) + 1] = Reference
        /\ \A i \in 1 .. Len(opts) : more[i] = opts[i]
    BY <1>3
  <2> HIDE DEF more
  <2> QED BY <2>1 DEF Range
<1>5. CASE item.name = n
  <2> DEFINE new == [item EXCEPT !.attr.opts = Append(@, Reference)]
  <2>1. new.name = item.name /\ new.attr.type = item.attr.type /\ new.attr.opts = more
    BY <1>1 DEF ColumnItems, Attrs
  <2> HIDE DEF new, more, opts
  <2>2. OptionsOf(new.attr) = Range(more) \ {Reference} BY <2>1 DEF OptionsOf, Range
  <2>3. OptionsOf(item.attr) = Range(opts) \ {Reference} BY DEF OptionsOf, Range, opts
  <2>4. ColDef(new) = ColDef(item) BY <1>4, <2>1, <2>2, <2>3 DEF ColDef
  <2> QED BY <1>2, <1>5, <2>4 DEF item, new
<1>6. CASE item.name # n BY <1>2, <1>6 DEF item
<1> QED BY <1>5, <1>6

----------------------------------------------------------------------------
(* What each statement does to the columns, whatever table holds them: l are  *)
(* the columns of a table of the parser, d is a table of the database.  They   *)
(* are the same columns; of those of M a MODIFY COLUMN has been read once and  *)
(* is still to be read a second time, and their definition is not yet d's.     *)
ColumnsFollow(l, d, M) ==
  /\ Sound(l, ColumnItems, ColumnNames)
  /\ IsDb(d)
  /\ LiveNames(l) = ColumnNamesOf(d)
  /\ \A n \in LiveNames(l) :
       /\ OptionsOf(Node(l, n).attr) \subseteq DbColumn(d, n).opts
       /\ n \notin M => ColDef(Node(l, n)) = DbColumn(d, n)

\* They stand in the slice in the database's order.
InOrder(l, d) ==
  \A m, n \in LiveNames(l) : l.id[m] < l.id[n] => PlaceOf(d, m) < PlaceOf(d, n)

\* The order is the same in both directions.
LEMMA SameOrder ==
  ASSUME NEW l, Sound(l, ColumnItems, ColumnNames), NEW d, InOrder(l, d),
         LiveNames(l) = ColumnNamesOf(d), NEW m \in LiveNames(l), NEW n \in LiveNames(l)
  PROVE  l.id[m] < l.id[n] <=> PlaceOf(d, m) < PlaceOf(d, n)
<1>1. /\ l.id[m] \in Nat /\ l.items[l.id[m]].name = m
      /\ l.id[n] \in Nat /\ l.items[l.id[n]].name = n
  BY LiveByName DEF Sound, IsList, Coherent
<1>2. PlaceOf(d, m) \in Nat /\ PlaceOf(d, n) \in Nat BY PlaceOfName
<1>3. l.id[m] < l.id[n] => PlaceOf(d, m) < PlaceOf(d, n) BY DEF InOrder
<1>4. l.id[n] < l.id[m] => PlaceOf(d, n) < PlaceOf(d, m) BY DEF InOrder
<1>5. l.id[m] = l.id[n] => m = n BY <1>1
<1> QED BY <1>1, <1>2, <1>3, <1>4, <1>5

\* Positions that put a column in the same place: the same one, or both none.
SamePlace(p, q) == p = q \/ (p.tp \in {"nil", "none"} /\ q.tp \in {"nil", "none"})

\* ADD COLUMN of a name the map does not have.
LEMMA AddNewColumnOrder ==
  ASSUME NEW l, NEW d, Sound(l, ColumnItems, ColumnNames), IsDb(d),
         LiveNames(l) = ColumnNamesOf(d), InOrder(l, d),
         NEW n \in ColumnNames, n \notin DOMAIN l.id,
         NEW type \in Types, NEW opts \in OptionLists, NEW pos \in AddPositions,
         pos.tp = "after" => pos.rel \in ColumnNamesOf(d),
         NEW col \in ColumnItems, col.name = n,
         NEW e, e = Exec(d, [op |-> "addColumn", col |-> n, type |-> type,
                             opts |-> opts, pos |-> pos]),
         NEW r, LiveNames(r) = LiveNames(l) \cup {n}, DOMAIN r.id = DOMAIN l.id \cup {n},
         PutAt(r, AppendItem(l, col), n, PlaceFor(l, pos, Len(l.items) + 1))
  PROVE  InOrder(r, e)
<1> DEFINE place == PlaceFor(l, pos, Len(l.items) + 1)
           at == DbPlaceFor(d, pos)
           id == l.id
<1>1. /\ n \notin ColumnNamesOf(d)
      /\ Len(d.cols) \in Nat /\ Len(l.items) \in Nat
  <2>1. n \notin LiveNames(l) BY LiveByName
  <2>2. Len(d.cols) \in Nat BY DEF IsDb
  <2>3. Len(l.items) \in Nat BY DEF Sound, IsList
  <2> QED BY <2>1, <2>2, <2>3
<1>2. \A m \in LiveNames(l) : /\ m \in DOMAIN id
                              /\ id[m] \in 1 .. Len(l.items)
                              /\ PlaceOf(d, m) \in 1 .. Len(d.cols)
  BY LiveByName, PlaceOfName DEF LivePlaces
<1>3. /\ PlaceOf(e, n) = at
      /\ \A m \in LiveNames(l) :
           PlaceOf(e, m) = IF PlaceOf(d, m) < at THEN PlaceOf(d, m) ELSE PlaceOf(d, m) + 1
  <2>1. ColumnPut(e, d, n, at) BY <1>1, AddColumnPlaces
  <2> HIDE DEF at
  <2> QED BY <2>1 DEF ColumnPut
<1>4. /\ r.id[n] = place
      /\ \A m \in LiveNames(l) : r.id[m] = IF place <= id[m] THEN id[m] + 1 ELSE id[m]
  <2>1. \A m \in DOMAIN id : AppendItem(l, col).id[m] = id[m]
    BY DEF AppendItem, Point
  <2>2. n \notin LiveNames(l) BY <1>1
  <2> HIDE DEF place
  <2>3. PutAt(r, AppendItem(l, col), n, place) BY DEF place
  <2> QED BY <2>1, <2>2, <2>3, <1>2 DEF PutAt
<1>5. /\ place \in Nat /\ at \in Nat
      /\ \A m \in LiveNames(l) : id[m] < place <=> PlaceOf(d, m) < at
  <2>1. CASE pos.tp = "first"
    <3>1. place = 1 /\ at = 1 BY <2>1 DEF PlaceFor, DbPlaceFor
    <3> QED BY <3>1, <1>2
  <2>2. CASE pos.tp = "after"
    <3>1. pos.rel \in LiveNames(l) BY <2>2
    <3>2. IdOf(l, pos.rel) = id[pos.rel] /\ id[pos.rel] > 0
      BY <3>1, <1>2 DEF IdOf
    <3>3. place = id[pos.rel] + 1 /\ at = PlaceOf(d, pos.rel) + 1
      BY <2>2, <3>2 DEF PlaceFor, DbPlaceFor
    <3>4. \A m \in LiveNames(l) : id[pos.rel] < id[m] <=> PlaceOf(d, pos.rel) < PlaceOf(d, m)
      BY <3>1, SameOrder
    <3> HIDE DEF id, place, at
    <3> QED BY <3>1, <3>3, <3>4, <1>2
  <2>3. CASE pos.tp # "first" /\ pos.tp # "after"
    <3>1. place = Len(l.items) + 1 /\ at = Len(d.cols) + 1
      BY <2>3 DEF PlaceFor, DbPlaceFor
    <3> QED BY <3>1, <1>1, <1>2
  <2> QED BY <2>1, <2>2, <2>3
<1>6. \A m, k \in LiveNames(l) : id[m] < id[k] <=> PlaceOf(d, m) < PlaceOf(d, k)
  BY SameOrder
<1> HIDE DEF id, place, at
<1>7. ASSUME NEW m \in LiveNames(l), NEW k \in LiveNames(l), r.id[m] < r.id[k]
      PROVE  PlaceOf(e, m) < PlaceOf(e, k)
  <2>1. id[m] \in Nat /\ id[k] \in Nat /\ PlaceOf(d, m) \in Nat /\ PlaceOf(d, k) \in Nat BY <1>2
  <2>2. id[m] < id[k] BY <2>1, <1>4, <1>5, <1>7
  <2>3. PlaceOf(d, m) < PlaceOf(d, k) BY <2>2, <1>6
  <2> QED BY <2>1, <2>3, <1>3, <1>5
<1>8. ASSUME NEW m \in LiveNames(l)
      PROVE  /\ r.id[m] < r.id[n] => PlaceOf(e, m) < PlaceOf(e, n)
             /\ r.id[n] < r.id[m] => PlaceOf(e, n) < PlaceOf(e, m)
  <2>1. id[m] \in Nat /\ PlaceOf(d, m) \in Nat BY <1>2
  <2>2. id[m] < place <=> PlaceOf(d, m) < at BY <1>5
  <2> QED BY <2>1, <2>2, <1>3, <1>4, <1>5
<1>9. ~(r.id[n] < r.id[n]) BY <1>4, <1>5
<1> QED BY <1>7, <1>8, <1>9 DEF InOrder

\* It adds the column, with its definition and in its place.
LEMMA ColumnAdded ==
  ASSUME NEW t, NEW d, NEW M, IsTable(t), ColumnsFollow(t.cols, d, M),
         NEW n \in ColumnNames, n \notin DOMAIN t.cols.id, n \notin M,
         NEW type \in Types, NEW opts \in OptionLists, NEW pos \in AddPositions,
         pos.tp = "after" => pos.rel \in ColumnNamesOf(d), SamePlace(t.pos, pos),
         NEW e, e = Exec(d, [op |-> "addColumn", col |-> n, type |-> type,
                             opts |-> opts, pos |-> pos]),
         NEW r, r = AddColumn(t, Column(n, "add", [type |-> type, opts |-> opts]))
  PROVE  /\ ColumnsFollow(r.cols, e, M)
         /\ InOrder(t.cols, d) => InOrder(r.cols, e)
<1> DEFINE col == Column(n, "add", [type |-> type, opts |-> opts])
           l == t.cols
           grown == AppendItem(l, col)
           place == PlaceFor(l, pos, Len(l.items) + 1)
<1>1. Sound(l, ColumnItems, ColumnNames) /\ IsDb(d) /\ LiveNames(l) = ColumnNamesOf(d)
  BY DEF ColumnsFollow
<1>2. col \in ColumnItems /\ col.name = n /\ IsLive(col.action)
  BY AttrTyped, ColumnTyped
<1>3. ColDef(col) = [name |-> n, type |-> type, opts |-> {opts[i] : i \in DOMAIN opts}]
  <2> HIDE DEF col
  <2> QED BY ReadColumn, ZenonT(30) DEF col
<1>4. n \notin ColumnNamesOf(d) BY <1>1, LiveByName
<1> HIDE DEF col
<1>5. PlaceFor(l, t.pos, Len(l.items) + 1) = place
  BY DEF SamePlace, PlaceFor
<1>6. t.pos.tp = "after" => t.pos.rel # n BY <1>4 DEF SamePlace
<1>7. /\ Sound(r.cols, ColumnItems, ColumnNames)
      /\ DOMAIN r.cols.id = DOMAIN l.id \cup {n}
      /\ LiveNames(r.cols) = LiveNames(l) \cup {n}
      /\ PutAt(r.cols, grown, n, place)
  <2>1. r = AddColumn(t, col) BY DEF col
  <2> HIDE DEF place, grown
  <2> QED BY <2>1, <1>1, <1>2, <1>5, <1>6, AddNewColumn DEF grown
<1>8. IsDb(e) /\ ColumnNamesOf(e) = ColumnNamesOf(d) \cup {n} BY <1>1, <1>4, AddColumnExec
<1>9. ColumnPut(e, d, n, DbPlaceFor(d, pos)) BY <1>1, <1>4, AddColumnPlaces
<1>10. DbColumn(e, n) = ColDef(col)
  <2>1. DbColumn(e, n) = [name |-> n, type |-> type, opts |-> {opts[i] : i \in DOMAIN opts}]
    BY <1>1, <1>4, AddColumnPlaces
  <2> QED BY <2>1, <1>3
<1>11. /\ Node(r.cols, n) = col
       /\ \A m \in DOMAIN l.id : Node(r.cols, m) = Node(l, m)
  <2>1. \A m \in DOMAIN l.id \cup {n} : Node(r.cols, m) = grown.items[grown.id[m]]
    BY <1>7 DEF PutAt, Node
  <2>2. /\ grown.id[n] = Len(l.items) + 1
        /\ \A m \in DOMAIN l.id : grown.id[m] = l.id[m]
        /\ grown.items = Append(l.items, col)
    BY <1>2 DEF AppendItem, Point
  <2> HIDE DEF grown
  <2>3. \A m \in DOMAIN l.id : l.id[m] \in 1 .. Len(l.items)
    BY <1>1 DEF Sound, Coherent
  <2>4. l.items \in Seq(ColumnItems) BY <1>1 DEF Sound, IsList
  <2>5. Node(r.cols, n) = col BY <2>1, <2>2, <2>4
  <2>6. ASSUME NEW m \in DOMAIN l.id PROVE Node(r.cols, m) = Node(l, m)
    <3> DEFINE i == l.id[m]
    <3>1. Node(r.cols, m) = grown.items[i] BY <2>1, <2>2
    <3>2. i \in 1 .. Len(l.items) BY <2>3
    <3> HIDE DEF i
    <3>3. grown.items[i] = l.items[i] BY <2>2, <2>4, <3>2
    <3> QED BY <3>1, <3>3 DEF Node, i
  <2> QED BY <2>5, <2>6
<1>12. ASSUME NEW m \in LiveNames(r.cols)
       PROVE  /\ OptionsOf(Node(r.cols, m).attr) \subseteq DbColumn(e, m).opts
              /\ m \notin M => ColDef(Node(r.cols, m)) = DbColumn(e, m)
  <2>1. CASE m = n
    <3>1. ColDef(col).opts = OptionsOf(col.attr) BY DEF ColDef
    <3> QED BY <2>1, <3>1, <1>10, <1>11
  <2>2. CASE m \in LiveNames(l)
    <3>1. Node(r.cols, m) = Node(l, m) BY <2>2, <1>1, <1>11, LiveByName
    <3>2. DbColumn(e, m) = DbColumn(d, m) BY <2>2, <1>1, <1>9 DEF ColumnPut
    <3> QED BY <2>2, <3>1, <3>2 DEF ColumnsFollow
  <2> QED BY <2>1, <2>2, <1>7, <1>12
<1>13. ColumnsFollow(r.cols, e, M) BY <1>1, <1>7, <1>8, <1>12 DEF ColumnsFollow
<1>14. ASSUME InOrder(l, d) PROVE InOrder(r.cols, e)
  BY <1>14, <1>1, <1>2, <1>7, AddNewColumnOrder
<1> QED BY <1>13, <1>14

\* A known live name is in the map and points within the slice.
LEMMA LiveIsNotStale ==
  ASSUME NEW l, Sound(l, ColumnItems, ColumnNames), NEW n \in LiveNames(l)
  PROVE  ~IsStale(l, n)
<1>1. n \in DOMAIN l.id /\ l.id[n] \in 1 .. Len(l.items)
  BY LiveByName DEF LivePlaces
<1>2. Len(l.items) \in Nat BY DEF Sound, IsList
<1> QED BY <1>1, <1>2 DEF IsStale, IdOf

\* DROP COLUMN takes the column from both.
LEMMA ColumnDropped ==
  ASSUME NEW t, NEW d, NEW M, IsTable(t), ColumnsFollow(t.cols, d, M),
         NEW n \in ColumnNamesOf(d), NEW e, e = Exec(d, [op |-> "dropColumn", col |-> n]),
         NEW r, r = RemoveColumn(t, n)
  PROVE  /\ ColumnsFollow(r.cols, e, M)
         /\ InOrder(t.cols, d) => InOrder(r.cols, e)
<1> DEFINE l == t.cols
<1>1. Sound(l, ColumnItems, ColumnNames) /\ IsDb(d) /\ LiveNames(l) = ColumnNamesOf(d)
  BY DEF ColumnsFollow
<1>2. r.cols = RemoveItem(l, n, Column(n, "remove", NilAttr))
  <2>1. ~IsStale(l, n) BY <1>1, LiveIsNotStale
  <2> QED BY <2>1 DEF RemoveColumn, IsTable
<1>3. /\ r.cols.id = l.id
      /\ \A m \in LiveNames(l) \ {n} : Node(r.cols, m) = Node(l, m)
  BY <1>1, <1>2, RemoveNodes, LiveByName
<1>4. Sound(r.cols, ColumnItems, ColumnNames) /\ LiveNames(r.cols) = LiveNames(l) \ {n}
  BY <1>1, <1>2, NodeSets, RemoveItemSound
<1>5. \A m \in ColumnNamesOf(d) \ {n} :
        /\ PlaceOf(e, m) = IF PlaceOf(d, m) < PlaceOf(d, n) THEN PlaceOf(d, m)
                           ELSE PlaceOf(d, m) - 1
        /\ PlaceOf(d, m) # PlaceOf(d, n)
        /\ DbColumn(e, m) = DbColumn(d, m)
  BY <1>1, DropColumnPlaces
<1>6. IsDb(e) /\ ColumnNamesOf(e) = ColumnNamesOf(d) \ {n} BY <1>1, DropColumnExec
<1>7. ColumnsFollow(r.cols, e, M) BY <1>1, <1>3, <1>4, <1>5, <1>6 DEF ColumnsFollow
<1>8. ASSUME InOrder(l, d) PROVE InOrder(r.cols, e)
  <2> SUFFICES ASSUME NEW m \in LiveNames(r.cols), NEW k \in LiveNames(r.cols),
                      r.cols.id[m] < r.cols.id[k]
               PROVE  PlaceOf(e, m) < PlaceOf(e, k)
    BY DEF InOrder
  <2>1. PlaceOf(d, m) < PlaceOf(d, k) BY <1>3, <1>4, <1>8 DEF InOrder
  <2>2. /\ PlaceOf(d, m) \in Nat /\ PlaceOf(d, k) \in Nat /\ PlaceOf(d, n) \in Nat
    BY <1>1, <1>4, PlaceOfName
  <2> QED BY <2>1, <2>2, <1>1, <1>4, <1>5
<1> QED BY <1>7, <1>8

\* RENAME COLUMN renames it in both.
LEMMA ColumnRenamed ==
  ASSUME NEW t, NEW d, NEW M, IsTable(t), ColumnsFollow(t.cols, d, M),
         NEW n \in ColumnNamesOf(d), n \notin M, NEW to \in ColumnNames, to \notin ColumnNamesOf(d),
         NEW e, e = Exec(d, [op |-> "renameColumn", col |-> n, to |-> to]),
         NEW r, r = RenameColumn(t, n, to)
  PROVE  /\ ColumnsFollow(r.cols, e, M)
         /\ InOrder(t.cols, d) => InOrder(r.cols, e)
<1> DEFINE l == t.cols
           new == [d.cols[PlaceOf(d, n)] EXCEPT !.name = to]
<1>1. Sound(l, ColumnItems, ColumnNames) /\ IsDb(d) /\ LiveNames(l) = ColumnNamesOf(d)
  BY DEF ColumnsFollow
<1>2. r.cols = RenameItem(l, n, to, "rename")
  <2>1. ~IsStale(l, n) BY <1>1, LiveIsNotStale
  <2> QED BY <2>1 DEF RenameColumn, IsTable
<1>3. /\ Sound(r.cols, ColumnItems, ColumnNames)
      /\ LiveNames(r.cols) = (LiveNames(l) \ {n}) \cup {to}
  BY <1>1, <1>2, NodeSets, RenameItemSound
<1>4. /\ Node(r.cols, to) = Renamed(Node(l, n), n, to, "rename")
      /\ r.cols.id[to] = l.id[n]
      /\ \A m \in LiveNames(l) \ {n} : /\ r.cols.id[m] = l.id[m]
                                       /\ Node(r.cols, m) = Node(l, m)
  <2>1. /\ Node(r.cols, to) = Renamed(Node(l, n), n, to, "rename")
        /\ r.cols.id[to] = l.id[n]
        /\ \A m \in DOMAIN l.id \ {n, to} : /\ r.cols.id[m] = l.id[m]
                                            /\ Node(r.cols, m) = Node(l, m)
    BY <1>1, <1>2, RenameNodes
  <2>2. \A m \in LiveNames(l) \ {n} : m \in DOMAIN l.id \ {n, to} BY <1>1, LiveByName
  <2> QED BY <2>1, <2>2
<1>5. d.cols[PlaceOf(d, n)] \in DbColumns BY <1>1, PlaceOfName DEF IsDb
<1>6. IsDb(e) /\ ColumnNamesOf(e) = (ColumnNamesOf(d) \ {n}) \cup {to}
  BY <1>1, RenameColumnExec
<1>7. /\ PlaceOf(e, to) = PlaceOf(d, n)
      /\ DbColumn(e, to) = [DbColumn(d, n) EXCEPT !.name = to]
      /\ \A m \in ColumnNamesOf(d) \ {n} : /\ PlaceOf(e, m) = PlaceOf(d, m)
                                           /\ DbColumn(e, m) = DbColumn(d, m)
  <2>1. e = SetDbColumn(d, n, new) BY DEF Exec, KeyDrops, RenameDbColumn
  <2>2. new.name = to BY <1>5 DEF DbColumns
  <2>3. new = [DbColumn(d, n) EXCEPT !.name = to] BY DEF DbColumn
  <2> HIDE DEF new
  <2>4. ColumnSet(e, d, n, new) BY <2>1, <1>1, <1>6, SetColumnPlaces
  <2> QED BY <2>2, <2>3, <2>4 DEF ColumnSet
<1>8. ColDef(Node(r.cols, to)) = [ColDef(Node(l, n)) EXCEPT !.name = to]
  <2>1. Node(l, n) \in ColumnItems BY <1>1, LiveByName
  <2> QED BY <2>1, <1>4 DEF ColDef, Renamed, ColumnItems
<1>9. ASSUME NEW m \in LiveNames(r.cols)
      PROVE  /\ OptionsOf(Node(r.cols, m).attr) \subseteq DbColumn(e, m).opts
             /\ m \notin M => ColDef(Node(r.cols, m)) = DbColumn(e, m)
  <2>1. CASE m = to
    <3>1. ColDef(Node(r.cols, m)) = DbColumn(e, m)
      BY <2>1, <1>1, <1>7, <1>8 DEF ColumnsFollow
    <3>2. ColDef(Node(r.cols, m)).opts = OptionsOf(Node(r.cols, m).attr) BY DEF ColDef
    <3> QED BY <3>1, <3>2
  <2>2. CASE m # to
    <3>1. m \in LiveNames(l) \ {n} BY <2>2, <1>3, <1>9
    <3>2. Node(r.cols, m) = Node(l, m) /\ DbColumn(e, m) = DbColumn(d, m)
      BY <3>1, <1>1, <1>4, <1>7
    <3> QED BY <3>1, <3>2 DEF ColumnsFollow
  <2> QED BY <2>1, <2>2
<1>10. ColumnsFollow(r.cols, e, M) BY <1>1, <1>3, <1>6, <1>9 DEF ColumnsFollow
<1>11. ASSUME InOrder(l, d) PROVE InOrder(r.cols, e)
  <2> DEFINE was(m) == IF m = to THEN n ELSE m
  <2>1. \A m \in LiveNames(r.cols) : /\ was(m) \in LiveNames(l)
                                     /\ r.cols.id[m] = l.id[was(m)]
                                     /\ PlaceOf(e, m) = PlaceOf(d, was(m))
    BY <1>1, <1>3, <1>4, <1>7
  <2> HIDE DEF was
  <2> QED BY <2>1, <1>11 DEF InOrder
<1> QED BY <1>10, <1>11

\* A MODIFY COLUMN is read for the first time: the node has the new type and either no
\* options or those that it had.
Retyped(t, n, type) == AddColumn(t, Column(n, "modify", [type |-> type, opts |-> <<>>]))

LEMMA ColumnEntered ==
  ASSUME NEW t, NEW d, NEW M, IsTable(t), ColumnsFollow(t.cols, d, M),
         t.pos.tp \in {"nil", "none"}, NEW n \in ColumnNamesOf(d), NEW type \in Types,
         NEW r, r = Retyped(t, n, type)
  PROVE  /\ ColumnsFollow(r.cols, d, M \cup {n})
         /\ r.cols.id = t.cols.id /\ LiveNames(r.cols) = LiveNames(t.cols)
         /\ InOrder(t.cols, d) => InOrder(r.cols, d)
<1> DEFINE l == t.cols
           bare == [type |-> type, opts |-> <<>>]
           first == Column(n, "modify", bare)
           was == Node(l, n)
           S == Options \cup {Reference}
<1>1. Sound(l, ColumnItems, ColumnNames) /\ IsDb(d) /\ LiveNames(l) = ColumnNamesOf(d)
  BY DEF ColumnsFollow
<1>2. n \in LiveNames(l) /\ n \in DOMAIN l.id /\ was \in ColumnItems /\ n \in ColumnNames
  <2>1. n \in LiveNames(l) /\ n \in DOMAIN l.id /\ was \in ColumnItems BY <1>1, LiveByName
  <2>2. n \in ColumnNames BY <2>1, <1>1 DEF Sound, IsList
  <2> QED BY <2>1, <2>2
<1>3. /\ first \in ColumnItems /\ first.name = n /\ IsLive(first.action)
      /\ first.attr = bare
  <2>1. bare \in Attrs
    <3>1. <<>> \in Seq(S) OBVIOUS
    <3> QED BY <3>1 DEF Attrs
  <2>2. first.attr = bare BY DEF Column
  <2> HIDE DEF bare
  <2> QED BY <2>1, <2>2, <1>2, ColumnTyped
<1> HIDE DEF first
<1>4. r = AddColumn(t, first) BY DEF first, Retyped
<1>5. /\ Sound(r.cols, ColumnItems, ColumnNames)
      /\ LiveNames(r.cols) = LiveNames(l)
  <2>1. LiveNames(r.cols) = LiveNames(l) \cup {first.name}
    BY <1>1, <1>2, <1>3, <1>4, AddKnownColumn
  <2> QED BY <2>1, <1>1, <1>2, <1>3, <1>4, AddKnownColumn
<1>6. /\ r.cols.id = l.id
      /\ Node(r.cols, n) = AddedTo(was, first)
      /\ \A m \in DOMAIN l.id \ {n} : Node(r.cols, m) = Node(l, m)
  BY <1>1, <1>2, <1>3, <1>4, AddKnownNodes
<1> HIDE DEF was
<1>7. OptionsOf(Node(r.cols, n).attr) \subseteq OptionsOf(was.attr)
  <2>1. CASE was.action = "add"
    <3> DEFINE old == was.attr.opts
               once == MergeOptions(old, <<>>)
    <3>1. AddedTo(was, first) = [was EXCEPT !.attr = [type |-> type, opts |-> once]]
      BY <2>1, <1>3 DEF AddedTo
    <3>2. Node(r.cols, n).attr.opts = once
      <4> HIDE DEF once
      <4> QED BY <3>1, <1>2, <1>6 DEF ColumnItems
    <3>3. old \in Seq(S) BY <1>2 DEF ColumnItems, Attrs
    <3> HIDE DEF S, old
    <3>4. <<>> \in Seq(S) OBVIOUS
    <3>5. Range(once) = Range(old) \cup Range(<<>>) BY <3>3, <3>4, MergedOptions, ZenonT(30)
    <3>6. Range(<<>>) = {} BY DEF Range
    <3> HIDE DEF once
    <3>7. Range(once) = Range(old) BY <3>5, <3>6
    <3> QED BY <3>2, <3>7 DEF OptionsOf, Range, old
  <2>2. CASE was.action # "add"
    <3>1. Node(r.cols, n).attr = bare BY <2>2, <1>3, <1>6 DEF AddedTo
    <3> QED BY <3>1 DEF OptionsOf
  <2> QED BY <2>1, <2>2
<1>8. ASSUME NEW m \in LiveNames(l)
      PROVE  /\ OptionsOf(Node(r.cols, m).attr) \subseteq DbColumn(d, m).opts
             /\ m \notin M \cup {n} => ColDef(Node(r.cols, m)) = DbColumn(d, m)
  <2>1. CASE m = n BY <2>1, <1>7 DEF ColumnsFollow, was
  <2>2. CASE m # n
    <3>1. Node(r.cols, m) = Node(l, m) BY <2>2, <1>1, <1>6, <1>8, LiveByName
    <3> QED BY <2>2, <3>1 DEF ColumnsFollow
  <2> QED BY <2>1, <2>2
<1>9. ColumnsFollow(r.cols, d, M \cup {n}) BY <1>1, <1>5, <1>8 DEF ColumnsFollow
<1>10. InOrder(l, d) => InOrder(r.cols, d) BY <1>5, <1>6 DEF InOrder
<1> QED BY <1>5, <1>6, <1>9, <1>10

\* It is read for the second time: the options are the statement's, whether the node is
\* merged or overwritten, provided that they include those that the column had.
DefinedAgain(t, n, type, opts) == AddColumn(t, Column(n, "add", [type |-> type, opts |-> opts]))
AllBut(M, n, N) == \A m \in M : m = n \/ m \in N
Repeats(d, n, opts) == DbColumn(d, n).opts \subseteq Range(opts)
DbRedefined(d, n, type, opts) ==
  Exec(d, [op |-> "modifyColumn", col |-> n, type |-> type, opts |-> opts])

LEMMA ColumnDefined ==
  ASSUME NEW t, NEW d, NEW M, IsTable(t), ColumnsFollow(t.cols, d, M),
         t.pos.tp \in {"nil", "none"}, NEW n \in ColumnNamesOf(d), NEW N, AllBut(M, n, N),
         NEW type \in Types, NEW opts \in OptionLists, Repeats(d, n, opts),
         NEW e, e = DbRedefined(d, n, type, opts), NEW r, r = DefinedAgain(t, n, type, opts)
  PROVE  /\ ColumnsFollow(r.cols, e, N)
         /\ r.cols.id = t.cols.id /\ LiveNames(r.cols) = LiveNames(t.cols)
         /\ InOrder(t.cols, d) => InOrder(r.cols, e)
<1> DEFINE l == t.cols
           attr == [type |-> type, opts |-> opts]
           col == Column(n, "add", attr)
           was == Node(l, n)
           def == [name |-> n, type |-> type, opts |-> Range(opts)]
           kept == {o \in d.cols[PlaceOf(d, n)].opts : o.tp = "primary"}
           new == [name |-> n, type |-> type, opts |-> {opts[i] : i \in DOMAIN opts} \cup kept]
<1>1. Sound(l, ColumnItems, ColumnNames) /\ IsDb(d) /\ LiveNames(l) = ColumnNamesOf(d)
  BY DEF ColumnsFollow
<1>2. /\ n \in LiveNames(l) /\ n \in DOMAIN l.id /\ was \in ColumnItems /\ was.name = n
      /\ n \in ColumnNames
  <2>1. /\ n \in LiveNames(l) /\ n \in DOMAIN l.id /\ was \in ColumnItems /\ was.name = n
    BY <1>1, LiveByName
  <2>2. n \in ColumnNames BY <2>1, <1>1 DEF Sound, IsList
  <2> QED BY <2>1, <2>2
<1>3. col \in ColumnItems /\ col.name = n /\ IsLive(col.action) /\ col.attr = attr
  <2>1. attr \in Attrs BY AttrTyped
  <2>2. col.attr = attr BY DEF Column
  <2> HIDE DEF attr
  <2> QED BY <2>1, <2>2, <1>2, ColumnTyped
<1>4. ColDef(col) = def BY ReadColumn
<1> HIDE DEF col
<1>5. r = AddColumn(t, col) BY DEF col, DefinedAgain
<1>6. /\ Sound(r.cols, ColumnItems, ColumnNames)
      /\ LiveNames(r.cols) = LiveNames(l)
  BY <1>1, <1>2, <1>3, <1>5, AddKnownColumn
<1>7. /\ r.cols.id = l.id
      /\ Node(r.cols, n) = AddedTo(was, col)
      /\ \A m \in DOMAIN l.id \ {n} : Node(r.cols, m) = Node(l, m)
  BY <1>1, <1>2, <1>3, <1>5, AddKnownNodes
<1>8. OptionsOf(was.attr) \subseteq Range(opts) BY <1>2 DEF ColumnsFollow, Repeats
<1> HIDE DEF was
<1>9. ColDef(Node(r.cols, n)) = def
  <2>1. CASE was.action # "add"
    <3>1. Node(r.cols, n) = col BY <2>1, <1>7 DEF AddedTo
    <3> QED BY <3>1, <1>4
  <2>2. CASE was.action = "add"
    <3> DEFINE old == was.attr.opts
               merged == MergeOptions(old, opts)
               S == Options \cup {Reference}
    <3>1. AddedTo(was, col) = [was EXCEPT !.attr = [type |-> type, opts |-> merged]]
      BY <2>2, <1>3 DEF AddedTo
    <3>2. old \in Seq(S) /\ opts \in Seq(S)
      BY <1>2, OptionListTyped DEF ColumnItems, Attrs
    <3> HIDE DEF S, old
    <3>3. Range(merged) = Range(old) \cup Range(opts) BY <3>2, MergedOptions
    <3>4. Range(merged) \ {Reference} = Range(opts)
      <4>1. Range(old) \ {Reference} \subseteq Range(opts) BY <1>8 DEF OptionsOf, Range, old
      <4>2. Reference \notin Range(opts) BY ReadColumn
      <4> QED BY <4>1, <4>2, <3>3
    <3> HIDE DEF merged
    <3>5. /\ Node(r.cols, n).name = n /\ Node(r.cols, n).attr.type = type
          /\ Node(r.cols, n).attr.opts = merged
      BY <3>1, <1>2, <1>7 DEF ColumnItems
    <3>6. OptionsOf(Node(r.cols, n).attr) = Range(opts)
      BY <3>4, <3>5 DEF OptionsOf, Range
    <3> QED BY <3>5, <3>6 DEF ColDef
  <2> QED BY <2>1, <2>2
<1>10. new = def
  <2>1. kept \subseteq Range(opts) BY DEF Repeats, DbColumn
  <2>2. {opts[i] : i \in DOMAIN opts} = Range(opts) BY DEF Range
  <2> HIDE DEF kept
  <2> QED BY <2>1, <2>2
<1>11. e = SetDbColumn(d, n, new) BY DEF DbRedefined, Exec, KeyDrops, ModifyDbColumn
<1> HIDE DEF new
<1>12. IsDb(e) /\ ColumnNamesOf(e) = ColumnNamesOf(d)
  <2>1. e = Exec(d, [op |-> "modifyColumn", col |-> n, type |-> type, opts |-> opts])
    BY DEF DbRedefined
  <2> QED BY <2>1, <1>1, ModifyColumnExec
<1>13. ColumnSet(e, d, n, def)
  <2>1. new.name = n BY DEF new
  <2>2. ColumnSet(e, d, n, new) BY <1>1, <1>11, <1>12, SetColumnPlaces
  <2> QED BY <2>2, <1>10
<1>14. def.name = n /\ def.opts = Range(opts) OBVIOUS
<1> HIDE DEF def
<1>15. ASSUME NEW m \in LiveNames(l)
       PROVE  /\ OptionsOf(Node(r.cols, m).attr) \subseteq DbColumn(e, m).opts
              /\ m \notin N => ColDef(Node(r.cols, m)) = DbColumn(e, m)
              /\ PlaceOf(e, m) = PlaceOf(d, m)
  <2>1. CASE m = n
    <3>1. DbColumn(e, n) = def /\ PlaceOf(e, n) = PlaceOf(d, n) BY <1>13, <1>14 DEF ColumnSet
    <3>2. OptionsOf(Node(r.cols, n).attr) = def.opts BY <1>9 DEF ColDef
    <3> QED BY <2>1, <3>1, <3>2, <1>9
  <2>2. CASE m # n
    <3>1. Node(r.cols, m) = Node(l, m) BY <2>2, <1>1, <1>7, <1>15, LiveByName
    <3>2. DbColumn(e, m) = DbColumn(d, m) /\ PlaceOf(e, m) = PlaceOf(d, m)
      BY <2>2, <1>1, <1>13 DEF ColumnSet
    <3> QED BY <2>2, <3>1, <3>2 DEF ColumnsFollow, AllBut
  <2> QED BY <2>1, <2>2
<1>16. ColumnsFollow(r.cols, e, N) BY <1>1, <1>6, <1>12, <1>15 DEF ColumnsFollow
<1>17. InOrder(l, d) => InOrder(r.cols, e) BY <1>6, <1>7, <1>15 DEF InOrder
<1> QED BY <1>6, <1>7, <1>16, <1>17

\* Statements on indexes and foreign keys leave definitions and order alone.
LEMMA ColumnsKept ==
  ASSUME NEW l, NEW d, NEW M, ColumnsFollow(l, d, M), NEW r, Sound(r, ColumnItems, ColumnNames),
         LiveNames(r) = LiveNames(l), r.id = l.id, NEW e, IsDb(e), e.cols = d.cols,
         \A m \in LiveNames(l) : ColDef(Node(r, m)) = ColDef(Node(l, m))
  PROVE  ColumnsFollow(r, e, M) /\ (InOrder(l, d) => InOrder(r, e))
<1>1. /\ \A m : PlaceOf(e, m) = PlaceOf(d, m) /\ DbColumn(e, m) = DbColumn(d, m)
      /\ ColumnNamesOf(e) = ColumnNamesOf(d)
  BY DEF PlaceOf, ColumnNamesOf, DbColumn
<1>2. \A m \in LiveNames(l) : OptionsOf(Node(r, m).attr) = OptionsOf(Node(l, m).attr)
  BY DEF ColDef
<1> QED BY <1>1, <1>2 DEF ColumnsFollow, InOrder

\* ADD FOREIGN KEY marks its column and leaves everything else of the columns alone.
LEMMA ColumnsMarked ==
  ASSUME NEW t, NEW d, NEW M, IsTable(t), Sound(t.fks, FkItems, FkNames),
         ColumnsFollow(t.cols, d, M), NEW fk \in FkItems, IsLive(fk.action),
         NEW e, IsDb(e), e.cols = d.cols, NEW r, r = AddForeignKey(t, fk)
  PROVE  ColumnsFollow(r.cols, e, M) /\ (InOrder(t.cols, d) => InOrder(r.cols, e))
<1>1. Sound(t.cols, ColumnItems, ColumnNames) BY DEF ColumnsFollow
<1>2. r.cols = MarkReferenced(t.cols, fk.column) BY DEF AddForeignKey, IsTable
<1>3. /\ r.cols.id = t.cols.id /\ LiveNames(r.cols) = LiveNames(t.cols)
      /\ Sound(r.cols, ColumnItems, ColumnNames)
  BY <1>1, AddForeignKeySound
<1>4. \A m \in LiveNames(t.cols) : ColDef(Node(r.cols, m)) = ColDef(Node(t.cols, m))
  BY <1>1, <1>2, MarkedNodes, LiveByName
<1> QED BY <1>3, <1>4, ColumnsKept

----------------------------------------------------------------------------
(* The inductive invariants of the columns: each column the parser believes   *)
(* in has the database's definition, and the columns stand in the slice in    *)
(* the database's order.  The first needs that a MODIFY COLUMN sheds no       *)
(* option, the second that no name comes back: a dropped column's node keeps  *)
(* its old place in the slice, and a new definition of the name gets it.      *)
ColsInv ==
  \A n \in LiveNames(table.cols) : DbColumn(db, n) = ColDef(Node(table.cols, n))

OrderInv == InOrder(table.cols, db)

\* They say that the columns follow the database's, none being read halfway.
LEMMA ColsInvFollows ==
  /\ ColumnsInv /\ ColsInv => ColumnsFollow(table.cols, db, {})
  /\ ColumnsFollow(table.cols, db, {}) => ColsInv
<1>1. \A n : ColDef(Node(table.cols, n)).opts = OptionsOf(Node(table.cols, n).attr) BY DEF ColDef
<1> QED BY <1>1 DEF ColumnsInv, ColsInv, ColumnsFollow

\* And so they do after every statement.
LEMMA ColsInvStep ==
  ASSUME ColumnsFollow(table'.cols, db', {}), OrderInv => InOrder(table'.cols, db')
  PROVE  ColsInv' /\ (OrderInv => OrderInv')
<1>1. ColsInv'
  <2>1. ColsInv' <=> \A n \in LiveNames(table'.cols) : DbColumn(db', n) = ColDef(Node(table'.cols, n))
    BY DEF ColsInv
  <2> QED BY <2>1 DEF ColumnsFollow
<1>2. OrderInv' <=> InOrder(table'.cols, db') BY DEF OrderInv
<1> QED BY <1>1, <1>2

\* The step of each statement.
LEMMA AddColumnAgrees ==
  ASSUME ColumnsInv, ColsInv, Reuse # "any",
         NEW n \in ColumnNames, NEW type \in Types, NEW opts \in OptionLists,
         NEW pos \in AddPositions, AddColumnStatement(n, type, opts, pos)
  PROVE  ColsInv' /\ (Reuse = "never" /\ OrderInv => OrderInv')
<1> DEFINE stm == [op |-> "addColumn", col |-> n, type |-> type, opts |-> opts, pos |-> pos]
           col == Column(n, "add", [type |-> type, opts |-> opts])
           u == IF pos = NoPosition THEN table ELSE [table EXCEPT !.pos = pos]
<1>1. /\ n \in used => Reuse = "last" /\ pos.tp \in {"nil", "none"}
      /\ Legal(db, stm) /\ db' = Exec(db, stm) /\ table' = ReadStatement(table, stm)
  BY DEF AddColumnStatement, Statement
<1>2. /\ n \notin ColumnNamesOf(db)
      /\ pos.tp = "after" => pos.rel \in ColumnNamesOf(db)
  BY <1>1 DEF Legal, KeyDrops
<1>3. /\ Sound(table.cols, ColumnItems, ColumnNames) /\ IsDb(db)
      /\ LiveNames(table.cols) = ColumnNamesOf(db) /\ DOMAIN table.cols.id \subseteq used
  BY DEF ColumnsInv
<1>4. table' = AddColumn(u, col) BY <1>1 DEF ReadStatement, ReadAdd
<1>5. col \in ColumnItems /\ col.name = n /\ IsLive(col.action)
  BY AttrTyped, ColumnTyped
<1>6. IsTable(u) /\ u.pos = pos /\ u.cols = table.cols
  BY DEF ColumnsInv, IsTable
<1>7. ColumnsFollow(u.cols, db, {}) BY <1>6, ColsInvFollows
<1> HIDE DEF u
<1>8. CASE n \notin DOMAIN table.cols.id
  <2>1. SamePlace(u.pos, pos) BY <1>6 DEF SamePlace
  <2>2. /\ ColumnsFollow(table'.cols, db', {})
        /\ InOrder(u.cols, db) => InOrder(table'.cols, db')
    BY <1>1, <1>2, <1>4, <1>6, <1>7, <1>8, <2>1, ColumnAdded
  <2> QED BY <2>2, <1>6, ColsInvStep DEF OrderInv
<1>9. CASE n \in DOMAIN table.cols.id
  <2>1. Reuse = "last" /\ u.pos.tp \in {"nil", "none"} BY <1>9, <1>1, <1>3, <1>6
  <2>2. n \notin LiveNames(table.cols) BY <1>2, <1>3
  <2>3. /\ ColumnPut(db', db, n, DbPlaceFor(db, pos))
        /\ DbColumn(db', n) = [name |-> n, type |-> type, opts |-> {opts[i] : i \in DOMAIN opts}]
    BY <1>1, <1>2, <1>3, AddColumnPlaces
  <2>4. ColDef(col) = DbColumn(db', n)
    <3>1. ColDef(col) = [name |-> n, type |-> type, opts |-> {opts[i] : i \in DOMAIN opts}]
      <4> HIDE DEF col
      <4> QED BY ReadColumn, ZenonT(30) DEF col
    <3> QED BY <2>3, <3>1
  <2> HIDE DEF col
  <2>5. LiveNames(table'.cols) = LiveNames(table.cols) \cup {n}
    BY <2>1, <1>3, <1>4, <1>5, <1>6, <1>9, AddKnownColumn
  <2>6. /\ Node(table'.cols, n) = AddedTo(Node(table.cols, n), col)
        /\ \A m \in DOMAIN table.cols.id \ {n} : Node(table'.cols, m) = Node(table.cols, m)
    BY <2>1, <1>3, <1>4, <1>5, <1>6, <1>9, AddKnownNodes
  <2>7. ~IsLive(Node(table.cols, n).action) BY <2>2, <1>3, <1>9, LiveByName
  <2>8. Node(table'.cols, n) = col BY <2>6, <2>7 DEF AddedTo, IsLive
  <2>9. ColsInv'
    <3> SUFFICES ASSUME NEW m \in LiveNames(table'.cols)
                 PROVE  DbColumn(db', m) = ColDef(Node(table'.cols, m))
      BY DEF ColsInv
    <3>1. CASE m = n BY <3>1, <2>4, <2>8
    <3>2. CASE m # n
      <4>1. m \in LiveNames(table.cols) BY <3>2, <2>5
      <4> QED BY <3>2, <4>1, <2>3, <2>6, <1>3, LiveByName DEF ColsInv, ColumnPut
    <3> QED BY <3>1, <3>2
  <2> QED BY <2>1, <2>9
<1> QED BY <1>8, <1>9

LEMMA DropColumnAgrees ==
  ASSUME ColumnsInv, ColsInv, NEW n \in ColumnNames, DropColumnStatement(n)
  PROVE  ColsInv' /\ (OrderInv => OrderInv')
<1>1. /\ db' = Exec(db, [op |-> "dropColumn", col |-> n]) /\ table' = RemoveColumn(table, n)
      /\ n \in ColumnNamesOf(db)
  BY DEF DropColumnStatement, Statement, ReadStatement, Legal, KeyDrops
<1>2. ColumnsFollow(table.cols, db, {}) /\ IsTable(table) BY ColsInvFollows DEF ColumnsInv
<1>3. /\ ColumnsFollow(table'.cols, db', {})
      /\ InOrder(table.cols, db) => InOrder(table'.cols, db')
  BY <1>1, <1>2, ColumnDropped
<1> QED BY <1>3, ColsInvStep DEF OrderInv

LEMMA RenameColumnAgrees ==
  ASSUME ColumnsInv, ColsInv, NEW n \in ColumnNames, NEW to \in ColumnNames,
         RenameColumnStatement(n, to)
  PROVE  ColsInv' /\ (OrderInv => OrderInv')
<1>1. /\ db' = Exec(db, [op |-> "renameColumn", col |-> n, to |-> to])
      /\ table' = RenameColumn(table, n, to)
      /\ n \in ColumnNamesOf(db) /\ to \notin ColumnNamesOf(db)
  BY DEF RenameColumnStatement, Statement, ReadStatement, Legal, KeyDrops
<1>2. ColumnsFollow(table.cols, db, {}) /\ IsTable(table) BY ColsInvFollows DEF ColumnsInv
<1>3. /\ ColumnsFollow(table'.cols, db', {})
      /\ InOrder(table.cols, db) => InOrder(table'.cols, db')
  BY <1>1, <1>2, ColumnRenamed
<1> QED BY <1>3, ColsInvStep DEF OrderInv

\* MODIFY COLUMN: a node added before is merged twice, any other is overwritten
\* twice, and the options are the statement's either way.
LEMMA ModifyColumnAgrees ==
  ASSUME ColumnsInv, ColsInv, ~ShedsOptions,
         NEW n \in ColumnNames, NEW type \in Types, NEW opts \in OptionLists,
         ModifyColumnStatement(n, type, opts)
  PROVE  ColsInv' /\ (OrderInv => OrderInv')
<1> DEFINE first == Column(n, "modify", [type |-> type, opts |-> <<>>])
           col == Column(n, "add", [type |-> type, opts |-> opts])
           u == AddColumn(table, first)
<1>1. /\ db' = Exec(db, [op |-> "modifyColumn", col |-> n, type |-> type, opts |-> opts])
      /\ table' = AddColumn(u, col) /\ n \in ColumnNamesOf(db)
  BY DEF ModifyColumnStatement, Statement, ReadStatement, ReadModify, Legal, KeyDrops
<1>2. /\ ColumnsFollow(table.cols, db, {}) /\ IsTable(table)
      /\ table.pos = NoPosition /\ table.pos.tp \in {"nil", "none"}
      /\ Sound(table.cols, ColumnItems, ColumnNames) /\ LiveNames(table.cols) = ColumnNamesOf(db)
  BY ColsInvFollows DEF ColumnsInv, NoPosition
<1>3. first \in ColumnItems /\ first.name = n /\ IsLive(first.action)
  BY AttrTyped, ColumnTyped
<1>4. /\ ColumnsFollow(u.cols, db, {n})
      /\ InOrder(table.cols, db) => InOrder(u.cols, db)
  <2> DEFINE none == {}
  <2> HIDE DEF u, none
  <2>1. u = Retyped(table, n, type) BY DEF u, Retyped
  <2>2. ColumnsFollow(table.cols, db, none) BY <1>2 DEF none
  <2>3. n \in ColumnNamesOf(db) BY <1>1
  <2>4. /\ ColumnsFollow(u.cols, db, none \cup {n})
        /\ InOrder(table.cols, db) => InOrder(u.cols, db)
    <3>1. IsTable(table) /\ table.pos.tp \in {"nil", "none"} BY <1>2
    <3> QED BY <2>1, <2>2, <2>3, <3>1, ColumnEntered
  <2>5. none \cup {n} = {n} BY DEF none
  <2> QED BY <2>4, <2>5
<1> HIDE DEF first
<1>5. IsTable(u) /\ u.pos.tp \in {"nil", "none"}
  <2>1. n \in DOMAIN table.cols.id BY <1>1, <1>2, LiveByName
  <2>2. OnlyColumns(u, table) /\ u.pos = NoPosition BY <2>1, <1>2, <1>3, AddKnownColumn
  <2> QED BY <2>2 DEF OnlyColumns, NoPosition
<1>6. Repeats(db, n, opts)
  <2>1. PlaceOf(db, n) \in DOMAIN db.cols /\ db.cols[PlaceOf(db, n)].name = n
    BY <1>1, <1>2, PlaceOfName DEF ColumnsFollow, IsDb
  <2>2. db.cols[PlaceOf(db, n)].opts \subseteq {opts[k] : k \in DOMAIN opts}
    BY <2>1 DEF ModifyColumnStatement
  <2> QED BY <2>2 DEF Repeats, DbColumn, Range
<1> HIDE DEF u
<1>7. /\ ColumnsFollow(table'.cols, db', {})
      /\ InOrder(u.cols, db) => InOrder(table'.cols, db')
  <2>1. db' = DbRedefined(db, n, type, opts) /\ table' = DefinedAgain(u, n, type, opts)
    BY <1>1 DEF DbRedefined, DefinedAgain
  <2> DEFINE halfway == {n}
             none == {}
  <2>2. AllBut(halfway, n, none) BY DEF AllBut
  <2>3. ColumnsFollow(u.cols, db, halfway) BY <1>4
  <2> DEFINE e == db'
             r == table'
  <2>4. e = DbRedefined(db, n, type, opts) /\ r = DefinedAgain(u, n, type, opts) BY <2>1
  <2> HIDE DEF halfway, none, e, r
  <2>5. IsTable(u) /\ u.pos.tp \in {"nil", "none"} /\ n \in ColumnNamesOf(db) BY <1>1, <1>5
  <2>6. /\ ColumnsFollow(r.cols, e, none)
        /\ InOrder(u.cols, db) => InOrder(r.cols, e)
    BY <2>2, <2>3, <2>4, <2>5, <1>6, ColumnDefined
  <2> QED BY <2>6 DEF none, e, r
<1> QED BY <1>4, <1>7, ColsInvStep DEF OrderInv

\* Statements on indexes and foreign keys.
LEMMA KeyStatementAgrees ==
  ASSUME ColsInv, LiveNames(table'.cols) = LiveNames(table.cols),
         table'.cols.id = table.cols.id, db'.cols = db.cols,
         \A m \in LiveNames(table.cols) :
           ColDef(Node(table'.cols, m)) = ColDef(Node(table.cols, m))
  PROVE  ColsInv' /\ (OrderInv => OrderInv')
<1>1. \A m : PlaceOf(db', m) = PlaceOf(db, m) /\ DbColumn(db', m) = DbColumn(db, m)
  BY DEF PlaceOf, ColumnNamesOf, DbColumn
<1> QED BY <1>1 DEF ColsInv, OrderInv, InOrder

LEMMA AddForeignKeyAgrees ==
  ASSUME ColumnsInv, ColsInv,
         NEW f \in FkNames, NEW n \in ColumnNames, NEW ref \in References,
         AddForeignKeyStatement(f, n, ref)
  PROVE  ColsInv' /\ (OrderInv => OrderInv')
<1> DEFINE fk == ForeignKey(f, "add", n, ref)
<1>1. table' = AddForeignKey(table, fk) /\ db'.cols = db.cols /\ IsDb(db')
  BY KeysExec DEF AddForeignKeyStatement, Statement, ReadStatement, Exec, KeyDrops, ColumnsInv, IsDb
<1>2. fk \in FkItems /\ IsLive(fk.action)
  BY DEF ForeignKey, FkItems, Actions, IsLive
<1>3. ColumnsFollow(table.cols, db, {}) /\ IsTable(table) /\ Sound(table.fks, FkItems, FkNames)
  BY ColsInvFollows DEF ColumnsInv
<1> HIDE DEF fk
<1>4. /\ ColumnsFollow(table'.cols, db', {})
      /\ InOrder(table.cols, db) => InOrder(table'.cols, db')
  BY <1>1, <1>2, <1>3, ColumnsMarked
<1> QED BY <1>4, ColsInvStep DEF OrderInv

\* CREATE TABLE makes one column, the parser's and the database's.
LEMMA ColsInit == Init => ColsInv /\ OrderInv
<1> SUFFICES ASSUME NEW n \in ColumnNames, NEW type \in Types, NEW opts \in OptionLists,
                    Create(n, [type |-> type, opts |-> opts])
             PROVE  ColsInv /\ OrderInv
  BY DEF Init
<1> DEFINE t == NewTable(Own)
           col == Column(n, "add", [type |-> type, opts |-> opts])
           shown == {opts[i] : i \in DOMAIN opts}
           new == [name |-> n, type |-> type, opts |-> shown]
<1>1. table = AddColumn(t, col) /\ db = [EmptyDbTable EXCEPT !.cols = <<new>>] BY DEF Create
<1>2. Create(n, [type |-> type, opts |-> opts]) => Init BY DEF Init
<1>3. ColumnsInv BY <1>2, InitInv
<1>4. IsTable(t) /\ t.cols = EmptyList /\ t.pos = NoPosition
  BY DEF NewTable, NewTableWithAction, IsTable
<1>5. col \in ColumnItems /\ col.name = n /\ IsLive(col.action) BY AttrTyped, ColumnTyped
<1>6. ColDef(col) = new
  <2>1. ColDef(col) = [name |-> n, type |-> type, opts |-> Range(opts)] BY ReadColumn
  <2>2. shown = Range(opts) BY DEF Range
  <2> HIDE DEF shown, col
  <2> QED BY <2>1, <2>2
<1>7. db.cols = <<new>> /\ new.name = n BY <1>1 DEF EmptyDbTable
<1> HIDE DEF t, col, new
<1>8. LiveNames(table.cols) = {n}
  <2>1. ColumnNamesOf(db) = {n} BY <1>7 DEF ColumnNamesOf
  <2> QED BY <2>1, <1>3 DEF ColumnsInv
<1>9. DbColumn(db, n) = new
  <2>1. IsDb(db) /\ 1 \in 1 .. Len(db.cols) /\ db.cols[1] = new BY <1>3, <1>7 DEF ColumnsInv
  <2>2. PlaceOf(db, n) = 1 BY <2>1, <1>7, PlaceIs
  <2> QED BY <2>1, <2>2 DEF DbColumn
<1>10. Node(table.cols, n) = col
  <2> DEFINE grown == AppendItem(t.cols, col)
  <2>1. Sound(t.cols, ColumnItems, ColumnNames) /\ n \notin DOMAIN t.cols.id
    BY <1>4, EmptyListSound DEF EmptyList
  <2>2. t.pos.tp # "after" BY <1>4 DEF NoPosition
  <2>3. /\ PutAt(table.cols, grown, n, PlaceFor(t.cols, t.pos, Len(t.cols.items) + 1))
        /\ DOMAIN table.cols.id = DOMAIN t.cols.id \cup {n}
    BY <2>1, <2>2, <1>1, <1>4, <1>5, AddNewColumn
  <2>4. grown.id[n] = 1 /\ grown.items[1] = col
    BY <1>4, <1>5 DEF AppendItem, Point, EmptyList
  <2> HIDE DEF grown
  <2> QED BY <2>3, <2>4 DEF PutAt, Node
<1>11. ColsInv BY <1>6, <1>8, <1>9, <1>10 DEF ColsInv
<1>12. OrderInv
  <2>1. table.cols.id[n] \in Nat
    BY <1>3, <1>8, LiveByName DEF ColumnsInv, Sound, IsList
  <2> QED BY <2>1, <1>8 DEF OrderInv, InOrder
<1> QED BY <1>11, <1>12

\* Every statement preserves both.
ShapeInv == ColsInv /\ (Reuse = "never" => OrderInv)

LEMMA ShapeInvStep ==
  ASSUME ColumnsInv, ShapeInv, [Next]_vars, Reuse # "any", ~ShedsOptions
  PROVE  ShapeInv'
<1>5. ASSUME ColsInv', Reuse = "never" /\ OrderInv => OrderInv' PROVE ShapeInv'
  BY <1>5 DEF ShapeInv
<1>6. ColsInv BY DEF ShapeInv
<1>1. ASSUME table'.cols = table.cols, db'.cols = db.cols PROVE ShapeInv'
  BY <1>5, <1>6, <1>1, KeyStatementAgrees
<1>2. CASE UNCHANGED vars BY <1>1, <1>2 DEF vars
<1>3. ASSUME NEW idxs, NEW dbIdxs, table' = [table EXCEPT !.idxs = idxs],
             db' = [db EXCEPT !.idxs = dbIdxs]
      PROVE  ShapeInv'
  BY <1>1, <1>3 DEF ColumnsInv, IsTable, IsDb
<1>4. CASE Next
  <2>1. ASSUME NEW n \in ColumnNames, NEW type \in Types, NEW opts \in OptionLists,
               NEW pos \in AddPositions, AddColumnStatement(n, type, opts, pos)
        PROVE  ShapeInv'
    BY <2>1, <1>5, <1>6, AddColumnAgrees
  <2>2. ASSUME NEW n \in ColumnNames, DropColumnStatement(n) PROVE ShapeInv'
    BY <2>2, <1>5, <1>6, DropColumnAgrees
  <2>3. ASSUME NEW n \in ColumnNames, NEW to \in ColumnNames, RenameColumnStatement(n, to)
        PROVE  ShapeInv'
    BY <2>3, <1>5, <1>6, RenameColumnAgrees
  <2>4. ASSUME NEW n \in ColumnNames, NEW type \in Types, NEW opts \in OptionLists,
               ModifyColumnStatement(n, type, opts)
        PROVE  ShapeInv'
    BY <2>4, <1>5, <1>6, ModifyColumnAgrees
  <2>5. ASSUME NEW i \in IndexNames, NEW typ \in IndexTypes, NEW n \in ColumnNames,
               CreateIndexStatement(i, typ, <<n>>)
        PROVE  ShapeInv'
    <3> DEFINE idxs == PutItem(table.idxs, Index(i, "add", typ, <<n>>))
               dbIdxs == With(db.idxs, i, [typ |-> typ, columns |-> <<n>>])
    <3>1. table' = [table EXCEPT !.idxs = idxs] /\ db' = [db EXCEPT !.idxs = dbIdxs]
      BY <2>5 DEF CreateIndexStatement, Statement, Exec, KeyDrops, ReadStatement, AddIndex
    <3> HIDE DEF idxs, dbIdxs
    <3> QED BY <1>3, <3>1
  <2>6. ASSUME NEW i \in IndexNames, DropIndexStatement(i) PROVE ShapeInv'
    <3> DEFINE idxs == RemoveItem(table.idxs, i, Index(i, "remove", "none", <<>>))
               dbIdxs == Without(db.idxs, {i})
    <3>1. table' = [table EXCEPT !.idxs = idxs] /\ db' = [db EXCEPT !.idxs = dbIdxs]
      BY <2>6 DEF DropIndexStatement, Statement, Exec, KeyDrops, ReadStatement, RemoveIndex
    <3> HIDE DEF idxs, dbIdxs
    <3> QED BY <1>3, <3>1
  <2>7. ASSUME NEW i \in IndexNames, NEW to \in IndexNames, RenameIndexStatement(i, to)
        PROVE  ShapeInv'
    <3> DEFINE idxs == RenameItem(table.idxs, i, to, "rename")
               dbIdxs == Without(With(db.idxs, to, db.idxs[i]), {i})
    <3>1. table' = [table EXCEPT !.idxs = idxs] /\ db' = [db EXCEPT !.idxs = dbIdxs]
      BY <2>7 DEF RenameIndexStatement, Statement, Exec, KeyDrops, ReadStatement, RenameIndex
    <3> HIDE DEF idxs, dbIdxs
    <3> QED BY <1>3, <3>1
  <2>8. ASSUME NEW f \in FkNames, NEW n \in ColumnNames, NEW ref \in References,
               AddForeignKeyStatement(f, n, ref)
        PROVE  ShapeInv'
    BY <2>8, <1>5, <1>6, AddForeignKeyAgrees
  <2>9. ASSUME NEW f \in FkNames, DropForeignKeyStatement(f) \/ DropConstraintStatement(f)
        PROVE  ShapeInv'
    BY <1>1, <2>9, DropForeignKeyStep, DropConstraintStep
  <2> QED BY <1>4, <2>1, <2>2, <2>3, <2>4, <2>5, <2>6, <2>7, <2>8, <2>9 DEF Next
<1> QED BY <1>2, <1>4

\* The definitions as View shows them, one for each live node.
LEMMA ViewColumns ==
  ASSUME NEW t
  PROVE  /\ Len(View(t).cols) = Len(LiveItems(t.cols))
         /\ DOMAIN View(t).cols = 1 .. Len(LiveItems(t.cols))
         /\ \A i \in 1 .. Len(LiveItems(t.cols)) :
              View(t).cols[i] = ColDef(LiveItems(t.cols)[i])
<1> DEFINE s == LiveItems(t.cols)
           r == [i \in 1 .. Len(s) |-> ColDef(s[i])]
<1>1. View(t).cols = r BY DEF View, ColDef
<1> QED BY <1>1

\* The parser's live columns are the database's columns.
LEMMA SetFromInv == ColumnsInv /\ ColsInv => ColumnSetAgrees
<1> SUFFICES ASSUME ColumnsInv, ColsInv PROVE ColumnSetAgrees OBVIOUS
<1> DEFINE l == table.cols
           s == LiveItems(l)
           believed == View(table).cols
<1>1. Sound(l, ColumnItems, ColumnNames) /\ IsDb(db) /\ LiveNames(l) = ColumnNamesOf(db)
  BY DEF ColumnsInv
<1>2. {s[k] : k \in 1 .. Len(s)} = {l.items[i] : i \in LivePlaces(l)}
  <2>1. l.items \in Seq(ColumnItems) BY <1>1 DEF Sound, IsList
  <2> HIDE DEF l
  <2>2. HoldsLive(ColumnItems, l, s, Len(l.items)) BY <2>1, LiveItemsAre
  <2> HIDE DEF s
  <2>3. {j \in LivePlaces(l) : j <= Len(l.items)} = LivePlaces(l) BY DEF LivePlaces
  <2> QED BY <2>2, <2>3 DEF HoldsLive
<1>3. DOMAIN believed = 1 .. Len(s) /\ \A k \in 1 .. Len(s) : believed[k] = ColDef(s[k])
  BY ViewColumns
<1>4. DOMAIN db.cols = 1 .. Len(db.cols) BY <1>1 DEF IsDb
<1> HIDE DEF s, believed
<1>5. ASSUME NEW k \in DOMAIN believed PROVE \E i \in DOMAIN db.cols : db.cols[i] = believed[k]
  <2>1. PICK j \in LivePlaces(l) : l.items[j] = s[k] BY <1>2, <1>3, <1>5
  <2>2. l.items[j].name \in LiveNames(l) /\ Node(l, l.items[j].name) = l.items[j]
    BY <1>1, LiveByName DEF Node
  <2>3. believed[k] = DbColumn(db, l.items[j].name) BY <1>3, <1>5, <2>1, <2>2 DEF ColsInv
  <2>4. PlaceOf(db, l.items[j].name) \in DOMAIN db.cols BY <2>2, <1>1, <1>4, PlaceOfName
  <2> QED BY <2>3, <2>4 DEF DbColumn
<1>6. ASSUME NEW i \in DOMAIN db.cols PROVE \E k \in DOMAIN believed : believed[k] = db.cols[i]
  <2> DEFINE m == db.cols[i].name
  <2>1. m \in LiveNames(l) BY <1>1, <1>4, <1>6 DEF ColumnNamesOf
  <2>2. PlaceOf(db, m) = i BY <1>1, <1>4, <1>6, PlaceIs
  <2> HIDE DEF m
  <2>3. db.cols[i] = ColDef(Node(l, m)) BY <2>1, <2>2 DEF ColsInv, DbColumn
  <2>4. l.id[m] \in LivePlaces(l) BY <2>1, <1>1, LiveByName
  <2>5. \E k \in 1 .. Len(s) : s[k] = Node(l, m) BY <2>4, <1>2 DEF Node
  <2> QED BY <2>3, <2>5, <1>3
<1>7. {believed[k] : k \in DOMAIN believed} = {db.cols[i] : i \in DOMAIN db.cols}
  BY <1>5, <1>6
<1> QED BY <1>7 DEF ColumnSetAgrees, believed

\* Columns that follow the database's in its order are shown as the database has them.
LEMMA ViewInOrder ==
  ASSUME NEW t, NEW d, ColumnsFollow(t.cols, d, {}), InOrder(t.cols, d)
  PROVE  View(t).cols = d.cols
<1> DEFINE l == t.cols
           s == LiveItems(l)
           m == Len(d.cols)
           p == [i \in LivePlaces(l) |-> PlaceOf(d, l.items[i].name)]
           believed == View(t).cols
<1>1. /\ Sound(l, ColumnItems, ColumnNames) /\ IsDb(d) /\ LiveNames(l) = ColumnNamesOf(d)
      /\ \A n \in LiveNames(l) : ColDef(Node(l, n)) = DbColumn(d, n)
  BY DEF ColumnsFollow
<1>2. l.items \in Seq(ColumnItems) /\ d.cols \in Seq(DbColumns) /\ m \in Nat
  BY <1>1 DEF Sound, IsList, IsDb
<1>3. \A i \in LivePlaces(l) : /\ l.items[i].name \in LiveNames(l)
                               /\ l.id[l.items[i].name] = i
                               /\ Node(l, l.items[i].name) = l.items[i]
  BY <1>1, LiveByName DEF Node
<1>4. p \in [LivePlaces(l) -> 1 .. m] BY <1>1, <1>3, PlaceOfName
<1>5. \A i, j \in LivePlaces(l) : i < j => p[i] < p[j]
  BY <1>3 DEF InOrder
<1>6. \A k \in 1 .. m : \E i \in LivePlaces(l) : p[i] = k
  <2> SUFFICES ASSUME NEW k \in 1 .. m PROVE \E i \in LivePlaces(l) : p[i] = k OBVIOUS
  <2> DEFINE n == d.cols[k].name
  <2>1. n \in LiveNames(l) BY <1>1 DEF ColumnNamesOf
  <2>2. PlaceOf(d, n) = k BY <1>1, PlaceIs
  <2> HIDE DEF n
  <2>3. l.id[n] \in LivePlaces(l) /\ l.items[l.id[n]].name = n
    BY <2>1, <1>1, LiveByName DEF Node
  <2> QED BY <2>2, <2>3
<1> HIDE DEF p
<1>7. Len(s) = m /\ \A i \in LivePlaces(l) : s[p[i]] = l.items[i]
  <2>1. Numbering(l, m, p) BY <1>4, <1>5, <1>6 DEF Numbering
  <2> HIDE DEF l, m
  <2>2. IsNumbered(l, m, p, LiveItems(l)) BY <1>2, <2>1, LiveItemsInOrder
  <2> QED BY <2>2 DEF IsNumbered
<1>8. believed = [k \in 1 .. Len(s) |-> ColDef(s[k])]
  BY DEF View, ColDef
<1> HIDE DEF s, believed
<1>9. ASSUME NEW k \in 1 .. m PROVE believed[k] = d.cols[k]
  <2>1. PICK i \in LivePlaces(l) : p[i] = k BY <1>6
  <2>2. believed[k] = ColDef(l.items[i]) BY <1>7, <1>8, <2>1
  <2>3. ColDef(l.items[i]) = DbColumn(d, l.items[i].name) BY <1>1, <1>3
  <2>4. PlaceOf(d, l.items[i].name) = k BY <2>1 DEF p
  <2> QED BY <2>2, <2>3, <2>4 DEF DbColumn
<1>10. d.cols = [k \in 1 .. m |-> d.cols[k]] BY <1>2
<1>11. believed = [k \in 1 .. m |-> d.cols[k]] BY <1>7, <1>8, <1>9
<1> QED BY <1>10, <1>11 DEF believed

\* And in the same order.
LEMMA OrderFromInv == ColumnsInv /\ ColsInv /\ OrderInv => ColumnOrderAgrees
BY ColsInvFollows, ViewInOrder DEF OrderInv, ColumnOrderAgrees

\* The invariants of the columns, in every reachable state.
LEMMA ShapeInvariant ==
  ASSUME Reuse # "any", ~ShedsOptions PROVE Spec => [](ColumnsInv /\ ShapeInv)
<1>1. Init => ColumnsInv /\ ShapeInv BY InitInv, ColsInit DEF ShapeInv
<1>2. ColumnsInv /\ ShapeInv /\ [Next]_vars => ColumnsInv' /\ ShapeInv'
  BY ColumnsInvStep, ShapeInvStep
<1> QED BY <1>1, <1>2, PTL DEF Spec

\* Whatever statements the database accepted, the columns the parser believes in are
\* the database's, each with its type and its options (AddColumn, removeColumn,
\* RenameColumn and the two readings of a MODIFY COLUMN).
THEOREM ColumnsAreThose ==
  ASSUME Reuse # "any", ~ShedsOptions PROVE Spec => []ColumnSetAgrees
<1>1. ColumnsInv /\ ShapeInv => ColumnSetAgrees BY SetFromInv DEF ShapeInv
<1> QED BY <1>1, ShapeInvariant, PTL

\* The columns also stand in the database's order, however many dropped columns lie
\* between them in the slice that swapOrder rearranges (FIRST and AFTER).
THEOREM OrderIsThat ==
  ASSUME Reuse = "never", ~ShedsOptions PROVE Spec => []ColumnOrderAgrees
<1>1. ColumnsInv /\ ShapeInv => ColumnOrderAgrees BY OrderFromInv DEF ShapeInv
<1>2. Reuse # "any" OBVIOUS
<1> QED BY <1>1, <1>2, ShapeInvariant, PTL

----------------------------------------------------------------------------
(* Printing: as long as no name comes back, every node of the slice, dropped   *)
(* or not, is the one its name points to, so that the names in the order of    *)
(* the map are the nodes in theirs, and Arrange moves none.                   *)
AllFound(l) ==
  \A i \in 1 .. Len(l.items) : l.items[i].name \in DOMAIN l.id /\ l.id[l.items[i].name] = i

\* So it is when every place of the slice is some name's.
LEMMA FoundByPlace ==
  ASSUME NEW Items, NEW Names, NEW l, Sound(l, Items, Names),
         \A i \in 1 .. Len(l.items) : \E n \in DOMAIN l.id : l.id[n] = i
  PROVE  AllFound(l)
BY DEF Sound, Coherent, AllFound

\* Statements on known columns leave the map and the length of the slice.
LEMMA FoundAsBefore ==
  ASSUME NEW Items, NEW Names, NEW l, NEW r, AllFound(l), Sound(r, Items, Names),
         r.id = l.id, Len(r.items) = Len(l.items)
  PROVE  AllFound(r)
<1>1. \A i \in 1 .. Len(r.items) : \E n \in DOMAIN r.id : r.id[n] = i BY DEF AllFound
<1> QED BY <1>1, FoundByPlace

\* A column that is put among the others shifts those after it.
LEMMA FoundWhenPut ==
  ASSUME NEW Items, NEW Names, NEW l, Sound(l, Items, Names), AllFound(l),
         NEW col \in Items, col.name \notin DOMAIN l.id,
         NEW r, Sound(r, Items, Names), DOMAIN r.id = DOMAIN l.id \cup {col.name},
         NEW place \in 1 .. Len(l.items) + 1, PutAt(r, AppendItem(l, col), col.name, place)
  PROVE  AllFound(r)
<1> DEFINE grown == AppendItem(l, col)
<1>1. l.items \in Seq(Items) /\ Len(l.items) \in Nat BY DEF Sound, IsList
<1>2. /\ Len(grown.items) = Len(l.items) + 1
      /\ \A m \in DOMAIN l.id : grown.id[m] = l.id[m]
  BY <1>1 DEF AppendItem, Point
<1>3. Len(r.items) = Len(l.items) + 1 BY <1>2 DEF PutAt
<1>4. /\ r.id[col.name] = place
      /\ \A m \in DOMAIN l.id : r.id[m] = IF place <= l.id[m] THEN l.id[m] + 1 ELSE l.id[m]
  BY <1>2 DEF PutAt
<1>5. ASSUME NEW i \in 1 .. Len(r.items) PROVE \E n \in DOMAIN r.id : r.id[n] = i
  <2>1. CASE i = place BY <2>1, <1>4
  <2>2. CASE i < place
    <3>1. i \in 1 .. Len(l.items) BY <2>2, <1>1, <1>3
    <3>2. l.items[i].name \in DOMAIN l.id /\ l.id[l.items[i].name] = i BY <3>1 DEF AllFound
    <3>3. r.id[l.items[i].name] = i BY <2>2, <3>1, <3>2, <1>1, <1>4
    <3> QED BY <3>2, <3>3
  <2>3. CASE i > place
    <3> DEFINE j == i - 1
    <3>1. j \in 1 .. Len(l.items) /\ place <= j /\ j + 1 = i BY <2>3, <1>1, <1>3
    <3> HIDE DEF j
    <3>2. l.items[j].name \in DOMAIN l.id /\ l.id[l.items[j].name] = j BY <3>1 DEF AllFound
    <3>3. r.id[l.items[j].name] = i BY <3>1, <3>2, <1>4
    <3> QED BY <3>2, <3>3
  <2> QED BY <2>1, <2>2, <2>3, <1>1, <1>3
<1> QED BY <1>5, FoundByPlace

\* Every column node is the one its name points to.
FoundInv == AllFound(table.cols)

\* A place among n columns, or after them.
LEMMA PlaceInRange ==
  ASSUME NEW l, Sound(l, ColumnItems, ColumnNames), NEW pos
  PROVE  PlaceFor(l, pos, Len(l.items) + 1) \in 1 .. Len(l.items) + 1
<1>1. Len(l.items) \in Nat BY DEF Sound, IsList
<1>2. IdOf(l, pos.rel) \in 0 .. Len(l.items) BY <1>1 DEF IdOf, Sound, Coherent
<1> QED BY <1>1, <1>2 DEF PlaceFor

LEMMA FoundInit == Init => FoundInv
<1> SUFFICES ASSUME NEW n \in ColumnNames, NEW type \in Types, NEW opts \in OptionLists,
                    Create(n, [type |-> type, opts |-> opts])
             PROVE  FoundInv
  BY DEF Init
<1> DEFINE t == NewTable(Own)
           col == Column(n, "add", [type |-> type, opts |-> opts])
<1>1. table = AddColumn(t, col) BY DEF Create
<1>2. IsTable(t) /\ t.cols = EmptyList /\ t.pos = NoPosition
  BY DEF NewTable, NewTableWithAction, IsTable
<1>3. col \in ColumnItems /\ col.name = n /\ IsLive(col.action) BY AttrTyped, ColumnTyped
<1> HIDE DEF t, col
<1>4. Sound(t.cols, ColumnItems, ColumnNames) /\ n \notin DOMAIN t.cols.id /\ AllFound(t.cols)
  BY <1>2, EmptyListSound DEF EmptyList, AllFound
<1>5. t.pos.tp # "after" BY <1>2 DEF NoPosition
<1> DEFINE place == PlaceFor(t.cols, t.pos, Len(t.cols.items) + 1)
<1>6. /\ PutAt(table.cols, AppendItem(t.cols, col), n, place)
      /\ DOMAIN table.cols.id = DOMAIN t.cols.id \cup {n}
      /\ Sound(table.cols, ColumnItems, ColumnNames)
  BY <1>1, <1>2, <1>3, <1>4, <1>5, AddNewColumn
<1>7. place \in 1 .. Len(t.cols.items) + 1 BY <1>4, PlaceInRange
<1> HIDE DEF place
<1> QED BY <1>3, <1>4, <1>6, <1>7, FoundWhenPut DEF FoundInv

\* Every statement on columns leaves every node found.
LEMMA FoundWhenAdded ==
  ASSUME ColumnsInv, FoundInv, Reuse = "never",
         NEW n \in ColumnNames, NEW type \in Types, NEW opts \in OptionLists,
         NEW pos \in AddPositions, AddColumnStatement(n, type, opts, pos)
  PROVE  FoundInv'
<1> DEFINE stm == [op |-> "addColumn", col |-> n, type |-> type, opts |-> opts, pos |-> pos]
           col == Column(n, "add", [type |-> type, opts |-> opts])
           u == IF pos = NoPosition THEN table ELSE [table EXCEPT !.pos = pos]
<1>1. n \notin used /\ Legal(db, stm) /\ table' = ReadStatement(table, stm)
  BY DEF AddColumnStatement, Statement
<1>2. /\ n \notin ColumnNamesOf(db)
      /\ pos.tp = "after" => pos.rel \in ColumnNamesOf(db)
  BY <1>1 DEF Legal, KeyDrops
<1>3. Sound(table.cols, ColumnItems, ColumnNames) /\ n \notin DOMAIN table.cols.id
  BY <1>1 DEF ColumnsInv
<1>4. table' = AddColumn(u, col) BY <1>1 DEF ReadStatement, ReadAdd
<1>5. col \in ColumnItems /\ col.name = n /\ IsLive(col.action) BY AttrTyped, ColumnTyped
<1>6. IsTable(u) /\ u.pos = pos /\ u.cols = table.cols BY DEF ColumnsInv, IsTable
<1> HIDE DEF u, col
<1>7. u.pos.tp = "after" => u.pos.rel # n BY <1>2, <1>6
<1> DEFINE place == PlaceFor(table.cols, pos, Len(table.cols.items) + 1)
<1>8. /\ PutAt(table'.cols, AppendItem(table.cols, col), n, place)
      /\ DOMAIN table'.cols.id = DOMAIN table.cols.id \cup {n}
      /\ Sound(table'.cols, ColumnItems, ColumnNames)
  BY <1>3, <1>4, <1>5, <1>6, <1>7, AddNewColumn
<1>9. place \in 1 .. Len(table.cols.items) + 1 BY <1>3, PlaceInRange
<1> HIDE DEF place
<1> QED BY <1>3, <1>5, <1>8, <1>9, FoundWhenPut DEF FoundInv

LEMMA FoundWhenDropped ==
  ASSUME ColumnsInv, FoundInv, NEW n \in ColumnNames, DropColumnStatement(n)
  PROVE  FoundInv'
<1>1. n \in LiveNames(table.cols) /\ Sound(table.cols, ColumnItems, ColumnNames)
  BY DEF DropColumnStatement, Statement, Legal, KeyDrops, ColumnsInv
<1>2. table' = RemoveColumn(table, n) BY DEF DropColumnStatement, Statement, ReadStatement
<1> DEFINE cols == RemoveItem(table.cols, n, Column(n, "remove", NilAttr))
<1>3. table'.cols = cols
  <2>1. n \in DOMAIN table.cols.id /\ table.cols.id[n] \in 1 .. Len(table.cols.items)
    BY <1>1, LiveByName DEF LivePlaces
  <2>2. ~IsStale(table.cols, n)
    <3>1. Len(table.cols.items) \in Nat BY <1>1 DEF Sound, IsList
    <3> QED BY <2>1, <3>1 DEF IsStale, IdOf
  <2> QED BY <2>2, <1>2 DEF RemoveColumn, ColumnsInv, IsTable
<1>4. cols.id = table.cols.id /\ Len(cols.items) = Len(table.cols.items)
  BY <1>1, RemoveNodes
<1>5. Sound(table'.cols, ColumnItems, ColumnNames) BY DropColumnStep DEF ColumnsInv
<1> QED BY <1>3, <1>4, <1>5, FoundAsBefore DEF FoundInv

LEMMA FoundWhenRenamed ==
  ASSUME ColumnsInv, FoundInv, Reuse = "never", NEW n \in ColumnNames, NEW to \in ColumnNames,
         RenameColumnStatement(n, to)
  PROVE  FoundInv'
<1> DEFINE l == table.cols
<1>1. /\ Sound(l, ColumnItems, ColumnNames) /\ n \in LiveNames(l)
      /\ to \notin LiveNames(l) /\ to \notin DOMAIN l.id
  BY DEF RenameColumnStatement, Statement, Legal, KeyDrops, ColumnsInv
<1>2. table' = RenameColumn(table, n, to)
  BY DEF RenameColumnStatement, Statement, ReadStatement
<1>3. table'.cols = RenameItem(l, n, to, "rename")
  <2>1. n \in DOMAIN l.id /\ l.id[n] \in 1 .. Len(l.items) BY <1>1, LiveByName DEF LivePlaces
  <2>2. ~IsStale(l, n)
    <3>1. Len(l.items) \in Nat BY <1>1 DEF Sound, IsList
    <3> QED BY <2>1, <3>1 DEF IsStale, IdOf
  <2> QED BY <2>2, <1>2 DEF RenameColumn, ColumnsInv, IsTable
<1>4. /\ Len(table'.cols.items) = Len(l.items)
      /\ to \in DOMAIN table'.cols.id /\ table'.cols.id[to] = l.id[n]
      /\ \A m \in DOMAIN l.id \ {n, to} : m \in DOMAIN table'.cols.id /\ table'.cols.id[m] = l.id[m]
  BY <1>1, <1>3, RenameNodes
<1>5. Sound(table'.cols, ColumnItems, ColumnNames) BY RenameColumnStep DEF ColumnsInv
<1>6. ASSUME NEW i \in 1 .. Len(table'.cols.items)
      PROVE  \E m \in DOMAIN table'.cols.id : table'.cols.id[m] = i
  <2>1. l.items[i].name \in DOMAIN l.id /\ l.id[l.items[i].name] = i
    BY <1>4 DEF FoundInv, AllFound
  <2>2. CASE l.items[i].name = n BY <2>1, <2>2, <1>4
  <2>3. CASE l.items[i].name # n
    <3>1. l.items[i].name \in DOMAIN l.id \ {n, to} BY <2>1, <2>3, <1>1
    <3> QED BY <2>1, <3>1, <1>4
  <2> QED BY <2>2, <2>3
<1> QED BY <1>5, <1>6, FoundByPlace DEF FoundInv

LEMMA FoundWhenModified ==
  ASSUME ColumnsInv, FoundInv, NEW n \in ColumnNames, NEW type \in Types, NEW opts \in OptionLists,
         ModifyColumnStatement(n, type, opts)
  PROVE  FoundInv'
<1> DEFINE attr == [type |-> type, opts |-> opts]
           bare == [type |-> type, opts |-> <<>>]
           first == Column(n, "modify", bare)
           col == Column(n, "add", attr)
           u == AddColumn(table, first)
<1>1. table' = AddColumn(u, col)
  BY DEF ModifyColumnStatement, Statement, ReadStatement, ReadModify
<1>2. /\ IsTable(table) /\ table.pos = NoPosition
      /\ Sound(table.cols, ColumnItems, ColumnNames) /\ n \in LiveNames(table.cols)
  BY DEF ColumnsInv, ModifyColumnStatement, Statement, Legal, KeyDrops
<1>3. /\ first \in ColumnItems /\ first.name = n /\ IsLive(first.action)
      /\ col \in ColumnItems /\ col.name = n /\ IsLive(col.action)
  <2>1. attr \in Attrs /\ bare \in Attrs BY AttrTyped
  <2> HIDE DEF attr, bare
  <2> QED BY <2>1, ColumnTyped
<1> HIDE DEF first, col
<1>4. n \in DOMAIN table.cols.id BY <1>2, LiveByName
<1>5. /\ IsTable(u) /\ u.pos = NoPosition
      /\ Sound(u.cols, ColumnItems, ColumnNames)
  BY <1>2, <1>3, <1>4, AddKnownColumn DEF NoPosition, OnlyColumns
<1>6. u.cols.id = table.cols.id /\ Len(u.cols.items) = Len(table.cols.items)
  BY <1>2, <1>3, <1>4, AddKnownNodes DEF NoPosition
<1> HIDE DEF u
<1>7. table'.cols.id = u.cols.id /\ Len(table'.cols.items) = Len(u.cols.items)
  <2>1. u.pos.tp \in {"nil", "none"} /\ col.name \in DOMAIN u.cols.id
    BY <1>3, <1>4, <1>5, <1>6 DEF NoPosition
  <2> QED BY <2>1, <1>1, <1>3, <1>5, AddKnownNodes
<1>8. Sound(table'.cols, ColumnItems, ColumnNames) BY ModifyColumnStep DEF ColumnsInv
<1> QED BY <1>6, <1>7, <1>8, FoundAsBefore DEF FoundInv

LEMMA FoundWhenReferred ==
  ASSUME ColumnsInv, FoundInv, NEW f \in FkNames, NEW n \in ColumnNames, NEW ref \in References,
         AddForeignKeyStatement(f, n, ref)
  PROVE  FoundInv'
<1>1. table' = AddForeignKey(table, ForeignKey(f, "add", n, ref))
  BY DEF AddForeignKeyStatement, Statement, ReadStatement
<1>2. table'.cols = MarkReferenced(table.cols, n)
  BY <1>1 DEF AddForeignKey, ForeignKey, ColumnsInv, IsTable
<1>3. table.cols.items \in Seq(ColumnItems) BY DEF ColumnsInv, Sound, IsList
<1>4. table'.cols.id = table.cols.id /\ Len(table'.cols.items) = Len(table.cols.items)
  BY <1>2, <1>3 DEF MarkReferenced
<1>5. Sound(table'.cols, ColumnItems, ColumnNames) BY AddForeignKeyStep DEF ColumnsInv
<1> QED BY <1>4, <1>5, FoundAsBefore DEF FoundInv

LEMMA FoundInvStep ==
  ASSUME ColumnsInv, FoundInv, [Next]_vars, Reuse = "never"
  PROVE  FoundInv'
<1>1. ASSUME table'.cols = table.cols PROVE FoundInv' BY <1>1 DEF FoundInv
<1>2. CASE UNCHANGED vars BY <1>1, <1>2 DEF vars
<1>3. CASE Next
  <2>1. ASSUME NEW n \in ColumnNames, NEW type \in Types, NEW opts \in OptionLists,
               NEW pos \in AddPositions, AddColumnStatement(n, type, opts, pos)
        PROVE  FoundInv'
    BY <2>1, FoundWhenAdded
  <2>2. ASSUME NEW n \in ColumnNames, DropColumnStatement(n) PROVE FoundInv'
    BY <2>2, FoundWhenDropped
  <2>3. ASSUME NEW n \in ColumnNames, NEW to \in ColumnNames, RenameColumnStatement(n, to)
        PROVE  FoundInv'
    BY <2>3, FoundWhenRenamed
  <2>4. ASSUME NEW n \in ColumnNames, NEW type \in Types, NEW opts \in OptionLists,
               ModifyColumnStatement(n, type, opts)
        PROVE  FoundInv'
    BY <2>4, FoundWhenModified
  <2>5. ASSUME NEW i \in IndexNames, NEW typ \in IndexTypes, NEW n \in ColumnNames,
               CreateIndexStatement(i, typ, <<n>>)
        PROVE  FoundInv'
    BY <1>1, <2>5 DEF CreateIndexStatement, Statement, ReadStatement, AddIndex, ColumnsInv, IsTable
  <2>6. ASSUME NEW i \in IndexNames, DropIndexStatement(i) PROVE FoundInv'
    BY <1>1, <2>6 DEF DropIndexStatement, Statement, ReadStatement, RemoveIndex, ColumnsInv, IsTable
  <2>7. ASSUME NEW i \in IndexNames, NEW to \in IndexNames, RenameIndexStatement(i, to)
        PROVE  FoundInv'
    BY <1>1, <2>7 DEF RenameIndexStatement, Statement, ReadStatement, RenameIndex, ColumnsInv, IsTable
  <2>8. ASSUME NEW f \in FkNames, NEW n \in ColumnNames, NEW ref \in References,
               AddForeignKeyStatement(f, n, ref)
        PROVE  FoundInv'
    BY <2>8, FoundWhenReferred
  <2>9. ASSUME NEW f \in FkNames, DropForeignKeyStatement(f) \/ DropConstraintStatement(f)
        PROVE  FoundInv'
    BY <1>1, <2>9, DropForeignKeyStep, DropConstraintStep
  <2> QED BY <1>3, <2>1, <2>2, <2>3, <2>4, <2>5, <2>6, <2>7, <2>8, <2>9 DEF Next
<1> QED BY <1>2, <1>3

\* The names in the order of the map are those of the nodes.
LEMMA NamesInPlace ==
  ASSUME NEW Items, NEW Names, NEW l, Sound(l, Items, Names), AllFound(l)
  PROVE  NamesByPosition(l) = [i \in 1 .. Len(l.items) |-> l.items[i].name]
<1> DEFINE n == Len(l.items)
           D == DOMAIN l.id
           Below(m) == {k \in D : l.id[k] < l.id[m]}
           UpTo(m) == {k \in D : l.id[k] <= l.id[m]}
           f == [i \in 1 .. n |-> l.items[i].name]
<1>1. n \in Nat /\ \A m \in D : l.id[m] \in 1 .. n /\ l.items[l.id[m]].name = m
  BY DEF Sound, IsList, Coherent
<1>2. \A i \in 1 .. n : f[i] \in D /\ l.id[f[i]] = i BY DEF AllFound
<1>3. \A m \in D : f[l.id[m]] = m BY <1>1
<1> HIDE DEF f
<1>4. Cardinality(D) = n
  <2>1. f \in Bijection(1 .. n, D)
    <3>1. f \in [1 .. n -> D] BY <1>2 DEF f
    <3> QED BY <3>1, <1>1, <1>2, <1>3 DEF Bijection, Injection, Surjection, IsInjective
  <2>2. IsFiniteSet(1 .. n) /\ Cardinality(1 .. n) = n BY <1>1, FS_Interval
  <2> QED BY <2>1, <2>2, FS_Bijection DEF ExistsBijection
<1>5. ASSUME NEW m \in D
      PROVE  Cardinality(Below(m)) = l.id[m] - 1 /\ Cardinality(UpTo(m)) = l.id[m]
  <2> DEFINE k == l.id[m] - 1
             g == [i \in 1 .. k |-> f[i]]
  <2>1. k \in Nat /\ k < n /\ l.id[m] = k + 1 BY <1>1
  <2>2. \A i \in 1 .. k : i \in 1 .. n BY <1>1, <2>1
  <2>3. g \in Bijection(1 .. k, Below(m))
    <3>1. \A i \in 1 .. k : g[i] \in Below(m) /\ l.id[g[i]] = i
      BY <1>2, <2>1, <2>2
    <3>2. \A e \in Below(m) : l.id[e] \in 1 .. k /\ g[l.id[e]] = e BY <1>1, <1>3, <2>1
    <3>3. g \in [1 .. k -> Below(m)] BY <3>1
    <3> HIDE DEF g, k
    <3> QED BY <3>1, <3>2, <3>3 DEF Bijection, Injection, Surjection, IsInjective
  <2> HIDE DEF k, g
  <2>4. IsFiniteSet(1 .. k) /\ Cardinality(1 .. k) = k BY <2>1, FS_Interval
  <2>5. IsFiniteSet(Below(m)) /\ Cardinality(Below(m)) = k
    BY <2>3, <2>4, FS_Bijection DEF ExistsBijection
  <2>6. UpTo(m) = Below(m) \cup {m} /\ m \notin Below(m)
    <3>1. \A e \in D : l.id[e] = l.id[m] => e = m BY <1>1
    <3>2. \A e \in D : l.id[e] <= l.id[m] <=> l.id[e] < l.id[m] \/ l.id[e] = l.id[m] BY <1>1
    <3> QED BY <1>1, <3>1, <3>2
  <2> HIDE DEF Below, UpTo
  <2>7. Cardinality(UpTo(m)) = k + 1 BY <2>5, <2>6, FS_AddElement
  <2> QED BY <2>1, <2>5, <2>7 DEF k
<1>6. ASSUME NEW i \in 1 .. n
      PROVE  (CHOOSE m \in D : Cardinality(Below(m)) < i /\ i <= Cardinality(UpTo(m))) = f[i]
  <2>1. ASSUME NEW m \in D
        PROVE  Cardinality(Below(m)) < i /\ i <= Cardinality(UpTo(m)) <=> m = f[i]
    <3>1. Cardinality(Below(m)) = l.id[m] - 1 /\ Cardinality(UpTo(m)) = l.id[m] BY <1>5
    <3>2. l.id[m] \in 1 .. n /\ f[l.id[m]] = m /\ l.id[f[i]] = i BY <1>1, <1>2, <1>3
    <3> HIDE DEF Below, UpTo
    <3> QED BY <3>1, <3>2, <1>1
  <2>2. f[i] \in D BY <1>2
  <2> HIDE DEF Below, UpTo
  <2> QED BY <2>1, <2>2
<1>7. NamesByPosition(l)
        = [i \in 1 .. n |-> CHOOSE m \in D : Cardinality(Below(m)) < i /\ i <= Cardinality(UpTo(m))]
  BY <1>4 DEF NamesByPosition
<1>8. f = [i \in 1 .. n |-> f[i]] BY DEF f
<1> HIDE DEF Below, UpTo
<1>9. NamesByPosition(l) = f BY <1>6, <1>7, <1>8
<1> QED BY <1>9 DEF f

\* Arrange by its fold over the names.
SwapNamed(l, items, i) ==
  LET names == NamesByPosition(l)
      bearers == {j \in DOMAIN items : items[j].name = names[i]}
  IN  IF bearers = {} THEN items
      ELSE [items EXCEPT ![i] = items[Min(bearers)], ![Min(bearers)] = items[i]]
AreItems(l, items) == items = l.items
Arranging == INSTANCE Folding WITH Op <- SwapNamed, Holds <- AreItems

\* When every node is found, each name is that of the node in its place.
LEMMA ArrangeMovesNothing ==
  ASSUME NEW Items, NEW Names, NEW l, Sound(l, Items, Names), AllFound(l)
  PROVE  Arranged(l) = l.items /\ ~ArrangePanics(l)
<1> DEFINE n == Len(l.items)
           names == NamesByPosition(l)
           places == [i \in DOMAIN names |-> i]
<1>1. /\ n \in Nat /\ l.items \in Seq(Items) /\ DOMAIN l.items = 1 .. n
  BY DEF Sound, IsList
<1>2. names = [i \in 1 .. n |-> l.items[i].name] BY NamesInPlace
<1> HIDE DEF names
<1>3. places \in Seq(Nat) /\ DOMAIN places = 1 .. n /\ \A k \in 1 .. n : places[k] = k
  BY <1>1, <1>2
<1>4. ASSUME NEW i \in 1 .. n PROVE SwapNamed(l, l.items, i) = l.items
  <2> DEFINE bearers == {j \in DOMAIN l.items : l.items[j].name = names[i]}
  <2>1. \A j \in 1 .. n : l.items[j].name = l.items[i].name => j = i BY DEF AllFound
  <2>2. bearers = {i} BY <1>1, <1>2, <2>1
  <2>3. Min({i}) = i BY <1>1 DEF Min
  <2> HIDE DEF bearers
  <2>4. SwapNamed(l, l.items, i) = [l.items EXCEPT ![i] = l.items[i], ![i] = l.items[i]]
    BY <2>2, <2>3 DEF SwapNamed, bearers, names
  <2>5. [l.items EXCEPT ![i] = l.items[i], ![i] = l.items[i]] = l.items BY <1>1
  <2> QED BY <2>4, <2>5
<1>5. Arranging!Kept(l, places)
  <2>1. \A v : \A k \in DOMAIN places : AreItems(l, v) => AreItems(l, SwapNamed(l, v, places[k]))
    BY <1>3, <1>4 DEF AreItems
  <2> HIDE DEF places
  <2> QED BY <2>1 DEF Arranging!Kept
<1>6. AreItems(l, Arranging!Fold(l, l.items, places))
  <2>1. AreItems(l, l.items) BY DEF AreItems
  <2> HIDE DEF places
  <2> QED BY <1>3, <1>5, <2>1, Arranging!FoldKeeps
<1>7. Arranging!Fold(l, l.items, places) = Arranged(l)
  BY DEF Arranging!Fold, SwapNamed, FoldLeft, Arranged, FoldLeftDomain,
         Arranging!MapThenFoldSet, MapThenFoldSet, Arranging!GreatestIn, Max, names
<1>8. ~ArrangePanics(l)
  <2>1. DOMAIN NamesByPosition(l) = 1 .. n BY <1>2 DEF names
  <2> QED BY <2>1, <1>1 DEF ArrangePanics
<1> QED BY <1>6, <1>7, <1>8 DEF AreItems

\* Printing is harmless when every node is found.
LEMMA PrintingFromInv == ColumnsInv /\ FoundInv => PrintingIsHarmless
<1> SUFFICES ASSUME ColumnsInv, FoundInv PROVE Arrange(table) = table BY DEF PrintingIsHarmless
<1>1. Arranged(table.cols) = table.cols.items /\ ~ArrangePanics(table.cols)
  BY ArrangeMovesNothing DEF ColumnsInv, FoundInv
<1>2. table.cols = [items |-> table.cols.items, id |-> table.cols.id]
  BY DEF ColumnsInv, Sound, IsList
<1>3. [table EXCEPT !.cols.items = table.cols.items] = table BY <1>2 DEF ColumnsInv, IsTable
<1> QED BY <1>1, <1>3 DEF Arrange

\* Printing a table, which arranges its columns in place and leaves the name map,
\* changes nothing, however many columns were dropped, renamed or put among the
\* others before, as long as no name came back (Arrange of element/table.go).
THEOREM PrintingChangesNothing ==
  ASSUME Reuse = "never" PROVE Spec => []PrintingIsHarmless
<1>1. Reuse # "any" OBVIOUS
<1>2. Init => ColumnsInv /\ FoundInv BY InitInv, FoundInit
<1>3. ColumnsInv /\ FoundInv /\ [Next]_vars => ColumnsInv' /\ FoundInv'
  BY <1>1, ColumnsInvStep, FoundInvStep
<1>4. ColumnsInv /\ FoundInv => PrintingIsHarmless BY PrintingFromInv
<1> QED BY <1>2, <1>3, <1>4, PTL DEF Spec

----------------------------------------------------------------------------
(* The parser is a database table: with the invariants above, View maps it to *)
(* db, and db takes the steps of DbTable.tla.                                 *)

\* The instance's statements are the ones of DbOps.tla.
LEMMA SameStatements ==
  /\ \A d, stm : Believed!Exec(d, stm) = Exec(d, stm)
  /\ \A d, stm : Believed!Legal(d, stm) = Legal(d, stm)
<1>1. \A d, n : Believed!PlaceOf(d, n) = PlaceOf(d, n)
  BY DEF Believed!PlaceOf, PlaceOf, Believed!ColumnNamesOf, ColumnNamesOf
<1>2. ASSUME NEW d, NEW stm PROVE Believed!Exec(d, stm) = Exec(d, stm)
  <2>1. Believed!AddDbColumn(d, stm) = AddDbColumn(d, stm)
    BY <1>1 DEF Believed!AddDbColumn, AddDbColumn
  <2>2. \A n : Believed!DropDbColumn(d, n) = DropDbColumn(d, n)
    BY <1>1 DEF Believed!DropDbColumn, DropDbColumn, Believed!Without, Without
  <2>3. \A n, col : Believed!SetDbColumn(d, n, col) = SetDbColumn(d, n, col)
    BY <1>1 DEF Believed!SetDbColumn, SetDbColumn
  <2>4. \A n, to : Believed!RenameDbColumn(d, n, to) = RenameDbColumn(d, n, to)
    BY <1>1, <2>3 DEF Believed!RenameDbColumn, RenameDbColumn
  <2>5. Believed!ModifyDbColumn(d, stm) = ModifyDbColumn(d, stm)
    BY <1>1, <2>3 DEF Believed!ModifyDbColumn, ModifyDbColumn
  <2>6. \A f, S : Believed!Without(f, S) = Without(f, S) BY DEF Believed!Without, Without
  <2>7. \A f, n, v : Believed!With(f, n, v) = With(f, n, v) BY DEF Believed!With, With
  <2> QED BY <2>1, <2>2, <2>4, <2>5, <2>6, <2>7 DEF Believed!Exec, Exec, Believed!KeyDrops, KeyDrops
<1>3. ASSUME NEW d, NEW stm PROVE Believed!Legal(d, stm) = Legal(d, stm)
  BY DEF Believed!Legal, Legal, Believed!KeyDrops, KeyDrops, Believed!ColumnNamesOf, ColumnNamesOf
<1> QED BY <1>2, <1>3

\* What the parser believes is what the database has.
LEMMA ViewIsDb ==
  ColumnsInv /\ IndexesInv /\ KeysInv /\ AllKeysInv /\ ColsInv /\ OrderInv => View(table) = db
<1> SUFFICES ASSUME ColumnsInv, IndexesInv, KeysInv, AllKeysInv, ColsInv, OrderInv
             PROVE  View(table) = db
  OBVIOUS
<1>1. View(table).cols = db.cols BY OrderFromInv DEF ColumnOrderAgrees
<1>2. View(table).idxs = db.idxs /\ View(table).fks = db.fks
  BY ViewKeys DEF ColumnsInv, IndexesInv, KeysInv, AllKeysInv
<1>3. View(table) = [cols |-> View(table).cols, idxs |-> View(table).idxs,
                     fks |-> View(table).fks]
  BY DEF View
<1>4. db = [cols |-> db.cols, idxs |-> db.idxs, fks |-> db.fks] BY DEF ColumnsInv, IsDb
<1> QED BY <1>1, <1>2, <1>3, <1>4

\* The same of the indexes and the foreign keys of any table t: they are d's, and every
\* index has columns.
KeysFollow(t, d) ==
  /\ Sound(t.idxs, IndexItems, IndexNames) /\ Sound(t.fks, FkItems, FkNames)
  /\ d.idxs = IdxDefs(t.idxs) /\ d.fks = FkDefs(t.fks)
  /\ \A i \in DOMAIN d.idxs : d.idxs[i].columns # <<>>

LEMMA KeysUnchanged ==
  ASSUME NEW t, NEW d, KeysFollow(t, d), NEW r, r.idxs = t.idxs, r.fks = t.fks,
         NEW e, e.idxs = d.idxs, e.fks = d.fks
  PROVE  KeysFollow(r, e)
BY DEF KeysFollow

\* A new index, and one that goes.
LEMMA IndexAdded ==
  ASSUME NEW t, NEW d, IsTable(t), KeysFollow(t, d), NEW i \in IndexNames, NEW n \in ColumnNames,
         NEW e, e = Exec(d, [op |-> "createIndex", idx |-> i, typ |-> "none", columns |-> <<n>>]),
         d \in [cols : {d.cols}, idxs : {d.idxs}, fks : {d.fks}],
         NEW r, r = AddIndex(t, Index(i, "add", "none", <<n>>))
  PROVE  KeysFollow(r, e) /\ r = [t EXCEPT !.idxs = r.idxs] /\ e.cols = d.cols
<1> DEFINE item == Index(i, "add", "none", <<n>>)
<1>1. r = [t EXCEPT !.idxs = PutItem(t.idxs, item)] BY DEF AddIndex
<1>2. /\ e.idxs = With(d.idxs, i, IdxDef(item))
      /\ e.cols = d.cols /\ e.fks = d.fks
  BY DEF Exec, KeyDrops, Index, IdxDef
<1>3. item \in IndexItems /\ item.name = i /\ IsLive(item.action) /\ IdxDef(item).columns # <<>>
  BY DEF Index, IndexItems, Actions, IsLive, IdxDef
<1> HIDE DEF item
<1>4. r.idxs = PutItem(t.idxs, item) /\ r.fks = t.fks BY <1>1 DEF IsTable
<1>5. Sound(t.idxs, IndexItems, IndexNames) /\ d.idxs = IdxDefs(t.idxs) BY DEF KeysFollow
<1>6. Sound(PutItem(t.idxs, item), IndexItems, IndexNames) BY <1>3, <1>5, PutItemSound
<1>7. IdxDefs(PutItem(t.idxs, item)) = With(d.idxs, i, IdxDef(item)) BY <1>3, <1>5, PutDefs
<1>8. \A j \in DOMAIN With(d.idxs, i, IdxDef(item)) : With(d.idxs, i, IdxDef(item))[j].columns # <<>>
  BY <1>3 DEF With, KeysFollow
<1> QED BY <1>1, <1>2, <1>4, <1>6, <1>7, <1>8 DEF KeysFollow

LEMMA IndexRemoved ==
  ASSUME NEW t, NEW d, IsTable(t), KeysFollow(t, d), NEW i \in DOMAIN d.idxs,
         NEW e, e = Exec(d, [op |-> "dropIndex", idx |-> i]),
         d \in [cols : {d.cols}, idxs : {d.idxs}, fks : {d.fks}],
         NEW r, r = RemoveIndex(t, i)
  PROVE  KeysFollow(r, e) /\ r = [t EXCEPT !.idxs = r.idxs] /\ e.cols = d.cols
<1> DEFINE stone == Index(i, "remove", "none", <<>>)
<1>1. r = [t EXCEPT !.idxs = RemoveItem(t.idxs, i, stone)] BY DEF RemoveIndex
<1>2. e.idxs = Without(d.idxs, {i}) /\ e.cols = d.cols /\ e.fks = d.fks BY DEF Exec, KeyDrops
<1> HIDE DEF stone
<1>3. r.idxs = RemoveItem(t.idxs, i, stone) /\ r.fks = t.fks BY <1>1 DEF IsTable
<1>4. /\ Sound(t.idxs, IndexItems, IndexNames) /\ d.idxs = IdxDefs(t.idxs)
      /\ i \in LiveNames(t.idxs)
  BY DEF KeysFollow, IdxDefs
<1>5. Sound(RemoveItem(t.idxs, i, stone), IndexItems, IndexNames)
  BY <1>4, NodeSets, RemoveItemSound
<1>6. IdxDefs(RemoveItem(t.idxs, i, stone)) = Without(d.idxs, {i})
  <2>1. IdxDefs(RemoveItem(t.idxs, i, stone)) = Without(IdxDefs(t.idxs), {i}) BY <1>4, RemoveDefs
  <2> QED BY <2>1, <1>4
<1>7. \A j \in DOMAIN Without(d.idxs, {i}) : Without(d.idxs, {i})[j].columns # <<>>
  BY DEF Without, KeysFollow
<1> QED BY <1>1, <1>2, <1>3, <1>5, <1>6, <1>7 DEF KeysFollow

LEMMA IndexRenamed ==
  ASSUME NEW t, NEW d, IsTable(t), KeysFollow(t, d), NEW i \in DOMAIN d.idxs,
         NEW to \in IndexNames, to \notin DOMAIN d.idxs,
         NEW e, e = Exec(d, [op |-> "renameIndex", idx |-> i, to |-> to]),
         d \in [cols : {d.cols}, idxs : {d.idxs}, fks : {d.fks}],
         NEW r, r = RenameIndex(t, i, to)
  PROVE  KeysFollow(r, e) /\ r = [t EXCEPT !.idxs = r.idxs] /\ e.cols = d.cols
<1> DEFINE moved == Without(With(d.idxs, to, d.idxs[i]), {i})
<1>1. r = [t EXCEPT !.idxs = RenameItem(t.idxs, i, to, "rename")] BY DEF RenameIndex
<1>2. e.idxs = moved /\ e.cols = d.cols /\ e.fks = d.fks BY DEF Exec, KeyDrops
<1>3. r.idxs = RenameItem(t.idxs, i, to, "rename") /\ r.fks = t.fks BY <1>1 DEF IsTable
<1>4. /\ Sound(t.idxs, IndexItems, IndexNames) /\ d.idxs = IdxDefs(t.idxs)
      /\ i \in LiveNames(t.idxs) /\ to \notin LiveNames(t.idxs)
  BY DEF KeysFollow, IdxDefs
<1>5. Sound(RenameItem(t.idxs, i, to, "rename"), IndexItems, IndexNames)
  BY <1>4, NodeSets, RenameItemSound
<1>6. IdxDefs(RenameItem(t.idxs, i, to, "rename")) = moved BY <1>4, RenameDefs
<1>7. \A j \in DOMAIN moved : moved[j].columns # <<>>
  BY DEF Without, With, KeysFollow
<1> HIDE DEF moved
<1> QED BY <1>1, <1>2, <1>3, <1>5, <1>6, <1>7 DEF KeysFollow

\* A new foreign key.
LEMMA KeyAdded ==
  ASSUME NEW t, NEW d, IsTable(t), KeysFollow(t, d), Sound(t.cols, ColumnItems, ColumnNames),
         NEW f \in FkNames, NEW n \in ColumnNames, NEW ref \in References,
         NEW e, e = Exec(d, [op |-> "addForeignKey", fk |-> f, col |-> n, ref |-> ref]),
         d \in [cols : {d.cols}, idxs : {d.idxs}, fks : {d.fks}],
         NEW r, r = AddForeignKey(t, ForeignKey(f, "add", n, ref))
  PROVE  KeysFollow(r, e) /\ e.cols = d.cols
<1> DEFINE item == ForeignKey(f, "add", n, ref)
<1>1. e.fks = With(d.fks, f, FkDef(item)) /\ e.cols = d.cols /\ e.idxs = d.idxs
  BY DEF Exec, KeyDrops, ForeignKey, FkDef
<1>2. item \in FkItems /\ item.name = f /\ IsLive(item.action)
  BY DEF ForeignKey, FkItems, Actions, IsLive
<1> HIDE DEF item
<1>3. r.fks = PutItem(t.fks, item) /\ r.idxs = t.idxs BY DEF item, AddForeignKey, IsTable
<1>4. Sound(t.fks, FkItems, FkNames) /\ d.fks = FkDefs(t.fks) BY DEF KeysFollow
<1>5. Sound(PutItem(t.fks, item), FkItems, FkNames) BY <1>2, <1>4, PutItemSound
<1>6. FkDefs(PutItem(t.fks, item)) = With(d.fks, f, FkDef(item)) BY <1>2, <1>4, PutDefs
<1> QED BY <1>1, <1>3, <1>5, <1>6 DEF KeysFollow

\* A column that nothing mentions takes no index and no foreign key with it.
LEMMA NothingCascades ==
  ASSUME NEW t, NEW d, KeysFollow(t, d), NEW n, ~IsMentioned(d, n),
         NEW e, e = Exec(d, [op |-> "dropColumn", col |-> n])
  PROVE  e.idxs = d.idxs /\ e.fks = d.fks
<1> DEFINE led == {i \in DOMAIN d.idxs : d.idxs[i].columns[1] = n}
           on == {f \in DOMAIN d.fks : d.fks[f].column = n}
<1>1. e.idxs = Without(d.idxs, led) /\ e.fks = Without(d.fks, on) BY DEF Exec, KeyDrops, DropDbColumn
<1>2. /\ d.idxs = [i \in LiveNames(t.idxs) |-> IdxDef(Node(t.idxs, i))]
      /\ d.fks = [f \in LiveNames(t.fks) |-> FkDef(Node(t.fks, f))]
  BY DEF KeysFollow, IdxDefs, FkDefs
<1>3. ASSUME NEW i \in DOMAIN d.idxs PROVE d.idxs[i].columns[1] # n
  <2>1. /\ i \in LiveNames(t.idxs) /\ d.idxs[i].columns = Node(t.idxs, i).columns
        /\ Sound(t.idxs, IndexItems, IndexNames)
    BY <1>2, <1>3 DEF KeysFollow, IdxDef
  <2>2. Node(t.idxs, i) \in IndexItems BY <2>1, LiveByName
  <2>3. d.idxs[i].columns \in Seq(ColumnNames) \ {<<>>} BY <2>1, <2>2, <1>3 DEF KeysFollow, IndexItems
  <2>4. 1 \in DOMAIN d.idxs[i].columns BY <2>3
  <2> QED BY <1>3, <2>4 DEF IsMentioned
<1>4. led = {} /\ on = {} BY <1>3 DEF IsMentioned
<1> HIDE DEF led, on
<1>5. Without(d.idxs, {}) = d.idxs /\ Without(d.fks, {}) = d.fks BY <1>2 DEF Without
<1> QED BY <1>1, <1>4, <1>5

\* A table that follows d in all of that is shown as d.
LEMMA ViewFollows ==
  ASSUME NEW t, NEW d, ColumnsFollow(t.cols, d, {}), InOrder(t.cols, d), KeysFollow(t, d)
  PROVE  View(t) = d
<1>1. View(t).cols = d.cols BY ViewInOrder
<1>2. View(t).idxs = d.idxs /\ View(t).fks = d.fks BY ViewKeys DEF KeysFollow
<1>3. View(t) = [cols |-> View(t).cols, idxs |-> View(t).idxs, fks |-> View(t).fks] BY DEF View
<1>4. d = [cols |-> d.cols, idxs |-> d.idxs, fks |-> d.fks] BY DEF ColumnsFollow, IsDb
<1> QED BY <1>1, <1>2, <1>3, <1>4

\* CREATE TABLE with one column is an ADD COLUMN to an empty table.
LEMMA InitIsInit == Init /\ View(table) = db => Believed!Init
<1> SUFFICES ASSUME NEW n \in ColumnNames, NEW type \in Types, NEW opts \in OptionLists,
                    Create(n, [type |-> type, opts |-> opts]), View(table) = db
             PROVE  Believed!Init
  BY DEF Init
<1> DEFINE stm == [op |-> "addColumn", col |-> n, type |-> type, opts |-> opts,
                   pos |-> [tp |-> "none"]]
           new == [name |-> n, type |-> type, opts |-> {opts[i] : i \in DOMAIN opts}]
<1>1. db = [EmptyDbTable EXCEPT !.cols = <<new>>] BY DEF Create
<1>2. Exec(EmptyDbTable, stm) = db
  <2>1. Exec(EmptyDbTable, stm) = AddDbColumn(EmptyDbTable, stm) BY DEF Exec, KeyDrops
  <2>2. AddDbColumn(EmptyDbTable, stm)
          = [EmptyDbTable EXCEPT !.cols = SubSeq(<<>>, 1, 0) \o <<new>> \o SubSeq(<<>>, 1, 0)]
    <3> DEFINE e == EmptyDbTable
    <3>1. e.cols = <<>> /\ Len(e.cols) = 0 /\ Len(e.cols) + 1 = 1 BY DEF EmptyDbTable
    <3> HIDE DEF e
    <3>2. /\ stm.pos.tp = "none" /\ stm.col = n /\ stm.type = type /\ stm.opts = opts OBVIOUS
    <3>3. AddDbColumn(e, stm)
            = [e EXCEPT !.cols = SubSeq(e.cols, 1, 1 - 1) \o <<new>> \o SubSeq(e.cols, 1, Len(e.cols))]
      BY <3>1, <3>2 DEF AddDbColumn
    <3>4. 1 - 1 = 0 OBVIOUS
    <3> HIDE DEF stm, new
    <3> QED BY <3>1, <3>3, <3>4 DEF e
  <2> HIDE DEF new
  <2>3. SubSeq(<<>>, 1, 0) \o <<new>> \o SubSeq(<<>>, 1, 0) = <<new>>
    <3>1. SubSeq(<<>>, 1, 0) = <<>> OBVIOUS
    <3>2. <<>> \o <<new>> = <<new>> /\ <<new>> \o <<>> = <<new>> OBVIOUS
    <3> QED BY <3>1, <3>2
  <2> QED BY <2>1, <2>2, <2>3, <1>1 DEF new
<1>3. Believed!EmptyDbTable = EmptyDbTable
  BY DEF Believed!EmptyDbTable, EmptyDbTable, Believed!EmptyFunction, EmptyFunction
<1>4. View(table) = Believed!Exec(Believed!EmptyDbTable, stm)
  BY <1>2, <1>3, SameStatements
<1> QED BY <1>4 DEF Believed!Init

\* Every statement that is read is a step of the table that is believed in.
LEMMA NextIsNext ==
  ASSUME [Next]_vars, View(table) = db, (View(table) = db)'
  PROVE  [Believed!Next]_(View(table))
<1>1. ASSUME NEW stm, Statement(stm) PROVE Believed!Step(stm)
  BY <1>1, SameStatements DEF Statement, Believed!Step
<1>2. CASE UNCHANGED vars BY <1>2 DEF vars
<1>3. CASE Next
  <2>1. ASSUME NEW n \in ColumnNames, NEW type \in Types, NEW opts \in OptionLists,
               NEW pos \in AddPositions, AddColumnStatement(n, type, opts, pos)
        PROVE  Believed!Next
    BY <1>1, <2>1 DEF AddColumnStatement, Believed!AddColumn, Believed!Next
  <2>2. ASSUME NEW n \in ColumnNames, DropColumnStatement(n) PROVE Believed!Next
    BY <1>1, <2>2 DEF DropColumnStatement, Believed!DropColumn, Believed!Next
  <2>3. ASSUME NEW n \in ColumnNames, NEW to \in ColumnNames, RenameColumnStatement(n, to)
        PROVE  Believed!Next
    BY <1>1, <2>3 DEF RenameColumnStatement, Believed!RenameColumn, Believed!Next
  <2>4. ASSUME NEW n \in ColumnNames, NEW type \in Types, NEW opts \in OptionLists,
               ModifyColumnStatement(n, type, opts)
        PROVE  Believed!Next
    BY <1>1, <2>4 DEF ModifyColumnStatement, Believed!ModifyColumn, Believed!Next
  <2>5. ASSUME NEW i \in IndexNames, NEW typ \in IndexTypes, NEW n \in ColumnNames,
               CreateIndexStatement(i, typ, <<n>>)
        PROVE  Believed!Next
    BY <1>1, <2>5 DEF CreateIndexStatement, Believed!CreateIndex, Believed!Next
  <2>6. ASSUME NEW i \in IndexNames, DropIndexStatement(i) PROVE Believed!Next
    BY <1>1, <2>6 DEF DropIndexStatement, Believed!DropIndex, Believed!Next
  <2>7. ASSUME NEW i \in IndexNames, NEW to \in IndexNames, RenameIndexStatement(i, to)
        PROVE  Believed!Next
    BY <1>1, <2>7 DEF RenameIndexStatement, Believed!RenameIndex, Believed!Next
  <2>8. ASSUME NEW f \in FkNames, NEW n \in ColumnNames, NEW ref \in References,
               AddForeignKeyStatement(f, n, ref)
        PROVE  Believed!Next
    BY <1>1, <2>8 DEF AddForeignKeyStatement, Believed!AddForeignKey, Believed!Next
  <2>9. ASSUME NEW f \in FkNames, DropForeignKeyStatement(f) \/ DropConstraintStatement(f)
        PROVE  Believed!Next
    BY <1>1, <2>9 DEF DropForeignKeyStatement, DropConstraintStatement, Believed!DropForeignKey,
       Believed!KeyDrops, Believed!Next
  <2> QED BY <1>3, <2>1, <2>2, <2>3, <2>4, <2>5, <2>6, <2>7, <2>8, <2>9 DEF Next
<1> QED BY <1>2, <1>3

\* Reading the statements of one table, the parser is a database table: what it
\* believes in begins like a CREATE TABLE and changes like an accepted statement, or
\* not at all (Enter in sqlparser/mysql.go, Table in element/table.go), as long as no
\* statement drops a key.
THEOREM ParserIsADatabase ==
  ASSUME Operations \subseteq OperationsRead, Reuse = "never", ~Cascades, ~ShedsOptions
  PROVE  Spec => ImplementsDbTable
<1> DEFINE Inv == ColumnsInv /\ IndexesInv /\ KeysInv /\ AllKeysInv /\ ShapeInv
<1>1. Reuse # "any" OBVIOUS
<1>2. Init => Inv BY InitInv, KeysInit, ColsInit DEF ShapeInv
<1>3. Inv /\ [Next]_vars => Inv'
  BY <1>1, ColumnsInvStep, IndexesInvStep, KeysInvStep, AllKeysStep, ShapeInvStep
<1>4. Inv => View(table) = db BY ViewIsDb DEF ShapeInv
<1>5. Inv' => (View(table) = db)' BY <1>4, PTL
<1> HIDE DEF Inv
<1>6. Init => Believed!Init BY <1>2, <1>4, InitIsInit
<1>7. Inv /\ Inv' /\ [Next]_vars => [Believed!Next]_(View(table))
  BY <1>4, <1>5, NextIsNext
<1> QED BY <1>2, <1>3, <1>6, <1>7, PTL DEF Spec, ImplementsDbTable, Believed!Spec

=============================================================================
