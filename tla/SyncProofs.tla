----------------------------- MODULE SyncProofs -----------------------------
(***************************************************************************)
(* Theorems of Sync.tla, for every choice of names, types, models and      *)
(* bounds: what Diff, the scripts and the reading of a script make of a     *)
(* table whose history dropped and renamed no column.                      *)
(***************************************************************************)
EXTENDS Sync, TableAgreement

----------------------------------------------------------------------------
(* Tables that only had columns added.                                      *)
AllAdded(l) == \A i \in 1 .. Len(l.items) : l.items[i].action = "add"

\* The columns of such a table.
Grown(l) == Sound(l, ColumnItems, ColumnNames) /\ AllFound(l) /\ AllAdded(l)

\* Nothing went wrong and no position is pending.
AtRest(t) == IsTable(t) /\ t.panic = FALSE /\ t.pos = NoPosition

\* Every node of a list that is found is some name's.
LEMMA EveryNodeNamed ==
  ASSUME NEW Items, NEW Names, NEW l, Sound(l, Items, Names)
  PROVE  /\ Len(l.items) \in Nat /\ DOMAIN l.items = 1 .. Len(l.items)
         /\ l = [items |-> l.items, id |-> l.id]
         /\ l.items \in Seq(Items) /\ DOMAIN l.id \subseteq Names
         /\ \A n \in DOMAIN l.id : l.id[n] \in 1 .. Len(l.items) /\ l.items[l.id[n]].name = n
                                   /\ Node(l, n) \in Items /\ Node(l, n).name = n
         /\ \A m, n \in DOMAIN l.id : l.id[m] = l.id[n] => m = n
         /\ \A n \in DOMAIN l.id : IdOf(l, n) = l.id[n] /\ l.id[n] > 0
         /\ \A n : n \notin DOMAIN l.id => IdOf(l, n) = 0
         /\ \A n : ~IsStale(l, n)
<1>1. /\ l.items \in Seq(Items) /\ Len(l.items) \in Nat /\ DOMAIN l.items = 1 .. Len(l.items)
      /\ l = [items |-> l.items, id |-> l.id] /\ DOMAIN l.id \subseteq Names
  BY DEF Sound, IsList
<1>2. \A n \in DOMAIN l.id : l.id[n] \in 1 .. Len(l.items) /\ l.items[l.id[n]].name = n
  BY DEF Sound, Coherent
<1>3. \A n \in DOMAIN l.id : Node(l, n) \in Items /\ Node(l, n).name = n BY <1>1, <1>2 DEF Node
<1>4. \A m, n \in DOMAIN l.id : l.id[m] = l.id[n] => m = n BY <1>2
<1>5. \A n \in DOMAIN l.id : IdOf(l, n) = l.id[n] /\ l.id[n] > 0 BY <1>1, <1>2 DEF IdOf
<1>6. \A n : n \notin DOMAIN l.id => IdOf(l, n) = 0 BY DEF IdOf
<1>7. \A n : ~IsStale(l, n)
  <2> SUFFICES ASSUME NEW n PROVE ~IsStale(l, n) OBVIOUS
  <2>1. CASE n \in DOMAIN l.id BY <1>1, <1>2, <1>5, <2>1 DEF IsStale
  <2>2. CASE n \notin DOMAIN l.id BY <1>1, <1>6, <2>2 DEF IsStale
  <2> QED BY <2>1, <2>2
<1> QED BY <1>1, <1>2, <1>3, <1>4, <1>5, <1>6, <1>7

\* r has the names of list l in their places, and none is live that was not.
Revises(r, l) ==
  /\ r = [items |-> r.items, id |-> l.id] /\ Len(r.items) = Len(l.items)
  /\ \A i \in 1 .. Len(l.items) : /\ r.items[i].name = l.items[i].name
                                  /\ IsLive(r.items[i].action) => IsLive(l.items[i].action)

\* Then it is sound like l.
LEMMA RevisedSound ==
  ASSUME NEW Items, NEW Names, NEW l, Sound(l, Items, Names), NEW Others, NEW r,
         Revises(r, l), r.items \in Seq(Others)
  PROVE  Sound(r, Others, Names) /\ (AllFound(l) => AllFound(r))
<1>0. /\ r = [items |-> r.items, id |-> l.id] /\ r.id = l.id /\ Len(r.items) = Len(l.items)
      /\ \A i \in 1 .. Len(l.items) : /\ r.items[i].name = l.items[i].name
                                      /\ IsLive(r.items[i].action) => IsLive(l.items[i].action)
  BY DEF Revises
<1>1. /\ Len(l.items) \in Nat /\ r.id = l.id
      /\ l.id \in [DOMAIN l.id -> Nat \ {0}] /\ DOMAIN l.id \subseteq Names
  BY <1>0 DEF Sound, IsList
<1>2. IsList(r, Others, Names) BY <1>0, <1>1 DEF IsList
<1>3. Coherent(r)
  <2> SUFFICES ASSUME NEW n \in DOMAIN l.id
               PROVE  l.id[n] \in 1 .. Len(r.items) /\ r.items[l.id[n]].name = n
    BY <1>1 DEF Coherent
  <2>1. l.id[n] \in 1 .. Len(l.items) /\ l.items[l.id[n]].name = n BY DEF Sound, Coherent
  <2> QED BY <1>0, <2>1
<1>4. Reachable(r)
  <2> SUFFICES ASSUME NEW i \in 1 .. Len(l.items), IsLive(r.items[i].action)
               PROVE  r.items[i].name \in DOMAIN l.id /\ l.id[r.items[i].name] = i
    BY <1>0, <1>1 DEF Reachable
  <2> QED BY <1>0 DEF Sound, Reachable
<1>5. AllFound(l) => AllFound(r) BY <1>0 DEF AllFound
<1> QED BY <1>2, <1>3, <1>4, <1>5 DEF Sound

\* AddColumn makes columns grow: a name the table does not have is added at the
\* pending position, one it has is merged.
LEMMA AddGrows ==
  ASSUME NEW t, IsTable(t), Grown(t.cols), NEW col \in ColumnItems,
         IF col.name \in DOMAIN t.cols.id
         THEN t.pos = NoPosition /\ IsLive(col.action)
         ELSE col.action = "add" /\ (t.pos.tp = "after" => t.pos.rel # col.name)
  PROVE  LET r == AddColumn(t, col)
         IN  /\ OnlyColumns(r, t) /\ r.pos = NoPosition
             /\ Grown(r.cols)
             /\ DOMAIN r.cols.id = DOMAIN t.cols.id \cup {col.name}
<1> DEFINE r == AddColumn(t, col)
           place == PlaceFor(t.cols, t.pos, Len(t.cols.items) + 1)
           grown == AppendItem(t.cols, col)
<1>1. Sound(t.cols, ColumnItems, ColumnNames) /\ AllFound(t.cols) /\ AllAdded(t.cols) BY DEF Grown
<1>2. CASE col.name \notin DOMAIN t.cols.id
  <2>1. IsLive(col.action) /\ col.action = "add" BY <1>2 DEF IsLive
  <2>2. t.pos.tp = "after" => t.pos.rel # col.name BY <1>2
  <2>3. /\ OnlyColumns(r, t) /\ r.pos = NoPosition
        /\ Sound(r.cols, ColumnItems, ColumnNames)
        /\ DOMAIN r.cols.id = DOMAIN t.cols.id \cup {col.name}
        /\ PutAt(r.cols, grown, col.name, place)
    BY <1>1, <1>2, <2>1, <2>2, AddNewColumn
  <2>4. place \in 1 .. Len(t.cols.items) + 1 BY <1>1, PlaceInRange
  <2> HIDE DEF place, r
  <2>5. AllFound(r.cols) BY <1>1, <1>2, <2>3, <2>4, FoundWhenPut DEF grown
  <2>6. ASSUME NEW i \in 1 .. Len(r.cols.items) PROVE r.cols.items[i].action = "add"
    <3> DEFINE n == r.cols.items[i].name
    <3>1. n \in DOMAIN r.cols.id /\ r.cols.id[n] = i BY <2>5 DEF AllFound
    <3> HIDE DEF n
    <3>2. r.cols.items[i] = grown.items[grown.id[n]] BY <2>3, <3>1 DEF PutAt
    <3>3. grown.items[grown.id[n]].action = "add"
      <4>1. t.cols.items \in Seq(ColumnItems) /\ Len(t.cols.items) \in Nat
        BY <1>1 DEF Sound, IsList
      <4>2. CASE n = col.name
        BY <2>1, <4>1, <4>2 DEF grown, AppendItem, Point
      <4>3. CASE n # col.name
        <5>1. n \in DOMAIN t.cols.id /\ t.cols.id[n] \in 1 .. Len(t.cols.items)
          BY <1>1, <2>3, <3>1, <4>3 DEF Sound, Coherent
        <5>2. t.cols.items[t.cols.id[n]].action = "add" BY <1>1, <5>1 DEF AllAdded
        <5> QED BY <4>1, <4>3, <5>1, <5>2 DEF grown, AppendItem, Point
      <4> QED BY <4>2, <4>3
    <3> QED BY <3>2, <3>3
  <2>7. Grown(r.cols) BY <2>3, <2>5, <2>6 DEF Grown, AllAdded
  <2> QED BY <2>3, <2>7 DEF r
<1>3. CASE col.name \in DOMAIN t.cols.id
  <2>1. IsLive(col.action) /\ t.pos = NoPosition /\ t.pos.tp \in {"nil", "none"}
    BY <1>3 DEF NoPosition
  <2>2. /\ OnlyColumns(r, t) /\ r.pos = NoPosition
        /\ Sound(r.cols, ColumnItems, ColumnNames)
        /\ DOMAIN r.cols.id = DOMAIN t.cols.id
    BY <1>1, <1>3, <2>1, AddKnownColumn
  <2>3. /\ r.cols.id = t.cols.id /\ Len(r.cols.items) = Len(t.cols.items)
        /\ Node(r.cols, col.name) = AddedTo(Node(t.cols, col.name), col)
        /\ \A m \in DOMAIN t.cols.id \ {col.name} : Node(r.cols, m) = Node(t.cols, m)
    BY <1>1, <1>3, <2>1, AddKnownNodes
  <2> HIDE DEF r
  <2>4. AllFound(r.cols) BY <1>1, <2>2, <2>3, FoundAsBefore
  <2>5. ASSUME NEW i \in 1 .. Len(r.cols.items) PROVE r.cols.items[i].action = "add"
    <3> DEFINE n == r.cols.items[i].name
    <3>1. n \in DOMAIN r.cols.id /\ r.cols.id[n] = i BY <2>4 DEF AllFound
    <3> HIDE DEF n
    <3>2. \A m \in DOMAIN t.cols.id : Node(t.cols, m).action = "add"
      BY <1>1 DEF Sound, Coherent, AllAdded, Node
    <3>3. Node(r.cols, n).action = "add"
      <4>1. CASE n = col.name
        <5>1. Node(t.cols, n) \in ColumnItems /\ Node(t.cols, n).action = "add"
          BY <1>1, <1>3, <3>2, <4>1, EveryNodeNamed
        <5> QED BY <2>3, <4>1, <5>1 DEF AddedTo, ColumnItems
      <4>2. CASE n # col.name BY <2>3, <3>1, <3>2, <4>2
      <4> QED BY <4>1, <4>2
    <3> QED BY <3>1, <3>3 DEF Node
  <2>6. Grown(r.cols) BY <2>2, <2>4, <2>5 DEF Grown, AllAdded
  <2> QED BY <1>3, <2>2, <2>6 DEF r
<1> QED BY <1>2, <1>3

\* Nodes stay nodes when they get a Reference option.
Marked(item) == [item EXCEPT !.attr.opts = Append(@, Reference)]
Markable(Items) ==
  \A item \in Items : /\ Marked(item) \in Items
                      /\ Marked(item).name = item.name /\ Marked(item).action = item.action

LEMMA ColumnsMarkable == Markable(ColumnItems)
<1> DEFINE Marks == Seq(Options \cup {Reference})
<1>1. \A opts \in Marks : Append(opts, Reference) \in Marks OBVIOUS
<1> HIDE DEF Marks
<1>2. \A attr \in Attrs : [attr EXCEPT !.opts = Append(@, Reference)] \in Attrs
  BY <1>1, SMTT(30) DEF Attrs, Marks
<1>3. \A item \in ColumnItems :
        /\ item.attr \in Attrs
        /\ Marked(item) = [item EXCEPT !.attr = [item.attr EXCEPT !.opts = Append(@, Reference)]]
  BY SMTT(30) DEF ColumnItems, Marked
<1>4. \A item \in ColumnItems : Marked(item) \in ColumnItems /\ Marked(item).name = item.name
                                /\ Marked(item).action = item.action
  BY <1>2, <1>3, SMTT(30) DEF ColumnItems
<1> QED BY <1>4 DEF Markable

\* AddForeignKey leaves names, places and actions of the columns.
LEMMA MarkedSound ==
  ASSUME NEW Items, Markable(Items), NEW l, Sound(l, Items, ColumnNames), NEW n
  PROVE  LET r == MarkReferenced(l, n)
         IN  /\ Sound(r, Items, ColumnNames) /\ (AllFound(l) => AllFound(r))
             /\ r.id = l.id /\ Len(r.items) = Len(l.items)
             /\ \A i \in 1 .. Len(l.items) : /\ r.items[i].name = l.items[i].name
                                             /\ r.items[i].action = l.items[i].action
<1> DEFINE r == MarkReferenced(l, n)
<1>1. l.items \in Seq(Items) /\ Len(l.items) \in Nat /\ DOMAIN l.items = 1 .. Len(l.items)
  BY EveryNodeNamed
<1>2. \A i \in 1 .. Len(l.items) : l.items[i] \in Items BY <1>1
<1>3. /\ r = [items |-> r.items, id |-> l.id] /\ r.id = l.id
      /\ r.items = [i \in 1 .. Len(l.items) |->
                      IF l.items[i].name = n THEN Marked(l.items[i]) ELSE l.items[i]]
  BY <1>1 DEF MarkReferenced, Marked
<1> HIDE DEF r
<1>4. \A i \in 1 .. Len(l.items) : /\ r.items[i] \in Items
                                   /\ r.items[i].name = l.items[i].name
                                   /\ r.items[i].action = l.items[i].action
  BY <1>2, <1>3 DEF Markable
<1>5. r.items \in [1 .. Len(l.items) -> Items] BY <1>3, <1>4
<1>6. r.items \in Seq(Items) /\ Len(r.items) = Len(l.items) BY <1>1, <1>5
<1>7. Revises(r, l) BY <1>3, <1>4, <1>6 DEF Revises
<1>8. Sound(r, Items, ColumnNames) /\ (AllFound(l) => AllFound(r)) BY <1>6, <1>7, RevisedSound
<1> HIDE DEF Marked
<1> QED BY <1>3, <1>4, <1>6, <1>8 DEF r

LEMMA MarkGrows ==
  ASSUME NEW l, Grown(l), NEW n
  PROVE  LET r == MarkReferenced(l, n) IN Grown(r) /\ r.id = l.id
<1> DEFINE r == MarkReferenced(l, n)
<1>1. /\ Sound(r, ColumnItems, ColumnNames) /\ AllFound(r) /\ r.id = l.id
      /\ Len(r.items) = Len(l.items)
      /\ \A i \in 1 .. Len(l.items) : r.items[i].action = l.items[i].action
  BY ColumnsMarkable, MarkedSound DEF Grown
<1> HIDE DEF r
<1>2. AllAdded(r) BY <1>1 DEF Grown, AllAdded
<1> QED BY <1>1, <1>2 DEF Grown, r

----------------------------------------------------------------------------
(* Tables whose history dropped and renamed no column.                      *)

\* Index nodes that MigrationIndexUp can write whatever happens to them.
IndexNodes ==
  [name : IndexNames, oldName : IndexNames \cup {Nil}, action : Actions,
   typ : {"none", "unique"}, columns : Seq(ColumnNames) \ {<<>>}]

LEMMA IndexNodeSets == NodeSet(IndexNodes, IndexNames) /\ RenameSet(IndexNodes, IndexNames)
<1>1. ASSUME NEW item \in IndexNodes
      PROVE  /\ item.name \in IndexNames
             /\ \A action \in Actions : /\ WithAction(item, action) \in IndexNodes
                                        /\ WithAction(item, action).name = item.name
                                        /\ WithAction(item, action).action = action
  <2> DEFINE Columns == Seq(ColumnNames) \ {<<>>}
  <2> HIDE DEF Columns
  <2>1. IndexNodes = [name : IndexNames, oldName : IndexNames \cup {Nil}, action : Actions,
                      typ : {"none", "unique"}, columns : Columns]
    BY DEF IndexNodes, Columns
  <2> QED BY <2>1 DEF WithAction
<1>2. ASSUME NEW item \in IndexNodes, NEW old \in IndexNames, NEW to \in IndexNames,
             NEW action \in Actions
      PROVE  /\ Renamed(item, old, to, action) \in IndexNodes
             /\ Renamed(item, old, to, action).name = to
             /\ Renamed(item, old, to, action).action = action
  <2> DEFINE Columns == Seq(ColumnNames) \ {<<>>}
  <2> HIDE DEF Columns
  <2>1. IndexNodes = [name : IndexNames, oldName : IndexNames \cup {Nil}, action : Actions,
                      typ : {"none", "unique"}, columns : Columns]
    BY DEF IndexNodes, Columns
  <2> QED BY <2>1 DEF Renamed
<1>3. NodeSet(IndexNodes, IndexNames) BY <1>1 DEF NodeSet
<1>4. RenameSet(IndexNodes, IndexNames) BY <1>2 DEF RenameSet
<1> QED BY <1>3, <1>4

\* What Diff takes: a table at rest with columns that were only added and indexes that
\* can be written.
Ready(t) == AtRest(t) /\ Grown(t.cols) /\ Sound(t.idxs, IndexNodes, IndexNames)

HistoryInv == ColumnsInv /\ IndexesInv /\ (Ready(table) \/ table.panic)

\* The statements of such a history.
NoColumnGoes == Reuse = "never" /\ Operations \cap {"dropColumn", "renameColumn"} = {}

\* The nodes of a definition read from a statement.
LEMMA ReadColumnNodes ==
  ASSUME NEW n \in ColumnNames, NEW type \in Types, NEW opts \in OptionLists
  PROVE  /\ Column(n, "add", [type |-> type, opts |-> opts]) \in ColumnItems
         /\ Column(n, "add", [type |-> type, opts |-> opts]).name = n
         /\ Column(n, "add", [type |-> type, opts |-> opts]).action = "add"
         /\ Column(n, "modify", [type |-> type, opts |-> <<>>]) \in ColumnItems
         /\ Column(n, "modify", [type |-> type, opts |-> <<>>]).name = n
         /\ IsLive(Column(n, "modify", [type |-> type, opts |-> <<>>]).action)
<1> DEFINE attr == [type |-> type, opts |-> opts]
           bare == [type |-> type, opts |-> <<>>]
<1>1. attr \in Attrs /\ bare \in Attrs BY AttrTyped
<1> HIDE DEF attr, bare
<1>2. Column(n, "add", attr) \in ColumnItems /\ Column(n, "modify", bare) \in ColumnItems
  BY <1>1, ColumnTyped
<1> QED BY <1>2 DEF Column, IsLive, attr, bare

\* A table without columns or indexes is ready.
LEMMA NewTableReady ==
  Ready(NewTable(Own)) /\ DOMAIN NewTable(Own).cols.id = {} /\ NewTable(Own).idxs = EmptyList
<1> DEFINE t == NewTable(Own)
<1>1. /\ AtRest(t) /\ t.cols = EmptyList /\ t.idxs = EmptyList
  BY DEF NewTable, NewTableWithAction, AtRest, IsTable
<1> HIDE DEF t
<1>2. AllFound(EmptyList) /\ AllAdded(EmptyList) /\ DOMAIN EmptyList.id = {}
  BY DEF EmptyList, AllFound, AllAdded
<1> QED BY <1>1, <1>2, EmptyListSound DEF Ready, Grown, t

LEMMA HistoryInit == Init => HistoryInv
<1> SUFFICES ASSUME Init PROVE HistoryInv OBVIOUS
<1>0. PICK n \in ColumnNames, type \in Types, opts \in OptionLists :
        Create(n, [type |-> type, opts |-> opts])
  BY DEF Init
<1> DEFINE t == NewTable(Own)
           col == Column(n, "add", [type |-> type, opts |-> opts])
<1>1. table = AddColumn(t, col) BY <1>0 DEF Create
<1>2. Ready(t) /\ DOMAIN t.cols.id = {} /\ t.idxs = EmptyList BY NewTableReady
<1>3. col \in ColumnItems /\ col.name = n /\ col.action = "add" BY ReadColumnNodes
<1> HIDE DEF t, col
<1>4. t.pos.tp # "after" BY <1>2 DEF Ready, AtRest, NoPosition
<1>5. OnlyColumns(table, t) /\ table.pos = NoPosition /\ Grown(table.cols)
  BY <1>1, <1>2, <1>3, <1>4, AddGrows DEF Ready, AtRest
<1>6. Ready(table) BY <1>2, <1>5 DEF Ready, AtRest, OnlyColumns
<1> QED BY <1>6, InitInv DEF HistoryInv

\* Reading a MODIFY COLUMN of a column that the table has.
LEMMA ModifyGrows ==
  ASSUME NEW t, AtRest(t), Grown(t.cols), NEW n \in DOMAIN t.cols.id, NEW attr,
         Column(n, "modify", [type |-> attr.type, opts |-> <<>>]) \in ColumnItems,
         Column(n, "add", attr) \in ColumnItems
  PROVE  LET r == ReadModify(t, n, attr)
         IN  /\ OnlyColumns(r, t) /\ r.pos = NoPosition
             /\ Grown(r.cols)
             /\ DOMAIN r.cols.id = DOMAIN t.cols.id
<1> DEFINE first == Column(n, "modify", [type |-> attr.type, opts |-> <<>>])
           col == Column(n, "add", attr)
           u == AddColumn(t, first)
           r == AddColumn(u, col)
<1>1. /\ first \in ColumnItems /\ first.name = n /\ IsLive(first.action)
      /\ col \in ColumnItems /\ col.name = n /\ IsLive(col.action)
  BY DEF Column, IsLive
<1> HIDE DEF first, col
<1>2. OnlyColumns(u, t) /\ u.pos = NoPosition /\ Grown(u.cols)
      /\ DOMAIN u.cols.id = DOMAIN t.cols.id \cup {n}
  BY <1>1, AddGrows DEF AtRest
<1> HIDE DEF u
<1>3. DOMAIN u.cols.id = DOMAIN t.cols.id /\ IsTable(u) BY <1>2 DEF OnlyColumns
<1>4. OnlyColumns(r, u) /\ r.pos = NoPosition /\ Grown(r.cols)
      /\ DOMAIN r.cols.id = DOMAIN u.cols.id \cup {n}
  BY <1>1, <1>2, <1>3, AddGrows
<1>5. ReadModify(t, n, attr) = r BY DEF ReadModify, first, col, u
<1> HIDE DEF r
<1> QED BY <1>2, <1>3, <1>4, <1>5 DEF OnlyColumns


\* A table that r is but for its columns is ready when they grew.
LEMMA ReadyColumns ==
  ASSUME NEW t, Ready(t), NEW r, OnlyColumns(r, t), r.pos = NoPosition, Grown(r.cols)
  PROVE  Ready(r)
BY DEF Ready, AtRest, OnlyColumns

\* ADD COLUMN of a name that the table never had.
LEMMA AddColumnReady ==
  ASSUME ColumnsInv, Ready(table), NoColumnGoes,
         NEW n \in ColumnNames, NEW type \in Types, NEW opts \in OptionLists,
         NEW pos \in AddPositions, AddColumnStatement(n, type, opts, pos)
  PROVE  Ready(table')
<1> DEFINE stm == [op |-> "addColumn", col |-> n, type |-> type, opts |-> opts, pos |-> pos]
           col == Column(n, "add", [type |-> type, opts |-> opts])
           u == IF pos = NoPosition THEN table ELSE [table EXCEPT !.pos = pos]
<1>1. n \notin used /\ Legal(db, stm) /\ table' = ReadStatement(table, stm)
  BY DEF AddColumnStatement, Statement, NoColumnGoes
<1>2. n \notin ColumnNamesOf(db) /\ (pos.tp = "after" => pos.rel \in ColumnNamesOf(db))
  BY <1>1 DEF Legal, KeyDrops
<1>3. table' = AddColumn(u, col) BY <1>1 DEF ReadStatement, ReadAdd
<1>4. col \in ColumnItems /\ col.name = n /\ col.action = "add" BY ReadColumnNodes
<1>5. OnlyColumns(u, table) /\ u.pos = pos /\ u.cols = table.cols
  BY DEF Ready, AtRest, OnlyColumns, IsTable
<1>6. n \notin DOMAIN u.cols.id BY <1>1, <1>5 DEF ColumnsInv
<1> HIDE DEF u, col
<1>7. /\ OnlyColumns(table', u) /\ table'.pos = NoPosition /\ Grown(table'.cols)
  BY <1>2, <1>3, <1>4, <1>5, <1>6, AddGrows DEF Ready, OnlyColumns
<1>8. OnlyColumns(table', table) BY <1>5, <1>7 DEF OnlyColumns
<1> QED BY <1>7, <1>8, ReadyColumns

\* MODIFY COLUMN of a column that the table has.
LEMMA ModifyColumnReady ==
  ASSUME ColumnsInv, Ready(table), NEW n \in ColumnNames, NEW type \in Types,
         NEW opts \in OptionLists, ModifyColumnStatement(n, type, opts)
  PROVE  Ready(table')
<1> DEFINE stm == [op |-> "modifyColumn", col |-> n, type |-> type, opts |-> opts]
           attr == [type |-> type, opts |-> opts]
<1>1. Legal(db, stm) /\ table' = ReadStatement(table, stm)
  BY DEF ModifyColumnStatement, Statement
<1>2. n \in DOMAIN table.cols.id
  BY <1>1 DEF Legal, KeyDrops, ColumnsInv, Sound, Reachable, LiveNames
<1>3. table' = ReadModify(table, n, attr) BY <1>1 DEF ReadStatement
<1>4. /\ Column(n, "modify", [type |-> attr.type, opts |-> <<>>]) \in ColumnItems
      /\ Column(n, "add", attr) \in ColumnItems
  BY ReadColumnNodes
<1> HIDE DEF attr
<1>5. OnlyColumns(table', table) /\ table'.pos = NoPosition /\ Grown(table'.cols)
  BY <1>2, <1>3, <1>4, ModifyGrows DEF Ready
<1> QED BY <1>5, ReadyColumns

\* Removing a name that a list has, live or not, keeps the list sound.
LEMMA KnownItemRemoved ==
  ASSUME NEW Items, NEW Names, NEW l, Sound(l, Items, Names), NodeSet(Items, Names),
         \A item \in Items : item.action \in Actions,
         NEW n \in DOMAIN l.id, NEW tombstone
  PROVE  LET r == RemoveItem(l, n, tombstone)
         IN  /\ Sound(r, Items, Names)
             /\ r.id = l.id /\ Len(r.items) = Len(l.items)
             /\ Node(r, n) = WithAction(Node(l, n), RemovedAction(Node(l, n).action))
             /\ \A m \in DOMAIN l.id \ {n} : Node(r, m) = Node(l, m)
<1> DEFINE i == l.id[n]
           item == WithAction(l.items[i], RemovedAction(l.items[i].action))
<1>1. i \in 1 .. Len(l.items) /\ l.items[i] \in Items /\ l.items[i].name = n /\ IdOf(l, n) = i
      /\ i # 0 /\ Len(l.items) \in Nat /\ l.items \in Seq(Items)
  BY EveryNodeNamed DEF Node
<1>2. RemovedAction(l.items[i].action) \in Actions BY DEF RemovedAction, Actions
<1>3. item \in Items /\ item.name = n BY <1>1, <1>2 DEF NodeSet
<1>4. RemoveItem(l, n, tombstone) = SetItem(l, i, item) BY <1>1 DEF RemoveItem
<1>5. \A m \in DOMAIN l.id \ {n} : l.id[m] # i BY <1>1, EveryNodeNamed
<1>6. \A m \in DOMAIN l.id : l.id[m] \in 1 .. Len(l.items) BY EveryNodeNamed
<1> HIDE DEF item
<1>7. Sound(SetItem(l, i, item), Items, Names)
  <2>1. item.name \in DOMAIN l.id /\ l.id[item.name] = i BY <1>3
  <2> HIDE DEF i
  <2> QED BY <1>3, <2>1, SetItemSound
<1>8. /\ SetItem(l, i, item).id = l.id /\ Len(SetItem(l, i, item).items) = Len(l.items)
      /\ Node(SetItem(l, i, item), n) = item
      /\ \A m \in DOMAIN l.id \ {n} : Node(SetItem(l, i, item), m) = Node(l, m)
  BY <1>1, <1>5, <1>6 DEF SetItem, Node
<1> QED BY <1>4, <1>7, <1>8 DEF item, Node

\* Statements on indexes and foreign keys.
LEMMA ActionsOfNodes ==
  /\ \A item \in IndexNodes : item.action \in Actions
  /\ \A item \in FkItems : item.action \in Actions
  /\ \A item \in ColumnItems : item.action \in Actions
BY DEF IndexNodes, FkItems, ColumnItems

\* A table that r is but for its indexes.
LEMMA ReadyIndexes ==
  ASSUME NEW t, Ready(t), NEW idxs, Sound(idxs, IndexNodes, IndexNames)
  PROVE  Ready([t EXCEPT !.idxs = idxs])
<1> DEFINE r == [t EXCEPT !.idxs = idxs]
<1>1. AtRest(r) /\ r.cols = t.cols /\ r.idxs = idxs BY DEF Ready, AtRest, IsTable
<1> QED BY <1>1 DEF Ready

LEMMA CreateIndexReady ==
  ASSUME Ready(table), NEW i \in IndexNames, NEW typ \in {"none", "unique"}, NEW n \in ColumnNames,
         CreateIndexStatement(i, typ, <<n>>)
  PROVE  Ready(table')
<1> DEFINE stm == [op |-> "createIndex", idx |-> i, typ |-> typ, columns |-> <<n>>]
           item == Index(i, "add", typ, <<n>>)
<1>1. table' = ReadStatement(table, stm) BY DEF CreateIndexStatement, Statement
<1>2. table' = [table EXCEPT !.idxs = PutItem(table.idxs, item)]
  BY <1>1 DEF ReadStatement, AddIndex
<1>3. <<n>> \in Seq(ColumnNames) \ {<<>>} OBVIOUS
<1>4. item \in IndexNodes /\ item.name \in IndexNames /\ IsLive(item.action)
  BY <1>3 DEF Index, IndexNodes, Actions, IsLive
<1> HIDE DEF item
<1>5. Sound(PutItem(table.idxs, item), IndexNodes, IndexNames) BY <1>4, PutItemSound DEF Ready
<1> QED BY <1>2, <1>5, ReadyIndexes

LEMMA DropIndexReady ==
  ASSUME IndexesInv, Ready(table), NEW i \in IndexNames, DropIndexStatement(i)
  PROVE  Ready(table')
<1> DEFINE stm == [op |-> "dropIndex", idx |-> i]
           idxs == RemoveItem(table.idxs, i, Index(i, "remove", "none", <<>>))
<1>1. Legal(db, stm) /\ table' = ReadStatement(table, stm) BY DEF DropIndexStatement, Statement
<1>2. table' = [table EXCEPT !.idxs = idxs] BY <1>1 DEF ReadStatement, RemoveIndex
<1>3. i \in LiveNames(table.idxs) BY <1>1 DEF Legal, KeyDrops, IndexesInv
<1>4. Sound(idxs, IndexNodes, IndexNames) BY <1>3, IndexNodeSets, RemoveItemSound DEF Ready
<1> HIDE DEF idxs
<1> QED BY <1>2, <1>4, ReadyIndexes

LEMMA RenameIndexReady ==
  ASSUME IndexesInv, Ready(table), NEW i \in IndexNames, NEW to \in IndexNames,
         RenameIndexStatement(i, to)
  PROVE  Ready(table')
<1> DEFINE stm == [op |-> "renameIndex", idx |-> i, to |-> to]
           idxs == RenameItem(table.idxs, i, to, "rename")
<1>1. Legal(db, stm) /\ table' = ReadStatement(table, stm) BY DEF RenameIndexStatement, Statement
<1>2. table' = [table EXCEPT !.idxs = idxs] BY <1>1 DEF ReadStatement, RenameIndex
<1>3. i \in LiveNames(table.idxs) /\ to \notin LiveNames(table.idxs)
  BY <1>1 DEF Legal, KeyDrops, IndexesInv
<1>4. Sound(idxs, IndexNodes, IndexNames) BY <1>3, IndexNodeSets, RenameItemSound DEF Ready
<1> HIDE DEF idxs
<1> QED BY <1>2, <1>4, ReadyIndexes

\* AddForeignKey marks columns and puts a key.
LEMMA KeyReady ==
  ASSUME NEW t, Ready(t), NEW fk
  PROVE  Ready(AddForeignKey(t, fk))
<1> DEFINE r == AddForeignKey(t, fk)
           cols == MarkReferenced(t.cols, fk.column)
           fks == PutItem(t.fks, fk)
<1>1. r = [t EXCEPT !.fks = fks, !.cols = cols] BY DEF AddForeignKey
<1>2. Grown(cols) BY MarkGrows DEF Ready
<1> HIDE DEF cols, fks
<1>3. /\ AtRest(r) /\ r.cols = cols /\ r.idxs = t.idxs BY <1>1 DEF Ready, AtRest, IsTable
<1> QED BY <1>2, <1>3 DEF Ready

LEMMA KeyStatementReady ==
  ASSUME Ready(table), NEW f \in FkNames
  PROVE  /\ \A n, ref : AddForeignKeyStatement(f, n, ref) => Ready(table')
         /\ DropForeignKeyStatement(f) => table'.panic
         /\ DropConstraintStatement(f) => Ready(table')
<1>1. ASSUME NEW n, NEW ref, AddForeignKeyStatement(f, n, ref) PROVE Ready(table')
  <2> DEFINE stm == [op |-> "addForeignKey", fk |-> f, col |-> n, ref |-> ref]
  <2>1. table' = ReadStatement(table, stm) BY <1>1 DEF AddForeignKeyStatement, Statement
  <2>2. table' = AddForeignKey(table, ForeignKey(f, "add", n, ref)) BY <2>1 DEF ReadStatement
  <2> QED BY <2>2, KeyReady
<1>2. ASSUME DropForeignKeyStatement(f) PROVE table'.panic
  <2> DEFINE stm == [op |-> "dropForeignKey", fk |-> f]
  <2>1. table' = ReadStatement(table, stm) BY <1>2 DEF DropForeignKeyStatement, Statement
  <2>2. table' = Panicked(table) BY <2>1 DEF ReadStatement
  <2> QED BY <2>2 DEF Panicked, Ready, AtRest, IsTable
<1>3. ASSUME DropConstraintStatement(f) PROVE Ready(table')
  <2> DEFINE stm == [op |-> "dropConstraint", fk |-> f]
  <2>1. table' = ReadStatement(table, stm) BY <1>3 DEF DropConstraintStatement, Statement
  <2>2. table' = table BY <2>1 DEF ReadStatement
  <2> QED BY <2>2
<1> QED BY <1>1, <1>2, <1>3

\* A program that has panicked reads nothing more.
LEMMA ReadOnlyAlive == Next => ~table.panic
<1>1. ASSUME NEW stm, Statement(stm) PROVE ~table.panic BY <1>1 DEF Statement
<1> QED
  BY <1>1 DEF Next, AddColumnStatement, DropColumnStatement, RenameColumnStatement,
     ModifyColumnStatement, CreateIndexStatement, DropIndexStatement, RenameIndexStatement,
     AddForeignKeyStatement, DropForeignKeyStatement, DropConstraintStatement

\* Every statement of such a history keeps the invariant.
LEMMA HistoryStep ==
  ASSUME HistoryInv, [Next]_vars, NoColumnGoes, IndexTypes \subseteq {"none", "unique"}
  PROVE  HistoryInv'
<1>10. CASE UNCHANGED vars
  BY <1>10 DEF vars, HistoryInv, ColumnsInv, IndexesInv
<1> SUFFICES ASSUME Next PROVE HistoryInv' BY <1>10
<1>0. ColumnsInv /\ IndexesInv /\ Ready(table) BY ReadOnlyAlive DEF HistoryInv
<1>1. ASSUME NEW n \in ColumnNames, NEW type \in Types, NEW opts \in OptionLists,
             NEW pos \in AddPositions, AddColumnStatement(n, type, opts, pos)
      PROVE  HistoryInv'
  <2>1. ColumnsInv' /\ table'.idxs = table.idxs /\ db'.idxs = db.idxs
    BY <1>0, <1>1, AddColumnStep DEF NoColumnGoes
  <2>2. Ready(table') BY <1>0, <1>1, AddColumnReady
  <2> QED BY <1>0, <2>1, <2>2 DEF HistoryInv, IndexesInv
<1>2. ASSUME NEW n \in ColumnNames, NEW type \in Types, NEW opts \in OptionLists,
             ModifyColumnStatement(n, type, opts)
      PROVE  HistoryInv'
  <2>1. ColumnsInv' /\ table'.idxs = table.idxs /\ db'.idxs = db.idxs
    BY <1>0, <1>2, ModifyColumnStep
  <2>2. Ready(table') BY <1>0, <1>2, ModifyColumnReady
  <2> QED BY <1>0, <2>1, <2>2 DEF HistoryInv, IndexesInv
<1>3. ASSUME NEW i \in IndexNames, NEW typ \in IndexTypes, NEW n \in ColumnNames,
             CreateIndexStatement(i, typ, <<n>>)
      PROVE  HistoryInv'
  <2>1. typ \in {"none", "unique"} OBVIOUS
  <2>2. Ready(table') BY <1>0, <1>3, <2>1, CreateIndexReady
  <2>3. ColumnsInv' /\ IndexesInv' BY <1>0, <1>3, CreateIndexStep
  <2> QED BY <2>2, <2>3 DEF HistoryInv
<1>4. ASSUME NEW i \in IndexNames, DropIndexStatement(i) PROVE HistoryInv'
  BY <1>0, <1>4, DropIndexReady, DropIndexStep DEF HistoryInv
<1>5. ASSUME NEW i \in IndexNames, NEW to \in IndexNames, RenameIndexStatement(i, to)
      PROVE  HistoryInv'
  BY <1>0, <1>5, RenameIndexReady, RenameIndexStep DEF HistoryInv
<1>6. ASSUME NEW f \in FkNames, NEW n \in ColumnNames, NEW ref \in References,
             AddForeignKeyStatement(f, n, ref)
      PROVE  HistoryInv'
  <2>1. ColumnsInv' /\ table'.idxs = table.idxs /\ db'.idxs = db.idxs
    BY <1>0, <1>6, AddForeignKeyStep
  <2>2. Ready(table') BY <1>0, <1>6, KeyStatementReady
  <2> QED BY <1>0, <2>1, <2>2 DEF HistoryInv, IndexesInv
<1>7. ASSUME NEW f \in FkNames, DropForeignKeyStatement(f) PROVE HistoryInv'
  <2>1. ColumnsInv' /\ table'.idxs = table.idxs /\ db'.idxs = db.idxs
    BY <1>0, <1>7, DropForeignKeyStep
  <2>2. table'.panic BY <1>0, <1>7, KeyStatementReady
  <2> QED BY <1>0, <2>1, <2>2 DEF HistoryInv, IndexesInv
<1>8. \A n, m : ~DropColumnStatement(n) /\ ~RenameColumnStatement(n, m)
  BY DEF DropColumnStatement, RenameColumnStatement, Statement, NoColumnGoes
<1>9. ASSUME NEW f \in FkNames, DropConstraintStatement(f) PROVE HistoryInv'
  <2>1. ColumnsInv' /\ table'.idxs = table.idxs /\ db'.idxs = db.idxs
    BY <1>0, <1>9, DropConstraintStep
  <2>2. Ready(table') BY <1>0, <1>9, KeyStatementReady
  <2> QED BY <1>0, <2>1, <2>2 DEF HistoryInv, IndexesInv
<1> QED BY <1>1, <1>2, <1>3, <1>4, <1>5, <1>6, <1>7, <1>8, <1>9 DEF Next

----------------------------------------------------------------------------
(* Building the models' table: each of its three folds keeps it ready.      *)
Full(t) == Ready(t) /\ Sound(t.fks, FkItems, FkNames)

\* And the models' table, whose indexes and keys were only added too.
Made(t) == Full(t) /\ AllAdded(t.idxs) /\ AllAdded(t.fks)

\* Putting a node that is added.
LEMMA PutAdded ==
  ASSUME NEW Items, NEW Names, NEW l, Sound(l, Items, Names), AllAdded(l),
         NEW item \in Items, item.action = "add"
  PROVE  AllAdded(PutItem(l, item))
<1>1. l.items \in Seq(Items) /\ Len(l.items) \in Nat BY EveryNodeNamed
<1>2. CASE IdOf(l, item.name) = 0
  BY <1>1, <1>2 DEF AllAdded, PutItem, AppendItem
<1>3. CASE IdOf(l, item.name) # 0
  BY <1>1, <1>3 DEF AllAdded, PutItem, SetItem
<1> QED BY <1>2, <1>3

MakeColumn(p, t, c) == AddColumn(t, Column(c.name, "add", [type |-> c.type, opts |-> c.opts]))
MakeIndex(p, t, i) == AddIndex(t, Index(i.name, "add", i.typ, i.columns))
MakeKey(p, t, f) == AddForeignKey(t, ForeignKey(f.name, "add", f.column, f.ref))
StaysMade(p, t) == Made(t)

MakingColumns == INSTANCE Folding WITH Op <- MakeColumn, Holds <- StaysMade
MakingIndexes == INSTANCE Folding WITH Op <- MakeIndex, Holds <- StaysMade
MakingKeys == INSTANCE Folding WITH Op <- MakeKey, Holds <- StaysMade

\* A finite set as a sequence.
LEMMA SetToSeqIn == ASSUME NEW S, IsFiniteSet(S) PROVE SetToSeq(S) \in Seq(S)
<1> DEFINE n == Cardinality(S)
<1>1. n \in Nat /\ ExistsBijection(1 .. n, S) BY FS_CardinalityType
<1>2. \E f \in [1 .. n -> S] : IsInjective(f)
  BY <1>1 DEF ExistsBijection, Bijection, Injection, IsInjective
<1>3. SetToSeq(S) \in [1 .. n -> S] BY <1>2 DEF SetToSeq
<1> QED BY <1>1, <1>3

\* One column, one index, one key.
LEMMA ColumnMade ==
  ASSUME NEW t, Made(t), NEW c, c.name \in ColumnNames, c.type \in Types, c.opts \in OptionLists
  PROVE  Made(MakeColumn("", t, c))
<1> DEFINE col == Column(c.name, "add", [type |-> c.type, opts |-> c.opts])
           r == AddColumn(t, col)
<1>0. col \in ColumnItems /\ col.name = c.name /\ col.action = "add" BY ReadColumnNodes
<1>1. IsLive(col.action) BY <1>0 DEF IsLive
<1> HIDE DEF col
<1>2. Ready(t) /\ IsTable(t) /\ t.pos = NoPosition /\ Grown(t.cols) /\ t.pos.tp = "nil"
  BY DEF Made, Full, Ready, AtRest, NoPosition
<1>3. OnlyColumns(r, t) /\ r.pos = NoPosition /\ Grown(r.cols) BY <1>0, <1>1, <1>2, AddGrows
<1>4. Ready(r) BY <1>2, <1>3, ReadyColumns
<1>5. r.fks = t.fks /\ r.idxs = t.idxs BY <1>3 DEF OnlyColumns
<1> QED BY <1>4, <1>5 DEF Made, Full, MakeColumn, col

LEMMA IndexMade ==
  ASSUME NEW t, Made(t), NEW i, i.name \in IndexNames, i.typ \in {"none", "unique"},
         i.columns \in Seq(ColumnNames) \ {<<>>}
  PROVE  Made(MakeIndex("", t, i))
<1> DEFINE item == Index(i.name, "add", i.typ, i.columns)
           idxs == PutItem(t.idxs, item)
<1>1. item \in IndexNodes /\ item.name \in IndexNames /\ IsLive(item.action)
  <2> DEFINE Columns == Seq(ColumnNames) \ {<<>>}
  <2>1. i.columns \in Columns OBVIOUS
  <2> HIDE DEF Columns
  <2>2. IndexNodes = [name : IndexNames, oldName : IndexNames \cup {Nil}, action : Actions,
                      typ : {"none", "unique"}, columns : Columns]
    BY DEF IndexNodes, Columns
  <2> QED BY <2>1, <2>2 DEF Index, Actions, IsLive
<1>0. item.action = "add" BY DEF Index
<1>2. MakeIndex("", t, i) = [t EXCEPT !.idxs = idxs] BY DEF MakeIndex, AddIndex
<1> HIDE DEF item
<1>3. Sound(idxs, IndexNodes, IndexNames) BY <1>1, PutItemSound DEF Made, Full, Ready
<1>6. AllAdded(idxs) BY <1>0, <1>1, PutAdded DEF Made, Full, Ready
<1> HIDE DEF idxs
<1>4. Ready([t EXCEPT !.idxs = idxs]) BY <1>3, ReadyIndexes DEF Made, Full
<1>5. [t EXCEPT !.idxs = idxs].fks = t.fks /\ [t EXCEPT !.idxs = idxs].idxs = idxs
  BY DEF Made, Full, Ready, AtRest, IsTable
<1> QED BY <1>2, <1>4, <1>5, <1>6 DEF Made, Full

LEMMA KeyMade ==
  ASSUME NEW t, Made(t), NEW f, f.name \in FkNames, f.column \in ColumnNames, f.ref \in References
  PROVE  Made(MakeKey("", t, f))
<1> DEFINE fk == ForeignKey(f.name, "add", f.column, f.ref)
           r == AddForeignKey(t, fk)
<1>0. fk.action = "add" BY DEF ForeignKey
<1>1. fk \in FkItems /\ fk.name \in FkNames /\ IsLive(fk.action)
  BY DEF ForeignKey, FkItems, Actions, IsLive
<1> HIDE DEF fk
<1>2. Ready(r) BY KeyReady DEF Made, Full
<1>3. r.fks = PutItem(t.fks, fk) /\ r.idxs = t.idxs
  BY DEF AddForeignKey, Made, Full, Ready, AtRest, IsTable
<1>4. Sound(r.fks, FkItems, FkNames) BY <1>1, <1>3, PutItemSound DEF Made, Full
<1>5. AllAdded(r.fks) BY <1>0, <1>1, <1>3, PutAdded DEF Made, Full
<1>6. MakeKey("", t, f) = r BY DEF MakeKey, fk
<1> HIDE DEF r
<1> QED BY <1>2, <1>3, <1>4, <1>5, <1>6 DEF Made, Full

LEMMA BuildMade ==
  ASSUME NEW m \in Models, IndexTypes \subseteq {"none", "unique"}
  PROVE  Made(Build(m))
<1> DEFINE idxs == SetToSeq(m.idxs)
           fks == SetToSeq(m.fks)
           one == MakingColumns!Fold("", NewTable(Own), m.cols)
           two == MakingIndexes!Fold("", one, idxs)
           three == MakingKeys!Fold("", two, fks)
<1>1. /\ m.cols \in Seq([name : ColumnNames, type : Types, opts : OptionLists])
      /\ IsFiniteSet(m.idxs) /\ IsFiniteSet(m.fks)
      /\ m.idxs \subseteq [name : IndexNames, typ : IndexTypes, columns : Seq(ColumnNames)]
      /\ m.fks \subseteq [name : FkNames, column : ColumnNames, ref : References]
      /\ \A i \in m.idxs : i.columns # <<>>
  BY ModelsAssumption
<1>2. idxs \in Seq(m.idxs) /\ fks \in Seq(m.fks) BY <1>1, SetToSeqIn
<1>3. StaysMade("", NewTable(Own))
  <2>1. NewTable(Own).fks = EmptyList BY DEF NewTable, NewTableWithAction
  <2>2. AllAdded(EmptyList) BY DEF AllAdded, EmptyList
  <2> QED BY <2>1, <2>2, NewTableReady, EmptyListSound DEF StaysMade, Made, Full
<1>4. MakingColumns!Kept("", m.cols)
  <2>1. \A k \in DOMAIN m.cols : /\ m.cols[k].name \in ColumnNames /\ m.cols[k].type \in Types
                                 /\ m.cols[k].opts \in OptionLists
    <3> DEFINE Entries == [name : ColumnNames, type : Types, opts : OptionLists]
    <3>1. \A c \in Entries : c.name \in ColumnNames /\ c.type \in Types /\ c.opts \in OptionLists
      OBVIOUS
    <3>2. m.cols \in Seq(Entries) BY <1>1
    <3> HIDE DEF Entries
    <3>3. \A k \in DOMAIN m.cols : m.cols[k] \in Entries BY <3>2
    <3> QED BY <3>1, <3>3
  <2>2. \A v : \A k \in DOMAIN m.cols : StaysMade("", v) => StaysMade("", MakeColumn("", v, m.cols[k]))
    BY <2>1, ColumnMade DEF StaysMade
  <2> QED BY <2>2 DEF MakingColumns!Kept
<1>5. MakingIndexes!Kept("", idxs)
  <2>1. \A k \in DOMAIN idxs : /\ idxs[k].name \in IndexNames /\ idxs[k].typ \in {"none", "unique"}
                               /\ idxs[k].columns \in Seq(ColumnNames) \ {<<>>}
    <3> SUFFICES ASSUME NEW k \in DOMAIN idxs
                 PROVE  /\ idxs[k].name \in IndexNames /\ idxs[k].typ \in {"none", "unique"}
                        /\ idxs[k].columns \in Seq(ColumnNames) \ {<<>>}
      OBVIOUS
    <3>1. idxs[k] \in m.idxs BY <1>2
    <3> HIDE DEF idxs
    <3> QED BY <1>1, <3>1
  <2> HIDE DEF idxs
  <2>2. \A v : \A k \in DOMAIN idxs : StaysMade("", v) => StaysMade("", MakeIndex("", v, idxs[k]))
    BY <2>1, IndexMade DEF StaysMade
  <2> QED BY <2>2 DEF MakingIndexes!Kept
<1>6. MakingKeys!Kept("", fks)
  <2>1. \A k \in DOMAIN fks : /\ fks[k].name \in FkNames /\ fks[k].column \in ColumnNames
                              /\ fks[k].ref \in References
    <3> SUFFICES ASSUME NEW k \in DOMAIN fks
                 PROVE  /\ fks[k].name \in FkNames /\ fks[k].column \in ColumnNames
                        /\ fks[k].ref \in References
      OBVIOUS
    <3>1. fks[k] \in m.fks BY <1>2
    <3> HIDE DEF fks
    <3> QED BY <1>1, <3>1
  <2> HIDE DEF fks
  <2>2. \A v : \A k \in DOMAIN fks : StaysMade("", v) => StaysMade("", MakeKey("", v, fks[k]))
    BY <2>1, KeyMade DEF StaysMade
  <2> QED BY <2>2 DEF MakingKeys!Kept
<1>7. Build(m) = three
  BY DEF Build, MakingColumns!Fold, MakingIndexes!Fold, MakingKeys!Fold, MakeColumn, MakeIndex,
         MakeKey, FoldLeft, MapThenFoldSet, MakingColumns!MapThenFoldSet,
         MakingIndexes!MapThenFoldSet, MakingKeys!MapThenFoldSet,
         MakingColumns!GreatestIn, MakingIndexes!GreatestIn, MakingKeys!GreatestIn, Max
<1> HIDE DEF idxs, fks
<1>8. StaysMade("", one) BY <1>1, <1>3, <1>4, MakingColumns!FoldKeeps
<1> HIDE DEF one
<1>9. StaysMade("", two) BY <1>2, <1>5, <1>8, MakingIndexes!FoldKeeps
<1> HIDE DEF two
<1>10. StaysMade("", three) BY <1>2, <1>6, <1>9, MakingKeys!FoldKeeps
<1> QED BY <1>7, <1>10 DEF StaysMade

----------------------------------------------------------------------------
(* Comparing the columns that both tables have (DiffSharedColumns).         *)

\* Column nodes after a comparison: a modified one remembers what it was.
ColumnNodes ==
  [name : ColumnNames, oldName : ColumnNames \cup {Nil}, action : Actions,
   attr : Attrs, prev : Attrs]

LEMMA ColumnNodesAre ==
  /\ ColumnItems \subseteq ColumnNodes
  /\ \A item \in ColumnNodes, attr \in Attrs, action \in Actions :
       LET changed == [item EXCEPT !.action = action, !.prev = attr]
       IN  /\ changed \in ColumnNodes /\ changed.name = item.name /\ changed.action = action
           /\ changed.attr = item.attr /\ changed.prev = attr
  /\ \A item \in ColumnNodes, action \in Actions :
       LET changed == [item EXCEPT !.action = action]
       IN  /\ changed \in ColumnNodes /\ changed.name = item.name /\ changed.action = action
           /\ changed.attr = item.attr /\ changed.prev = item.prev
<1>1. NilAttr \in Attrs
  <2>1. <<>> \in Seq(Options \cup {Reference}) OBVIOUS
  <2> QED BY <2>1 DEF NilAttr, Attrs
<1> QED BY <1>1 DEF ColumnItems, ColumnNodes

\* The change of a column, if the old table has it.
Has(old, n) == n \in DOMAIN old.cols.id /\ Node(old.cols, n).action # "no"
IsCompared(r, item, old) ==
  /\ r \in ColumnNodes /\ r.name = item.name
  /\ Has(old, item.name) => r.action \in {"no", "modify"}
  /\ ~Has(old, item.name) => r = item

LEMMA SharedColumn ==
  ASSUME NEW old, Sound(old.cols, ColumnItems, ColumnNames),
         NEW item \in ColumnItems, item.action = "add"
  PROVE  IsCompared(DiffSharedColumn(item, old), item, old)
<1> DEFINE r == DiffSharedColumn(item, old)
           was == Node(old.cols, item.name)
<1>0. item \in ColumnNodes BY ColumnNodesAre
<1>1. IsShared(item, old.cols) <=> Has(old, item.name)
  <2>1. CASE item.name \in DOMAIN old.cols.id
    <3>1. /\ IdOf(old.cols, item.name) = old.cols.id[item.name] /\ IdOf(old.cols, item.name) > 0
      BY <2>1, EveryNodeNamed
    <3> QED BY <2>1, <3>1 DEF IsShared, Has, Node
  <2>2. CASE item.name \notin DOMAIN old.cols.id BY <2>2 DEF IsShared, Has, IdOf
  <2> QED BY <2>1, <2>2
<1>2. CASE Has(old, item.name)
  <2>1. /\ was \in ColumnItems
        /\ was = old.cols.items[IdOf(old.cols, item.name)]
    BY <1>2, EveryNodeNamed DEF Has, Node
  <2> HIDE DEF was
  <2>2. was.attr \in Attrs BY <2>1 DEF ColumnItems
  <2>3. r = IF HasChangedAttr(item.attr, was.attr)
            THEN [item EXCEPT !.action = "modify", !.prev = was.attr]
            ELSE [item EXCEPT !.action = "no"]
    BY <1>1, <1>2, <2>1 DEF DiffSharedColumn
  <2>4. /\ [item EXCEPT !.action = "modify", !.prev = was.attr] \in ColumnNodes
        /\ [item EXCEPT !.action = "no"] \in ColumnNodes
    BY <1>0, <2>2 DEF ColumnNodes, Actions
  <2>5. /\ [item EXCEPT !.action = "modify", !.prev = was.attr].name = item.name
        /\ [item EXCEPT !.action = "modify", !.prev = was.attr].action = "modify"
        /\ [item EXCEPT !.action = "no"].name = item.name
        /\ [item EXCEPT !.action = "no"].action = "no"
    BY <1>0 DEF ColumnNodes
  <2> HIDE DEF r
  <2>6. r \in ColumnNodes /\ r.name = item.name /\ r.action \in {"no", "modify"}
    BY <2>3, <2>4, <2>5
  <2> QED BY <1>2, <2>6 DEF IsCompared, r
<1>3. CASE ~Has(old, item.name)
  <2>1. r = item BY <1>1, <1>3 DEF DiffSharedColumn
  <2> HIDE DEF r
  <2> QED BY <1>0, <1>3, <2>1 DEF IsCompared, r
<1> QED BY <1>2, <1>3

\* r is table t, with the columns compared to those of old.
ComparedTo(r, t, old) ==
  /\ OnlyColumns(r, t) /\ r.pos = t.pos
  /\ Sound(r.cols, ColumnNodes, ColumnNames) /\ AllFound(r.cols)
  /\ r.cols.id = t.cols.id /\ Len(r.cols.items) = Len(t.cols.items)
  /\ \A n \in DOMAIN t.cols.id : IsCompared(Node(r.cols, n), Node(t.cols, n), old)

LEMMA SharedColumnsCompared ==
  ASSUME NEW wants, Ready(wants), NEW old, Sound(old.cols, ColumnItems, ColumnNames)
  PROVE  LET p == DiffSharedColumns([t |-> wants, old |-> old])
         IN  p = [t |-> p.t, old |-> old] /\ ComparedTo(p.t, wants, old)
<1> DEFINE l == wants.cols
           items == [i \in DOMAIN l.items |-> DiffSharedColumn(l.items[i], old)]
           r == [wants EXCEPT !.cols.items = items]
           pair == [t |-> wants, old |-> old]
           p == DiffSharedColumns(pair)
<1>1. /\ Sound(l, ColumnItems, ColumnNames) /\ AllFound(l) /\ AllAdded(l)
      /\ DOMAIN l.items = 1 .. Len(l.items) /\ Len(l.items) \in Nat
      /\ l.items \in Seq(ColumnItems) /\ l = [items |-> l.items, id |-> l.id]
  BY EveryNodeNamed DEF Ready, Grown
<1>2. p = [pair EXCEPT !.t.cols.items = [i \in DOMAIN @ |-> DiffSharedColumn(@[i], pair.old)]]
  <2>1. \A n : ~IsStale(old.cols, n) BY EveryNodeNamed
  <2> QED BY <2>1 DEF DiffSharedColumns
<1>3. [pair EXCEPT !.t.cols.items = [i \in DOMAIN @ |-> DiffSharedColumn(@[i], pair.old)]]
        = [t |-> r, old |-> old]
  OBVIOUS
<1>4. OnlyColumns(r, wants) /\ r.pos = wants.pos /\ r.cols = [items |-> items, id |-> l.id]
  BY <1>1 DEF Ready, AtRest, IsTable, OnlyColumns
<1>5. \A i \in 1 .. Len(l.items) : IsCompared(items[i], l.items[i], old)
  <2> SUFFICES ASSUME NEW i \in 1 .. Len(l.items) PROVE IsCompared(items[i], l.items[i], old)
    OBVIOUS
  <2>1. items[i] = DiffSharedColumn(l.items[i], old) BY <1>1
  <2>2. l.items[i] \in ColumnItems /\ l.items[i].action = "add" BY <1>1 DEF AllAdded
  <2> HIDE DEF items
  <2> QED BY <2>1, <2>2, SharedColumn
<1>6. Len(items) = Len(l.items) /\ DOMAIN items = 1 .. Len(l.items) BY <1>1
<1> HIDE DEF items
<1>7. items \in Seq(ColumnNodes)
  <2>1. \A i \in 1 .. Len(l.items) : items[i] \in ColumnNodes BY <1>5 DEF IsCompared
  <2>2. items = [i \in DOMAIN items |-> items[i]] BY DEF items
  <2>3. items \in [1 .. Len(l.items) -> ColumnNodes] BY <1>6, <2>1, <2>2, ZenonT(30)
  <2> QED BY <1>1, <2>3
<1>8. Revises(r.cols, l)
  <2>1. \A i \in 1 .. Len(l.items) : items[i].name = l.items[i].name
    BY <1>5 DEF IsCompared
  <2>2. \A i \in 1 .. Len(l.items) : IsLive(l.items[i].action) BY <1>1 DEF AllAdded, IsLive
  <2> QED BY <1>4, <1>6, <2>1, <2>2 DEF Revises
<1>9. Sound(r.cols, ColumnNodes, ColumnNames) /\ AllFound(r.cols)
  BY <1>1, <1>4, <1>7, <1>8, RevisedSound
<1>10. \A n \in DOMAIN l.id : IsCompared(Node(r.cols, n), Node(l, n), old)
  <2>1. \A n \in DOMAIN l.id : l.id[n] \in 1 .. Len(l.items) BY <1>1, EveryNodeNamed
  <2> QED BY <1>4, <1>5, <2>1 DEF Node
<1> HIDE DEF r
<1>11. ComparedTo(r, wants, old) BY <1>4, <1>6, <1>9, <1>10 DEF ComparedTo
<1> HIDE DEF p
<1>12. p = [t |-> r, old |-> old] BY <1>2, <1>3
<1> QED BY <1>11, <1>12 DEF p

----------------------------------------------------------------------------
(* Lost columns are put among the wanted ones (PutLostColumns).             *)

\* A table r that is t with a new column put at a place.
LostPut(r, t, gone, place) ==
  /\ OnlyColumns(r, t) /\ r.pos = NoPosition
  /\ Sound(r.cols, ColumnNodes, ColumnNames) /\ AllFound(r.cols)
  /\ DOMAIN r.cols.id = DOMAIN t.cols.id \cup {gone.name}
  /\ Node(r.cols, gone.name) = gone
  /\ \A n \in DOMAIN t.cols.id :
       /\ Node(r.cols, n) = Node(t.cols, n)
       /\ r.cols.id[n] = IF place <= t.cols.id[n] THEN t.cols.id[n] + 1 ELSE t.cols.id[n]

LEMMA LostColumnPut ==
  ASSUME NEW t, AtRest(t), Sound(t.cols, ColumnNodes, ColumnNames), AllFound(t.cols),
         NEW gone \in ColumnNodes, gone.name \notin DOMAIN t.cols.id,
         NEW place \in 1 .. Len(t.cols.items) + 1
  PROVE  LET added == AddColumn(t, gone)
         IN  /\ added.panic = FALSE
             /\ LostPut(SwapColumns(added, gone.name, Len(added.cols.items), place), t, gone, place)
<1> DEFINE l == t.cols
           grown == AppendItem(l, gone)
           last == Len(l.items) + 1
           u == [t EXCEPT !.cols = grown]
           swapped == SwapOrder(grown, gone.name, Len(grown.items), place)
           r == [u EXCEPT !.cols = swapped]
<1>1. /\ l.items \in Seq(ColumnNodes) /\ Len(l.items) \in Nat /\ ~IsStale(l, gone.name)
      /\ IdOf(l, gone.name) = 0
      /\ \A n \in DOMAIN l.id : l.id[n] \in 1 .. Len(l.items)
  BY EveryNodeNamed
<1>2. gone.name \in ColumnNames BY DEF ColumnNodes
<1>3. IsTable(u) /\ u.cols = grown /\ u.pos = NoPosition /\ u.panic = FALSE /\ OnlyColumns(u, t)
  BY DEF AtRest, IsTable, OnlyColumns
<1>4. AddColumn(t, gone) = u
  <2>1. AddColumn(t, gone) = PlaceColumn([t EXCEPT !.cols = PutItem(@, gone)], gone.name, last)
    BY <1>1 DEF AddColumn
  <2>2. [t EXCEPT !.cols = PutItem(@, gone)] = u BY <1>1 DEF PutItem
  <2> HIDE DEF u
  <2>3. PlaceColumn(u, gone.name, last) = [u EXCEPT !.pos = NoPosition]
    BY <1>3 DEF PlaceColumn, NoPosition
  <2>4. [u EXCEPT !.pos = NoPosition] = u BY <1>3 DEF IsTable
  <2> QED BY <2>1, <2>2, <2>3, <2>4
<1>5. /\ grown.items = Append(l.items, gone) /\ Len(grown.items) = last
      /\ DOMAIN grown.id = DOMAIN l.id \cup {gone.name} /\ grown.id[gone.name] = last
      /\ \A n \in DOMAIN l.id : grown.id[n] = l.id[n] /\ Node(grown, n) = Node(l, n)
      /\ Node(grown, gone.name) = gone
  BY <1>1 DEF AppendItem, Point, Node
<1>6. Sound(grown, ColumnNodes, ColumnNames) BY <1>2, AppendItemSound
<1> HIDE DEF grown
<1>7. /\ Sound(swapped, ColumnNodes, ColumnNames)
      /\ DOMAIN swapped.id = DOMAIN grown.id
      /\ PutAt(swapped, grown, gone.name, place)
  BY <1>5, <1>6, SwapOrderFromLast
<1>8. SwapColumns(u, gone.name, Len(u.cols.items), place) = r
  <2>1. ~SwapPanics(u.cols, Len(u.cols.items), place) BY <1>1, <1>3, <1>5 DEF SwapPanics
  <2> HIDE DEF u
  <2> QED BY <1>3, <2>1 DEF SwapColumns
<1> HIDE DEF swapped
<1>9. OnlyColumns(r, t) /\ r.pos = NoPosition /\ r.cols = swapped
  <2> HIDE DEF u
  <2> QED BY <1>3 DEF IsTable, OnlyColumns
<1>10. AllFound(swapped)
  <2>1. DOMAIN swapped.id = DOMAIN l.id \cup {gone.name} BY <1>5, <1>7
  <2> QED BY <1>7, <2>1, FoundWhenPut DEF grown
<1>11. /\ Node(swapped, gone.name) = gone
       /\ \A n \in DOMAIN l.id :
            /\ Node(swapped, n) = Node(l, n)
            /\ swapped.id[n] = IF place <= l.id[n] THEN l.id[n] + 1 ELSE l.id[n]
  BY <1>5, <1>7 DEF PutAt, Node
<1> HIDE DEF u, r, last
<1>12. LostPut(r, t, gone, place)
  BY <1>5, <1>7, <1>9, <1>10, <1>11 DEF LostPut
<1> QED BY <1>3, <1>4, <1>8, <1>12

LostColumnAt(p, v, j) == PutLostColumn(v, j)
IsThat(p, v) == v = p
LosingColumns == INSTANCE Folding WITH Op <- LostColumnAt, Holds <- IsThat

LEMMA PutLostColumnsIs ==
  ASSUME NEW p
  PROVE  PutLostColumns(p) = LosingColumns!Fold(p, p, [i \in DOMAIN p.old.cols.items |-> i])
BY DEF LosingColumns!Fold, LostColumnAt, FoldLeft, PutLostColumns, FoldLeftDomain,
       LosingColumns!MapThenFoldSet, MapThenFoldSet, LosingColumns!GreatestIn, Max

\* v is the pair p after the first j columns of the old table.
Recovered(p, v, j) ==
  /\ v = [t |-> v.t, old |-> v.old]
  /\ OnlyColumns(v.t, p.t) /\ v.t.pos = NoPosition
  /\ Sound(v.t.cols, ColumnNodes, ColumnNames) /\ AllFound(v.t.cols)
  /\ DOMAIN v.t.cols.id = DOMAIN p.t.cols.id \cup {p.old.cols.items[i].name : i \in 1 .. j}
  /\ \A n \in DOMAIN p.t.cols.id : Node(v.t.cols, n) = Node(p.t.cols, n)
  /\ \A m, n \in DOMAIN p.t.cols.id : p.t.cols.id[m] < p.t.cols.id[n]
                                        => v.t.cols.id[m] < v.t.cols.id[n]
  /\ \A n \in DOMAIN v.t.cols.id \ DOMAIN p.t.cols.id : Node(v.t.cols, n).action = "remove"
  /\ OnlyColumns(v.old, p.old) /\ v.old.cols.id = p.old.cols.id
  /\ v.old.cols.items \in Seq(ColumnItems) /\ Len(v.old.cols.items) = Len(p.old.cols.items)
  /\ \A i \in 1 .. Len(p.old.cols.items) : v.old.cols.items[i].name = p.old.cols.items[i].name
  /\ \A i \in 1 .. Len(p.old.cols.items) : i > j => v.old.cols.items[i] = p.old.cols.items[i]

\* The names of the first columns of the old table have as many places.
LEMMA RoomForLost ==
  ASSUME NEW l, Sound(l, ColumnNodes, ColumnNames), NEW j \in Nat, NEW f,
         \A i \in 1 .. j : f[i] \in DOMAIN l.id,
         \A i, k \in 1 .. j : f[i] = f[k] => i = k
  PROVE  j <= Len(l.items)
<1> DEFINE n == Len(l.items)
           g == [i \in 1 .. j |-> l.id[f[i]]]
<1>1. n \in Nat /\ (\A m \in DOMAIN l.id : l.id[m] \in 1 .. n)
      /\ (\A m, k \in DOMAIN l.id : l.id[m] = l.id[k] => m = k)
  BY EveryNodeNamed
<1> HIDE DEF n
<1>2. g \in [1 .. j -> 1 .. n] BY <1>1
<1>3. \A i, k \in 1 .. j : g[i] = g[k] => i = k BY <1>1
<1> HIDE DEF g
<1>4. SUFFICES ASSUME n < j PROVE FALSE BY <1>1 DEF n
<1>5. /\ IsFiniteSet(1 .. j) /\ Cardinality(1 .. j) = j
      /\ IsFiniteSet(1 .. n) /\ Cardinality(1 .. n) = n
  BY <1>1, <1>4, FS_Interval
<1>6. \E x, y \in 1 .. j : x # y /\ g[x] = g[y]
  BY <1>2, <1>4, <1>5, FS_PigeonHole
<1> QED BY <1>3, <1>6

\* One more column.
LEMMA RecoverNext ==
  ASSUME NEW p, AtRest(p.t), IsTable(p.old), Grown(p.old.cols),
         NEW v, NEW k \in 1 .. Len(p.old.cols.items), Recovered(p, v, k - 1)
  PROVE  Recovered(p, PutLostColumn(v, k), k)
<1> DEFINE o == p.old.cols
           w == v.old.cols
           item == w.items[k]
           n == item.name
           T == DOMAIN p.t.cols.id
           U == DOMAIN v.t.cols.id
           names(j) == {o.items[i].name : i \in 1 .. j}
<1>1. /\ Sound(o, ColumnItems, ColumnNames) /\ AllFound(o) /\ AllAdded(o)
      /\ o.items \in Seq(ColumnItems) /\ Len(o.items) \in Nat
      /\ DOMAIN o.items = 1 .. Len(o.items) /\ o = [items |-> o.items, id |-> o.id]
  BY EveryNodeNamed DEF Grown
<1>2. k \in Nat /\ k - 1 \in Nat /\ k > k - 1 BY <1>1
<1>3. /\ v = [t |-> v.t, old |-> v.old]
      /\ OnlyColumns(v.t, p.t) /\ v.t.pos = NoPosition
      /\ Sound(v.t.cols, ColumnNodes, ColumnNames) /\ AllFound(v.t.cols)
      /\ U = T \cup names(k - 1)
      /\ OnlyColumns(v.old, p.old) /\ w.id = o.id /\ Len(w.items) = Len(o.items)
      /\ w.items \in Seq(ColumnItems)
      /\ \A i \in 1 .. Len(o.items) : w.items[i].name = o.items[i].name
      /\ item = o.items[k]
  BY <1>2 DEF Recovered
<1>4. AtRest(v.t) BY <1>3 DEF AtRest, OnlyColumns
<1>5. \A i \in 1 .. Len(o.items) : o.id[o.items[i].name] = i /\ o.items[i].name \in DOMAIN o.id
  BY <1>1 DEF AllFound
<1>6. names(k) = names(k - 1) \cup {n}
  <2>1. 1 .. k = (1 .. k - 1) \cup {k} BY <1>2
  <2> QED BY <1>3, <2>1
<1>7. item \in ColumnItems /\ item.action = "add" /\ n \in DOMAIN o.id /\ o.id[n] = k
      /\ n = o.items[k].name
  BY <1>1, <1>3, <1>5 DEF AllAdded
<1>8. n \notin names(k - 1)
  <2> SUFFICES ASSUME NEW i \in 1 .. k - 1, o.items[i].name = n PROVE FALSE OBVIOUS
  <2>1. i \in 1 .. Len(o.items) /\ i # k BY <1>1, <1>2
  <2>2. o.id[o.items[i].name] = i BY <1>5, <2>1
  <2> HIDE DEF n, item
  <2> QED BY <1>7, <2>1, <2>2
<1>9. IsLost(w, k, v.t.cols) <=> n \notin U
  <2>1. n \in U => IdOf(v.t.cols, n) # 0
    <3>1. \A m \in U : IdOf(v.t.cols, m) = v.t.cols.id[m] /\ v.t.cols.id[m] > 0
      BY <1>3, EveryNodeNamed
    <3> QED BY <3>1
  <2>2. n \notin U => IdOf(v.t.cols, n) = 0 BY DEF IdOf
  <2> QED BY <1>7, <2>1, <2>2 DEF IsLost
<1>10. CASE n \in U
  <2>1. PutLostColumn(v, k) = v BY <1>9, <1>10 DEF PutLostColumn
  <2>2. U = T \cup names(k) BY <1>3, <1>6, <1>10
  <2>3. \A i \in 1 .. Len(o.items) : i > k => i > k - 1 BY <1>2
  <2> HIDE DEF names
  <2> QED BY <2>1, <2>2, <2>3 DEF Recovered, names
<1>11. CASE n \notin U
  <2> DEFINE gone == [item EXCEPT !.action = "remove"]
             old2 == [v.old EXCEPT !.cols = SetItem(@, k, gone)]
             added == AddColumn(v.t, gone)
             before == IF k = 1 THEN 0 ELSE IdOf(old2.cols, old2.cols.items[k - 1].name)
             r == SwapColumns(added, gone.name, Len(added.cols.items), k)
             q == [old |-> old2, t |-> r]
  <2>1. gone \in ColumnNodes /\ gone \in ColumnItems /\ gone.name = n /\ gone.action = "remove"
    <3>1. gone \in ColumnItems BY <1>7 DEF ColumnItems, Actions
    <3>2. gone.name = n /\ gone.action = "remove" BY <1>7 DEF ColumnItems
    <3> QED BY <3>1, <3>2, ColumnNodesAre
  <2> HIDE DEF gone
  <2>2. OnlyColumns(old2, v.old) /\ old2.cols = SetItem(w, k, gone)
    BY <1>3 DEF OnlyColumns, IsTable
  <2>3. /\ old2.cols.id = o.id /\ Len(old2.cols.items) = Len(o.items)
        /\ \A i \in 1 .. Len(o.items) : i # k => old2.cols.items[i] = w.items[i]
        /\ \A i \in 1 .. Len(o.items) : old2.cols.items[i].name = o.items[i].name
        /\ old2.cols.items \in Seq(ColumnItems)
    <3>1. DOMAIN w.items = 1 .. Len(o.items) /\ w.items \in Seq(ColumnItems) BY <1>3
    <3>2. old2.cols.items = [w.items EXCEPT ![k] = gone] /\ old2.cols.id = w.id
      BY <2>2 DEF SetItem
    <3> HIDE DEF old2
    <3> QED BY <1>3, <1>7, <2>1, <3>1, <3>2
  <2> HIDE DEF old2
  <2>4. before = k - 1
    <3>1. CASE k = 1 BY <3>1
    <3>2. CASE k # 1
      <4> DEFINE j == k - 1
      <4>1. j \in 1 .. Len(o.items) BY <1>1, <3>2
      <4> HIDE DEF j
      <4>2. old2.cols.items[j].name = o.items[j].name /\ o.items[j].name \in DOMAIN o.id
            /\ o.id[o.items[j].name] = j
        BY <1>5, <2>3, <4>1
      <4>3. IdOf(old2.cols, old2.cols.items[j].name) = j BY <2>3, <4>2 DEF IdOf
      <4> QED BY <3>2, <4>3 DEF j
    <3> QED BY <3>1, <3>2
  <2> HIDE DEF before
  <2>5. k \in 1 .. Len(v.t.cols.items) + 1
    <3> DEFINE j == k - 1
               f == [i \in 1 .. j |-> o.items[i].name]
    <3>1. \A i \in 1 .. j : f[i] \in U BY <1>3
    <3>2. \A i, m \in 1 .. j : f[i] = f[m] => i = m
      <4>1. \A i \in 1 .. j : i \in 1 .. Len(o.items) BY <1>1, <1>2
      <4> QED BY <1>5, <4>1
    <3>3. j \in Nat BY <1>2
    <3> HIDE DEF f, j
    <3>4. j <= Len(v.t.cols.items) BY <1>3, <3>1, <3>2, <3>3, RoomForLost
    <3>5. Len(v.t.cols.items) \in Nat BY <1>3, EveryNodeNamed
    <3> QED BY <1>2, <3>4, <3>5 DEF j
  <2>6. added.panic = FALSE /\ LostPut(r, v.t, gone, k)
    BY <1>3, <1>4, <1>11, <2>1, <2>5, LostColumnPut
  <2>7. PutLostColumn(v, k) = q
    <3>1. v.t.panic = FALSE /\ IsLost(w, k, v.t.cols) BY <1>4, <1>9, <1>11 DEF AtRest
    <3>2. ~added.panic /\ (k = 1 \/ before > 0) BY <1>2, <2>4, <2>6
    <3>3. before + 1 = k BY <1>2, <2>4
    <3> QED BY <3>1, <3>2, <3>3 DEF PutLostColumn, gone, old2, before
  <2> HIDE DEF added, r
  <2>8. Recovered(p, q, k)
    <3>1. q.t = r /\ q.old = old2 /\ q = [t |-> q.t, old |-> q.old] OBVIOUS
    <3> HIDE DEF q
    <3>2. OnlyColumns(r, p.t) /\ r.pos = NoPosition /\ Sound(r.cols, ColumnNodes, ColumnNames)
          /\ AllFound(r.cols)
      BY <1>3, <2>6 DEF LostPut, OnlyColumns
    <3>3. DOMAIN r.cols.id = T \cup names(k)
      <4>1. DOMAIN r.cols.id = U \cup {n} BY <2>1, <2>6 DEF LostPut
      <4> HIDE DEF names
      <4> QED BY <1>3, <1>6, <4>1
    <3>4. T \subseteq U BY <1>3
    <3>5. \A m \in T : Node(r.cols, m) = Node(p.t.cols, m)
      BY <2>6, <3>4 DEF Recovered, LostPut
    <3>6. \A m, i \in T : p.t.cols.id[m] < p.t.cols.id[i] => r.cols.id[m] < r.cols.id[i]
      <4> SUFFICES ASSUME NEW m \in T, NEW i \in T, p.t.cols.id[m] < p.t.cols.id[i]
                   PROVE  r.cols.id[m] < r.cols.id[i]
        OBVIOUS
      <4>1. v.t.cols.id[m] < v.t.cols.id[i] BY DEF Recovered
      <4>2. /\ r.cols.id[m] = IF k <= v.t.cols.id[m] THEN v.t.cols.id[m] + 1 ELSE v.t.cols.id[m]
            /\ r.cols.id[i] = IF k <= v.t.cols.id[i] THEN v.t.cols.id[i] + 1 ELSE v.t.cols.id[i]
        BY <2>6, <3>4 DEF LostPut
      <4>3. v.t.cols.id[m] \in Nat /\ v.t.cols.id[i] \in Nat
        <5>1. Len(v.t.cols.items) \in Nat /\ \A x \in U : v.t.cols.id[x] \in 1 .. Len(v.t.cols.items)
          BY <1>3, EveryNodeNamed
        <5> QED BY <3>4, <5>1
      <4> QED BY <1>2, <4>1, <4>2, <4>3
    <3>7. \A m \in DOMAIN r.cols.id \ T : Node(r.cols, m).action = "remove"
      <4>1. DOMAIN r.cols.id = U \cup {n} /\ Node(r.cols, n) = gone
            /\ \A m \in U : Node(r.cols, m) = Node(v.t.cols, m)
        BY <2>1, <2>6 DEF LostPut
      <4>2. \A m \in U \ T : Node(v.t.cols, m).action = "remove" BY DEF Recovered
      <4> QED BY <2>1, <4>1, <4>2
    <3>8. OnlyColumns(old2, p.old) BY <1>3, <2>2 DEF OnlyColumns
    <3>9. \A i \in 1 .. Len(o.items) : i > k => old2.cols.items[i] = o.items[i]
      <4>1. \A i \in 1 .. Len(o.items) : i > k - 1 => w.items[i] = o.items[i] BY DEF Recovered
      <4>2. \A i \in 1 .. Len(o.items) : i > k => i > k - 1 /\ i # k BY <1>2
      <4> QED BY <2>3, <4>1, <4>2
    <3> HIDE DEF names
    <3> QED BY <2>3, <3>1, <3>2, <3>3, <3>5, <3>6, <3>7, <3>8, <3>9 DEF Recovered, names
  <2> QED BY <2>7, <2>8
<1> QED BY <1>10, <1>11

\* All of them.
LEMMA AllRecovered ==
  ASSUME NEW p, p = [t |-> p.t, old |-> p.old],
         AtRest(p.t), Sound(p.t.cols, ColumnNodes, ColumnNames), AllFound(p.t.cols),
         IsTable(p.old), Grown(p.old.cols)
  PROVE  Recovered(p, PutLostColumns(p), Len(p.old.cols.items))
<1> DEFINE o == p.old.cols
           n == Len(o.items)
           places == [i \in DOMAIN o.items |-> i]
           upTo(k) == LosingColumns!FoldTo(p, p, places, k)
           T == {k \in Nat : k <= n => Recovered(p, upTo(k), k)}
<1>1. /\ o.items \in Seq(ColumnItems) /\ n \in Nat /\ DOMAIN o.items = 1 .. n
  BY EveryNodeNamed DEF Grown
<1>2. places \in Seq(Nat) /\ Len(places) = n /\ \A k \in 1 .. n : places[k] = k BY <1>1
<1> HIDE DEF places
<1>3. 0 \in T
  <2>1. upTo(0) = p BY <1>2, LosingColumns!FoldNone
  <2>2. Recovered(p, p, 0)
    <3>1. {o.items[i].name : i \in 1 .. 0} = {} OBVIOUS
    <3>2. p.t.pos = NoPosition /\ OnlyColumns(p.t, p.t) /\ OnlyColumns(p.old, p.old)
      BY DEF AtRest, OnlyColumns
    <3> QED BY <1>1, <3>1, <3>2 DEF Recovered
  <2> HIDE DEF upTo
  <2> QED BY <2>1, <2>2
<1>4. ASSUME NEW k \in Nat, k \in T PROVE k + 1 \in T
  <2> DEFINE j == k + 1
  <2> SUFFICES ASSUME j <= n PROVE Recovered(p, upTo(j), j) OBVIOUS
  <2>1. j \in 1 .. n /\ j \in 1 .. Len(places) /\ j - 1 = k /\ k <= n BY <1>1, <1>2
  <2>2. Recovered(p, upTo(k), k) BY <1>4, <2>1
  <2> HIDE DEF j, T
  <2>3. upTo(j) = LostColumnAt(p, upTo(j - 1), places[j]) BY <1>2, <2>1, LosingColumns!FoldNext
  <2>4. upTo(j) = PutLostColumn(upTo(k), j) BY <1>2, <2>1, <2>3 DEF LostColumnAt
  <2> HIDE DEF upTo
  <2>5. Recovered(p, upTo(k), j - 1) BY <2>1, <2>2
  <2> QED BY <2>1, <2>4, <2>5, RecoverNext
<1> HIDE DEF T
<1>5. \A k \in Nat : k \in T BY <1>3, <1>4, Living!EveryNatural
<1>6. Recovered(p, upTo(n), n) BY <1>1, <1>5 DEF T
<1>7. PutLostColumns(p) = upTo(n)
  <2>1. PutLostColumns(p) = LosingColumns!Fold(p, p, places) BY PutLostColumnsIs DEF places
  <2> QED BY <1>2, <2>1, LosingColumns!FoldAll
<1> QED BY <1>6, <1>7

\* When none is lost nothing happens.
LEMMA NoneRecovered ==
  ASSUME NEW p, NEW S, p.old.cols.items \in Seq(S),
         \A j \in 1 .. Len(p.old.cols.items) : ~IsLost(p.old.cols, j, p.t.cols)
  PROVE  PutLostColumns(p) = p
<1> DEFINE places == [i \in DOMAIN p.old.cols.items |-> i]
<1>1. places \in Seq(Nat) /\ DOMAIN places = 1 .. Len(p.old.cols.items)
      /\ \A k \in DOMAIN places : places[k] = k
  OBVIOUS
<1>2. PutLostColumns(p) = LosingColumns!Fold(p, p, places) BY PutLostColumnsIs
<1> HIDE DEF places
<1>3. LosingColumns!Kept(p, places)
  <2>1. \A k \in DOMAIN places : PutLostColumn(p, places[k]) = p BY <1>1 DEF PutLostColumn
  <2>2. \A v : \A k \in DOMAIN places : IsThat(p, v) => IsThat(p, LostColumnAt(p, v, places[k]))
    BY <2>1 DEF IsThat, LostColumnAt
  <2> QED BY <2>2 DEF LosingColumns!Kept
<1>4. IsThat(p, p) BY DEF IsThat
<1>5. IsThat(p, LosingColumns!Fold(p, p, places)) BY <1>1, <1>3, <1>4, LosingColumns!FoldKeeps
<1> QED BY <1>2, <1>5 DEF IsThat

----------------------------------------------------------------------------
(* Comparing indexes and foreign keys, which are lists of nodes alike.      *)

\* A node of the change list l: an addition, none, or a change of a node of o.
Changes(l, o) ==
  \A i \in 1 .. Len(l.items) : \/ l.items[i].action \in {"add", "no"}
                               \/ /\ l.items[i].action \in {"modify", "remove"}
                                  /\ l.items[i].name \in DOMAIN o.id

\* What comparing makes of a node.
Redefines(item, was, o) ==
  \/ item = was
  \/ item = WithAction(was, "no")
  \/ was.name \in DOMAIN o.id /\ item = WithAction(Node(o, was.name), "modify")

\* The nodes that both lists have.
LEMMA SharedNodes ==
  ASSUME NEW Items, NEW Names, NodeSet(Items, Names),
         NEW l, Sound(l, Items, Names), AllAdded(l), NEW o, Sound(o, Items, Names),
         NEW items, items = [i \in DOMAIN l.items |-> items[i]],
         \A i \in 1 .. Len(l.items) : Redefines(items[i], l.items[i], o)
  PROVE  /\ Sound([items |-> items, id |-> l.id], Items, Names)
         /\ Changes([items |-> items, id |-> l.id], o)
<1> DEFINE r == [items |-> items, id |-> l.id]
<1>1. l.items \in Seq(Items) /\ Len(l.items) \in Nat /\ DOMAIN l.items = 1 .. Len(l.items)
  BY EveryNodeNamed
<1>2. \A i \in 1 .. Len(l.items) :
        /\ items[i] \in Items /\ items[i].name = l.items[i].name
        /\ \/ items[i].action \in {"add", "no"}
           \/ items[i].action = "modify" /\ items[i].name \in DOMAIN o.id
  <2> SUFFICES ASSUME NEW i \in 1 .. Len(l.items)
               PROVE  /\ items[i] \in Items /\ items[i].name = l.items[i].name
                      /\ \/ items[i].action \in {"add", "no"}
                         \/ items[i].action = "modify" /\ items[i].name \in DOMAIN o.id
    OBVIOUS
  <2> DEFINE was == l.items[i]
  <2>1. was \in Items /\ was.action = "add" BY <1>1 DEF AllAdded
  <2> HIDE DEF was
  <2>2. CASE items[i] = was BY <2>1, <2>2 DEF was
  <2>3. CASE items[i] = WithAction(was, "no")
    <3>1. "no" \in Actions BY DEF Actions
    <3> QED BY <2>1, <2>3, <3>1 DEF NodeSet, was
  <2>4. CASE was.name \in DOMAIN o.id /\ items[i] = WithAction(Node(o, was.name), "modify")
    <3>1. "modify" \in Actions BY DEF Actions
    <3>2. Node(o, was.name) \in Items /\ Node(o, was.name).name = was.name
      BY <2>4, EveryNodeNamed
    <3> QED BY <2>4, <3>1, <3>2 DEF NodeSet, was
  <2> QED BY <2>2, <2>3, <2>4 DEF Redefines, was
<1>3. items \in [1 .. Len(l.items) -> Items] BY <1>1, <1>2
<1>4. items \in Seq(Items) /\ Len(items) = Len(l.items) BY <1>1, <1>3
<1>5. Revises(r, l)
  <2>1. \A i \in 1 .. Len(l.items) : IsLive(l.items[i].action) BY DEF AllAdded, IsLive
  <2> QED BY <1>2, <1>4, <2>1 DEF Revises
<1>6. Sound(r, Items, Names) BY <1>4, <1>5, RevisedSound
<1>7. Changes(r, o) BY <1>2, <1>4 DEF Changes
<1> QED BY <1>6, <1>7

\* The wanted list l and the old list o while o's lost nodes are put into l; was is o
\* before.
Losing(Items, Names, l, o, was) ==
  /\ Sound(l, Items, Names) /\ Changes(l, was)
  /\ Sound(o, Items, Names) /\ o.id = was.id /\ Len(o.items) = Len(was.items)

LEMMA LostNode ==
  ASSUME NEW Items, NEW Names, NodeSet(Items, Names),
         NEW l, NEW o, NEW was, Losing(Items, Names, l, o, was),
         NEW j \in 1 .. Len(o.items), IsLost(o, j, l)
  PROVE  LET gone == WithAction(o.items[j], "remove")
         IN  Losing(Items, Names, PutItem(l, gone), SetItem(o, j, gone), was)
<1> DEFINE gone == WithAction(o.items[j], "remove")
           n == gone.name
<1>1. /\ Sound(l, Items, Names) /\ Changes(l, was)
      /\ Sound(o, Items, Names) /\ o.id = was.id /\ Len(o.items) = Len(was.items)
  BY DEF Losing
<1>2. o.items[j] \in Items /\ o.items[j].action = "add" /\ IdOf(l, o.items[j].name) = 0
  BY <1>1, EveryNodeNamed DEF IsLost
<1>3. /\ gone \in Items /\ gone.name = o.items[j].name /\ gone.action = "remove"
      /\ gone.name \in Names
  BY <1>2 DEF NodeSet, Actions
<1> HIDE DEF gone
<1>4. n \in DOMAIN o.id /\ o.id[n] = j BY <1>1, <1>2, <1>3 DEF Sound, Reachable, IsLive
<1>5. n \notin DOMAIN l.id
  <2>1. \A m \in DOMAIN l.id : IdOf(l, m) = l.id[m] /\ l.id[m] > 0 BY <1>1, EveryNodeNamed
  <2> QED BY <1>2, <1>3, <2>1
<1>6. PutItem(l, gone) = AppendItem(l, gone) BY <1>2, <1>3 DEF PutItem
<1>7. Sound(AppendItem(l, gone), Items, Names) BY <1>1, <1>3, <1>5, AppendItemSound
<1>8. Changes(AppendItem(l, gone), was)
  <2>1. l.items \in Seq(Items) /\ Len(l.items) \in Nat BY <1>1, EveryNodeNamed
  <2> DEFINE r == Append(l.items, gone)
  <2>2. /\ Len(r) = Len(l.items) + 1 /\ r[Len(l.items) + 1] = gone
        /\ \A i \in 1 .. Len(l.items) : r[i] = l.items[i]
    BY <1>3, <2>1
  <2> HIDE DEF r
  <2>3. \A i \in 1 .. Len(r) : i \in 1 .. Len(l.items) \/ i = Len(l.items) + 1 BY <2>1, <2>2
  <2>4. AppendItem(l, gone).items = r BY DEF AppendItem, r
  <2> QED BY <1>1, <1>3, <1>4, <2>2, <2>3, <2>4 DEF Changes
<1>9. /\ Sound(SetItem(o, j, gone), Items, Names)
      /\ SetItem(o, j, gone).id = o.id /\ Len(SetItem(o, j, gone).items) = Len(o.items)
  <2>1. SetItem(o, o.id[n], gone) = SetItem(o, j, gone) BY <1>4
  <2>2. /\ Sound(SetItem(o, o.id[n], gone), Items, Names)
        /\ Len(SetItem(o, o.id[n], gone).items) = Len(o.items)
    BY <1>1, <1>3, <1>4, SetItemSound
  <2>3. SetItem(o, j, gone).id = o.id BY DEF SetItem
  <2> QED BY <2>1, <2>2, <2>3
<1> QED BY <1>1, <1>6, <1>7, <1>8, <1>9 DEF Losing, gone

\* A pair of tables during the comparison of the indexes, and of the keys.
IndexesLosing(p, v) ==
  /\ v = [t |-> v.t, old |-> v.old] /\ AtRest(v.t) /\ IsTable(v.old)
  /\ v.t.cols = p.t.cols /\ v.t.fks = p.t.fks /\ v.old.fks = p.old.fks
  /\ Losing(IndexNodes, IndexNames, v.t.idxs, v.old.idxs, p.old.idxs)
LostIndexAt(p, v, j) == PutLostIndex(v, j)
LosingIndexes == INSTANCE Folding WITH Op <- LostIndexAt, Holds <- IndexesLosing

LEMMA IndexesDiffed ==
  ASSUME NEW p, p = [t |-> p.t, old |-> p.old], AtRest(p.t), IsTable(p.old),
         Sound(p.t.idxs, IndexNodes, IndexNames), AllAdded(p.t.idxs),
         Sound(p.old.idxs, IndexNodes, IndexNames)
  PROVE  IndexesLosing(p, PutLostIndexes(DiffSharedIndexes(p)))
<1> DEFINE l == p.t.idxs
           o == p.old.idxs
           items == [i \in DOMAIN l.items |-> DiffSharedIndex(l.items[i], p.old)]
           t == [p.t EXCEPT !.idxs = [items |-> items, id |-> l.id]]
           q == [t |-> t, old |-> p.old]
           places == [i \in DOMAIN o.items |-> i]
<1>1. /\ l = [items |-> l.items, id |-> l.id] /\ DOMAIN l.items = 1 .. Len(l.items)
      /\ o.items \in Seq(IndexNodes) /\ DOMAIN o.items = 1 .. Len(o.items)
      /\ l.items \in Seq(IndexNodes)
  BY EveryNodeNamed
<1>2. DiffSharedIndexes(p) = q
  <2>1. DiffSharedIndexes(p) =
          [p EXCEPT !.t.idxs.items = [i \in DOMAIN @ |-> DiffSharedIndex(@[i], p.old)]]
    BY DEF DiffSharedIndexes
  <2>2. p.t.idxs \in [items : {l.items}, id : {l.id}] BY <1>1
  <2>3. [l EXCEPT !.items = items] = [items |-> items, id |-> l.id] BY <2>2
  <2> QED BY <2>1, <2>3
<1>3. \A i \in 1 .. Len(l.items) : Redefines(items[i], l.items[i], o)
  <2> SUFFICES ASSUME NEW i \in 1 .. Len(l.items) PROVE Redefines(items[i], l.items[i], o)
    OBVIOUS
  <2> DEFINE was == l.items[i]
             j == IdOf(o, was.name)
  <2>1. items[i] = DiffSharedIndex(was, p.old) BY <1>1
  <2> HIDE DEF items
  <2>2. CASE ~IsShared(was, o) BY <2>1, <2>2 DEF DiffSharedIndex, Redefines
  <2>3. CASE IsShared(was, o)
    <3>0. j > 0 BY <2>3 DEF IsShared
    <3>1. was.name \in DOMAIN o.id
      <4> HIDE DEF was, o
      <4> QED BY <3>0 DEF IdOf
    <3>2. o.items[j] = Node(o, was.name)
      <4>1. IdOf(o, was.name) = o.id[was.name] BY <3>1, EveryNodeNamed
      <4> QED BY <4>1 DEF Node
    <3> QED BY <2>1, <2>3, <3>1, <3>2 DEF DiffSharedIndex, Redefines, WithAction
  <2> QED BY <2>2, <2>3
<1>4. items = [i \in DOMAIN l.items |-> items[i]] OBVIOUS
<1> HIDE DEF items
<1>5. /\ Sound([items |-> items, id |-> l.id], IndexNodes, IndexNames)
      /\ Changes([items |-> items, id |-> l.id], o)
  BY <1>3, <1>4, IndexNodeSets, SharedNodes
<1>6. IndexesLosing(p, q)
  <2>1. /\ AtRest(t) /\ t.cols = p.t.cols /\ t.fks = p.t.fks
        /\ t.idxs = [items |-> items, id |-> l.id]
    BY DEF AtRest, IsTable
  <2>2. Losing(IndexNodes, IndexNames, t.idxs, o, o) BY <1>5, <2>1 DEF Losing
  <2> HIDE DEF t
  <2> QED BY <2>1, <2>2 DEF IndexesLosing
<1> HIDE DEF t
<1>7. \A v : \A j \in 1 .. Len(o.items) : IndexesLosing(p, v) => IndexesLosing(p, PutLostIndex(v, j))
  <2> SUFFICES ASSUME NEW v, NEW j \in 1 .. Len(o.items), IndexesLosing(p, v)
               PROVE  IndexesLosing(p, PutLostIndex(v, j))
    OBVIOUS
  <2>0. v = [t |-> v.t, old |-> v.old] /\ AtRest(v.t) /\ IsTable(v.old)
        /\ v.t.cols = p.t.cols /\ v.t.fks = p.t.fks /\ v.old.fks = p.old.fks
        /\ Losing(IndexNodes, IndexNames, v.t.idxs, v.old.idxs, p.old.idxs)
    BY DEF IndexesLosing
  <2>1. CASE ~IsLost(v.old.idxs, j, v.t.idxs) BY <2>1 DEF PutLostIndex
  <2>2. CASE IsLost(v.old.idxs, j, v.t.idxs)
    <3> DEFINE gone == WithAction(v.old.idxs.items[j], "remove")
               ls == PutItem(v.t.idxs, gone)
               os == SetItem(v.old.idxs, j, gone)
               r == [old |-> [v.old EXCEPT !.idxs = os], t |-> [v.t EXCEPT !.idxs = ls]]
    <3>1. PutLostIndex(v, j) = r
      BY <2>0, <2>2 DEF PutLostIndex, AddIndex, WithAction, AtRest
    <3>2. j \in 1 .. Len(v.old.idxs.items) BY <2>0 DEF Losing
    <3>3. Losing(IndexNodes, IndexNames, ls, os, o)
      BY <2>0, <2>2, <3>2, IndexNodeSets, LostNode
    <3> HIDE DEF ls, os
    <3>4. /\ r = [t |-> r.t, old |-> r.old] /\ AtRest(r.t) /\ IsTable(r.old)
          /\ r.t.cols = v.t.cols /\ r.t.fks = v.t.fks /\ r.old.fks = v.old.fks
          /\ r.t.idxs = ls /\ r.old.idxs = os
      BY <2>0 DEF AtRest, IsTable
    <3> HIDE DEF r
    <3> QED BY <2>0, <3>1, <3>3, <3>4 DEF IndexesLosing
  <2> QED BY <2>1, <2>2
<1>8. /\ places \in Seq(Nat) /\ DOMAIN places = 1 .. Len(o.items)
      /\ \A k \in DOMAIN places : places[k] = k
  BY <1>1
<1>9. PutLostIndexes(q) = LosingIndexes!Fold(p, q, places)
  BY DEF LosingIndexes!Fold, LostIndexAt, FoldLeft, PutLostIndexes, FoldLeftDomain,
         LosingIndexes!MapThenFoldSet, MapThenFoldSet, LosingIndexes!GreatestIn, Max
<1> HIDE DEF places, q
<1>10. LosingIndexes!Kept(p, places)
  BY <1>7, <1>8 DEF LosingIndexes!Kept, LostIndexAt
<1>11. IndexesLosing(p, LosingIndexes!Fold(p, q, places))
  BY <1>6, <1>8, <1>10, LosingIndexes!FoldKeeps
<1> QED BY <1>2, <1>9, <1>11

\* Columns r are columns l with Reference options, whatever they are.
SameChanges(r, l) ==
  /\ Sound(r, ColumnNodes, ColumnNames) /\ AllFound(r)
  /\ r.id = l.id /\ Len(r.items) = Len(l.items)
  /\ \A i \in 1 .. Len(l.items) : /\ r.items[i].name = l.items[i].name
                                  /\ r.items[i].action = l.items[i].action

KeysLosing(p, v) ==
  /\ v = [t |-> v.t, old |-> v.old] /\ AtRest(v.t) /\ IsTable(v.old)
  /\ v.t.idxs = p.t.idxs /\ SameChanges(v.t.cols, p.t.cols)
  /\ Losing(FkItems, FkNames, v.t.fks, v.old.fks, p.old.fks)
LostKeyAt(p, v, j) == PutLostKey(v, j)
LosingKeys == INSTANCE Folding WITH Op <- LostKeyAt, Holds <- KeysLosing

LEMMA ChangesMarkable == Markable(ColumnNodes)
<1> DEFINE Marks == Seq(Options \cup {Reference})
<1>1. \A opts \in Marks : Append(opts, Reference) \in Marks OBVIOUS
<1> HIDE DEF Marks
<1>2. \A attr \in Attrs : [attr EXCEPT !.opts = Append(@, Reference)] \in Attrs
  BY <1>1, SMTT(30) DEF Attrs, Marks
<1>3. \A item \in ColumnNodes :
        /\ item.attr \in Attrs
        /\ Marked(item) = [item EXCEPT !.attr = [item.attr EXCEPT !.opts = Append(@, Reference)]]
  BY SMTT(30) DEF ColumnNodes, Marked
<1>4. \A item \in ColumnNodes : Marked(item) \in ColumnNodes /\ Marked(item).name = item.name
                                /\ Marked(item).action = item.action
  BY <1>2, <1>3, SMTT(30) DEF ColumnNodes
<1> QED BY <1>4 DEF Markable

LEMMA KeysDiffed ==
  ASSUME NEW p, p = [t |-> p.t, old |-> p.old], AtRest(p.t), IsTable(p.old),
         Sound(p.t.cols, ColumnNodes, ColumnNames), AllFound(p.t.cols),
         Sound(p.t.fks, FkItems, FkNames), AllAdded(p.t.fks),
         Sound(p.old.fks, FkItems, FkNames)
  PROVE  KeysLosing(p, PutLostKeys(DiffSharedKeys(p)))
<1> DEFINE l == p.t.fks
           o == p.old.fks
           items == [i \in DOMAIN l.items |-> DiffSharedKey(l.items[i], p.old)]
           t == [p.t EXCEPT !.fks = [items |-> items, id |-> l.id]]
           q == [t |-> t, old |-> p.old]
           places == [i \in DOMAIN o.items |-> i]
<1>0. NodeSet(FkItems, FkNames) BY NodeSets
<1>1. /\ l = [items |-> l.items, id |-> l.id] /\ DOMAIN l.items = 1 .. Len(l.items)
      /\ o.items \in Seq(FkItems) /\ DOMAIN o.items = 1 .. Len(o.items)
      /\ l.items \in Seq(FkItems)
  BY EveryNodeNamed
<1>2. DiffSharedKeys(p) = q
  <2>1. DiffSharedKeys(p) =
          [p EXCEPT !.t.fks.items = [i \in DOMAIN @ |-> DiffSharedKey(@[i], p.old)]]
    BY DEF DiffSharedKeys
  <2>2. p.t.fks \in [items : {l.items}, id : {l.id}] BY <1>1
  <2>3. [l EXCEPT !.items = items] = [items |-> items, id |-> l.id] BY <2>2
  <2> QED BY <2>1, <2>3
<1>3. \A i \in 1 .. Len(l.items) : Redefines(items[i], l.items[i], o)
  <2> SUFFICES ASSUME NEW i \in 1 .. Len(l.items) PROVE Redefines(items[i], l.items[i], o)
    OBVIOUS
  <2> DEFINE was == l.items[i]
             j == IdOf(o, was.name)
  <2>1. items[i] = DiffSharedKey(was, p.old) BY <1>1
  <2> HIDE DEF items
  <2>2. CASE ~IsShared(was, o) BY <2>1, <2>2 DEF DiffSharedKey, Redefines
  <2>3. CASE IsShared(was, o)
    <3>0. j > 0 BY <2>3 DEF IsShared
    <3>1. was.name \in DOMAIN o.id
      <4> HIDE DEF was, o
      <4> QED BY <3>0 DEF IdOf
    <3>2. o.items[j] = Node(o, was.name)
      <4>1. IdOf(o, was.name) = o.id[was.name] BY <3>1, EveryNodeNamed
      <4> QED BY <4>1 DEF Node
    <3> QED BY <2>1, <2>3, <3>1, <3>2 DEF DiffSharedKey, Redefines, WithAction
  <2> QED BY <2>2, <2>3
<1>4. items = [i \in DOMAIN l.items |-> items[i]] OBVIOUS
<1> HIDE DEF items
<1>5. /\ Sound([items |-> items, id |-> l.id], FkItems, FkNames)
      /\ Changes([items |-> items, id |-> l.id], o)
  BY <1>0, <1>3, <1>4, SharedNodes
<1>6. KeysLosing(p, q)
  <2>1. /\ AtRest(t) /\ t.cols = p.t.cols /\ t.idxs = p.t.idxs
        /\ t.fks = [items |-> items, id |-> l.id]
    BY DEF AtRest, IsTable
  <2>2. Losing(FkItems, FkNames, t.fks, o, o) BY <1>5, <2>1 DEF Losing
  <2>3. SameChanges(t.cols, p.t.cols) BY <2>1 DEF SameChanges
  <2> HIDE DEF t
  <2> QED BY <2>1, <2>2, <2>3 DEF KeysLosing
<1> HIDE DEF t
<1>7. \A v : \A j \in 1 .. Len(o.items) : KeysLosing(p, v) => KeysLosing(p, PutLostKey(v, j))
  <2> SUFFICES ASSUME NEW v, NEW j \in 1 .. Len(o.items), KeysLosing(p, v)
               PROVE  KeysLosing(p, PutLostKey(v, j))
    OBVIOUS
  <2>0. v = [t |-> v.t, old |-> v.old] /\ AtRest(v.t) /\ IsTable(v.old)
        /\ v.t.idxs = p.t.idxs /\ SameChanges(v.t.cols, p.t.cols)
        /\ Losing(FkItems, FkNames, v.t.fks, v.old.fks, p.old.fks)
    BY DEF KeysLosing
  <2>1. CASE ~IsLost(v.old.fks, j, v.t.fks) BY <2>1 DEF PutLostKey
  <2>2. CASE IsLost(v.old.fks, j, v.t.fks)
    <3> DEFINE gone == WithAction(v.old.fks.items[j], "remove")
               ls == PutItem(v.t.fks, gone)
               os == SetItem(v.old.fks, j, gone)
               cs == MarkReferenced(v.t.cols, gone.column)
               r == [old |-> [v.old EXCEPT !.fks = os],
                     t |-> [v.t EXCEPT !.fks = ls, !.cols = cs]]
    <3>1. PutLostKey(v, j) = r
      BY <2>0, <2>2 DEF PutLostKey, AddForeignKey, WithAction, AtRest
    <3>2. j \in 1 .. Len(v.old.fks.items) BY <2>0 DEF Losing
    <3>3. Losing(FkItems, FkNames, ls, os, o) BY <1>0, <2>0, <2>2, <3>2, LostNode
    <3>4. SameChanges(cs, p.t.cols)
      <4>1. Sound(v.t.cols, ColumnNodes, ColumnNames) BY <2>0 DEF SameChanges
      <4> HIDE DEF gone
      <4>2. /\ Sound(cs, ColumnNodes, ColumnNames) /\ (AllFound(v.t.cols) => AllFound(cs))
            /\ cs.id = v.t.cols.id /\ Len(cs.items) = Len(v.t.cols.items)
            /\ \A i \in 1 .. Len(v.t.cols.items) : /\ cs.items[i].name = v.t.cols.items[i].name
                                                   /\ cs.items[i].action = v.t.cols.items[i].action
        BY <4>1, ChangesMarkable, MarkedSound
      <4> HIDE DEF cs
      <4> QED BY <2>0, <4>2 DEF SameChanges
    <3> HIDE DEF ls, os, cs
    <3>5. /\ r = [t |-> r.t, old |-> r.old] /\ AtRest(r.t) /\ IsTable(r.old)
          /\ r.t.idxs = v.t.idxs /\ r.t.cols = cs
          /\ r.t.fks = ls /\ r.old.fks = os
      BY <2>0 DEF AtRest, IsTable
    <3> HIDE DEF r
    <3> QED BY <2>0, <3>1, <3>3, <3>4, <3>5 DEF KeysLosing
  <2> QED BY <2>1, <2>2
<1>8. /\ places \in Seq(Nat) /\ DOMAIN places = 1 .. Len(o.items)
      /\ \A k \in DOMAIN places : places[k] = k
  BY <1>1
<1>9. PutLostKeys(q) = LosingKeys!Fold(p, q, places)
  BY DEF LosingKeys!Fold, LostKeyAt, FoldLeft, PutLostKeys, FoldLeftDomain,
         LosingKeys!MapThenFoldSet, MapThenFoldSet, LosingKeys!GreatestIn, Max
<1> HIDE DEF places, q
<1>10. LosingKeys!Kept(p, places) BY <1>7, <1>8 DEF LosingKeys!Kept, LostKeyAt
<1>11. KeysLosing(p, LosingKeys!Fold(p, q, places))
  BY <1>6, <1>8, <1>10, LosingKeys!FoldKeeps
<1> QED BY <1>2, <1>9, <1>11

----------------------------------------------------------------------------
(* What Diff makes of the models' table.                                    *)

\* Changes that can be arranged and written.
Listed(t) ==
  /\ AtRest(t)
  /\ Sound(t.cols, ColumnNodes, ColumnNames) /\ AllFound(t.cols)
  /\ Sound(t.idxs, IndexNodes, IndexNames)

\* The change of a column, from the columns named had to those named wants.
ChangesTo(item, had, wants) ==
  \/ item.action = "add" /\ item.name \in wants \ had
  \/ item.action = "remove" /\ item.name \in had \ wants
  \/ item.action \in {"no", "modify"} /\ item.name \in had \cap wants

\* t lists the changes from table r to the columns named wants.
ListsChanges(t, r, wants) ==
  /\ Listed(t) /\ Sound(t.fks, FkItems, FkNames)
  /\ DOMAIN t.cols.id = DOMAIN r.cols.id \cup wants
  /\ \A i \in 1 .. Len(t.cols.items) : ChangesTo(t.cols.items[i], DOMAIN r.cols.id, wants)
  /\ Changes(t.idxs, r.idxs) /\ Changes(t.fks, r.fks)

\* The table that is compared: typed, and none of its columns is lost to the columns
\* named wants.
NothingLost(t, wants) ==
  /\ AtRest(t)
  /\ Sound(t.cols, ColumnItems, ColumnNames)
  /\ Sound(t.idxs, IndexNodes, IndexNames) /\ Sound(t.fks, FkItems, FkNames)
  /\ LiveNames(t.cols) \subseteq wants

\* The pair of tables after the comparison of the columns.
ColumnsDone(c, wants, old) ==
  /\ c = [t |-> c.t, old |-> c.old] /\ AtRest(c.t) /\ IsTable(c.old)
  /\ Sound(c.t.cols, ColumnNodes, ColumnNames) /\ AllFound(c.t.cols)
  /\ c.t.idxs = wants.idxs /\ c.t.fks = wants.fks
  /\ c.old.idxs = old.idxs /\ c.old.fks = old.fks

\* The names of the models' columns.
WantedNames == DOMAIN Build(wanted).cols.id

\* The inductive invariant of the whole use, phase by phase.
SyncInv ==
  /\ phase \in {"history", "loaded", "compared", "written", "up", "down"}
  /\ phase = "history" =>
       /\ ~again /\ ~new.panic
       /\ HistoryInv
  /\ phase = "loaded" =>
       /\ wanted \in Models /\ new = Build(wanted)
       /\ IF again THEN NothingLost(table, WantedNames) ELSE read = table /\ Full(table)
  /\ phase \in {"compared", "written", "up"} =>
       /\ Listed(new)
       /\ ~again => /\ wanted \in Models /\ Full(read)
                    /\ ListsChanges(new, read, WantedNames)
                    /\ phase # "compared" => up = Up(new)
  /\ phase = "down" => ~new.panic

\* The changes d that Diff lists once the columns c are compared.
Diffed(d, c, old) ==
  /\ Listed(d) /\ SameChanges(d.cols, c.t.cols)
  /\ Sound(d.fks, FkItems, FkNames)
  /\ Changes(d.idxs, old.idxs) /\ Changes(d.fks, old.fks)

LEMMA DiffLists ==
  ASSUME NEW wants, Made(wants), NEW old,
         Sound(old.idxs, IndexNodes, IndexNames), Sound(old.fks, FkItems, FkNames),
         NEW c, c = PutLostColumns(DiffSharedColumns([t |-> wants, old |-> old])),
         ColumnsDone(c, wants, old)
  PROVE  Diffed(Diff(wants, old).t, c, old)
<1> DEFINE i == PutLostIndexes(DiffSharedIndexes(c))
           k == PutLostKeys(DiffSharedKeys(i))
           d == [k.t EXCEPT !.action = "no"]
<1>1. /\ c = [t |-> c.t, old |-> c.old] /\ AtRest(c.t) /\ IsTable(c.old)
      /\ Sound(c.t.cols, ColumnNodes, ColumnNames) /\ AllFound(c.t.cols)
      /\ c.t.idxs = wants.idxs /\ c.t.fks = wants.fks
      /\ c.old.idxs = old.idxs /\ c.old.fks = old.fks
  BY DEF ColumnsDone
<1>2. /\ Sound(wants.idxs, IndexNodes, IndexNames) /\ AllAdded(wants.idxs)
      /\ Sound(wants.fks, FkItems, FkNames) /\ AllAdded(wants.fks)
  BY DEF Made, Full, Ready
<1>3. IndexesLosing(c, i) BY <1>1, <1>2, IndexesDiffed
<1> HIDE DEF i
<1>4. /\ i = [t |-> i.t, old |-> i.old] /\ AtRest(i.t) /\ IsTable(i.old)
      /\ i.t.cols = c.t.cols /\ i.t.fks = wants.fks /\ i.old.fks = old.fks
      /\ Losing(IndexNodes, IndexNames, i.t.idxs, i.old.idxs, old.idxs)
  BY <1>1, <1>3 DEF IndexesLosing
<1>5. KeysLosing(i, k)
  <2>1. Sound(i.t.cols, ColumnNodes, ColumnNames) /\ AllFound(i.t.cols) BY <1>1, <1>4
  <2>2. Sound(i.t.fks, FkItems, FkNames) /\ AllAdded(i.t.fks) BY <1>2, <1>4
  <2>3. Sound(i.old.fks, FkItems, FkNames) BY <1>4
  <2> QED BY <1>4, <2>1, <2>2, <2>3, KeysDiffed
<1> HIDE DEF k
<1>6. /\ k = [t |-> k.t, old |-> k.old] /\ AtRest(k.t)
      /\ k.t.idxs = i.t.idxs /\ SameChanges(k.t.cols, c.t.cols)
      /\ Losing(FkItems, FkNames, k.t.fks, k.old.fks, old.fks)
  BY <1>4, <1>5 DEF KeysLosing
<1>7. Diff(wants, old).t = d
  <2>1. Diff(wants, old) = [k EXCEPT !.t.action = "no"] BY DEF Diff, i, k
  <2> QED BY <1>6, <2>1
<1>8. AtRest(d) /\ d.cols = k.t.cols /\ d.idxs = k.t.idxs /\ d.fks = k.t.fks
  BY <1>6 DEF AtRest, IsTable
<1> HIDE DEF d
<1>9. Sound(d.cols, ColumnNodes, ColumnNames) /\ AllFound(d.cols) BY <1>6, <1>8 DEF SameChanges
<1>10. Sound(d.idxs, IndexNodes, IndexNames) /\ Changes(d.idxs, old.idxs)
  BY <1>4, <1>6, <1>8 DEF Losing
<1>11. Sound(d.fks, FkItems, FkNames) /\ Changes(d.fks, old.fks) BY <1>6, <1>8 DEF Losing
<1>12. Diffed(d, c, old) BY <1>6, <1>8, <1>9, <1>10, <1>11 DEF Diffed, Listed
<1> QED BY <1>7, <1>12

\* The first comparison: the table's columns were only added, so that those that are lost
\* find their places.
LEMMA FirstDiff ==
  ASSUME NEW wants, Made(wants), NEW old, Full(old)
  PROVE  ListsChanges(Diff(wants, old).t, old, DOMAIN wants.cols.id)
<1> DEFINE p == DiffSharedColumns([t |-> wants, old |-> old])
           c == PutLostColumns(p)
           d == Diff(wants, old).t
           T == DOMAIN wants.cols.id
           O == DOMAIN old.cols.id
<1>1. /\ Ready(wants) /\ AtRest(wants) /\ IsTable(old) /\ Grown(old.cols)
      /\ Sound(old.cols, ColumnItems, ColumnNames) /\ AllFound(old.cols) /\ AllAdded(old.cols)
      /\ Sound(old.idxs, IndexNodes, IndexNames) /\ Sound(old.fks, FkItems, FkNames)
      /\ Sound(wants.cols, ColumnItems, ColumnNames) /\ AllAdded(wants.cols)
  BY DEF Made, Full, Ready, AtRest, Grown
<1>2. p = [t |-> p.t, old |-> old] /\ ComparedTo(p.t, wants, old)
  BY <1>1, SharedColumnsCompared
<1> HIDE DEF p
<1>3. /\ p.old = old /\ p = [t |-> p.t, old |-> p.old] BY <1>2
<1>4. /\ OnlyColumns(p.t, wants) /\ AtRest(p.t)
      /\ Sound(p.t.cols, ColumnNodes, ColumnNames) /\ AllFound(p.t.cols)
      /\ p.t.cols.id = wants.cols.id
      /\ \A n \in T : IsCompared(Node(p.t.cols, n), Node(wants.cols, n), old)
  BY <1>1, <1>2 DEF ComparedTo, AtRest, OnlyColumns
<1>5. Recovered(p, c, Len(p.old.cols.items)) BY <1>1, <1>3, <1>4, AllRecovered
<1> HIDE DEF c
<1>6. /\ c = [t |-> c.t, old |-> c.old]
      /\ OnlyColumns(c.t, p.t) /\ c.t.pos = NoPosition
      /\ Sound(c.t.cols, ColumnNodes, ColumnNames) /\ AllFound(c.t.cols)
      /\ DOMAIN c.t.cols.id = T \cup {old.cols.items[i].name : i \in 1 .. Len(old.cols.items)}
      /\ \A n \in T : Node(c.t.cols, n) = Node(p.t.cols, n)
      /\ \A n \in DOMAIN c.t.cols.id \ T : Node(c.t.cols, n).action = "remove"
      /\ OnlyColumns(c.old, old)
  BY <1>3, <1>4, <1>5 DEF Recovered
<1>7. ColumnsDone(c, wants, old)
  <2>1. AtRest(c.t) /\ c.t.idxs = wants.idxs /\ c.t.fks = wants.fks
    BY <1>4, <1>6 DEF AtRest, OnlyColumns
  <2>2. IsTable(c.old) /\ c.old.idxs = old.idxs /\ c.old.fks = old.fks BY <1>6 DEF OnlyColumns
  <2> QED BY <1>6, <2>1, <2>2 DEF ColumnsDone
<1>8. Diffed(d, c, old) BY <1>1, <1>7, DiffLists DEF p, c
<1> HIDE DEF d
<1>9. {old.cols.items[i].name : i \in 1 .. Len(old.cols.items)} = O
  <2>1. \A n \in O : old.cols.id[n] \in 1 .. Len(old.cols.items) /\ old.cols.items[old.cols.id[n]].name = n
    BY <1>1, EveryNodeNamed
  <2>2. \A i \in 1 .. Len(old.cols.items) : old.cols.items[i].name \in O BY <1>1 DEF AllFound
  <2> QED BY <2>1, <2>2
<1>10. /\ d.cols.id = c.t.cols.id /\ Len(d.cols.items) = Len(c.t.cols.items)
       /\ \A i \in 1 .. Len(d.cols.items) : /\ d.cols.items[i].name = c.t.cols.items[i].name
                                            /\ d.cols.items[i].action = c.t.cols.items[i].action
  BY <1>8 DEF Diffed, SameChanges
<1>11. ASSUME NEW i \in 1 .. Len(d.cols.items) PROVE ChangesTo(d.cols.items[i], O, T)
  <2> DEFINE n == d.cols.items[i].name
             item == Node(c.t.cols, n)
  <2>1. n \in DOMAIN c.t.cols.id /\ c.t.cols.id[n] = i BY <1>6, <1>10 DEF AllFound
  <2>2. d.cols.items[i].action = item.action BY <1>10, <2>1 DEF Node
  <2>3. n \in T \cup O BY <1>6, <1>9, <2>1
  <2> HIDE DEF n
  <2>4. CASE n \in T
    <3>1. item = Node(p.t.cols, n) BY <1>6, <2>4
    <3> DEFINE was == Node(wants.cols, n)
    <3>2. IsCompared(item, was, old) BY <1>4, <2>4, <3>1
    <3>3. was.name = n /\ was.action = "add"
      <4>1. wants.cols.id[n] \in 1 .. Len(wants.cols.items) /\ was.name = n
        BY <1>1, <2>4, EveryNodeNamed
      <4> QED BY <1>1, <4>1 DEF AllAdded, Node
    <3> HIDE DEF item, was
    <3>4. CASE n \in O
      <4>1. Node(old.cols, n).action = "add"
        <5>1. old.cols.id[n] \in 1 .. Len(old.cols.items) BY <1>1, <3>4, EveryNodeNamed
        <5> QED BY <1>1, <5>1 DEF AllAdded, Node
      <4>2. Has(old, n) BY <3>4, <4>1 DEF Has
      <4>3. item.action \in {"no", "modify"} BY <3>2, <3>3, <4>2 DEF IsCompared
      <4> QED BY <2>2, <2>4, <3>4, <4>3 DEF ChangesTo, n
    <3>5. CASE n \notin O
      <4>1. item = was BY <3>2, <3>3, <3>5 DEF IsCompared, Has
      <4> QED BY <2>2, <2>4, <3>3, <3>5, <4>1 DEF ChangesTo, n
    <3> QED BY <3>4, <3>5
  <2>5. CASE n \notin T
    <3>1. item.action = "remove" BY <1>6, <2>1, <2>5
    <3> QED BY <2>2, <2>3, <2>5, <3>1 DEF ChangesTo, n
  <2> QED BY <2>4, <2>5
<1>12. DOMAIN d.cols.id = O \cup T BY <1>6, <1>9, <1>10
<1>13. ListsChanges(d, old, T) BY <1>8, <1>11, <1>12 DEF ListsChanges, Diffed
<1> QED BY <1>13 DEF d

\* The second comparison: no column is lost.
LEMMA SecondDiff ==
  ASSUME NEW wants, Made(wants), NEW old, NothingLost(old, DOMAIN wants.cols.id)
  PROVE  Listed(Diff(wants, old).t)
<1> DEFINE p == DiffSharedColumns([t |-> wants, old |-> old])
           c == PutLostColumns(p)
<1>1. /\ Ready(wants) /\ AtRest(wants) /\ IsTable(old)
      /\ Sound(old.cols, ColumnItems, ColumnNames) /\ old.cols.items \in Seq(ColumnItems)
      /\ Sound(old.idxs, IndexNodes, IndexNames) /\ Sound(old.fks, FkItems, FkNames)
  <2>1. Sound(old.cols, ColumnItems, ColumnNames) BY DEF NothingLost
  <2> QED BY <2>1, EveryNodeNamed DEF Made, Full, Ready, NothingLost, AtRest
<1>2. p = [t |-> p.t, old |-> old] /\ ComparedTo(p.t, wants, old)
  BY <1>1, SharedColumnsCompared
<1> HIDE DEF p
<1>3. /\ p.old = old /\ p = [t |-> p.t, old |-> p.old] BY <1>2
<1>4. /\ OnlyColumns(p.t, wants) /\ AtRest(p.t)
      /\ Sound(p.t.cols, ColumnNodes, ColumnNames) /\ AllFound(p.t.cols)
      /\ p.t.cols.id = wants.cols.id
  BY <1>1, <1>2 DEF ComparedTo, AtRest, OnlyColumns
<1>5. ASSUME NEW j \in 1 .. Len(old.cols.items) PROVE ~IsLost(old.cols, j, p.t.cols)
  <2> SUFFICES ASSUME old.cols.items[j].action = "add"
               PROVE  IdOf(p.t.cols, old.cols.items[j].name) # 0
    BY DEF IsLost
  <2> DEFINE n == old.cols.items[j].name
  <2>1. n \in LiveNames(old.cols) BY DEF LiveNames, IsLive
  <2>2. n \in DOMAIN p.t.cols.id BY <1>4, <2>1 DEF NothingLost
  <2> HIDE DEF n
  <2>3. IdOf(p.t.cols, n) = p.t.cols.id[n] /\ p.t.cols.id[n] > 0 BY <1>4, <2>2, EveryNodeNamed
  <2> QED BY <2>3 DEF n
<1>6. c = p BY <1>1, <1>3, <1>5, NoneRecovered
<1> HIDE DEF c
<1>7. ColumnsDone(c, wants, old) BY <1>1, <1>3, <1>4, <1>6 DEF ColumnsDone, OnlyColumns
<1>8. Diffed(Diff(wants, old).t, c, old) BY <1>1, <1>7, DiffLists DEF p, c
<1> QED BY <1>8 DEF Diffed

----------------------------------------------------------------------------
(* Writing: MigrationColumnUp and the others arrange nothing and stay in range.  *)
LEMMA PrintedIs ==
  ASSUME NEW t, Listed(t)
  PROVE  Printed(t) = t
<1>1. /\ AtRest(t) /\ Sound(t.cols, ColumnNodes, ColumnNames) /\ AllFound(t.cols)
      /\ Sound(t.idxs, IndexNodes, IndexNames)
  BY DEF Listed
<1>2. ~WritingPanics(t)
  <2>1. t.idxs.items \in Seq(IndexNodes) /\ DOMAIN t.idxs.items = 1 .. Len(t.idxs.items)
    BY <1>1, EveryNodeNamed
  <2>2. \A i \in DOMAIN t.idxs.items : t.idxs.items[i] \in IndexNodes BY <2>1
  <2>3. \A item \in IndexNodes : item.columns # <<>> /\ item.typ \in {"none", "unique"}
    <3> DEFINE Columns == Seq(ColumnNames) \ {<<>>}
    <3>1. <<>> \notin Columns OBVIOUS
    <3> HIDE DEF Columns
    <3>2. IndexNodes = [name : IndexNames, oldName : IndexNames \cup {Nil}, action : Actions,
                        typ : {"none", "unique"}, columns : Columns]
      BY DEF IndexNodes, Columns
    <3> QED BY <3>1, <3>2
  <2> QED BY <2>2, <2>3 DEF WritingPanics
<1>3. Arranged(t.cols) = t.cols.items /\ ~ArrangePanics(t.cols)
  BY <1>1, ArrangeMovesNothing
<1>4. t.cols = [items |-> t.cols.items, id |-> t.cols.id] BY <1>1 DEF Sound, IsList
<1>5. [t EXCEPT !.cols.items = t.cols.items] = t BY <1>1, <1>4 DEF AtRest, IsTable
<1> QED BY <1>2, <1>3, <1>5 DEF Printed, Arrange

----------------------------------------------------------------------------
(* The options that a definition shows.                                     *)
OmitNext(gone, some, o) == IF o \in gone THEN some ELSE Append(some, o)
AreOptions(gone, some) == some \in Seq(Options \cup {Reference})
Omitting == INSTANCE Folding WITH Op <- OmitNext, Holds <- AreOptions

LEMMA OmitTyped ==
  ASSUME NEW opts \in Seq(Options \cup {Reference}), NEW gone
  PROVE  Omit(opts, gone) \in Seq(Options \cup {Reference})
<1> DEFINE S == Options \cup {Reference}
<1>1. Omit(opts, gone) = Omitting!Fold(gone, <<>>, opts)
  BY DEF Omit, Omitting!Fold, OmitNext, FoldLeft, Omitting!MapThenFoldSet, MapThenFoldSet,
         Omitting!GreatestIn, Max
<1>2. AreOptions(gone, <<>>) BY DEF AreOptions
<1>3. Omitting!Kept(gone, opts)
  <2>1. \A k \in DOMAIN opts : opts[k] \in S OBVIOUS
  <2> HIDE DEF S
  <2>2. \A some \in Seq(S), o \in S : Append(some, o) \in Seq(S) OBVIOUS
  <2>3. \A v : \A k \in DOMAIN opts : v \in Seq(S) => OmitNext(gone, v, opts[k]) \in Seq(S)
    BY <2>1, <2>2 DEF OmitNext
  <2> QED BY <2>3 DEF Omitting!Kept, AreOptions, S
<1>4. AreOptions(gone, Omitting!Fold(gone, <<>>, opts))
  BY <1>2, <1>3, Omitting!FoldKeeps
<1> QED BY <1>1, <1>4 DEF AreOptions

LEMMA UpToCommentTyped ==
  ASSUME NEW S, NEW opts \in Seq(S)
  PROVE  UpToComment(opts) \in Seq(S)
<1> DEFINE ends == {i \in DOMAIN opts : opts[i].tp = "comment"} \cup {Len(opts)}
           m == Min(ends)
<1>1. ends \in SUBSET (0 .. Len(opts)) /\ ends # {} OBVIOUS
<1> HIDE DEF ends
<1>2. ends \in SUBSET Nat BY <1>1
<1>3. \E i \in ends : \A j \in ends : i <= j BY <1>1, <1>2, Living!SmallestOf
<1>4. m \in ends BY <1>3 DEF Min
<1>5. m \in 0 .. Len(opts) BY <1>1, <1>4
<1>6. UpToComment(opts) = SubSeq(opts, 1, m) BY DEF UpToComment, ends
<1> HIDE DEF m
<1> QED BY <1>5, <1>6

\* What is written of a definition.
LEMMA ShownTyped ==
  ASSUME NEW attr \in Attrs, NEW other
  PROVE  /\ [type |-> attr.type, opts |-> Shown(attr.opts)] \in Attrs
         /\ [type |-> attr.type, opts |-> Redefined(attr, other)] \in Attrs
<1> DEFINE S == Options \cup {Reference}
           keys == {o \in {attr.opts[i] : i \in DOMAIN attr.opts} : IsPrimaryKey(o)}
<1>1. attr.opts \in Seq(S) /\ attr.type \in Types \cup {NoType} BY DEF Attrs
<1>2. UpToComment(attr.opts) \in Seq(S) BY <1>1, UpToCommentTyped
<1>3. Shown(attr.opts) \in Seq(S) BY <1>2, OmitTyped DEF Shown
<1> HIDE DEF keys
<1>4. Omit(Shown(attr.opts), keys) \in Seq(S) BY <1>3, OmitTyped
<1>5. Redefined(attr, other) \in Seq(S) BY <1>3, <1>4 DEF Redefined, keys
<1> QED BY <1>1, <1>3, <1>5 DEF Attrs

----------------------------------------------------------------------------
(* Reading a script: first its columns.                                     *)

\* What reading indexes and keys keeps of table p.
ReadKeeps(p, t) ==
  /\ AtRest(t)
  /\ Sound(t.cols, ColumnItems, ColumnNames) /\ LiveNames(t.cols) = LiveNames(p.cols)
  /\ Sound(t.idxs, IndexNodes, IndexNames) /\ DOMAIN p.idxs.id \subseteq DOMAIN t.idxs.id
  /\ Sound(t.fks, FkItems, FkNames) /\ DOMAIN p.fks.id \subseteq DOMAIN t.fks.id
ReadNext(p, t, stm) == ReadStatement(t, stm)
Reading == INSTANCE Folding WITH Op <- ReadNext, Holds <- ReadKeeps

LEMMA ReadAllIs ==
  ASSUME NEW p, NEW t, NEW statements
  PROVE  ReadAll(t, statements) = Reading!Fold(p, t, statements)
BY DEF ReadAll, Reading!Fold, ReadNext, FoldLeft, Reading!MapThenFoldSet, MapThenFoldSet,
       Reading!GreatestIn, Max

\* The column that a new one follows is another one.
LEMMA ColumnBeforeIs ==
  ASSUME NEW items, NEW k \in 1 .. Len(items), Len(items) \in Nat,
         \A j \in 1 .. Len(items) : items[j].name = items[k].name => j = k
  PROVE  LET after == ColumnBefore(items, k, "remove")
         IN  after # Nil => after # items[k].name
<1> DEFINE before == {j \in 1 .. k - 1 : items[j].action # "remove"}
<1>1. CASE before = {} \/ IgnoreFieldOrder BY <1>1 DEF ColumnBefore
<1>2. CASE ~(before = {} \/ IgnoreFieldOrder)
  <2>1. before \in SUBSET (0 .. k) /\ k \in Nat OBVIOUS
  <2>2. \A j \in before : j \in 1 .. Len(items) /\ j # k OBVIOUS
  <2>3. ColumnBefore(items, k, "remove") = items[Max(before)].name BY <1>2 DEF ColumnBefore
  <2> HIDE DEF before
  <2>4. \E i \in before : \A j \in before : i >= j BY <1>2, <2>1, Living!GreatestOf
  <2>5. Max(before) \in before BY <2>4 DEF Max
  <2> QED BY <2>2, <2>3, <2>5
<1> QED BY <1>1, <1>2

\* The names of the first k nodes with an action.
NamesTo(l, k, action) == {l.items[i].name : i \in {j \in 1 .. k : l.items[j].action = action}}

\* Table r after the statements of the first k columns of list l.
ColumnsRead(l, r, v, k) ==
  /\ OnlyColumns(v, r) /\ v.pos = NoPosition
  /\ Sound(v.cols, ColumnItems, ColumnNames)
  /\ DOMAIN v.cols.id = DOMAIN r.cols.id \cup NamesTo(l, k, "add")
  /\ LiveNames(v.cols) = (DOMAIN r.cols.id \ NamesTo(l, k, "remove")) \cup NamesTo(l, k, "add")

\* The statements of column number k.
ColumnStatements(l, k) == ColumnUp(l.items[k], ColumnBefore(l.items, k, "remove"))

LEMMA ColumnRead ==
  ASSUME NEW l, Sound(l, ColumnNodes, ColumnNames), AllFound(l),
         NEW r, AtRest(r), NEW wants,
         NEW k \in 1 .. Len(l.items), ChangesTo(l.items[k], DOMAIN r.cols.id, wants),
         NEW v, ColumnsRead(l, r, v, k - 1)
  PROVE  ColumnsRead(l, r, ReadAll(v, ColumnStatements(l, k)), k)
<1> DEFINE item == l.items[k]
           n == item.name
           after == ColumnBefore(l.items, k, "remove")
           O == DOMAIN r.cols.id
           adds(i) == NamesTo(l, i, "add")
           removes(i) == NamesTo(l, i, "remove")
<1>1. /\ Len(l.items) \in Nat /\ item \in ColumnNodes /\ k - 1 \in Nat
      /\ \A j \in 1 .. Len(l.items) : l.items[j].name = n => j = k
  <2>1. l.items \in Seq(ColumnNodes) /\ Len(l.items) \in Nat BY EveryNodeNamed
  <2>2. \A j \in 1 .. Len(l.items) : l.items[j].name = n => j = k BY DEF AllFound
  <2> QED BY <2>1, <2>2
<1>2. /\ n \in ColumnNames /\ item.attr \in Attrs BY <1>1 DEF ColumnNodes
<1>3. /\ OnlyColumns(v, r) /\ v.pos = NoPosition /\ IsTable(v)
      /\ Sound(v.cols, ColumnItems, ColumnNames)
      /\ DOMAIN v.cols.id = O \cup adds(k - 1)
      /\ LiveNames(v.cols) = (O \ removes(k - 1)) \cup adds(k - 1)
  BY DEF ColumnsRead, OnlyColumns
<1>4. \A action : /\ NamesTo(l, k, action) = IF item.action = action
                                             THEN NamesTo(l, k - 1, action) \cup {n}
                                             ELSE NamesTo(l, k - 1, action)
                  /\ n \notin NamesTo(l, k - 1, action)
  <2> SUFFICES ASSUME NEW action
               PROVE  /\ NamesTo(l, k, action) = IF item.action = action
                                                 THEN NamesTo(l, k - 1, action) \cup {n}
                                                 ELSE NamesTo(l, k - 1, action)
                      /\ n \notin NamesTo(l, k - 1, action)
    OBVIOUS
  <2>1. \A j : j \in 1 .. k <=> j \in 1 .. k - 1 \/ j = k OBVIOUS
  <2>2. n \notin NamesTo(l, k - 1, action)
    <3>1. \A j \in 1 .. k - 1 : l.items[j].name # n BY <1>1
    <3> QED BY <3>1 DEF NamesTo
  <2>3. NamesTo(l, k, action) = IF item.action = action THEN NamesTo(l, k - 1, action) \cup {n}
                                ELSE NamesTo(l, k - 1, action)
    BY <2>1 DEF NamesTo
  <2> QED BY <2>2, <2>3
<1>5. ASSUME NEW w, OnlyColumns(w, v), w.pos = NoPosition,
             Sound(w.cols, ColumnItems, ColumnNames),
             DOMAIN w.cols.id = O \cup adds(k),
             LiveNames(w.cols) = (O \ removes(k)) \cup adds(k)
      PROVE  ColumnsRead(l, r, w, k)
  BY <1>3, <1>5 DEF ColumnsRead, OnlyColumns
<1>6. \A stm : /\ ReadAll(v, <<>>) = v
               /\ ReadAll(v, <<stm>>) = ReadStatement(v, stm)
  <2> TAKE stm
  <2>1. ReadAll(v, <<>>) = Reading!Fold("", v, <<>>) BY ReadAllIs
  <2>2. ReadAll(v, <<stm>>) = Reading!Fold("", v, <<stm>>) BY ReadAllIs
  <2>3. /\ Reading!Fold("", v, <<>>) = v
        /\ Reading!Fold("", v, <<stm>>) = ReadNext("", v, stm)
    BY Reading!FoldFew
  <2> QED BY <2>1, <2>2, <2>3 DEF ReadNext
<1> HIDE DEF item
<1>7. CASE item.action = "add" /\ n \in wants \ O
  <2> DEFINE pos == IF after = Nil THEN First ELSE After(after)
             stm == [op |-> "addColumn", col |-> n, type |-> item.attr.type,
                     opts |-> Shown(item.attr.opts), pos |-> pos]
             col == Column(n, "add", [type |-> item.attr.type, opts |-> Shown(item.attr.opts)])
             t == [v EXCEPT !.pos = pos]
             w == AddColumn(t, col)
  <2>1. ColumnStatements(l, k) = <<stm>> BY <1>7 DEF ColumnStatements, ColumnUp, item
  <2>2. ReadStatement(v, stm) = w
    <3>1. pos = NoPosition => t = v BY <1>3 DEF IsTable
    <3>2. ReadStatement(v, stm) = ReadAdd(v, n, [type |-> item.attr.type,
                                                 opts |-> Shown(item.attr.opts)], pos)
      BY DEF ReadStatement
    <3> QED BY <3>1, <3>2 DEF ReadAdd
  <2>3. IsTable(t) /\ t.cols = v.cols /\ t.pos = pos /\ OnlyColumns(t, v)
    BY <1>3 DEF IsTable, OnlyColumns
  <2>4. pos.tp = "after" => pos.rel # n
    <3>1. after # Nil => after # n BY <1>1, ColumnBeforeIs DEF item
    <3> QED BY <3>1 DEF First, After
  <2>5. col \in ColumnItems /\ col.name = n /\ IsLive(col.action)
    BY <1>2, ShownTyped, ColumnTyped
  <2>6. n \notin DOMAIN v.cols.id BY <1>3, <1>4, <1>7
  <2> HIDE DEF pos, t, col
  <2>7. /\ OnlyColumns(w, t) /\ w.pos = NoPosition
        /\ Sound(w.cols, ColumnItems, ColumnNames)
        /\ DOMAIN w.cols.id = DOMAIN t.cols.id \cup {col.name}
        /\ LiveNames(w.cols) = LiveNames(t.cols) \cup {col.name}
    <3>1. /\ Sound(t.cols, ColumnItems, ColumnNames) /\ col.name \notin DOMAIN t.cols.id
          /\ t.pos.tp = "after" => t.pos.rel # col.name
      BY <1>3, <2>3, <2>4, <2>5, <2>6
    <3> QED BY <2>3, <2>5, <3>1, AddNewColumn
  <2> HIDE DEF w
  <2>8. OnlyColumns(w, v) BY <2>3, <2>7 DEF OnlyColumns
  <2>9. adds(k) = adds(k - 1) \cup {n} /\ removes(k) = removes(k - 1) BY <1>4, <1>7
  <2>10. ColumnsRead(l, r, w, k) BY <1>3, <1>5, <2>3, <2>5, <2>7, <2>8, <2>9
  <2> QED BY <1>6, <2>1, <2>2, <2>10
<1>8. CASE item.action = "remove" /\ n \in O \ wants
  <2> DEFINE stm == [op |-> "dropColumn", col |-> n]
             w == RemoveColumn(v, n)
  <2>1. ColumnStatements(l, k) = <<stm>> BY <1>8 DEF ColumnStatements, ColumnUp, item
  <2>2. ReadStatement(v, stm) = w BY DEF ReadStatement
  <2>3. n \in LiveNames(v.cols) BY <1>3, <1>4, <1>8
  <2>4. /\ OnlyColumns(w, v) /\ w.pos = v.pos
        /\ Sound(w.cols, ColumnItems, ColumnNames)
        /\ DOMAIN w.cols.id = DOMAIN v.cols.id
        /\ LiveNames(w.cols) = LiveNames(v.cols) \ {n}
    BY <1>3, <2>3, RemoveColumnSound
  <2> HIDE DEF w
  <2>5. adds(k) = adds(k - 1) /\ removes(k) = removes(k - 1) \cup {n} /\ n \notin adds(k - 1)
    BY <1>4, <1>8
  <2> HIDE DEF adds, removes
  <2>6. ColumnsRead(l, r, w, k) BY <1>3, <1>5, <2>4, <2>5
  <2> QED BY <1>6, <2>1, <2>2, <2>6
<1>9. CASE item.action = "modify" /\ n \in O \cap wants
  <2> DEFINE attr == [type |-> item.attr.type, opts |-> Redefined(item.attr, item.prev)]
             stm == [op |-> "modifyColumn", col |-> n, type |-> attr.type, opts |-> attr.opts]
             bare == Column(n, "modify", [type |-> attr.type, opts |-> <<>>])
             col == Column(n, "add", attr)
             u == AddColumn(v, bare)
             w == AddColumn(u, col)
  <2>1. ColumnStatements(l, k) = <<stm>> BY <1>9 DEF ColumnStatements, ColumnUp, ModifyTo, item
  <2>2. ReadStatement(v, stm) = w
    <3>1. ReadStatement(v, stm) = ReadModify(v, n, [type |-> attr.type, opts |-> attr.opts])
      BY DEF ReadStatement
    <3>2. [type |-> attr.type, opts |-> attr.opts] = attr OBVIOUS
    <3> QED BY <3>1, <3>2 DEF ReadModify
  <2>3. attr \in Attrs /\ [type |-> attr.type, opts |-> <<>>] \in Attrs
    <3>1. attr \in Attrs BY <1>2, ShownTyped
    <3> HIDE DEF attr
    <3> QED BY <3>1 DEF Attrs
  <2> HIDE DEF attr
  <2>4. /\ bare \in ColumnItems /\ bare.name = n /\ IsLive(bare.action)
        /\ col \in ColumnItems /\ col.name = n /\ IsLive(col.action)
    BY <1>2, <2>3, ColumnTyped
  <2> HIDE DEF bare, col
  <2>5. n \in LiveNames(v.cols) /\ n \in DOMAIN v.cols.id /\ v.pos.tp \in {"nil", "none"}
    BY <1>3, <1>4, <1>9 DEF NoPosition
  <2>6. /\ OnlyColumns(u, v) /\ u.pos = NoPosition
        /\ Sound(u.cols, ColumnItems, ColumnNames)
        /\ DOMAIN u.cols.id = DOMAIN v.cols.id
        /\ LiveNames(u.cols) = LiveNames(v.cols) \cup {bare.name}
    BY <1>3, <2>4, <2>5, AddKnownColumn
  <2> HIDE DEF u
  <2>7. IsTable(u) /\ u.pos.tp \in {"nil", "none"} BY <2>6 DEF OnlyColumns, NoPosition
  <2>8. /\ OnlyColumns(w, u) /\ w.pos = NoPosition
        /\ Sound(w.cols, ColumnItems, ColumnNames)
        /\ DOMAIN w.cols.id = DOMAIN u.cols.id
        /\ LiveNames(w.cols) = LiveNames(u.cols) \cup {col.name}
    BY <2>4, <2>5, <2>6, <2>7, AddKnownColumn
  <2> HIDE DEF w
  <2>9. OnlyColumns(w, v) BY <2>6, <2>8 DEF OnlyColumns
  <2>10. LiveNames(w.cols) = LiveNames(v.cols) /\ DOMAIN w.cols.id = DOMAIN v.cols.id
    BY <2>4, <2>5, <2>6, <2>8
  <2>11. adds(k) = adds(k - 1) /\ removes(k) = removes(k - 1) BY <1>4, <1>9
  <2> HIDE DEF adds, removes
  <2>12. ColumnsRead(l, r, w, k) BY <1>3, <1>5, <2>8, <2>9, <2>10, <2>11
  <2> QED BY <1>6, <2>1, <2>2, <2>12
<1>10. CASE item.action = "no"
  <2>1. ColumnStatements(l, k) = <<>> BY <1>10 DEF ColumnStatements, ColumnUp, item
  <2>2. adds(k) = adds(k - 1) /\ removes(k) = removes(k - 1) BY <1>4, <1>10
  <2>3. OnlyColumns(v, v) BY <1>3 DEF OnlyColumns
  <2> HIDE DEF adds, removes
  <2>4. ColumnsRead(l, r, v, k) BY <1>3, <1>5, <2>2, <2>3
  <2> QED BY <1>6, <2>1, <2>4
<1> QED BY <1>7, <1>8, <1>9, <1>10 DEF ChangesTo, item

\* A column has one statement at most.
LEMMA OneColumnStatement ==
  ASSUME NEW l, NEW k
  PROVE  ColumnStatements(l, k) = <<>> \/ \E stm : ColumnStatements(l, k) = <<stm>>
BY DEF ColumnStatements, ColumnUp

LEMMA ColumnsAreRead ==
  ASSUME NEW l, Sound(l, ColumnNodes, ColumnNames), AllFound(l),
         NEW r, AtRest(r), Sound(r.cols, ColumnItems, ColumnNames),
         LiveNames(r.cols) = DOMAIN r.cols.id, NEW wants,
         \A i \in 1 .. Len(l.items) : ChangesTo(l.items[i], DOMAIN r.cols.id, wants)
  PROVE  /\ ColumnsRead(l, r, ReadAll(r, ColumnsUp(l.items)), Len(l.items))
         /\ \E S : ColumnsUp(l.items) \in Seq(S)
<1> DEFINE m == Len(l.items)
           ss == [i \in DOMAIN l.items |-> ColumnStatements(l, i)]
           S == {ss[i][1] : i \in 1 .. m}
<1>1. m \in Nat /\ DOMAIN l.items = 1 .. m BY EveryNodeNamed
<1>2. ss \in Seq(Seq(S)) /\ Len(ss) = m /\ \A k \in 1 .. m : ss[k] = ColumnStatements(l, k)
  <2>1. \A k \in 1 .. m : ss[k] = ColumnStatements(l, k) BY <1>1
  <2>2. ss = [i \in 1 .. m |-> ss[i]] BY <1>1
  <2> HIDE DEF ss
  <2>3. ASSUME NEW k \in 1 .. m PROVE ss[k] \in Seq(S)
    <3>1. CASE ss[k] = <<>>
      <4> HIDE DEF S
      <4> QED BY <3>1
    <3>2. ASSUME NEW stm, ss[k] = <<stm>> PROVE ss[k] \in Seq(S)
      <4>1. stm \in S
        <5>1. ss[k][1] = stm BY <3>2
        <5> QED BY <5>1
      <4> HIDE DEF S
      <4> QED BY <3>2, <4>1
    <3> QED BY <2>1, <3>1, <3>2, OneColumnStatement
  <2> HIDE DEF S
  <2>4. ss \in [1 .. m -> Seq(S)] BY <2>2, <2>3
  <2> QED BY <1>1, <2>1, <2>4
<1>3. ColumnsUp(l.items) = Reading!Flat(ss)
  BY DEF ColumnsUp, ColumnStatements, FlattenSeq, Reading!Flat, Reading!Joined
<1> HIDE DEF ss, S
<1>4. Reading!Flat(ss) \in Seq(S) BY <1>2, Reading!FlatTyped
<1>5. PICK g : Reading!FoldsParts("", r, ss, g) BY <1>2, Reading!FoldFlat
<1> DEFINE T == {k \in Nat : k <= m => ColumnsRead(l, r, g[k], k)}
<1>6. 0 \in T
  <2>1. g[0] = r BY <1>5 DEF Reading!FoldsParts
  <2>2. \A action : NamesTo(l, 0, action) = {} BY DEF NamesTo
  <2>3. OnlyColumns(r, r) /\ r.pos = NoPosition BY DEF AtRest, OnlyColumns
  <2>4. ColumnsRead(l, r, r, 0) BY <2>2, <2>3 DEF ColumnsRead
  <2> QED BY <2>1, <2>4
<1>7. ASSUME NEW k \in Nat, k \in T PROVE k + 1 \in T
  <2> DEFINE j == k + 1
  <2> SUFFICES ASSUME j <= m PROVE ColumnsRead(l, r, g[j], j) OBVIOUS
  <2>1. j \in 1 .. m /\ j - 1 = k /\ k <= m BY <1>1
  <2>2. ColumnsRead(l, r, g[k], k) BY <1>7, <2>1
  <2> HIDE DEF j, T
  <2>3. g[j] = Reading!Fold("", g[j - 1], ss[j]) BY <1>2, <1>5, <2>1 DEF Reading!FoldsParts
  <2>4. Reading!Fold("", g[k], ss[j]) = ReadAll(g[k], ss[j]) BY ReadAllIs
  <2>5. g[j] = ReadAll(g[k], ColumnStatements(l, j)) BY <1>2, <2>1, <2>3, <2>4
  <2>6. ColumnsRead(l, r, g[k], j - 1) BY <2>1, <2>2
  <2>7. ChangesTo(l.items[j], DOMAIN r.cols.id, wants) BY <2>1
  <2>8. ColumnsRead(l, r, ReadAll(g[k], ColumnStatements(l, j)), j)
    BY <2>1, <2>6, <2>7, ColumnRead
  <2> QED BY <2>5, <2>8
<1> HIDE DEF T
<1>8. \A k \in Nat : k \in T BY <1>6, <1>7, Living!EveryNatural
<1>9. ColumnsRead(l, r, g[m], m) BY <1>1, <1>8 DEF T
<1>10. ReadAll(r, ColumnsUp(l.items)) = g[m]
  <2>1. ReadAll(r, ColumnsUp(l.items)) = Reading!Fold("", r, ColumnsUp(l.items)) BY ReadAllIs
  <2> QED BY <1>2, <1>3, <1>5, <2>1 DEF Reading!FoldsParts
<1> QED BY <1>3, <1>4, <1>9, <1>10

\* Then its indexes and foreign keys: those that are dropped are known.
IndexStatements(p) ==
  {[op |-> "createIndex", idx |-> item.name, typ |-> item.typ, columns |-> item.columns] :
      item \in IndexNodes}
    \cup {[op |-> "dropIndex", idx |-> n] : n \in DOMAIN p.idxs.id}
KeyStatements(p) ==
  {[op |-> "addForeignKey", fk |-> item.name, col |-> item.column, ref |-> item.ref] :
      item \in FkItems}
    \cup {[op |-> "dropConstraint", fk |-> n] : n \in DOMAIN p.fks.id}

\* Putting a node loses no name.
LEMMA PutKeepsNames ==
  ASSUME NEW l, NEW item
  PROVE  DOMAIN l.id \subseteq DOMAIN PutItem(l, item).id
BY DEF PutItem, AppendItem, SetItem, Point

LEMMA IndexStatementRead ==
  ASSUME NEW p, NEW t, ReadKeeps(p, t), NEW stm \in IndexStatements(p)
  PROVE  ReadKeeps(p, ReadStatement(t, stm))
<1>1. /\ IsTable(t) /\ Sound(t.idxs, IndexNodes, IndexNames)
      /\ DOMAIN p.idxs.id \subseteq DOMAIN t.idxs.id
  BY DEF ReadKeeps, AtRest
<1>2. ASSUME NEW idxs, Sound(idxs, IndexNodes, IndexNames),
             DOMAIN t.idxs.id \subseteq DOMAIN idxs.id
      PROVE  ReadKeeps(p, [t EXCEPT !.idxs = idxs])
  <2> DEFINE r == [t EXCEPT !.idxs = idxs]
  <2>1. AtRest(r) /\ r.cols = t.cols /\ r.idxs = idxs /\ r.fks = t.fks
    BY DEF ReadKeeps, AtRest, IsTable
  <2> HIDE DEF r
  <2>2. ReadKeeps(p, r) BY <1>2, <2>1 DEF ReadKeeps
  <2> QED BY <2>2 DEF r
<1>3. ASSUME NEW item \in IndexNodes,
             stm = [op |-> "createIndex", idx |-> item.name, typ |-> item.typ,
                    columns |-> item.columns]
      PROVE  ReadKeeps(p, ReadStatement(t, stm))
  <2> DEFINE Columns == Seq(ColumnNames) \ {<<>>}
             new1 == Index(item.name, "add", item.typ, item.columns)
  <2>1. IndexNodes = [name : IndexNames, oldName : IndexNames \cup {Nil}, action : Actions,
                      typ : {"none", "unique"}, columns : Columns]
    BY DEF IndexNodes
  <2> HIDE DEF Columns
  <2>2. new1 \in IndexNodes /\ new1.name \in IndexNames /\ IsLive(new1.action)
    BY <2>1 DEF Index, Actions, IsLive
  <2>3. ReadStatement(t, stm) = [t EXCEPT !.idxs = PutItem(t.idxs, new1)]
    BY <1>3 DEF ReadStatement, AddIndex
  <2> HIDE DEF new1
  <2>4. Sound(PutItem(t.idxs, new1), IndexNodes, IndexNames) BY <1>1, <2>2, PutItemSound
  <2>5. DOMAIN t.idxs.id \subseteq DOMAIN PutItem(t.idxs, new1).id BY PutKeepsNames
  <2> QED BY <1>2, <2>3, <2>4, <2>5
<1>4. ASSUME NEW n \in DOMAIN p.idxs.id, stm = [op |-> "dropIndex", idx |-> n]
      PROVE  ReadKeeps(p, ReadStatement(t, stm))
  <2> DEFINE tombstone == Index(n, "remove", "none", <<>>)
             idxs == RemoveItem(t.idxs, n, tombstone)
  <2>1. ReadStatement(t, stm) = [t EXCEPT !.idxs = idxs] BY <1>4 DEF ReadStatement, RemoveIndex
  <2>2. n \in DOMAIN t.idxs.id BY <1>1
  <2> HIDE DEF tombstone
  <2>3. Sound(idxs, IndexNodes, IndexNames) /\ idxs.id = t.idxs.id
    BY <1>1, <2>2, IndexNodeSets, ActionsOfNodes, KnownItemRemoved
  <2> HIDE DEF idxs
  <2> QED BY <1>2, <2>1, <2>3
<1> QED BY <1>3, <1>4 DEF IndexStatements

LEMMA KeyStatementRead ==
  ASSUME NEW p, NEW t, ReadKeeps(p, t), NEW stm \in KeyStatements(p)
  PROVE  ReadKeeps(p, ReadStatement(t, stm))
<1>1. /\ IsTable(t) /\ Sound(t.fks, FkItems, FkNames)
      /\ DOMAIN p.fks.id \subseteq DOMAIN t.fks.id
      /\ Sound(t.cols, ColumnItems, ColumnNames)
  BY DEF ReadKeeps, AtRest
<1>3. ASSUME NEW item \in FkItems,
             stm = [op |-> "addForeignKey", fk |-> item.name, col |-> item.column,
                    ref |-> item.ref]
      PROVE  ReadKeeps(p, ReadStatement(t, stm))
  <2> DEFINE fk == ForeignKey(item.name, "add", item.column, item.ref)
             r == AddForeignKey(t, fk)
  <2>1. fk \in FkItems /\ IsLive(fk.action) BY DEF FkItems, ForeignKey, Actions, IsLive
  <2>2. ReadStatement(t, stm) = r BY <1>3 DEF ReadStatement
  <2>3. r.fks = PutItem(t.fks, fk) BY <1>1 DEF AddForeignKey, IsTable
  <2> HIDE DEF fk
  <2>4. /\ IsTable(r) /\ r.action = t.action /\ r.idxs = t.idxs
        /\ r.panic = t.panic /\ r.pos = t.pos
        /\ Sound(r.cols, ColumnItems, ColumnNames)
        /\ LiveNames(r.cols) = LiveNames(t.cols)
        /\ Sound(r.fks, FkItems, FkNames)
    BY <1>1, <2>1, AddForeignKeySound
  <2>5. DOMAIN t.fks.id \subseteq DOMAIN PutItem(t.fks, fk).id BY PutKeepsNames
  <2> HIDE DEF r
  <2> QED BY <2>2, <2>3, <2>4, <2>5 DEF ReadKeeps, AtRest
<1>4. ASSUME NEW n \in DOMAIN p.fks.id, stm = [op |-> "dropConstraint", fk |-> n]
      PROVE  ReadKeeps(p, ReadStatement(t, stm))
  <2>1. ReadStatement(t, stm) = t BY <1>4 DEF ReadStatement
  <2> QED BY <2>1
<1> QED BY <1>3, <1>4 DEF KeyStatements

\* What is written of indexes and keys are such statements.
LEMMA FlatIn ==
  ASSUME NEW S, NEW m \in Nat, NEW ss, ss = [i \in 1 .. m |-> ss[i]],
         \A i \in 1 .. m : ss[i] \in Seq(S)
  PROVE  FlattenSeq(ss) \in Seq(S)
<1>1. ss \in [1 .. m -> Seq(S)] OBVIOUS
<1>2. ss \in Seq(Seq(S)) BY <1>1
<1>3. FlattenSeq(ss) = Reading!Flat(ss) BY DEF FlattenSeq, Reading!Flat, Reading!Joined
<1> QED BY <1>2, <1>3, Reading!FlatTyped

LEMMA IndexesWritten ==
  ASSUME NEW l, Sound(l, IndexNodes, IndexNames), NEW p, Changes(l, p.idxs), NEW dropped
  PROVE  IndexesUp(l.items, dropped) \in Seq(IndexStatements(p))
<1> DEFINE m == Len(l.items)
           written(i) == IF IsWritten(l.items[i], l.items[i].columns[1], dropped)
                         THEN IndexUp(l.items[i]) ELSE <<>>
           ss == [i \in DOMAIN l.items |-> written(i)]
           S == IndexStatements(p)
<1>1. m \in Nat /\ DOMAIN l.items = 1 .. m /\ l.items \in Seq(IndexNodes) BY EveryNodeNamed
<1>2. IndexesUp(l.items, dropped) = FlattenSeq(ss) BY DEF IndexesUp
<1>3. ASSUME NEW i \in 1 .. m PROVE IndexUp(l.items[i]) \in Seq(S)
  <2> DEFINE item == l.items[i]
             create == [op |-> "createIndex", idx |-> item.name, typ |-> item.typ,
                        columns |-> item.columns]
             drop == [op |-> "dropIndex", idx |-> item.name]
  <2>1. /\ item \in IndexNodes
        /\ \/ item.action \in {"add", "no"}
           \/ item.action \in {"modify", "remove"} /\ item.name \in DOMAIN p.idxs.id
    BY <1>1 DEF Changes
  <2> HIDE DEF item
  <2>2. create \in S BY <2>1 DEF IndexStatements
  <2>3. item.name \in DOMAIN p.idxs.id => drop \in S BY DEF IndexStatements
  <2>4. \/ IndexUp(item) = <<create>> \/ IndexUp(item) = <<>>
        \/ item.name \in DOMAIN p.idxs.id
           /\ (IndexUp(item) = <<drop>> \/ IndexUp(item) = <<drop, create>>)
    BY <2>1 DEF IndexUp
  <2> HIDE DEF S, create, drop
  <2> DEFINE u == IndexUp(item)
  <2>5. \/ u = <<>> \/ u = <<create>>
           \/ (item.name \in DOMAIN p.idxs.id /\ (u = <<drop>> \/ u = <<drop, create>>))
    BY <2>4
  <2> HIDE DEF u
  <2>6. u \in Seq(S)
    <3>1. CASE u = <<>> BY <3>1
    <3>2. CASE u = <<create>> BY <2>2, <3>2
    <3>3. CASE item.name \in DOMAIN p.idxs.id /\ u = <<drop>> BY <2>3, <3>3
    <3>4. CASE item.name \in DOMAIN p.idxs.id /\ u = <<drop, create>> BY <2>2, <2>3, <3>4
    <3> QED BY <2>5, <3>1, <3>2, <3>3, <3>4
  <2> QED BY <2>6 DEF item, u
<1> HIDE DEF S
<1>4. \A i \in 1 .. m : ss[i] \in Seq(S) BY <1>1, <1>3
<1>5. ss = [i \in 1 .. m |-> ss[i]] BY <1>1
<1> HIDE DEF ss
<1>6. FlattenSeq(ss) \in Seq(S) BY <1>1, <1>4, <1>5, FlatIn
<1> QED BY <1>2, <1>6 DEF S

LEMMA KeysWritten ==
  ASSUME NEW l, Sound(l, FkItems, FkNames), NEW p, Changes(l, p.fks), NEW dropped
  PROVE  ForeignKeysUp(l.items, dropped) \in Seq(KeyStatements(p))
<1> DEFINE m == Len(l.items)
           written(i) == IF IsWritten(l.items[i], l.items[i].column, dropped)
                         THEN ForeignKeyUp(l.items[i]) ELSE <<>>
           ss == [i \in DOMAIN l.items |-> written(i)]
           S == KeyStatements(p)
<1>1. m \in Nat /\ DOMAIN l.items = 1 .. m /\ l.items \in Seq(FkItems) BY EveryNodeNamed
<1>2. ForeignKeysUp(l.items, dropped) = FlattenSeq(ss) BY DEF ForeignKeysUp
<1>3. ASSUME NEW i \in 1 .. m PROVE ForeignKeyUp(l.items[i]) \in Seq(S)
  <2> DEFINE item == l.items[i]
             create == [op |-> "addForeignKey", fk |-> item.name, col |-> item.column,
                        ref |-> item.ref]
             drop == [op |-> "dropConstraint", fk |-> item.name]
  <2>1. /\ item \in FkItems
        /\ \/ item.action \in {"add", "no"}
           \/ item.action \in {"modify", "remove"} /\ item.name \in DOMAIN p.fks.id
    BY <1>1 DEF Changes
  <2> HIDE DEF item
  <2>2. create \in S BY <2>1 DEF KeyStatements
  <2>3. item.name \in DOMAIN p.fks.id => drop \in S BY DEF KeyStatements
  <2>4. \/ ForeignKeyUp(item) = <<create>> \/ ForeignKeyUp(item) = <<>>
        \/ item.name \in DOMAIN p.fks.id /\ ForeignKeyUp(item) = <<drop>>
    BY <2>1 DEF ForeignKeyUp
  <2> HIDE DEF S, create, drop
  <2> DEFINE u == ForeignKeyUp(item)
  <2>5. \/ u = <<>> \/ u = <<create>> \/ (item.name \in DOMAIN p.fks.id /\ u = <<drop>>)
    BY <2>4
  <2> HIDE DEF u
  <2>6. u \in Seq(S)
    <3>1. CASE u = <<>> BY <3>1
    <3>2. CASE u = <<create>> BY <2>2, <3>2
    <3>3. CASE item.name \in DOMAIN p.fks.id /\ u = <<drop>> BY <2>3, <3>3
    <3> QED BY <2>5, <3>1, <3>2, <3>3
  <2> QED BY <2>6 DEF item, u
<1> HIDE DEF S
<1>4. \A i \in 1 .. m : ss[i] \in Seq(S) BY <1>1, <1>3
<1>5. ss = [i \in 1 .. m |-> ss[i]] BY <1>1
<1> HIDE DEF ss
<1>6. FlattenSeq(ss) \in Seq(S) BY <1>1, <1>4, <1>5, FlatIn
<1> QED BY <1>2, <1>6 DEF S

\* Once the script is read, no column of the table is lost to the models.
LEMMA ScriptRead ==
  ASSUME NEW r, Full(r), NEW d, NEW wants, ListsChanges(d, r, wants)
  PROVE  NothingLost(ReadAll(r, Up(d)), wants)
<1> DEFINE O == DOMAIN r.cols.id
           l == d.cols
           dropped == NamesWith(l.items, "remove")
           cols == ColumnsUp(l.items)
           idxs == IndexesUp(d.idxs.items, dropped)
           fks == ForeignKeysUp(d.fks.items, dropped)
           v == ReadAll(r, cols)
           p == v
<1>1. /\ Ready(r) /\ AtRest(r) /\ Sound(r.cols, ColumnItems, ColumnNames)
      /\ Sound(r.idxs, IndexNodes, IndexNames) /\ Sound(r.fks, FkItems, FkNames)
      /\ AllFound(r.cols) /\ AllAdded(r.cols)
  BY DEF Full, Ready, Grown
<1>2. /\ Sound(l, ColumnNodes, ColumnNames) /\ AllFound(l)
      /\ Sound(d.idxs, IndexNodes, IndexNames) /\ Sound(d.fks, FkItems, FkNames)
      /\ DOMAIN l.id = O \cup wants
      /\ \A i \in 1 .. Len(l.items) : ChangesTo(l.items[i], O, wants)
      /\ Changes(d.idxs, r.idxs) /\ Changes(d.fks, r.fks)
  BY DEF ListsChanges, Listed
<1>3. LiveNames(r.cols) = O
  <2>1. /\ LiveNames(r.cols) = {n \in O : IsLive(Node(r.cols, n).action)}
    BY <1>1, LiveByName
  <2>2. \A n \in O : r.cols.id[n] \in 1 .. Len(r.cols.items) BY <1>1, EveryNodeNamed
  <2>3. \A n \in O : IsLive(Node(r.cols, n).action) BY <1>1, <2>2 DEF AllAdded, Node, IsLive
  <2> QED BY <2>1, <2>3
<1>4. ColumnsRead(l, r, v, Len(l.items)) /\ \E S : cols \in Seq(S)
  BY <1>1, <1>2, <1>3, ColumnsAreRead
<1>5. PICK S : cols \in Seq(S) BY <1>4
<1> HIDE DEF v, cols
<1>6. /\ OnlyColumns(v, r) /\ v.pos = NoPosition
      /\ Sound(v.cols, ColumnItems, ColumnNames)
      /\ LiveNames(v.cols) = (O \ NamesTo(l, Len(l.items), "remove")) \cup NamesTo(l, Len(l.items), "add")
  BY <1>4 DEF ColumnsRead
<1>7. AtRest(v) /\ v.idxs = r.idxs /\ v.fks = r.fks BY <1>1, <1>6 DEF AtRest, OnlyColumns
<1>8. ReadKeeps(v, v) BY <1>1, <1>6, <1>7 DEF ReadKeeps
<1>9. idxs \in Seq(IndexStatements(v)) /\ fks \in Seq(KeyStatements(v))
  BY <1>2, <1>7, IndexesWritten, KeysWritten
<1> DEFINE B == IndexStatements(v) \cup KeyStatements(v)
           rest == idxs \o fks
<1> HIDE DEF idxs, fks
<1>10. rest \in Seq(B)
  <2>1. idxs \in Seq(B) /\ fks \in Seq(B)
    <3> DEFINE X == IndexStatements(v)
               Y == KeyStatements(v)
    <3>1. idxs \in Seq(X) /\ fks \in Seq(Y) BY <1>9
    <3> HIDE DEF X, Y
    <3>2. idxs \in Seq(X \cup Y) /\ fks \in Seq(X \cup Y) BY <3>1
    <3> QED BY <3>2 DEF X, Y
  <2> HIDE DEF B
  <2> QED BY <2>1
<1>11. Up(d) = cols \o rest
  <2>1. Up(d) = cols \o idxs \o fks BY DEF Up, cols, idxs, fks
  <2>2. idxs \in Seq(IndexStatements(v)) /\ fks \in Seq(KeyStatements(v)) /\ cols \in Seq(S)
    BY <1>5, <1>9
  <2>3. (cols \o idxs) \o fks = cols \o (idxs \o fks)
    <3> DEFINE X == IndexStatements(v)
               Y == KeyStatements(v)
    <3>1. idxs \in Seq(X) /\ fks \in Seq(Y) BY <1>9
    <3> HIDE DEF X, Y
    <3> QED BY <1>5, <3>1
  <2> QED BY <2>1, <2>3
<1> HIDE DEF rest, B
<1>12. ReadAll(r, Up(d)) = Reading!Fold(v, v, rest)
  <2>1. cols \in Seq(S \cup B) /\ rest \in Seq(S \cup B) BY <1>5, <1>10
  <2>2. Reading!Fold(p, r, cols \o rest) = Reading!Fold(p, Reading!Fold(p, r, cols), rest)
    BY <2>1, Reading!FoldJoined
  <2>3. Reading!Fold(p, r, cols) = v
    <3>1. ReadAll(r, cols) = Reading!Fold(p, r, cols) BY ReadAllIs
    <3> QED BY <3>1 DEF v
  <2>4. ReadAll(r, cols \o rest) = Reading!Fold(p, r, cols \o rest) BY ReadAllIs
  <2> QED BY <1>11, <2>2, <2>3, <2>4
<1>13. Reading!Kept(v, rest)
  <2>1. ASSUME NEW t, NEW stm \in B, ReadKeeps(v, t)
        PROVE  ReadKeeps(v, ReadStatement(t, stm))
    BY <2>1, IndexStatementRead, KeyStatementRead DEF B
  <2>2. \A k \in DOMAIN rest : rest[k] \in B BY <1>10
  <2> QED BY <2>1, <2>2 DEF Reading!Kept, ReadNext
<1>14. ReadKeeps(v, Reading!Fold(v, v, rest)) BY <1>8, <1>10, <1>13, Reading!FoldKeeps
<1>15. LiveNames(v.cols) \subseteq wants
  <2>1. ASSUME NEW n \in LiveNames(v.cols) PROVE n \in wants
    <3>1. CASE n \in NamesTo(l, Len(l.items), "add")
      <4>1. PICK i \in 1 .. Len(l.items) : l.items[i].action = "add" /\ l.items[i].name = n
        BY <3>1 DEF NamesTo
      <4> QED BY <1>2, <4>1 DEF ChangesTo
    <3>2. CASE n \in O \ NamesTo(l, Len(l.items), "remove")
      <4> DEFINE i == l.id[n]
      <4>1. n \in DOMAIN l.id BY <1>2, <3>2
      <4>2. i \in 1 .. Len(l.items) /\ l.items[i].name = n BY <1>2, <4>1, EveryNodeNamed
      <4>3. l.items[i].action # "remove" BY <3>2, <4>2 DEF NamesTo
      <4> QED BY <1>2, <4>2, <4>3 DEF ChangesTo
    <3> QED BY <1>6, <2>1, <3>1, <3>2
  <2> QED BY <2>1
<1> DEFINE w == ReadAll(r, Up(d))
<1>16. ReadKeeps(v, w) BY <1>12, <1>14
<1> HIDE DEF w
<1>17. NothingLost(w, wants) BY <1>15, <1>16 DEF ReadKeeps, NothingLost
<1> QED BY <1>17 DEF w

----------------------------------------------------------------------------
(* The theorem: one step per call of the tool.                              *)

LEMMA NewTableSafe == NewTable(Own).panic = FALSE
BY NewTableReady DEF Ready, AtRest

LEMMA SyncInvInit == SyncInit => SyncInv
<1> SUFFICES ASSUME SyncInit PROVE SyncInv OBVIOUS
<1>1. HistoryInv BY HistoryInit DEF SyncInit
<1>2. new.panic = FALSE BY NewTableSafe DEF SyncInit
<1>3. phase = "history" /\ again = FALSE BY DEF SyncInit
<1> QED BY <1>1, <1>2, <1>3 DEF SyncInv

\* A migration is written by hand, run and read.
LEMMA HistoryCall ==
  ASSUME SyncInv, History, NoColumnGoes, IndexTypes \subseteq {"none", "unique"}
  PROVE  SyncInv'
<1>1. phase = "history" /\ Next /\ phase' = phase /\ again' = again /\ new' = new
  BY DEF History
<1>2. HistoryInv /\ ~again /\ ~new.panic BY <1>1 DEF SyncInv
<1>3. HistoryInv' BY <1>1, <1>2, HistoryStep
<1> QED BY <1>1, <1>2, <1>3 DEF SyncInv

\* FromObjects.
LEMMA LoadModelsCall ==
  ASSUME SyncInv, NEW m \in Models, LoadModels(m)
  PROVE  SyncInv'
<1>1. /\ phase = "history" /\ phase' = "loaded" /\ wanted' = m /\ new' = Build(m)
      /\ read' = table /\ table' = table /\ again' = again
  BY DEF LoadModels
<1>2. HistoryInv /\ ~again BY <1>1 DEF SyncInv
<1>3. Full(table)
  <2>1. ~table.panic BY DEF LoadModels
  <2> QED BY <1>2, <2>1 DEF HistoryInv, ColumnsInv, Full
<1>4. Full(table') BY <1>1, <1>3
<1> QED BY <1>1, <1>2, <1>4 DEF SyncInv

\* Diff, of the migrations' table the first time and of the table that the script was
\* read into the second.
LEMMA CompareCall ==
  ASSUME SyncInv, Compare, IndexTypes \subseteq {"none", "unique"}
  PROVE  SyncInv'
<1> DEFINE wants == Build(wanted)
<1>1. /\ phase = "loaded" /\ phase' = "compared" /\ new' = Diff(new, table).t
      /\ wanted' = wanted /\ read' = read /\ again' = again
  BY DEF Compare
<1>2. /\ wanted \in Models /\ new = wants
      /\ again => NothingLost(table, DOMAIN wants.cols.id)
      /\ ~again => read = table /\ Full(table)
  BY <1>1 DEF SyncInv, WantedNames
<1>3. Made(wants) BY <1>2, BuildMade
<1>4. WantedNames' = DOMAIN wants.cols.id BY <1>1 DEF WantedNames
<1> HIDE DEF wants
<1>5. CASE again
  <2>1. Listed(Diff(wants, table).t) BY <1>2, <1>3, <1>5, SecondDiff
  <2>2. Listed(new') BY <1>1, <1>2, <2>1
  <2> QED BY <1>1, <1>5, <2>2 DEF SyncInv
<1>6. CASE ~again
  <2>1. read = table /\ Full(table) BY <1>2, <1>6
  <2>2. ListsChanges(Diff(wants, table).t, table, DOMAIN wants.cols.id)
    BY <1>3, <2>1, FirstDiff
  <2>3. ListsChanges(new', read', WantedNames') BY <1>1, <1>2, <1>4, <2>1, <2>2
  <2>4. Listed(new') BY <2>3 DEF ListsChanges
  <2>5. Full(read') BY <1>1, <2>1
  <2>6. wanted' \in Models BY <1>1, <1>2
  <2> QED BY <1>1, <2>3, <2>4, <2>5, <2>6 DEF SyncInv
<1> QED BY <1>5, <1>6

\* StringUp and StringDown print the changes as they are.
LEMMA WriteCall ==
  ASSUME SyncInv, WriteUp \/ WriteDown
  PROVE  SyncInv'
<1>1. /\ phase \in {"compared", "written"} /\ phase' \in {"written", "up"} /\ new' = Printed(new)
      /\ wanted' = wanted /\ read' = read /\ again' = again
      /\ \/ up' = IF new'.panic THEN <<>> ELSE Up(new')
         \/ phase = "written" /\ up' = up
  BY DEF WriteUp, WriteDown
<1>2. /\ Listed(new)
      /\ ~again => /\ wanted \in Models /\ Full(read)
                   /\ ListsChanges(new, read, WantedNames)
                   /\ phase = "written" => up = Up(new)
  BY <1>1 DEF SyncInv
<1>3. new' = new BY <1>1, <1>2, PrintedIs
<1>4. ~new.panic BY <1>2 DEF Listed, AtRest
<1>5. ~again => up' = Up(new') BY <1>1, <1>2, <1>3, <1>4
<1>6. Listed(new') BY <1>2, <1>3
<1>7. ~again => /\ wanted' \in Models /\ Full(read')
                /\ ListsChanges(new', read', WantedNames')
  <2>1. WantedNames' = WantedNames BY <1>1 DEF WantedNames
  <2> QED BY <1>1, <1>2, <1>3, <2>1
<1> QED BY <1>1, <1>5, <1>6, <1>7 DEF SyncInv

\* The database and the inverse script leave the tool's tables alone.
LEMMA RunCall ==
  ASSUME SyncInv, RunStatement \/ Revert
  PROVE  SyncInv'
<1>1. /\ phase \in {"up", "down"} /\ (phase' = phase \/ phase' = "down") /\ new' = new
      /\ wanted' = wanted /\ read' = read /\ again' = again /\ up' = up /\ ~new.panic
  BY DEF RunStatement, Revert, HasRun
<1>2. CASE phase' = "down" BY <1>1, <1>2 DEF SyncInv
<1>3. CASE phase = "up" /\ phase' = "up"
  <2>1. /\ Listed(new)
        /\ ~again => /\ wanted \in Models /\ Full(read)
                     /\ ListsChanges(new, read, WantedNames) /\ up = Up(new)
    BY <1>3 DEF SyncInv
  <2>2. WantedNames' = WantedNames BY <1>1 DEF WantedNames
  <2> QED BY <1>1, <1>3, <2>1, <2>2 DEF SyncInv
<1> QED BY <1>1, <1>2, <1>3

\* The script is read after the other migrations.
LEMMA LoadAgainCall ==
  ASSUME SyncInv, LoadAgain
  PROVE  SyncInv'
<1>1. /\ phase = "up" /\ ~again /\ phase' = "loaded" /\ again' = TRUE
      /\ new' = Build(wanted) /\ wanted' = wanted /\ table' = ReadAll(read, up)
  BY DEF LoadAgain, HasRun
<1>2. /\ wanted \in Models /\ Full(read) /\ ListsChanges(new, read, WantedNames)
      /\ up = Up(new)
  BY <1>1 DEF SyncInv
<1>3. NothingLost(ReadAll(read, Up(new)), WantedNames) BY <1>2, ScriptRead
<1>4. WantedNames' = WantedNames BY <1>1 DEF WantedNames
<1>5. NothingLost(table', WantedNames') BY <1>1, <1>2, <1>3, <1>4
<1>6. wanted' \in Models /\ new' = Build(wanted') BY <1>1, <1>2
<1> QED BY <1>1, <1>5, <1>6 DEF SyncInv

LEMMA SyncInvStep ==
  ASSUME SyncInv, [SyncNext]_syncVars, NoColumnGoes, IndexTypes \subseteq {"none", "unique"}
  PROVE  SyncInv'
<1>1. CASE History BY <1>1, HistoryCall
<1>2. ASSUME NEW m \in Models, LoadModels(m) PROVE SyncInv' BY <1>2, LoadModelsCall
<1>3. CASE Compare BY <1>3, CompareCall
<1>4. CASE WriteUp \/ WriteDown BY <1>4, WriteCall
<1>5. CASE RunStatement \/ Revert BY <1>5, RunCall
<1>6. CASE LoadAgain BY <1>6, LoadAgainCall
<1>7. CASE UNCHANGED syncVars
  <2>1. UNCHANGED <<table, db, used, phase, again, wanted, new, read, up>>
    BY <1>7 DEF syncVars
  <2>2. HistoryInv => HistoryInv' BY <2>1 DEF HistoryInv, ColumnsInv, IndexesInv
  <2>3. WantedNames' = WantedNames BY <2>1 DEF WantedNames
  <2> QED BY <2>1, <2>2, <2>3 DEF SyncInv
<1> QED BY <1>1, <1>2, <1>3, <1>4, <1>5, <1>6, <1>7 DEF SyncNext

\* In no phase did a call of the tool fail.
LEMMA SyncInvSafe ==
  ASSUME SyncInv, IndexTypes \subseteq {"none", "unique"}
  PROVE  DiffNeverPanics
<1>1. CASE phase = "loaded"
  <2>1. wanted \in Models /\ new = Build(wanted) BY <1>1 DEF SyncInv
  <2>2. Made(new) BY <2>1, BuildMade
  <2> QED BY <2>2 DEF Made, Full, Ready, AtRest, DiffNeverPanics
<1>2. CASE phase \in {"compared", "written", "up"}
  <2>1. Listed(new) BY <1>2 DEF SyncInv
  <2> QED BY <2>1 DEF Listed, AtRest, DiffNeverPanics
<1> QED BY <1>1, <1>2 DEF SyncInv, DiffNeverPanics

\* When no column of the table was ever dropped or renamed, comparing it with any models
\* and writing the script and its inverse never index a list out of range, for every list
\* of columns, indexes and foreign keys of either side, and neither does the comparison
\* with the same models once the script is among the migrations (element/table.go, Diff,
\* Arrange and the functions that write a migration).
THEOREM ComparingNeverPanics ==
  ASSUME NoColumnGoes, IndexTypes \subseteq {"none", "unique"}
  PROVE  SyncSpec => []DiffNeverPanics
<1>1. SyncInit => SyncInv BY SyncInvInit
<1>2. SyncInv /\ [SyncNext]_syncVars => SyncInv' BY SyncInvStep
<1>3. SyncInv => DiffNeverPanics BY SyncInvSafe
<1> QED BY <1>1, <1>2, <1>3, PTL DEF SyncSpec

=============================================================================
