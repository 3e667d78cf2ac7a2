------------------------- MODULE MigrationAgreement -------------------------
(***************************************************************************)
(* More theorems of Migration.tla: what TableAgreement.tla proves of the    *)
(* statements of one table holds of each table of a schema of several, as  *)
(* long as no part of a statement strays.                                  *)
(***************************************************************************)
EXTENDS MigrationProofs

----------------------------------------------------------------------------
(* The table of TableAgreement.tla, with the definitions that are written in  *)
(* the schema's statements.                                                   *)
Given == UNION {{specs[k] : k \in DOMAIN specs} : specs \in Alters}
TypesGiven == {Type} \cup {x.type : x \in {y \in Given : Defines(y)}}
OptionsGiven == {<<>>} \cup {x.opts : x \in {y \in Given : Defines(y)}}

OneTable == INSTANCE TableAgreement WITH
  Types <- TypesGiven, OptionLists <- OptionsGiven, IndexTypes <- {"none"},
  References <- TableNames, Operations <- {}, Reuse <- "never", Cascades <- FALSE,
  ShedsOptions <- FALSE, table <- schema, here <- TRUE

\* What TableAgreement.tla assumes of its constants.
LEMMA Fits ==
  /\ {} \subseteq OneTable!AllOperations
  /\ "never" \in {"never", "last", "any"}
  /\ FALSE \in BOOLEAN
  /\ FALSE \in BOOLEAN
  /\ MaxItems \in Nat
  /\ MaxOptions \in Nat
  /\ \A opts \in OptionsGiven :
       /\ opts \in Seq([tp : STRING, val : STRING])
       /\ \A i \in DOMAIN opts : opts[i] # OneTable!Reference
<1>1. OneTable!Reference = Reference BY DEF OneTable!Reference, Reference, OneTable!Nil, Nil
<1>2. ASSUME NEW opts \in OptionsGiven
      PROVE  opts \in Seq([tp : STRING, val : STRING]) /\ \A i \in DOMAIN opts : opts[i] # Reference
  <2>1. CASE opts = <<>> BY <2>1
  <2>2. CASE opts # <<>>
    <3>1. PICK specs \in Alters : \E k \in DOMAIN specs : Defines(specs[k]) /\ opts = specs[k].opts
      BY <1>2, <2>2 DEF OptionsGiven, Given
    <3>2. PICK k \in DOMAIN specs : Defines(specs[k]) /\ opts = specs[k].opts BY <3>1
    <3>3. IsSpec(specs[k]) BY <3>1, MigrationAssumption
    <3> QED BY <3>2, <3>3 DEF IsSpec, Defines
  <2> QED BY <2>1, <2>2
<1> QED BY <1>1, <1>2, MigrationAssumption

\* The lists are the same,
LEMMA SameLists ==
  /\ \A l, n : OneTable!IdOf(l, n) = IdOf(l, n)
  /\ \A l, n, i : OneTable!Point(l, n, i) = Point(l, n, i)
  /\ \A l, i, item : OneTable!SetItem(l, i, item) = SetItem(l, i, item)
  /\ \A l, item : OneTable!PutItem(l, item) = PutItem(l, item)
  /\ \A l, n, item : OneTable!RemoveItem(l, n, item) = RemoveItem(l, n, item)
  /\ \A l, old, new, action : OneTable!RenameItem(l, old, new, action) = RenameItem(l, old, new, action)
  /\ \A s, i, e : OneTable!InsertAt(s, i, e) = InsertAt(s, i, e)
  /\ \A s, i : OneTable!RemoveAt(s, i) = RemoveAt(s, i)
  /\ \A s : OneTable!Front(s) = Front(s)
<1>1. ASSUME NEW l, NEW n PROVE OneTable!IdOf(l, n) = IdOf(l, n)
  BY DEF OneTable!IdOf, IdOf
<1>2. ASSUME NEW l, NEW n, NEW i PROVE OneTable!Point(l, n, i) = Point(l, n, i)
  BY DEF OneTable!Point, Point
<1>3. ASSUME NEW l, NEW i, NEW item PROVE OneTable!SetItem(l, i, item) = SetItem(l, i, item)
  BY DEF OneTable!SetItem, SetItem
<1>4. ASSUME NEW l, NEW item PROVE OneTable!PutItem(l, item) = PutItem(l, item)
  BY DEF OneTable!PutItem, PutItem, OneTable!IdOf, IdOf, OneTable!AppendItem, AppendItem,
         OneTable!Point, Point, OneTable!SetItem, SetItem
<1>5. ASSUME NEW l, NEW n, NEW item PROVE OneTable!RemoveItem(l, n, item) = RemoveItem(l, n, item)
  BY DEF OneTable!RemoveItem, RemoveItem, OneTable!IdOf, IdOf, OneTable!AppendItem, AppendItem,
         OneTable!Point, Point, OneTable!SetItem, SetItem, OneTable!WithAction, WithAction,
         OneTable!RemovedAction, RemovedAction
<1>6. ASSUME NEW l, NEW old, NEW new, NEW action
      PROVE  OneTable!RenameItem(l, old, new, action) = RenameItem(l, old, new, action)
  BY DEF OneTable!RenameItem, RenameItem, OneTable!IdOf, IdOf, OneTable!Point, Point,
         OneTable!Renamed, Renamed
<1>7. ASSUME NEW s, NEW i, NEW e PROVE OneTable!InsertAt(s, i, e) = InsertAt(s, i, e)
  BY DEF OneTable!InsertAt, InsertAt
<1>8. ASSUME NEW s, NEW i PROVE OneTable!RemoveAt(s, i) = RemoveAt(s, i)
  BY DEF OneTable!RemoveAt, RemoveAt
<1>9. ASSUME NEW s PROVE OneTable!Front(s) = Front(s)
  BY DEF OneTable!Front, Front
<1> QED BY <1>1, <1>2, <1>3, <1>4, <1>5, <1>6, <1>7, <1>8, <1>9

\* and so are the methods that move, merge and add columns.
LEMMA SameColumns ==
  /\ \A opts, more : OneTable!MergeOptions(opts, more) = MergeOptions(opts, more)
  /\ \A t, id, col : OneTable!MergeColumn(t, id, col) = MergeColumn(t, id, col)
  /\ \A items, old, new : OneTable!Copied(items, old, new) = Copied(items, old, new)
  /\ \A items, old : OneTable!CutAfterMoveUp(items, old) = CutAfterMoveUp(items, old)
  /\ \A items, old : OneTable!CutAfterMoveDown(items, old) = CutAfterMoveDown(items, old)
  /\ \A l, old, new : OneTable!SwapPanics(l, old, new) = SwapPanics(l, old, new)
  /\ \A l, name, old, new : OneTable!SwapOrder(l, name, old, new) = SwapOrder(l, name, old, new)
  /\ \A t, name, old, new : OneTable!SwapColumns(t, name, old, new) = SwapColumns(t, name, old, new)
  /\ \A t, name, id : OneTable!PlaceColumn(t, name, id) = PlaceColumn(t, name, id)
  /\ \A l, n : OneTable!IsStale(l, n) = IsStale(l, n)
  /\ \A t : OneTable!Panicked(t) = Panicked(t)
  /\ \A t, col : OneTable!AddColumn(t, col) = AddColumn(t, col)
<1>1. ASSUME NEW opts, NEW more PROVE OneTable!MergeOptions(opts, more) = MergeOptions(opts, more)
  BY DEF OneTable!MergeOptions, MergeOptions, OneTable!IsPrimaryKey, IsPrimaryKey
<1>2. ASSUME NEW t, NEW id, NEW col
      PROVE  OneTable!MergeColumn(t, id, col) = MergeColumn(t, id, col)
  BY <1>1, SameLists DEF OneTable!MergeColumn, MergeColumn
<1>3. ASSUME NEW items, NEW old, NEW new
      PROVE  OneTable!Copied(items, old, new) = Copied(items, old, new)
  BY SameLists DEF OneTable!Copied, Copied
<1>4. ASSUME NEW items, NEW old
      PROVE  OneTable!CutAfterMoveUp(items, old) = CutAfterMoveUp(items, old)
  BY SameLists DEF OneTable!CutAfterMoveUp, CutAfterMoveUp
<1>5. ASSUME NEW items, NEW old
      PROVE  OneTable!CutAfterMoveDown(items, old) = CutAfterMoveDown(items, old)
  BY SameLists DEF OneTable!CutAfterMoveDown, CutAfterMoveDown
<1>6. ASSUME NEW l, NEW old, NEW new
      PROVE  OneTable!SwapPanics(l, old, new) = SwapPanics(l, old, new)
  BY DEF OneTable!SwapPanics, SwapPanics
<1>7. ASSUME NEW l, NEW name, NEW old, NEW new
      PROVE  OneTable!SwapOrder(l, name, old, new) = SwapOrder(l, name, old, new)
  BY <1>3, <1>4, <1>5 DEF OneTable!SwapOrder, SwapOrder
<1>8. ASSUME NEW t, NEW name, NEW old, NEW new
      PROVE  OneTable!SwapColumns(t, name, old, new) = SwapColumns(t, name, old, new)
  BY <1>6, <1>7 DEF OneTable!SwapColumns, SwapColumns
<1>9. ASSUME NEW t, NEW name, NEW id
      PROVE  OneTable!PlaceColumn(t, name, id) = PlaceColumn(t, name, id)
  BY <1>8, SameLists DEF OneTable!PlaceColumn, PlaceColumn, OneTable!NoPosition, NoPosition,
         OneTable!Nil, Nil
<1>10. ASSUME NEW l, NEW n PROVE OneTable!IsStale(l, n) = IsStale(l, n)
  BY SameLists DEF OneTable!IsStale, IsStale
<1>11. ASSUME NEW t PROVE OneTable!Panicked(t) = Panicked(t)
  BY DEF OneTable!Panicked, Panicked
<1>12. ASSUME NEW t, NEW col PROVE OneTable!AddColumn(t, col) = AddColumn(t, col)
  BY <1>2, <1>9, <1>10, <1>11, SameLists DEF OneTable!AddColumn, AddColumn
<1> QED BY <1>1, <1>2, <1>3, <1>4, <1>5, <1>6, <1>7, <1>8, <1>9, <1>10, <1>11, <1>12

\* The other methods are the same, too.
LEMMA SameMethods ==
  /\ \A t, n : OneTable!RemoveColumn(t, n) = RemoveColumn(t, n)
  /\ \A t, n, to : OneTable!RenameColumn(t, n, to) = RenameColumn(t, n, to)
  /\ \A t, idx : OneTable!AddIndex(t, idx) = AddIndex(t, idx)
  /\ \A t, i : OneTable!RemoveIndex(t, i) = RemoveIndex(t, i)
  /\ \A t, i, to : OneTable!RenameIndex(t, i, to) = RenameIndex(t, i, to)
  /\ \A l, n : OneTable!MarkReferenced(l, n) = MarkReferenced(l, n)
  /\ \A t, fk : OneTable!AddForeignKey(t, fk) = AddForeignKey(t, fk)
  /\ \A t, f : OneTable!RemoveForeignKey(t, f) = RemoveForeignKey(t, f)
  /\ \A t : OneTable!View(t) = View(t)
<1>1. ASSUME NEW t, NEW n PROVE OneTable!RemoveColumn(t, n) = RemoveColumn(t, n)
  BY SameLists, SameColumns DEF OneTable!RemoveColumn, RemoveColumn, OneTable!Column, Column,
         OneTable!NilAttr, NilAttr, OneTable!Nil, Nil
<1>2. ASSUME NEW t, NEW n, NEW to PROVE OneTable!RenameColumn(t, n, to) = RenameColumn(t, n, to)
  BY SameLists, SameColumns DEF OneTable!RenameColumn, RenameColumn
<1>3. ASSUME NEW t, NEW idx PROVE OneTable!AddIndex(t, idx) = AddIndex(t, idx)
  BY SameLists DEF OneTable!AddIndex, AddIndex
<1>4. ASSUME NEW t, NEW i PROVE OneTable!RemoveIndex(t, i) = RemoveIndex(t, i)
  BY SameLists DEF OneTable!RemoveIndex, RemoveIndex, OneTable!Index, Index, OneTable!Nil, Nil
<1>5. ASSUME NEW t, NEW i, NEW to PROVE OneTable!RenameIndex(t, i, to) = RenameIndex(t, i, to)
  BY SameLists DEF OneTable!RenameIndex, RenameIndex
<1>6. ASSUME NEW l, NEW n PROVE OneTable!MarkReferenced(l, n) = MarkReferenced(l, n)
  BY DEF OneTable!MarkReferenced, MarkReferenced, OneTable!Reference, Reference, OneTable!Nil, Nil
<1>7. ASSUME NEW t, NEW fk PROVE OneTable!AddForeignKey(t, fk) = AddForeignKey(t, fk)
  BY <1>6, SameLists DEF OneTable!AddForeignKey, AddForeignKey
<1>8. ASSUME NEW t, NEW f PROVE OneTable!RemoveForeignKey(t, f) = RemoveForeignKey(t, f)
  BY SameLists DEF OneTable!RemoveForeignKey, RemoveForeignKey, OneTable!ForeignKey, ForeignKey,
         OneTable!Nil, Nil
<1>9. ASSUME NEW t PROVE OneTable!View(t) = View(t)
  BY DEF OneTable!View, View, OneTable!LiveItems, LiveItems, OneTable!IsLive, IsLive,
         OneTable!OptionsOf, OptionsOf, OneTable!Reference, Reference, OneTable!Nil, Nil
<1> QED BY <1>1, <1>2, <1>3, <1>4, <1>5, <1>6, <1>7, <1>8, <1>9

\* So are the database's statements, and what a statement reads.
LEMMA SameStatements ==
  /\ \A d, stm : OneTable!Exec(d, stm) = Exec(d, stm)
  /\ \A d, n : OneTable!IsMentioned(d, n) = IsMentioned(d, n)
  /\ \A d : OneTable!ColumnNamesOf(d) = ColumnNamesOf(d)
  /\ \A n, action, attr : OneTable!Column(n, action, attr) = Column(n, action, attr)
  /\ \A n, action, typ, columns : OneTable!Index(n, action, typ, columns) = Index(n, action, typ, columns)
  /\ \A n, action, column, ref : OneTable!ForeignKey(n, action, column, ref) = ForeignKey(n, action, column, ref)
<1>1. ASSUME NEW d, NEW stm PROVE OneTable!Exec(d, stm) = Exec(d, stm)
  BY DEF OneTable!Exec, Exec, OneTable!KeyDrops, KeyDrops, OneTable!AddDbColumn, AddDbColumn, OneTable!DropDbColumn,
         DropDbColumn, OneTable!RenameDbColumn, RenameDbColumn, OneTable!ModifyDbColumn,
         ModifyDbColumn, OneTable!SetDbColumn, SetDbColumn, OneTable!PlaceOf, PlaceOf,
         OneTable!ColumnNamesOf, ColumnNamesOf, OneTable!Without, Without, OneTable!With, With
<1>2. ASSUME NEW d, NEW n PROVE OneTable!IsMentioned(d, n) = IsMentioned(d, n)
  BY DEF OneTable!IsMentioned, IsMentioned
<1>3. ASSUME NEW d PROVE OneTable!ColumnNamesOf(d) = ColumnNamesOf(d)
  BY DEF OneTable!ColumnNamesOf, ColumnNamesOf
<1>4. ASSUME NEW n, NEW action, NEW attr
      PROVE  OneTable!Column(n, action, attr) = Column(n, action, attr)
  BY DEF OneTable!Column, Column, OneTable!NilAttr, NilAttr, OneTable!Nil, Nil
<1>5. ASSUME NEW n, NEW action, NEW typ, NEW columns
      PROVE  OneTable!Index(n, action, typ, columns) = Index(n, action, typ, columns)
  BY DEF OneTable!Index, Index, OneTable!Nil, Nil
<1>6. ASSUME NEW n, NEW action, NEW column, NEW ref
      PROVE  OneTable!ForeignKey(n, action, column, ref) = ForeignKey(n, action, column, ref)
  BY DEF OneTable!ForeignKey, ForeignKey, OneTable!Nil, Nil
<1> QED BY <1>1, <1>2, <1>3, <1>4, <1>5, <1>6

----------------------------------------------------------------------------
(* What one specification does to a table of the parser that agrees with one  *)
(* of the database.                                                           *)

\* The columns of t are those of d, in order, as in TableAgreement.tla: a MODIFY COLUMN of
\* those of M has been entered and is still to be visited.
Agrees(t, d, M) ==
  OneTable!ColumnsFollow(t.cols, d, M) /\ OneTable!InOrder(t.cols, d)
HoldsKeys(t, d) == OneTable!KeysFollow(t, d)

\* What Enter makes of a table for a specification that is about it, and what it makes
\* of it for the nodes below.
EnteredTable(t, spec) ==
  CASE spec.op = "addColumn" ->
         IF spec.pos = NoPosition THEN t ELSE [t EXCEPT !.pos = spec.pos]
    [] spec.op = "addForeignKey" ->
         AddForeignKey(t, ForeignKey(spec.fk, "add", spec.col, spec.ref))
    [] spec.op = "dropColumn"     -> RemoveColumn(t, spec.col)
    [] spec.op = "modifyColumn"   ->
         AddColumn(t, Column(spec.col, "modify", [type |-> spec.type, opts |-> <<>>]))
    [] spec.op = "renameColumn"   -> RenameColumn(t, spec.col, spec.to)
    [] spec.op = "renameIndex"    -> RenameIndex(t, spec.idx, spec.to)
VisitedTable(t, spec) ==
  IF Defines(spec)
  THEN AddColumn(t, Column(spec.col, "add", [type |-> spec.type, opts |-> spec.opts]))
  ELSE t

\* No foreign key is dropped: the parser does not read the two statements that do it.
NoKeyIsDropped == \A spec \in Given : spec.op \notin KeyDrops

\* A specification of the schema's statements.
IsGiven(spec) ==
  /\ spec.op \in AlterOps \ KeyDrops /\ IsSpec(spec)
  /\ Defines(spec) => spec.type \in TypesGiven /\ spec.opts \in OptionsGiven

LEMMA AltersGive ==
  ASSUME NoKeyIsDropped, NEW specs \in Alters, NEW k \in DOMAIN specs
  PROVE  IsGiven(specs[k])
<1>1. specs[k].op \in AlterOps /\ IsSpec(specs[k]) BY MigrationAssumption
<1>2. specs[k] \in Given BY DEF Given
<1> QED BY <1>1, <1>2 DEF IsGiven, NoKeyIsDropped, TypesGiven, OptionsGiven

\* The shapes that the lemmas of TableAgreement.tla ask for.
LEMMA Shapes ==
  ASSUME NEW t, TableShape(t), NEW d, NEW M, Agrees(t, d, M)
  PROVE  /\ OneTable!IsTable(t)
         /\ OneTable!ColumnsFollow(t.cols, d, M) /\ OneTable!InOrder(t.cols, d)
         /\ OneTable!Sound(t.cols, OneTable!ColumnItems, ColumnNames)
         /\ OneTable!LiveNames(t.cols) = ColumnNamesOf(d)
         /\ d \in [cols : {d.cols}, idxs : {d.idxs}, fks : {d.fks}]
         /\ d.cols = [k \in 1 .. Len(d.cols) |-> d.cols[k]]
<1>1. OneTable!IsTable(t) BY DEF TableShape, IsTable, OneTable!IsTable
<1>2. OneTable!ColumnsFollow(t.cols, d, M) /\ OneTable!InOrder(t.cols, d) BY DEF Agrees
<1>3. /\ OneTable!Sound(t.cols, OneTable!ColumnItems, ColumnNames)
      /\ OneTable!LiveNames(t.cols) = OneTable!ColumnNamesOf(d) /\ OneTable!IsDb(d)
  BY <1>2 DEF OneTable!ColumnsFollow
<1>4. OneTable!ColumnNamesOf(d) = ColumnNamesOf(d) BY SameStatements
<1>5. /\ d \in [cols : Seq(OneTable!DbColumns), idxs : {d.idxs}, fks : {d.fks}]
  BY <1>3 DEF OneTable!IsDb
<1> QED BY <1>1, <1>2, <1>3, <1>4, <1>5

\* Before the definitions: the table takes the step that the database takes.
LEMMA ColumnLeaves ==
  ASSUME NEW t, TableShape(t), NEW d, Agrees(t, d, {}), HoldsKeys(t, d),
         NEW spec, IsGiven(spec), spec.op = "dropColumn", Legal(d, spec), ~IsMentioned(d, spec.col),
         NEW u, u = EnteredTable(t, spec), NEW e, e = Exec(d, spec)
  PROVE  Agrees(u, e, {}) /\ HoldsKeys(u, e)
<1> DEFINE n == spec.col
           stm == [op |-> "dropColumn", col |-> n]
<1>1. n \in ColumnNamesOf(d) BY DEF Legal, KeyDrops
<1>2. u = RemoveColumn(t, n) BY DEF EnteredTable
<1>3. e = Exec(d, stm) BY DEF Exec, KeyDrops
<1>4. u.idxs = t.idxs /\ u.fks = t.fks
  BY <1>2 DEF RemoveColumn, Panicked, TableShape, IsTable
<1>5. OneTable!ColumnsFollow(t.cols, d, {}) /\ OneTable!InOrder(t.cols, d) /\ OneTable!IsTable(t)
  BY Shapes
<1> HIDE DEF n
<1>6. /\ e = OneTable!Exec(d, [op |-> "dropColumn", col |-> n]) /\ u = OneTable!RemoveColumn(t, n)
      /\ n \in OneTable!ColumnNamesOf(d) /\ ~OneTable!IsMentioned(d, n)
  BY <1>1, <1>2, <1>3, SameMethods, SameStatements DEF n
<1>7. /\ OneTable!ColumnsFollow(u.cols, e, {})
      /\ OneTable!InOrder(t.cols, d) => OneTable!InOrder(u.cols, e)
  BY <1>5, <1>6, Fits, SpareCapacityAssumption, OneTable!ColumnDropped
<1>8. OneTable!KeysFollow(t, d) BY DEF HoldsKeys
<1>9. e.idxs = d.idxs /\ e.fks = d.fks
  BY <1>6, <1>8, Fits, SpareCapacityAssumption, OneTable!NothingCascades
<1>10. OneTable!KeysFollow(u, e)
  BY <1>4, <1>8, <1>9, Fits, SpareCapacityAssumption, OneTable!KeysUnchanged
<1> QED BY <1>5, <1>7, <1>10 DEF Agrees, HoldsKeys

LEMMA ColumnGoesBy ==
  ASSUME NEW t, TableShape(t), NEW d, Agrees(t, d, {}), HoldsKeys(t, d),
         NEW spec, IsGiven(spec), spec.op = "renameColumn", Legal(d, spec),
         NEW u, u = EnteredTable(t, spec), NEW e, e = Exec(d, spec)
  PROVE  Agrees(u, e, {}) /\ HoldsKeys(u, e)
<1> DEFINE n == spec.col
           to == spec.to
<1>1. n \in ColumnNamesOf(d) /\ to \notin ColumnNamesOf(d) /\ to \in ColumnNames
  BY DEF Legal, KeyDrops, IsGiven, IsSpec
<1>2. u = RenameColumn(t, n, to) BY DEF EnteredTable
<1>3. e = Exec(d, [op |-> "renameColumn", col |-> n, to |-> to]) BY DEF Exec, KeyDrops
<1>4. u.idxs = t.idxs /\ u.fks = t.fks
  BY <1>2 DEF RenameColumn, Panicked, TableShape, IsTable
<1>5. /\ OneTable!ColumnsFollow(t.cols, d, {}) /\ OneTable!InOrder(t.cols, d) /\ OneTable!IsTable(t)
      /\ d \in [cols : {d.cols}, idxs : {d.idxs}, fks : {d.fks}]
  BY Shapes
<1>6. e.idxs = d.idxs /\ e.fks = d.fks
  BY <1>3, <1>5 DEF Exec, KeyDrops, RenameDbColumn, SetDbColumn
<1> HIDE DEF n, to
<1>7. /\ e = OneTable!Exec(d, [op |-> "renameColumn", col |-> n, to |-> to])
      /\ u = OneTable!RenameColumn(t, n, to)
      /\ n \in OneTable!ColumnNamesOf(d) /\ to \notin OneTable!ColumnNamesOf(d)
  BY <1>1, <1>2, <1>3, SameMethods, SameStatements
<1>8. n \notin {} OBVIOUS
<1>9. /\ OneTable!ColumnsFollow(u.cols, e, {})
      /\ OneTable!InOrder(t.cols, d) => OneTable!InOrder(u.cols, e)
  BY <1>1, <1>5, <1>7, <1>8, Fits, SpareCapacityAssumption, OneTable!ColumnRenamed
<1>10. OneTable!KeysFollow(t, d) BY DEF HoldsKeys
<1>11. OneTable!KeysFollow(u, e)
  BY <1>4, <1>6, <1>10, Fits, SpareCapacityAssumption, OneTable!KeysUnchanged
<1> QED BY <1>5, <1>9, <1>11 DEF Agrees, HoldsKeys

\* A statement on indexes and foreign keys leaves the columns, but for the marks.
SameColumnsOf(e, d) == e \in [cols : {d.cols}, idxs : {e.idxs}, fks : {e.fks}]

LEMMA StaysDb ==
  ASSUME NEW d, OneTable!IsDb(d), NEW e, SameColumnsOf(e, d)
  PROVE  OneTable!IsDb(e) /\ e.cols = d.cols
<1>1. e.cols = d.cols BY DEF SameColumnsOf
<1>2. d.cols \in Seq(OneTable!DbColumns) /\ OneTable!DistinctNames(d.cols) BY DEF OneTable!IsDb
<1> QED BY <1>1, <1>2 DEF OneTable!IsDb, SameColumnsOf

LEMMA ColumnsStay ==
  ASSUME NEW t, NEW d, NEW M, Agrees(t, d, M), NEW u, u.cols = t.cols,
         NEW e, SameColumnsOf(e, d)
  PROVE  Agrees(u, e, M)
<1> DEFINE l == t.cols
           Def(n) == OneTable!ColDef(OneTable!Node(l, n))
<1>1. /\ OneTable!ColumnsFollow(l, d, M) /\ OneTable!InOrder(l, d)
      /\ OneTable!Sound(l, OneTable!ColumnItems, ColumnNames) /\ OneTable!IsDb(d)
  BY DEF Agrees, OneTable!ColumnsFollow
<1>2. OneTable!IsDb(e) /\ e.cols = d.cols BY <1>1, StaysDb
<1>3. \A n \in OneTable!LiveNames(l) :
        OneTable!ColDef(OneTable!Node(l, n)) = OneTable!ColDef(OneTable!Node(l, n))
  OBVIOUS
<1> HIDE DEF l
<1>4. OneTable!ColumnsFollow(l, e, M) /\ (OneTable!InOrder(l, d) => OneTable!InOrder(l, e))
  BY <1>1, <1>2, <1>3, Fits, SpareCapacityAssumption, OneTable!ColumnsKept
<1>5. u.cols = l BY DEF l
<1> QED BY <1>1, <1>4, <1>5 DEF Agrees

LEMMA IndexGoesBy ==
  ASSUME NEW t, TableShape(t), NEW d, Agrees(t, d, {}), HoldsKeys(t, d),
         NEW spec, IsGiven(spec), spec.op = "renameIndex", Legal(d, spec),
         NEW u, u = EnteredTable(t, spec), NEW e, e = Exec(d, spec)
  PROVE  Agrees(u, e, {}) /\ HoldsKeys(u, e)
<1> DEFINE i == spec.idx
           to == spec.to
<1>1. i \in DOMAIN d.idxs /\ to \notin DOMAIN d.idxs /\ to \in IndexNames
  BY DEF Legal, KeyDrops, IsGiven, IsSpec
<1>2. u = RenameIndex(t, i, to) BY DEF EnteredTable
<1>3. e = Exec(d, [op |-> "renameIndex", idx |-> i, to |-> to]) BY DEF Exec, KeyDrops
<1>4. OneTable!IsTable(t) /\ d \in [cols : {d.cols}, idxs : {d.idxs}, fks : {d.fks}]
  BY Shapes
<1>5. u.cols = t.cols BY <1>2 DEF RenameIndex, TableShape, IsTable
<1>6. SameColumnsOf(e, d) BY <1>3, <1>4 DEF Exec, KeyDrops, SameColumnsOf
<1>7. Agrees(u, e, {}) BY <1>5, <1>6, ColumnsStay
<1> HIDE DEF i, to
<1>8. /\ e = OneTable!Exec(d, [op |-> "renameIndex", idx |-> i, to |-> to])
      /\ u = OneTable!RenameIndex(t, i, to)
  BY <1>2, <1>3, SameMethods, SameStatements
<1>9. OneTable!KeysFollow(t, d) BY DEF HoldsKeys
<1>10. OneTable!KeysFollow(u, e)
  BY <1>1, <1>4, <1>8, <1>9, Fits, SpareCapacityAssumption, OneTable!IndexRenamed
<1> QED BY <1>7, <1>10 DEF HoldsKeys

\* ADD FOREIGN KEY, also after the definitions, when the columns still are those of an
\* earlier table c.
LEMMA KeyComes ==
  ASSUME NEW t, TableShape(t), NEW c, NEW M, Agrees(t, c, M),
         NEW d, d \in [cols : {d.cols}, idxs : {d.idxs}, fks : {d.fks}], HoldsKeys(t, d),
         NEW spec, IsGiven(spec), RefersTo(spec),
         NEW u, u = EnteredTable(t, spec), NEW e, e = Exec(d, spec)
  PROVE  Agrees(u, c, M) /\ HoldsKeys(u, e) /\ SameColumnsOf(e, d)
<1> DEFINE f == spec.fk
           n == spec.col
           ref == spec.ref
           item == ForeignKey(f, "add", n, ref)
<1>1. spec.op = "addForeignKey" BY DEF RefersTo
<1>2. f \in FkNames /\ n \in ColumnNames /\ ref \in TableNames BY <1>1 DEF IsGiven, IsSpec
<1>3. u = AddForeignKey(t, item) BY <1>1 DEF EnteredTable
<1>4. e = Exec(d, [op |-> "addForeignKey", fk |-> f, col |-> n, ref |-> ref])
  BY <1>1 DEF Exec, KeyDrops
<1>5. SameColumnsOf(e, d) BY <1>4 DEF Exec, KeyDrops, SameColumnsOf
<1>6. /\ OneTable!IsTable(t) /\ OneTable!ColumnsFollow(t.cols, c, M)
      /\ OneTable!InOrder(t.cols, c) /\ OneTable!Sound(t.cols, OneTable!ColumnItems, ColumnNames)
  BY Shapes
<1>7. item \in OneTable!FkItems /\ OneTable!IsLive(item.action)
  BY <1>2 DEF ForeignKey, OneTable!FkItems, OneTable!Actions, OneTable!IsLive, Nil, OneTable!Nil
<1> HIDE DEF f, n, ref
<1>8. item = OneTable!ForeignKey(f, "add", n, ref) BY SameStatements
<1> HIDE DEF item
<1>9. /\ e = OneTable!Exec(d, [op |-> "addForeignKey", fk |-> f, col |-> n, ref |-> ref])
      /\ u = OneTable!AddForeignKey(t, item)
  BY <1>3, <1>4, SameMethods, SameStatements
<1>10. OneTable!KeysFollow(t, d) /\ OneTable!Sound(t.fks, OneTable!FkItems, FkNames)
  BY DEF HoldsKeys, OneTable!KeysFollow
<1>11. OneTable!IsDb(c) /\ c.cols = c.cols BY <1>6 DEF OneTable!ColumnsFollow
<1>12. /\ OneTable!ColumnsFollow(u.cols, c, M)
       /\ OneTable!InOrder(t.cols, c) => OneTable!InOrder(u.cols, c)
  BY <1>6, <1>7, <1>9, <1>10, <1>11, Fits, SpareCapacityAssumption, OneTable!ColumnsMarked
<1>13. u = OneTable!AddForeignKey(t, OneTable!ForeignKey(f, "add", n, ref)) BY <1>8, <1>9
<1>14. OneTable!KeysFollow(u, e)
  BY <1>2, <1>6, <1>9, <1>10, <1>13, Fits, SpareCapacityAssumption, OneTable!KeyAdded
<1> QED BY <1>5, <1>6, <1>12, <1>14 DEF Agrees, HoldsKeys

\* A definition leaves the keys; an ADD COLUMN is entered as a position at most, and a
\* MODIFY COLUMN is then still to be visited.
LEMMA SwapKeepsKeys ==
  ASSUME NEW t, TableShape(t), NEW name, NEW old, NEW new, NEW r, r = SwapColumns(t, name, old, new)
  PROVE  r.idxs = t.idxs /\ r.fks = t.fks /\ IsTable(r)
BY DEF SwapColumns, TableShape, IsTable

LEMMA AddColumnKeepsKeys ==
  ASSUME NEW t, TableShape(t), NEW col, NEW r, r = AddColumn(t, col)
  PROVE  r.idxs = t.idxs /\ r.fks = t.fks
<1> DEFINE id == IdOf(t.cols, col.name)
           l == PutItem(t.cols, col)
           v == [t EXCEPT !.cols = l]
           at == IF id = 0 THEN Len(t.cols.items) + 1 ELSE id
<1>1. \/ r = Panicked(t)
      \/ r = MergeColumn(t, id, col)
      \/ r = PlaceColumn(v, col.name, at)
  BY DEF AddColumn
<1>2. CASE r = Panicked(t) BY <1>2 DEF Panicked, TableShape, IsTable
<1>3. CASE r = MergeColumn(t, id, col) BY <1>3 DEF MergeColumn, TableShape, IsTable
<1>4. CASE r = PlaceColumn(v, col.name, at)
  <2>1. v.idxs = t.idxs /\ v.fks = t.fks /\ IsTable(v) /\ v.cols = l BY DEF TableShape, IsTable
  <2>2. TableShape(v)
    <3>1. ListShape(l) BY PutItemShape DEF TableShape
    <3> QED BY <2>1, <3>1 DEF TableShape
  <2> HIDE DEF v, l, at
  <2> DEFINE after == IdOf(v.cols, v.pos.rel) + 1
             swapped == SwapColumns(v, col.name, at, 1)
             moved == SwapColumns(v, col.name, at, after)
  <2>3. r \in {[swapped EXCEPT !.pos = NoPosition], [moved EXCEPT !.pos = NoPosition],
               [v EXCEPT !.pos = NoPosition]}
    BY <1>4 DEF PlaceColumn
  <2> HIDE DEF after
  <2>4. swapped.idxs = v.idxs /\ swapped.fks = v.fks /\ IsTable(swapped) BY <2>2, SwapKeepsKeys
  <2>5. moved.idxs = v.idxs /\ moved.fks = v.fks /\ IsTable(moved) BY <2>2, SwapKeepsKeys
  <2> HIDE DEF swapped, moved
  <2> QED BY <2>1, <2>3, <2>4, <2>5 DEF IsTable
<1> QED BY <1>1, <1>2, <1>3, <1>4

LEMMA DefinitionKeepsKeys ==
  ASSUME NEW d, d \in [cols : {d.cols}, idxs : {d.idxs}, fks : {d.fks}], NEW spec, Defines(spec),
         NEW e, e = Exec(d, spec)
  PROVE  /\ e.idxs = d.idxs /\ e.fks = d.fks
         /\ e \in [cols : {e.cols}, idxs : {e.idxs}, fks : {e.fks}]
<1>1. CASE spec.op = "addColumn" BY <1>1 DEF Exec, KeyDrops, AddDbColumn
<1>2. CASE spec.op = "modifyColumn" BY <1>2 DEF Exec, KeyDrops, ModifyDbColumn, SetDbColumn
<1> QED BY <1>1, <1>2 DEF Defines

\* The column that is halfway after a specification is entered.
Halfway(spec) == IF spec.op = "modifyColumn" THEN {spec.col} ELSE {}

LEMMA DefinitionEntered ==
  ASSUME NEW t, TableShape(t), NEW c, NEW M, Agrees(t, c, M),
         NEW d, d \in [cols : {d.cols}, idxs : {d.idxs}, fks : {d.fks}], HoldsKeys(t, d),
         NEW spec, IsGiven(spec), Defines(spec),
         spec.op = "modifyColumn" => spec.col \in ColumnNamesOf(c) /\ Settled(t),
         NEW u, u = EnteredTable(t, spec) \/ (spec.op = "addColumn" /\ u = t),
         NEW e, e = Exec(d, spec)
  PROVE  Agrees(u, c, M \cup Halfway(spec)) /\ HoldsKeys(u, e)
<1>1. e.idxs = d.idxs /\ e.fks = d.fks BY DefinitionKeepsKeys
<1>2. OneTable!KeysFollow(t, d) BY DEF HoldsKeys
<1>3. ASSUME u.idxs = t.idxs, u.fks = t.fks PROVE HoldsKeys(u, e)
  BY <1>1, <1>2, <1>3, Fits, SpareCapacityAssumption, OneTable!KeysUnchanged DEF HoldsKeys
<1>4. CASE spec.op = "addColumn"
  <2>1. u.cols = t.cols /\ u.idxs = t.idxs /\ u.fks = t.fks
    BY <1>4 DEF EnteredTable, TableShape, IsTable
  <2>2. M \cup Halfway(spec) = M BY <1>4 DEF Halfway
  <2> QED BY <1>3, <2>1, <2>2 DEF Agrees
<1>5. CASE spec.op = "modifyColumn"
  <2> DEFINE n == spec.col
             type == spec.type
             col == Column(n, "modify", [type |-> type, opts |-> <<>>])
  <2>1. u = AddColumn(t, col) BY <1>5 DEF EnteredTable
  <2>2. u = OneTable!Retyped(t, n, type)
    <3>1. OneTable!AddColumn(t, col) = AddColumn(t, col) BY SameMethods, SameColumns
    <3>2. OneTable!Column(n, "modify", [type |-> type, opts |-> <<>>]) = col BY SameStatements
    <3> QED BY <2>1, <3>1, <3>2 DEF OneTable!Retyped
  <2>3. u.idxs = t.idxs /\ u.fks = t.fks
    <3> HIDE DEF col
    <3> QED BY <2>1, AddColumnKeepsKeys
  <2> HIDE DEF col
  <2>4. n \in OneTable!ColumnNamesOf(c) /\ t.pos.tp \in {"nil", "none"}
    BY <1>5, SameStatements DEF Settled
  <2>5. type \in TypesGiven BY DEF IsGiven
  <2>6. OneTable!IsTable(t) /\ OneTable!ColumnsFollow(t.cols, c, M) /\ OneTable!InOrder(t.cols, c)
    BY Shapes
  <2>7. M \cup Halfway(spec) = M \cup {n} BY <1>5 DEF Halfway
  <2> HIDE DEF n, type
  <2>8. /\ OneTable!ColumnsFollow(u.cols, c, M \cup {n})
        /\ OneTable!InOrder(t.cols, c) => OneTable!InOrder(u.cols, c)
    BY <2>2, <2>4, <2>5, <2>6, Fits, SpareCapacityAssumption, OneTable!ColumnEntered
  <2> QED BY <1>3, <2>3, <2>6, <2>7, <2>8 DEF Agrees
<1> QED BY <1>4, <1>5 DEF Defines

\* When it is visited, the columns are those that the database has after it.  The definition
\* has to repeat the options that the column has.
RepeatsOptions(d, spec) ==
  d.cols[PlaceOf(d, spec.col)].opts \subseteq {spec.opts[i] : i \in DOMAIN spec.opts}

LEMMA DefinitionVisited ==
  ASSUME NEW t, TableShape(t), NEW d, NEW M, Agrees(t, d, M),
         NEW spec, IsGiven(spec), Defines(spec), Legal(d, spec),
         spec.op = "addColumn" => /\ spec.col \notin Known(t) /\ spec.col \notin M
                                  /\ OneTable!SamePlace(t.pos, spec.pos),
         spec.op = "modifyColumn" => Settled(t) /\ RepeatsOptions(d, spec),
         NEW u, u = VisitedTable(t, spec), NEW e, e = Exec(d, spec)
  PROVE  Agrees(u, e, M \ {spec.col}) /\ u.idxs = t.idxs /\ u.fks = t.fks
<1> DEFINE n == spec.col
           type == spec.type
           opts == spec.opts
           pos == spec.pos
           col == Column(n, "add", [type |-> type, opts |-> opts])
<1>1. u = AddColumn(t, col) BY DEF VisitedTable
<1>2. u = OneTable!AddColumn(t, OneTable!Column(n, "add", [type |-> type, opts |-> opts]))
  <2>1. OneTable!AddColumn(t, col) = AddColumn(t, col) BY SameMethods, SameColumns
  <2>2. OneTable!Column(n, "add", [type |-> type, opts |-> opts]) = col BY SameStatements
  <2> QED BY <1>1, <2>1, <2>2
<1>3. u.idxs = t.idxs /\ u.fks = t.fks
  <2> HIDE DEF col
  <2> QED BY <1>1, AddColumnKeepsKeys
<1>4. type \in TypesGiven /\ opts \in OptionsGiven /\ n \in ColumnNames
  BY DEF IsGiven, IsSpec, Defines
<1>5. OneTable!IsTable(t) /\ OneTable!ColumnsFollow(t.cols, d, M) /\ OneTable!InOrder(t.cols, d)
  BY Shapes
<1>6. CASE spec.op = "addColumn"
  <2>1. e = Exec(d, [op |-> "addColumn", col |-> n, type |-> type, opts |-> opts, pos |-> pos])
    BY <1>6 DEF Exec, KeyDrops, AddDbColumn
  <2>2. pos.tp = "after" => pos.rel \in ColumnNamesOf(d) BY <1>6 DEF Legal, KeyDrops
  <2>3. pos \in OneTable!AddPositions
    BY <1>6 DEF IsGiven, IsSpec, OneTable!AddPositions, NoPosition, PositionNone, First, After, Nil,
        OneTable!NoPosition, OneTable!PositionNone, OneTable!First, OneTable!After, OneTable!Nil
  <2>4. n \notin DOMAIN t.cols.id /\ n \notin M /\ OneTable!SamePlace(t.pos, pos)
    BY <1>6 DEF Known
  <2>5. M \ {n} = M BY <2>4
  <2> HIDE DEF n, type, opts, pos
  <2>6. /\ e = OneTable!Exec(d, [op |-> "addColumn", col |-> n, type |-> type, opts |-> opts,
                                 pos |-> pos])
        /\ pos.tp = "after" => pos.rel \in OneTable!ColumnNamesOf(d)
    BY <2>1, <2>2, SameStatements
  <2>7. /\ OneTable!ColumnsFollow(u.cols, e, M)
        /\ OneTable!InOrder(t.cols, d) => OneTable!InOrder(u.cols, e)
    BY <1>2, <1>4, <1>5, <2>3, <2>4, <2>6, Fits, SpareCapacityAssumption, OneTable!ColumnAdded
  <2>8. Agrees(u, e, M \ {n}) BY <1>5, <2>5, <2>7 DEF Agrees
  <2> QED BY <1>3, <2>8 DEF n
<1>7. CASE spec.op = "modifyColumn"
  <2>1. e = Exec(d, [op |-> "modifyColumn", col |-> n, type |-> type, opts |-> opts])
    BY <1>7 DEF Exec, KeyDrops, ModifyDbColumn
  <2>2. n \in ColumnNamesOf(d) BY <1>7 DEF Legal, KeyDrops
  <2>3. OneTable!Repeats(d, n, opts)
    <3>1. OneTable!PlaceOf(d, n) = PlaceOf(d, n)
      BY DEF OneTable!PlaceOf, PlaceOf, OneTable!ColumnNamesOf, ColumnNamesOf
    <3>2. OneTable!Range(opts) = {opts[i] : i \in DOMAIN opts} BY DEF OneTable!Range
    <3> QED BY <1>7, <3>1, <3>2 DEF OneTable!Repeats, OneTable!DbColumn, RepeatsOptions
  <2>4. t.pos.tp \in {"nil", "none"} BY <1>7 DEF Settled
  <2> HIDE DEF n, type, opts
  <2>5. /\ e = OneTable!Exec(d, [op |-> "modifyColumn", col |-> n, type |-> type, opts |-> opts])
        /\ n \in OneTable!ColumnNamesOf(d)
    BY <2>1, <2>2, SameStatements
  <2>6. /\ OneTable!ColumnsFollow(u.cols, e, M \ {n})
        /\ OneTable!InOrder(t.cols, d) => OneTable!InOrder(u.cols, e)
    <3>1. e = OneTable!DbRedefined(d, n, type, opts) /\ u = OneTable!DefinedAgain(t, n, type, opts)
      BY <1>2, <2>5 DEF OneTable!DbRedefined, OneTable!DefinedAgain
    <3>2. OneTable!AllBut(M, n, M \ {n}) BY DEF OneTable!AllBut
    <3> QED BY <1>4, <1>5, <2>3, <2>4, <2>5, <3>1, <3>2, Fits, SpareCapacityAssumption,
               OneTable!ColumnDefined
  <2>7. Agrees(u, e, M \ {n}) BY <1>5, <2>6 DEF Agrees
  <2> QED BY <1>3, <2>7 DEF n
<1> QED BY <1>6, <1>7 DEF Defines


----------------------------------------------------------------------------
(* An ALTER TABLE at its table.  It first drops and renames, then, after its  *)
(* first p specifications, defines columns and adds foreign keys.  The parser  *)
(* enters all of it before it visits the definitions: T and V are the tables   *)
(* it goes through, D those of the database.                                  *)
EntersTable(t, u, spec) ==
  u = EnteredTable(t, spec) \/ (spec.op = "addColumn" /\ ~IsPositioned(spec) /\ u = t)

AlterShape(specs, p) ==
  /\ IsSeq(specs) /\ p \in 0 .. Len(specs)
  /\ \A k \in DOMAIN specs :
       /\ IsGiven(specs[k])
       /\ k <= p => ~Defines(specs[k])
       /\ k > p  => Defines(specs[k]) \/ RefersTo(specs[k])
  /\ \A j, k \in DOMAIN specs :
       /\ Defines(specs[j]) /\ Defines(specs[k])
       /\ specs[j].col = specs[k].col \/ IsPositioned(specs[j])
       => j = k
NewColumn(specs, k, t) ==
  /\ specs[k].col \notin Known(t)
  /\ \A j \in DOMAIN specs : /\ specs[k].col \notin NamesEntered(specs[j])
                             /\ j # k => specs[k].col \notin NamesVisited(specs[j])
ParserAlters(specs, T, V) ==
  /\ TableShape(T[0]) /\ Settled(T[0])
  /\ V[0] = T[Len(specs)]
  /\ \A k \in DOMAIN specs :
       /\ EntersTable(T[k - 1], T[k], specs[k])
       /\ V[k] = VisitedTable(V[k - 1], specs[k])
       /\ specs[k].op = "addColumn" => NewColumn(specs, k, T[0])
DatabaseAlters(specs, D) ==
  /\ DbShape(D[0])
  /\ \A k \in DOMAIN specs :
       /\ Legal(D[k - 1], specs[k]) /\ D[k] = Exec(D[k - 1], specs[k])
       /\ specs[k].op \in {"dropColumn", "renameColumn"} => ~IsMentioned(D[k - 1], specs[k].col)
       /\ specs[k].op = "modifyColumn" => RepeatsOptions(D[k - 1], specs[k])

\* What one specification does to the table, whatever it does to its columns.
LEMMA TableEntered ==
  ASSUME NEW t, TableShape(t), NEW spec, IsGiven(spec), NEW u, EntersTable(t, u, spec)
  PROVE  /\ TableShape(u)
         /\ Known(u) \subseteq Known(t) \cup NamesEntered(spec)
         /\ ~IsPositioned(spec) /\ Settled(t) => Settled(u)
         /\ IsPositioned(spec) => u.pos = spec.pos
         /\ ~Defines(spec) => u.pos = t.pos
<1> DEFINE N == NamesEntered(spec)
<1>1. ASSUME NEW r, NEW S, u = r, Becomes(t, r, S), S \subseteq N, ~IsPositioned(spec),
             ~Defines(spec) => r.pos = t.pos
      PROVE  /\ TableShape(u) /\ Known(u) \subseteq Known(t) \cup N
             /\ (Settled(t) => Settled(u)) /\ (~Defines(spec) => u.pos = t.pos)
  BY <1>1 DEF Becomes, Settled, NoPosition
<1>2. CASE u = t
  <2>1. ~IsPositioned(spec) \/ u.pos = spec.pos
    <3>1. CASE u = EnteredTable(t, spec) /\ IsPositioned(spec)
      <4>1. spec.op = "addColumn" /\ spec.pos # NoPosition BY <3>1 DEF IsPositioned, NoPosition
      <4>2. u = [t EXCEPT !.pos = spec.pos] BY <3>1, <4>1 DEF EnteredTable
      <4> QED BY <4>2 DEF TableShape, IsTable
    <3> QED BY <3>1 DEF EntersTable
  <2> QED BY <1>2, <2>1
<1>3. CASE u # t /\ spec.op = "addColumn"
  <2>1. u = [t EXCEPT !.pos = spec.pos] BY <1>3 DEF EnteredTable, EntersTable
  <2>2. spec.pos.tp \in Places BY <1>3 DEF IsGiven, IsSpec, NoPosition, PositionNone, First, After, Places
  <2>3. TableShape(u) /\ Known(u) = Known(t) /\ u.pos = spec.pos
    BY <2>1 DEF TableShape, IsTable, Known
  <2>4. Defines(spec) BY <1>3 DEF Defines
  <2>5. ~IsPositioned(spec) => Settled(u) BY <1>3, <2>2, <2>3 DEF IsPositioned, Settled, Places
  <2> QED BY <2>3, <2>4, <2>5
<1>4. CASE u # t /\ spec.op # "addColumn"
  <2>1. u = EnteredTable(t, spec) /\ ~IsPositioned(spec) BY <1>4 DEF EntersTable, IsPositioned
  <2>2. CASE spec.op = "addForeignKey"
    <3> DEFINE fk == ForeignKey(spec.fk, "add", spec.col, spec.ref)
               r == AddForeignKey(t, fk)
    <3>1. u = r BY <2>1, <2>2 DEF EnteredTable
    <3> HIDE DEF fk
    <3>2. Becomes(t, r, {}) /\ r.pos = t.pos BY KeyMethodsBecome DEF Keeps
    <3> QED BY <1>1, <2>1, <3>1, <3>2
  <2>3. CASE spec.op = "dropColumn"
    <3> DEFINE r == RemoveColumn(t, spec.col)
    <3>1. u = r /\ N = {spec.col} BY <2>1, <2>3 DEF EnteredTable, NamesEntered
    <3>2. Becomes(t, r, {spec.col}) /\ r.pos = t.pos BY RemoveColumnBecomes DEF Keeps
    <3> QED BY <1>1, <2>1, <3>1, <3>2
  <2>5. CASE spec.op = "modifyColumn"
    <3> DEFINE col == Column(spec.col, "modify", [type |-> spec.type, opts |-> <<>>])
               r == AddColumn(t, col)
    <3>1. u = r /\ N = {spec.col} /\ Defines(spec)
      BY <2>1, <2>5 DEF EnteredTable, NamesEntered, Defines
    <3>2. col.name = spec.col BY DEF Column
    <3> HIDE DEF col
    <3>3. Becomes(t, r, {spec.col}) BY <3>2, AddColumnBecomes
    <3> QED BY <1>1, <2>1, <3>1, <3>3
  <2>6. CASE spec.op = "renameColumn"
    <3> DEFINE r == RenameColumn(t, spec.col, spec.to)
    <3>1. u = r /\ N = {spec.to} BY <2>1, <2>6 DEF EnteredTable, NamesEntered
    <3>2. Becomes(t, r, {spec.to}) /\ r.pos = t.pos BY RenameColumnBecomes DEF Keeps
    <3> QED BY <1>1, <2>1, <3>1, <3>2
  <2>7. CASE spec.op = "renameIndex"
    <3> DEFINE r == RenameIndex(t, spec.idx, spec.to)
    <3>1. u = r BY <2>1, <2>7 DEF EnteredTable
    <3>2. Becomes(t, r, {}) /\ r.pos = t.pos BY IndexMethodsBecome DEF Keeps
    <3> QED BY <1>1, <2>1, <3>1, <3>2
  <2> QED BY <1>4, <2>1, <2>2, <2>3, <2>5, <2>6, <2>7 DEF IsGiven, AlterOps
<1> QED BY <1>2, <1>3, <1>4

LEMMA TableVisited ==
  ASSUME NEW t, TableShape(t), NEW spec, NEW u, u = VisitedTable(t, spec)
  PROVE  /\ TableShape(u)
         /\ Known(u) \subseteq Known(t) \cup NamesVisited(spec)
         /\ Settled(t) => Settled(u)
         /\ ~Defines(spec) => u = t /\ NamesVisited(spec) = {}
<1>1. CASE Defines(spec)
  <2> DEFINE col == Column(spec.col, "add", [type |-> spec.type, opts |-> spec.opts])
  <2>1. u = AddColumn(t, col) /\ NamesVisited(spec) = {spec.col}
    BY <1>1 DEF VisitedTable, NamesVisited, Defines
  <2>2. col.name = spec.col BY DEF Column
  <2> HIDE DEF col
  <2>3. Becomes(t, u, {spec.col}) BY <2>1, <2>2, AddColumnBecomes
  <2> QED BY <1>1, <2>1, <2>3 DEF Becomes, Settled, NoPosition
<1>2. CASE ~Defines(spec) BY <1>2 DEF VisitedTable, NamesVisited, Defines
<1> QED BY <1>1, <1>2


\* All specifications entered up to the kth: no name of a new column is known yet, and the
\* position that waits is the one of the positioned column, if there is one.
NoneIsPositioned(specs) == \A j \in DOMAIN specs : ~IsPositioned(specs[j])
EnteredAt(specs, t, k) ==
  /\ TableShape(t)
  /\ \A j \in DOMAIN specs : specs[j].op = "addColumn" => NewColumn(specs, j, t)
  /\ NoneIsPositioned(specs) => Settled(t)
  /\ \A j \in DOMAIN specs : j <= k /\ IsPositioned(specs[j]) => t.pos = specs[j].pos

LEMMA EnteredInOrder ==
  ASSUME NEW specs, NEW p, AlterShape(specs, p), NEW T, NEW V, ParserAlters(specs, T, V)
  PROVE  \A k \in 0 .. Len(specs) : EnteredAt(specs, T[k], k)
<1> DEFINE n == Len(specs)
           S == {k \in Nat : k <= n => EnteredAt(specs, T[k], k)}
<1>1. n \in Nat /\ DOMAIN specs = 1 .. n BY SeqIs DEF AlterShape
<1>2. 0 \in S
  <2>1. \A j \in DOMAIN specs : ~(j <= 0) BY <1>1
  <2> QED BY <2>1 DEF ParserAlters, EnteredAt
<1>3. ASSUME NEW i \in Nat, i \in S PROVE i + 1 \in S
  <2> DEFINE k == i + 1
  <2> SUFFICES ASSUME k <= n PROVE EnteredAt(specs, T[k], k) OBVIOUS
  <2>1. EnteredAt(specs, T[i], i) /\ k \in DOMAIN specs /\ i = k - 1 BY <1>1, <1>3
  <2>2. k \in Nat /\ \A j \in DOMAIN specs : j \in Nat BY <1>1
  <2> HIDE DEF k
  <2> DEFINE t == T[i]
             u == T[k]
             spec == specs[k]
  <2>3. IsGiven(spec) /\ EntersTable(t, u, spec) BY <2>1 DEF AlterShape, ParserAlters
  <2>4. \A j \in DOMAIN specs : IsPositioned(specs[j]) /\ Defines(specs[k]) => j = k
    <3> SUFFICES ASSUME NEW j \in DOMAIN specs, IsPositioned(specs[j]), Defines(specs[k])
                 PROVE  j = k
      OBVIOUS
    <3>1. Defines(specs[j]) BY DEF IsPositioned, Defines
    <3> QED BY <2>1, <3>1 DEF AlterShape
  <2> HIDE DEF t, u
  <2>5. TableShape(t) BY <2>1 DEF EnteredAt, t
  <2>6. /\ TableShape(u) /\ Known(u) \subseteq Known(t) \cup NamesEntered(spec)
        /\ ~IsPositioned(spec) /\ Settled(t) => Settled(u)
        /\ IsPositioned(spec) => u.pos = spec.pos
        /\ ~Defines(spec) => u.pos = t.pos
    <3> HIDE DEF spec
    <3> QED BY <2>3, <2>5, TableEntered
  <2>7. ASSUME NEW j \in DOMAIN specs, specs[j].op = "addColumn" PROVE NewColumn(specs, j, u)
    <3>1. NewColumn(specs, j, t) BY <2>1, <2>7 DEF EnteredAt, t
    <3> QED BY <2>1, <2>6, <3>1 DEF NewColumn
  <2>8. NoneIsPositioned(specs) => Settled(u) BY <2>1, <2>6 DEF EnteredAt, t, NoneIsPositioned
  <2>9. ASSUME NEW j \in DOMAIN specs, j <= k, IsPositioned(specs[j]) PROVE u.pos = specs[j].pos
    <3>1. CASE j = k BY <2>6, <2>9, <3>1
    <3>2. CASE j # k
      <4>1. ~Defines(spec) BY <2>4, <2>9, <3>2
      <4>2. j <= i BY <2>1, <2>2, <2>9, <3>2
      <4>3. t.pos = specs[j].pos BY <2>1, <2>9, <4>2 DEF EnteredAt, t
      <4> QED BY <2>6, <4>1, <4>3
    <3> QED BY <3>1, <3>2
  <2>10. EnteredAt(specs, u, k) BY <2>6, <2>7, <2>8, <2>9 DEF EnteredAt
  <2> QED BY <2>10 DEF u
<1> HIDE DEF S
<1>4. \A k \in Nat : k \in S BY <1>2, <1>3, Entering!EveryNatural
<1> QED BY <1>1, <1>4 DEF S

\* Visited up to the kth: the columns to come are new and the position waits for its own.
VisitedAt(specs, t, k) ==
  /\ TableShape(t)
  /\ \A j \in DOMAIN specs : j > k /\ specs[j].op = "addColumn" => specs[j].col \notin Known(t)
  /\ NoneIsPositioned(specs) => Settled(t)
  /\ \A j \in DOMAIN specs : j > k /\ IsPositioned(specs[j]) => t.pos = specs[j].pos

LEMMA VisitedInOrder ==
  ASSUME NEW specs, NEW p, AlterShape(specs, p), NEW T, NEW V, ParserAlters(specs, T, V)
  PROVE  \A k \in 0 .. Len(specs) : VisitedAt(specs, V[k], k)
<1> DEFINE n == Len(specs)
           S == {k \in Nat : k <= n => VisitedAt(specs, V[k], k)}
<1>1. n \in Nat /\ DOMAIN specs = 1 .. n BY SeqIs DEF AlterShape
<1>2. 0 \in S
  <2>1. EnteredAt(specs, T[n], n) BY <1>1, EnteredInOrder
  <2>2. V[0] = T[n] BY DEF ParserAlters
  <2>3. \A j \in DOMAIN specs : j <= n BY <1>1
  <2>4. VisitedAt(specs, T[n], 0) BY <2>1, <2>3 DEF EnteredAt, VisitedAt, NewColumn
  <2> QED BY <2>2, <2>4
<1>3. ASSUME NEW i \in Nat, i \in S PROVE i + 1 \in S
  <2> DEFINE k == i + 1
  <2> SUFFICES ASSUME k <= n PROVE VisitedAt(specs, V[k], k) OBVIOUS
  <2>1. VisitedAt(specs, V[i], i) /\ k \in DOMAIN specs /\ i = k - 1 BY <1>1, <1>3
  <2>2. \A j \in DOMAIN specs : j > k => j > i /\ j # k BY <1>1
  <2> HIDE DEF k
  <2> DEFINE t == V[i]
             u == V[k]
             spec == specs[k]
  <2>3. u = VisitedTable(t, spec) BY <2>1 DEF ParserAlters
  <2> HIDE DEF t, u
  <2>4. TableShape(t) BY <2>1 DEF VisitedAt, t
  <2>5. /\ TableShape(u) /\ Known(u) \subseteq Known(t) \cup NamesVisited(spec)
        /\ Settled(t) => Settled(u)
        /\ ~Defines(spec) => u = t /\ NamesVisited(spec) = {}
    <3> HIDE DEF spec
    <3> QED BY <2>3, <2>4, TableVisited
  <2>6. ASSUME NEW j \in DOMAIN specs, j > k, specs[j].op = "addColumn"
        PROVE  specs[j].col \notin Known(u)
    <3>1. specs[j].col \notin Known(t) BY <2>1, <2>2, <2>6 DEF VisitedAt, t
    <3>2. NewColumn(specs, j, T[0]) BY <2>6 DEF ParserAlters
    <3>3. specs[j].col \notin NamesVisited(spec) BY <2>1, <2>2, <2>6, <3>2 DEF NewColumn
    <3> QED BY <2>5, <3>1, <3>3
  <2>7. NoneIsPositioned(specs) => Settled(u) BY <2>1, <2>5 DEF VisitedAt, t
  <2>8. ASSUME NEW j \in DOMAIN specs, j > k, IsPositioned(specs[j]) PROVE u.pos = specs[j].pos
    <3>1. t.pos = specs[j].pos BY <2>1, <2>2, <2>8 DEF VisitedAt, t
    <3>2. Defines(specs[j]) BY <2>8 DEF IsPositioned, Defines
    <3>3. ~Defines(spec)
      <4> SUFFICES ASSUME Defines(specs[k]) PROVE FALSE OBVIOUS
      <4>1. j = k BY <2>1, <2>8, <3>2 DEF AlterShape
      <4> QED BY <2>2, <2>8, <4>1
    <3> QED BY <2>5, <3>1, <3>3
  <2>9. VisitedAt(specs, u, k) BY <2>5, <2>6, <2>7, <2>8 DEF VisitedAt
  <2> QED BY <2>9 DEF u
<1> HIDE DEF S
<1>4. \A k \in Nat : k \in S BY <1>2, <1>3, Entering!EveryNatural
<1> QED BY <1>1, <1>4 DEF S

\* The database: a column that is modified was there before the definitions, for none is
\* defined twice.
NamesSince(specs, p, k) == UNION {NamesGiven(specs[j]) : j \in p + 1 .. k}
ExecutedAt(specs, D, p, k) ==
  /\ DbShape(D[k])
  /\ k >= p => ColumnNamesOf(D[k]) \subseteq ColumnNamesOf(D[p]) \cup NamesSince(specs, p, k)

LEMMA ExecutedInOrder ==
  ASSUME NEW specs, NEW p, AlterShape(specs, p), NEW D, DatabaseAlters(specs, D)
  PROVE  /\ \A k \in 0 .. Len(specs) : DbShape(D[k])
         /\ \A k \in DOMAIN specs : specs[k].op = "modifyColumn" => specs[k].col \in ColumnNamesOf(D[p])
<1> DEFINE n == Len(specs)
           S == {k \in Nat : k <= n => ExecutedAt(specs, D, p, k)}
<1>1. n \in Nat /\ DOMAIN specs = 1 .. n /\ p \in Nat /\ p <= n BY SeqIs DEF AlterShape
<1>2. 0 \in S
  <2>1. 0 >= p => p = 0 BY <1>1
  <2> QED BY <2>1 DEF DatabaseAlters, ExecutedAt
<1>3. ASSUME NEW i \in Nat, i \in S PROVE i + 1 \in S
  <2> DEFINE k == i + 1
  <2> SUFFICES ASSUME k <= n PROVE ExecutedAt(specs, D, p, k) OBVIOUS
  <2>1. /\ ExecutedAt(specs, D, p, i) /\ k \in DOMAIN specs /\ i = k - 1
        /\ k \in Nat /\ (k >= p => k = p \/ i >= p)
        /\ (i >= p => p + 1 .. k = (p + 1 .. i) \cup {k})
    BY <1>1, <1>3
  <2> HIDE DEF k
  <2> DEFINE d == D[i]
             e == D[k]
             spec == specs[k]
  <2>2. Legal(d, spec) /\ e = Exec(d, spec) BY <2>1 DEF DatabaseAlters
  <2>3. spec.op \in AlterOps BY <2>1 DEF AlterShape, IsGiven
  <2>4. DbShape(d) BY <2>1 DEF ExecutedAt
  <2> HIDE DEF d, e
  <2>5. DbShape(e) /\ ColumnNamesOf(e) \subseteq ColumnNamesOf(d) \cup NamesGiven(spec)
    <3> HIDE DEF spec
    <3> QED BY <2>2, <2>3, <2>4, ExecNames
  <2>6. ASSUME k >= p, k # p
        PROVE  ColumnNamesOf(e) \subseteq ColumnNamesOf(D[p]) \cup NamesSince(specs, p, k)
    <3>1. i >= p BY <2>1, <2>6
    <3>2. ColumnNamesOf(d) \subseteq ColumnNamesOf(D[p]) \cup NamesSince(specs, p, i)
      BY <2>1, <3>1 DEF ExecutedAt, d
    <3>3. NamesSince(specs, p, k) = NamesSince(specs, p, i) \cup NamesGiven(spec)
      BY <2>1, <3>1 DEF NamesSince
    <3> QED BY <2>5, <3>2, <3>3
  <2> QED BY <2>5, <2>6 DEF ExecutedAt, e
<1> HIDE DEF S
<1>4. \A k \in Nat : k \in S BY <1>2, <1>3, Entering!EveryNatural
<1>5. \A k \in 0 .. n : ExecutedAt(specs, D, p, k) BY <1>1, <1>4 DEF S
<1>6. ASSUME NEW k \in DOMAIN specs, specs[k].op = "modifyColumn"
      PROVE  specs[k].col \in ColumnNamesOf(D[p])
  <2> DEFINE i == k - 1
  <2>1. k > p /\ Defines(specs[k])
    <3>1. Defines(specs[k]) BY <1>6 DEF Defines
    <3> QED BY <1>1, <3>1 DEF AlterShape
  <2>2. i \in 0 .. n /\ i >= p BY <1>1, <2>1
  <2>3. Legal(D[i], specs[k]) BY DEF DatabaseAlters
  <2>4. specs[k].col \in ColumnNamesOf(D[i]) BY <1>6, <2>3 DEF Legal, KeyDrops
  <2>5. specs[k].col \notin NamesSince(specs, p, i)
    <3>1. ASSUME NEW j \in p + 1 .. i PROVE specs[k].col \notin NamesGiven(specs[j])
      <4>1. j \in DOMAIN specs /\ j > p /\ j # k BY <1>1, <2>2
      <4>2. Defines(specs[j]) \/ RefersTo(specs[j]) BY <4>1 DEF AlterShape
      <4>3. CASE specs[j].op = "addColumn"
        <5>1. Defines(specs[j]) /\ NamesGiven(specs[j]) = {specs[j].col}
          BY <4>3 DEF Defines, NamesGiven
        <5>2. specs[j].col # specs[k].col BY <2>1, <4>1, <5>1 DEF AlterShape
        <5> QED BY <5>1, <5>2
      <4>4. CASE specs[j].op # "addColumn"
        <5>1. NamesGiven(specs[j]) = {} BY <4>2, <4>4 DEF NamesGiven, Defines, RefersTo
        <5> QED BY <5>1
      <4> QED BY <4>3, <4>4
    <3> QED BY <3>1 DEF NamesSince
  <2>6. ColumnNamesOf(D[i]) \subseteq ColumnNamesOf(D[p]) \cup NamesSince(specs, p, i)
    <3> HIDE DEF i
    <3> QED BY <1>5, <2>2 DEF ExecutedAt
  <2> QED BY <2>4, <2>5, <2>6
<1> QED BY <1>5, <1>6 DEF ExecutedAt


\* The columns that are halfway once the first k specifications have been entered, and those
\* that are when as many have been visited.
HalfwayTo(specs, p, k)   == UNION {Halfway(specs[j]) : j \in p + 1 .. k}
HalfwayFrom(specs, p, k) ==
  UNION {Halfway(specs[j]) : j \in {i \in DOMAIN specs : i > p /\ i > k}}
AgreesEntered(specs, p, t, D, k) ==
  /\ k <= p => Agrees(t, D[k], {})
  /\ k >= p => Agrees(t, D[p], HalfwayTo(specs, p, k))
  /\ HoldsKeys(t, D[k])

\* Before the definitions, the table takes the database's steps.
LEMMA StatementFollows ==
  ASSUME NEW t, TableShape(t), NEW d, Agrees(t, d, {}), HoldsKeys(t, d), DbShape(d),
         NEW spec, IsGiven(spec), ~Defines(spec), Legal(d, spec),
         spec.op \in {"dropColumn", "renameColumn"} => ~IsMentioned(d, spec.col),
         NEW u, EntersTable(t, u, spec), NEW e, e = Exec(d, spec)
  PROVE  Agrees(u, e, {}) /\ HoldsKeys(u, e)
<1>1. u = EnteredTable(t, spec) BY DEF EntersTable, Defines
<1>2. CASE spec.op = "dropColumn" BY <1>1, <1>2, ColumnLeaves
<1>3. CASE spec.op = "renameColumn" BY <1>1, <1>3, ColumnGoesBy
<1>4. CASE spec.op = "renameIndex" BY <1>1, <1>4, IndexGoesBy
<1>5. CASE spec.op = "addForeignKey"
  <2> DEFINE none == {}
  <2>1. RefersTo(spec) BY <1>5 DEF RefersTo
  <2>2. d \in [cols : {d.cols}, idxs : {d.idxs}, fks : {d.fks}] BY DEF DbShape
  <2>3. Agrees(t, d, none) OBVIOUS
  <2> HIDE DEF none
  <2>4. Agrees(u, d, none) /\ HoldsKeys(u, e) /\ SameColumnsOf(e, d)
    BY <1>1, <2>1, <2>2, <2>3, KeyComes
  <2>5. Agrees(u, e, none)
    <3>1. u.cols = u.cols OBVIOUS
    <3> QED BY <2>4, <3>1, ColumnsStay
  <2> QED BY <2>4, <2>5 DEF none
<1> QED BY <1>2, <1>3, <1>4, <1>5 DEF IsGiven, AlterOps, Defines

LEMMA EnteredAgrees ==
  ASSUME NEW specs, NEW p, AlterShape(specs, p), NEW T, NEW V, ParserAlters(specs, T, V),
         NEW D, DatabaseAlters(specs, D), Agrees(T[0], D[0], {}), HoldsKeys(T[0], D[0])
  PROVE  \A k \in 0 .. Len(specs) : AgreesEntered(specs, p, T[k], D, k)
<1> DEFINE n == Len(specs)
           S == {k \in Nat : k <= n => AgreesEntered(specs, p, T[k], D, k)}
<1>1. n \in Nat /\ DOMAIN specs = 1 .. n /\ p \in Nat /\ p <= n BY SeqIs DEF AlterShape
<1>2. 0 \in S
  <2>1. 0 >= p => p = 0 BY <1>1
  <2>2. p = 0 => HalfwayTo(specs, p, 0) = {} BY DEF HalfwayTo
  <2> QED BY <2>1, <2>2 DEF AgreesEntered
<1>3. ASSUME NEW i \in Nat, i \in S PROVE i + 1 \in S
  <2> DEFINE k == i + 1
  <2> SUFFICES ASSUME k <= n PROVE AgreesEntered(specs, p, T[k], D, k) OBVIOUS
  <2>1. /\ AgreesEntered(specs, p, T[i], D, i) /\ k \in DOMAIN specs /\ i = k - 1
        /\ k \in Nat /\ (k <= p => i <= p) /\ (k > p => i >= p) /\ (k <= p \/ k > p)
        /\ (k > p => p + 1 .. k = (p + 1 .. i) \cup {k}) /\ ~(k > p /\ k <= p)
        /\ (k <= p /\ k >= p => p + 1 .. k = {} /\ k = p) /\ i \in 0 .. n /\ p \in 0 .. n
    BY <1>1, <1>3
  <2> HIDE DEF k
  <2> DEFINE t == T[i]
             u == T[k]
             spec == specs[k]
             d == D[i]
             e == D[k]
             c == D[p]
             M == HalfwayTo(specs, p, i)
  <2>2. IsGiven(spec) /\ EntersTable(t, u, spec) BY <2>1 DEF AlterShape, ParserAlters
  <2>3. /\ Legal(d, spec) /\ e = Exec(d, spec)
        /\ spec.op \in {"dropColumn", "renameColumn"} => ~IsMentioned(d, spec.col)
    BY <2>1 DEF DatabaseAlters
  <2>4. TableShape(t) /\ (NoneIsPositioned(specs) => Settled(t))
    BY <2>1, EnteredInOrder DEF EnteredAt
  <2>5. DbShape(d) BY <2>1, ExecutedInOrder
  <2>6. HoldsKeys(t, d) BY <2>1 DEF AgreesEntered
  <2> HIDE DEF t, u, d, e, c, M
  <2>7. d \in [cols : {d.cols}, idxs : {d.idxs}, fks : {d.fks}] BY <2>5 DEF DbShape
  <2>8. CASE k <= p
    <3>1. Agrees(t, d, {}) BY <2>1, <2>8 DEF AgreesEntered, t, d
    <3>2. ~Defines(spec) BY <2>1, <2>8 DEF AlterShape
    <3> HIDE DEF spec
    <3>3. Agrees(u, e, {}) /\ HoldsKeys(u, e)
      BY <2>2, <2>3, <2>4, <2>5, <2>6, <3>1, <3>2, StatementFollows
    <3>4. k >= p => HalfwayTo(specs, p, k) = {} /\ e = c
      BY <2>1, <2>8 DEF HalfwayTo, e, c
    <3> QED BY <2>1, <3>3, <3>4 DEF AgreesEntered, u, e, c
  <2>9. CASE k > p
    <3>1. Agrees(t, c, M) BY <2>1, <2>9 DEF AgreesEntered, t, c, M
    <3>2. HalfwayTo(specs, p, k) = M \cup Halfway(spec) BY <2>1, <2>9 DEF HalfwayTo, M
    <3>3. Agrees(u, c, M \cup Halfway(spec)) /\ HoldsKeys(u, e)
      <4>1. CASE Defines(spec)
        <5>1. spec.op = "modifyColumn" => spec.col \in ColumnNamesOf(c) /\ Settled(t)
          <6> SUFFICES ASSUME spec.op = "modifyColumn"
                       PROVE  spec.col \in ColumnNamesOf(c) /\ Settled(t)
            OBVIOUS
          <6>1. spec.col \in ColumnNamesOf(c) BY <2>1, ExecutedInOrder DEF c
          <6>2. NoneIsPositioned(specs)
            <7> SUFFICES ASSUME NEW j \in DOMAIN specs, IsPositioned(specs[j]) PROVE FALSE
              BY DEF NoneIsPositioned
            <7>1. Defines(specs[j]) BY DEF IsPositioned, Defines
            <7>2. j = k BY <2>1, <4>1, <7>1 DEF AlterShape
            <7> QED BY <7>2 DEF IsPositioned
          <6> QED BY <2>4, <6>1, <6>2
        <5>2. u = EnteredTable(t, spec) \/ (spec.op = "addColumn" /\ u = t)
          BY <2>2 DEF EntersTable
        <5> HIDE DEF spec
        <5> QED BY <2>2, <2>3, <2>4, <2>6, <2>7, <3>1, <4>1, <5>1, <5>2, DefinitionEntered
      <4>2. CASE RefersTo(spec)
        <5>1. u = EnteredTable(t, spec) /\ Halfway(spec) = {}
          BY <2>2, <4>2 DEF EntersTable, RefersTo, Halfway
        <5>2. M \cup Halfway(spec) = M BY <5>1
        <5> HIDE DEF spec
        <5>3. Agrees(u, c, M) /\ HoldsKeys(u, e)
          BY <2>2, <2>3, <2>4, <2>6, <2>7, <3>1, <4>2, <5>1, KeyComes
        <5> QED BY <5>2, <5>3
      <4> QED BY <2>1, <2>9, <4>1, <4>2 DEF AlterShape
    <3> QED BY <2>1, <2>9, <3>2, <3>3 DEF AgreesEntered, u, e, c
  <2> QED BY <2>1, <2>8, <2>9
<1> HIDE DEF S
<1>4. \A k \in Nat : k \in S BY <1>2, <1>3, Entering!EveryNatural
<1> QED BY <1>1, <1>4 DEF S


\* Visited, the definitions take the steps that the database took.
AgreesVisited(specs, p, v, D, k) ==
  /\ k <= p => Agrees(v, D[p], HalfwayFrom(specs, p, k))
  /\ k >= p => Agrees(v, D[k], HalfwayFrom(specs, p, k))
SameKeys(t, u) == u.idxs = t.idxs /\ u.fks = t.fks

LEMMA VisitedAgrees ==
  ASSUME NEW specs, NEW p, AlterShape(specs, p), NEW T, NEW V, ParserAlters(specs, T, V),
         NEW D, DatabaseAlters(specs, D),
         Agrees(V[0], D[p], HalfwayFrom(specs, p, 0))
  PROVE  \A k \in 0 .. Len(specs) : AgreesVisited(specs, p, V[k], D, k) /\ SameKeys(V[0], V[k])
<1> DEFINE n == Len(specs)
           S == {k \in Nat : k <= n => AgreesVisited(specs, p, V[k], D, k) /\ SameKeys(V[0], V[k])}
<1>1. n \in Nat /\ DOMAIN specs = 1 .. n /\ p \in Nat /\ p <= n BY SeqIs DEF AlterShape
<1>2. 0 \in S
  <2>1. 0 >= p => p = 0 BY <1>1
  <2> QED BY <2>1 DEF AgreesVisited, SameKeys
<1>3. ASSUME NEW i \in Nat, i \in S PROVE i + 1 \in S
  <2> DEFINE k == i + 1
  <2> SUFFICES ASSUME k <= n
               PROVE  AgreesVisited(specs, p, V[k], D, k) /\ SameKeys(V[0], V[k])
    OBVIOUS
  <2>1. /\ AgreesVisited(specs, p, V[i], D, i) /\ SameKeys(V[0], V[i])
        /\ k \in DOMAIN specs /\ i = k - 1
        /\ k \in Nat /\ (k <= p => i <= p) /\ (k > p => i >= p) /\ (k <= p \/ k > p)
        /\ ~(k > p /\ k <= p) /\ (k >= p /\ k <= p => k = p) /\ i \in 0 .. n
    BY <1>1, <1>3
  <2>2. {j \in DOMAIN specs : j > p /\ j > i}
           = {j \in DOMAIN specs : j > p /\ j > k} \cup (IF k > p THEN {k} ELSE {})
    BY <1>1
  <2>3. \A j \in DOMAIN specs : j > k => j # k BY <1>1
  <2> HIDE DEF k
  <2> DEFINE t == V[i]
             u == V[k]
             spec == specs[k]
             d == D[i]
             e == D[k]
             M == HalfwayFrom(specs, p, i)
             N == HalfwayFrom(specs, p, k)
  <2>4. IsGiven(spec) /\ u = VisitedTable(t, spec) BY <2>1 DEF AlterShape, ParserAlters
  <2>5. Legal(d, spec) /\ e = Exec(d, spec) /\ (spec.op = "modifyColumn" => RepeatsOptions(d, spec))
    BY <2>1 DEF DatabaseAlters
  <2>6. VisitedAt(specs, t, i) BY <2>1, VisitedInOrder
  <2>7. SameKeys(V[0], t) BY <2>1
  <2>8. M = N \cup (IF k > p THEN Halfway(spec) ELSE {}) BY <2>2 DEF HalfwayFrom, M, N
  <2>9. DbShape(d) BY <2>1, ExecutedInOrder
  <2>10. TableShape(t) BY <2>6 DEF VisitedAt
  <2>11. ~Defines(spec) => u = t /\ Halfway(spec) = {}
    BY <2>4 DEF VisitedTable, Halfway, Defines
  <2>12. Agrees(t, D[p], M) \/ k > p BY <2>1 DEF AgreesVisited, t, M
  <2>13. k > p => Agrees(t, d, M) BY <2>1 DEF AgreesVisited, t, M, d
  <2> HIDE DEF t, u, d, e, M, N
  <2>14. CASE k <= p
    <3>1. ~Defines(spec) BY <2>1, <2>14 DEF AlterShape
    <3>2. u = t /\ M = N BY <2>1, <2>8, <2>11, <2>14, <3>1
    <3>3. Agrees(u, D[p], N) BY <2>1, <2>12, <2>14, <3>2
    <3> QED BY <2>1, <2>7, <2>14, <3>2, <3>3 DEF AgreesVisited, u, N
  <2>15. CASE k > p
    <3>1. Agrees(t, d, M) BY <2>13, <2>15
    <3>2. Agrees(u, e, N) /\ SameKeys(t, u)
      <4>1. CASE Defines(spec)
        <5>1. N = M \ {spec.col}
          <6>1. spec.col \notin N
            <7> SUFFICES ASSUME NEW j \in DOMAIN specs, j > k, spec.col \in Halfway(specs[j])
                         PROVE  FALSE
              BY DEF N, HalfwayFrom
            <7>1. Defines(specs[j]) /\ specs[j].col = spec.col BY DEF Halfway, Defines
            <7>2. j = k BY <2>1, <4>1, <7>1 DEF AlterShape
            <7> QED BY <2>3, <7>2
          <6>2. Halfway(spec) \subseteq {spec.col} BY DEF Halfway
          <6> QED BY <2>8, <2>15, <6>1, <6>2
        <5>2. spec.op = "addColumn" => /\ spec.col \notin Known(t) /\ spec.col \notin M
                                       /\ OneTable!SamePlace(t.pos, spec.pos)
          <6> SUFFICES ASSUME spec.op = "addColumn"
                       PROVE  /\ spec.col \notin Known(t) /\ spec.col \notin M
                              /\ OneTable!SamePlace(t.pos, spec.pos)
            OBVIOUS
          <6>1. k > i BY <2>1
          <6>2. spec.col \notin Known(t) BY <2>1, <2>6, <6>1 DEF VisitedAt
          <6>3. spec.col \notin M
            <7>1. Halfway(spec) = {} BY DEF Halfway
            <7> QED BY <2>8, <5>1, <7>1
          <6>4. OneTable!SamePlace(t.pos, spec.pos)
            <7>1. CASE IsPositioned(spec)
              <8>1. t.pos = spec.pos BY <2>1, <2>6, <6>1, <7>1 DEF VisitedAt
              <8> QED BY <8>1 DEF OneTable!SamePlace
            <7>2. CASE ~IsPositioned(spec)
              <8>1. NoneIsPositioned(specs)
                <9> SUFFICES ASSUME NEW j \in DOMAIN specs, IsPositioned(specs[j]) PROVE FALSE
                  BY DEF NoneIsPositioned
                <9>1. Defines(specs[j]) BY DEF IsPositioned, Defines
                <9>2. j = k BY <2>1, <4>1, <9>1 DEF AlterShape
                <9> QED BY <7>2, <9>2
              <8>2. Settled(t) BY <2>6, <8>1 DEF VisitedAt
              <8>3. spec.pos.tp \in {"nil", "none"}
                BY <2>4, <7>2 DEF IsGiven, IsSpec, NoPosition, PositionNone, First, After, IsPositioned
              <8> QED BY <8>2, <8>3 DEF Settled, OneTable!SamePlace
            <7> QED BY <7>1, <7>2
          <6> QED BY <6>2, <6>3, <6>4
        <5>3. spec.op = "modifyColumn" => Settled(t) /\ RepeatsOptions(d, spec)
          <6> SUFFICES ASSUME spec.op = "modifyColumn" PROVE Settled(t) BY <2>5
          <6>1. NoneIsPositioned(specs)
            <7> SUFFICES ASSUME NEW j \in DOMAIN specs, IsPositioned(specs[j]) PROVE FALSE
              BY DEF NoneIsPositioned
            <7>1. Defines(specs[j]) BY DEF IsPositioned, Defines
            <7>2. j = k BY <2>1, <4>1, <7>1 DEF AlterShape
            <7> QED BY <7>2 DEF IsPositioned
          <6> QED BY <2>6, <6>1 DEF VisitedAt
        <5>4. Agrees(u, e, M \ {spec.col}) /\ u.idxs = t.idxs /\ u.fks = t.fks
          <6> HIDE DEF spec
          <6> QED BY <2>4, <2>5, <2>10, <3>1, <4>1, <5>2, <5>3, DefinitionVisited
        <5> QED BY <5>1, <5>4 DEF SameKeys
      <4>2. CASE RefersTo(spec)
        <5>1. ~Defines(spec) BY <4>2 DEF RefersTo, Defines
        <5>2. u = t /\ M = N BY <2>8, <2>11, <5>1
        <5>3. SameColumnsOf(e, d)
          BY <2>5, <2>9, <4>2 DEF RefersTo, Exec, SameColumnsOf, DbShape
        <5>4. u.cols = t.cols BY <5>2
        <5>5. Agrees(u, e, M) BY <3>1, <5>3, <5>4, ColumnsStay
        <5> QED BY <5>2, <5>5 DEF SameKeys
      <4> QED BY <2>1, <2>15, <4>1, <4>2 DEF AlterShape
    <3>3. SameKeys(V[0], u) BY <2>7, <3>2 DEF SameKeys
    <3> QED BY <2>1, <2>15, <3>2, <3>3 DEF AgreesVisited, u, e, N
  <2> QED BY <2>1, <2>14, <2>15
<1> HIDE DEF S
<1>4. \A k \in Nat : k \in S BY <1>2, <1>3, Entering!EveryNatural
<1> QED BY <1>1, <1>4 DEF S

\* So the table has come to where the database is.
LEMMA AlterFollows ==
  ASSUME NEW specs, NEW p, AlterShape(specs, p), NEW T, NEW V, ParserAlters(specs, T, V),
         NEW D, DatabaseAlters(specs, D), Agrees(T[0], D[0], {}), HoldsKeys(T[0], D[0])
  PROVE  Agrees(V[Len(specs)], D[Len(specs)], {}) /\ HoldsKeys(V[Len(specs)], D[Len(specs)])
<1> DEFINE n == Len(specs)
<1>1. n \in Nat /\ DOMAIN specs = 1 .. n /\ p \in Nat /\ p <= n BY SeqIs DEF AlterShape
<1>2. AgreesEntered(specs, p, T[n], D, n) BY <1>1, EnteredAgrees
<1>3. V[0] = T[n] BY DEF ParserAlters
<1>4. HalfwayTo(specs, p, n) = HalfwayFrom(specs, p, 0)
  <2>1. p + 1 .. n = {j \in DOMAIN specs : j > p /\ j > 0} BY <1>1
  <2> QED BY <2>1 DEF HalfwayTo, HalfwayFrom
<1>5. Agrees(V[0], D[p], HalfwayFrom(specs, p, 0)) BY <1>1, <1>2, <1>3, <1>4 DEF AgreesEntered
<1>6. AgreesVisited(specs, p, V[n], D, n) /\ SameKeys(V[0], V[n]) BY <1>1, <1>5, VisitedAgrees
<1>7. HalfwayFrom(specs, p, n) = {}
  <2>1. {j \in DOMAIN specs : j > p /\ j > n} = {} BY <1>1
  <2> QED BY <2>1 DEF HalfwayFrom
<1>8. Agrees(V[n], D[n], {}) BY <1>1, <1>6, <1>7 DEF AgreesVisited
<1>9. HoldsKeys(V[0], D[n]) BY <1>2, <1>3 DEF AgreesEntered
<1> DEFINE d == D[n]
           t == V[0]
           u == V[n]
<1>10. u.idxs = t.idxs /\ u.fks = t.fks /\ d.idxs = d.idxs /\ d.fks = d.fks BY <1>6 DEF SameKeys
<1>11. OneTable!KeysFollow(t, d) BY <1>9 DEF HoldsKeys
<1> HIDE DEF t, u, d
<1>12. OneTable!KeysFollow(u, d)
  BY <1>10, <1>11, Fits, SpareCapacityAssumption, OneTable!KeysUnchanged
<1> QED BY <1>8, <1>12 DEF HoldsKeys, u, d


----------------------------------------------------------------------------
(* The table of an ALTER TABLE in the schema.                                 *)
LEMMA TableSet ==
  ASSUME NEW m, SchemaShape(m), NEW n \in KnownTables(m), NEW t
  PROVE  TableOf(SetTable(m, n, t), n) = t
<1>1. /\ IdOf(m.tables, n) = m.tables.id[n] /\ m.tables.id[n] \in DOMAIN m.tables.items
      /\ m \in [tables : {m.tables}, current : {m.current}]
      /\ m.tables \in [items : {m.tables.items}, id : {m.tables.id}]
  BY KnownTable DEF SchemaShape
<1>2. /\ SetTable(m, n, t).tables.items = [m.tables.items EXCEPT ![m.tables.id[n]] = t]
      /\ SetTable(m, n, t).tables.id = m.tables.id
  BY <1>1 DEF SetTable, SetItem
<1>3. IdOf(SetTable(m, n, t).tables, n) = m.tables.id[n] BY <1>1, <1>2 DEF IdOf
<1> QED BY <1>1, <1>2, <1>3 DEF TableOf

LEMMA EnterSpecTable ==
  ASSUME NEW m, SchemaShape(m), NEW tb \in KnownTables(m), tb # Nil, m.current \in KnownTables(m),
         NEW spec, IsGiven(spec), IsPositioned(spec) \/ RefersTo(spec) => m.current = tb
  PROVE  EntersTable(TableOf(m, tb), TableOf(EnterSpec(m, tb, spec), tb), spec)
<1> DEFINE r == EnterSpec(m, tb, spec)
           t == TableOf(m, tb)
<1>1. spec.op \in AlterOps BY DEF IsGiven
<1>2. IsKnown(m, tb) /\ Ensured(m, tb) = m /\ Named(m, tb) = tb BY KnownTable, EnsuredKnown DEF Named
<1>3. CASE spec.op = "addColumn"
  <2>1. CASE m.current = tb
    <3>1. Named(m, Nil) = tb BY <2>1 DEF Named
    <3>2. CASE spec.pos = NoPosition
      BY <1>3, <3>2 DEF EnterSpec, EntersTable, EnteredTable
    <3>3. CASE spec.pos # NoPosition
      <4> DEFINE u == [t EXCEPT !.pos = spec.pos]
      <4>1. r = SetTable(m, tb, u)
        BY <1>2, <1>3, <3>1, <3>3 DEF EnterSpec, SetColumnPosition
      <4>2. u = EnteredTable(t, spec) BY <1>3, <3>3 DEF EnteredTable
      <4> HIDE DEF u
      <4>3. TableOf(SetTable(m, tb, u), tb) = u BY TableSet
      <4> QED BY <4>1, <4>2, <4>3 DEF EntersTable
    <3> QED BY <3>2, <3>3
  <2>2. CASE m.current # tb
    <3> DEFINE c == m.current
               N == NamesEntered(spec)
               P == PositionsEntered(spec)
    <3>1. Touches(m, r, c, N, P)
      <4>1. EnteredAs(m, r, tb, spec) BY <1>1, EnterSpecTouches
      <4> QED BY <1>3, <4>1 DEF EnteredAs, Entered
    <3>2. c \in KnownTables(m) /\ tb # c BY <2>2
    <3>3. ~IsPositioned(spec) BY <2>2
    <3> HIDE DEF r, c, N, P
    <3>4. TableOf(r, tb) = TableOf(m, tb) BY <3>1, <3>2, TouchesOne
    <3> QED BY <1>3, <3>3, <3>4 DEF EntersTable, r
  <2> QED BY <2>1, <2>2
<1>4. CASE spec.op # "addColumn"
  <2> DEFINE u == EnteredTable(t, spec)
  <2> SUFFICES r = SetTable(m, tb, u)
    <3> HIDE DEF u
    <3>1. TableOf(SetTable(m, tb, u), tb) = u BY TableSet
    <3> QED BY <3>1 DEF EntersTable, u
  <2>1. CASE spec.op = "addForeignKey"
    <3>1. m.current = tb BY <2>1 DEF RefersTo
    <3>2. Named(m, Nil) = tb BY <3>1 DEF Named
    <3> QED BY <1>2, <2>1, <3>2 DEF EnterSpec, SchemaAddForeignKey, EnteredTable
  <2>2. CASE spec.op = "dropColumn"
    BY <1>2, <2>2 DEF EnterSpec, SchemaRemoveColumn, EnteredTable
  <2>4. CASE spec.op = "modifyColumn"
    <3> DEFINE col == Column(spec.col, "modify", [type |-> spec.type, opts |-> <<>>])
    <3>1. r = SchemaAddColumn(m, tb, col) /\ u = AddColumn(t, col)
      BY <2>4 DEF EnterSpec, EnteredTable
    <3> HIDE DEF col, r, u
    <3> QED BY <1>2, <3>1 DEF SchemaAddColumn
  <2>5. CASE spec.op = "renameColumn"
    BY <1>2, <2>5 DEF EnterSpec, SchemaRenameColumn, EnteredTable
  <2>6. CASE spec.op = "renameIndex"
    BY <1>2, <2>6 DEF EnterSpec, SchemaRenameIndex, EnteredTable
  <2> QED BY <1>1, <1>4, <2>1, <2>2, <2>4, <2>5, <2>6 DEF AlterOps, KeyDrops, IsGiven
<1> QED BY <1>3, <1>4

LEMMA VisitSpecTable ==
  ASSUME NEW m, SchemaShape(m), NEW tb \in KnownTables(m), NEW spec, spec.op \in AlterOps,
         Defines(spec) => m.current = tb
  PROVE  TableOf(VisitSpec(m, spec), tb) = VisitedTable(TableOf(m, tb), spec)
<1> DEFINE t == TableOf(m, tb)
<1>1. CASE Defines(spec)
  <2> DEFINE col == Column(spec.col, "add", [type |-> spec.type, opts |-> spec.opts])
             u == AddColumn(t, col)
  <2>1. VisitSpec(m, spec) = SchemaAddColumn(m, Nil, col) /\ VisitedTable(t, spec) = u
    BY <1>1 DEF VisitSpec, VisitedTable, Defines
  <2>2. Named(m, Nil) = tb /\ Ensured(m, tb) = m BY <1>1, EnsuredKnown DEF Named
  <2> HIDE DEF col
  <2>3. SchemaAddColumn(m, Nil, col) = SetTable(m, tb, u) BY <2>2 DEF SchemaAddColumn
  <2> HIDE DEF u
  <2>4. TableOf(SetTable(m, tb, u), tb) = u BY TableSet
  <2> QED BY <2>1, <2>3, <2>4
<1>2. CASE ~Defines(spec)
  <2>1. VisitedTable(t, spec) = t BY <1>2 DEF VisitedTable
  <2>2. VisitSpec(m, spec) = m \/ VisitSpec(m, spec) = Using(m, spec.ref)
    BY <1>2 DEF VisitSpec, Defines, AlterOps, KeyDrops
  <2>3. TableOf(Using(m, spec.ref), tb) = t BY DEF TableOf, Using, SchemaShape
  <2> QED BY <2>1, <2>2, <2>3
<1> QED BY <1>1, <1>2


\* Where the definitions of an ALTER TABLE begin.
LEMMA AlterSplits ==
  ASSUME NoKeyIsDropped, NEW tb, NEW specs \in Alters, StaysInTable(tb, specs), DefinedOnce(specs)
  PROVE  \E p : AlterShape(specs, p)
<1> DEFINE n == Len(specs)
           S == {k \in DOMAIN specs : Defines(specs[k])}
<1>1. IsSeq(specs) /\ n \in Nat /\ DOMAIN specs = 1 .. n
  <2>1. IsSeq(specs) BY MigrationAssumption
  <2> QED BY <2>1, SeqIs
<1>2. \A k \in DOMAIN specs : IsGiven(specs[k]) BY AltersGive
<1>3. ASSUME NEW j \in DOMAIN specs, NEW k \in DOMAIN specs, Defines(specs[j]), Defines(specs[k]),
             specs[j].col = specs[k].col \/ IsPositioned(specs[j])
      PROVE  j = k
  <2>1. CASE specs[j].col = specs[k].col BY <1>3, <2>1 DEF DefinedOnce
  <2>2. CASE IsPositioned(specs[j])
    <3>1. k = j BY <1>1, <1>3, <2>2, OnlyDefinition
    <3> QED BY <3>1
  <2> QED BY <1>3, <2>1, <2>2
<1>4. CASE S = {}
  <2>1. AlterShape(specs, n) BY <1>1, <1>2, <1>3, <1>4 DEF AlterShape
  <2> QED BY <2>1
<1>5. CASE S # {}
  <2>1. S \in SUBSET Nat BY <1>1
  <2> HIDE DEF S
  <2>2. PICK i \in S : \A j \in S : i <= j BY <1>5, <2>1, Entering!SmallestOf
  <2>3. i \in DOMAIN specs /\ Defines(specs[i]) BY <2>2 DEF S
  <2> DEFINE p == i - 1
  <2>4. p \in 0 .. n BY <1>1, <2>3
  <2>5. ASSUME NEW k \in DOMAIN specs, k <= p PROVE ~Defines(specs[k])
    <3>1. ~(i <= k) BY <1>1, <2>3, <2>5
    <3> QED BY <2>2, <3>1 DEF S
  <2>6. ASSUME NEW k \in DOMAIN specs, k > p PROVE Defines(specs[k]) \/ RefersTo(specs[k])
    <3>1. k = i \/ k \in i + 1 .. n BY <1>1, <2>3, <2>6
    <3>2. \A j \in i + 1 .. Len(specs) : Defines(specs[j]) \/ RefersTo(specs[j])
      BY <2>3 DEF StaysInTable
    <3> QED BY <2>3, <3>1, <3>2
  <2> HIDE DEF p
  <2>7. AlterShape(specs, p) BY <1>1, <1>2, <1>3, <2>4, <2>5, <2>6 DEF AlterShape
  <2> QED BY <2>7
<1> QED BY <1>4, <1>5

LEMMA AlterTableDb ==
  ASSUME PositionInv, NEW tb \in TableNames, NEW specs \in Alters, AlterTable(tb, specs),
         NEW D, D = [k \in 0 .. Len(specs) |-> ExecutedTo(db[tb], specs, k)]
  PROVE  DatabaseAlters(specs, D) /\ D[0] = db[tb] /\ D[Len(specs)] = db'[tb]
<1> DEFINE d == db[tb]
           n == Len(specs)
<1>1. /\ tb \in DOMAIN db /\ LegalAlter(tb, specs) /\ KeepsMentioned(tb, specs)
      /\ KeepsOptions(tb, specs) /\ db'[tb] = FoldLeft(Exec, d, specs)
  BY DEF AlterTable
<1>2. IsSeq(specs) BY MigrationAssumption
<1>3. n \in Nat /\ DOMAIN specs = 1 .. n BY <1>2, SeqIs
<1>4. Follows(TableOf(schema, tb), d, used[tb]) BY <1>1 DEF PositionInv, Quiet
<1>5. ASSUME NEW k \in DOMAIN specs
      PROVE  /\ Legal(ExecutedTo(d, specs, k - 1), specs[k])
             /\ specs[k].op \in {"dropColumn", "renameColumn"} =>
                  ~IsMentioned(ExecutedTo(d, specs, k - 1), specs[k].col)
             /\ specs[k].op = "modifyColumn" =>
                  RepeatsOptions(ExecutedTo(d, specs, k - 1), specs[k])
  BY <1>1 DEF LegalAlter, KeepsMentioned, KeepsOptions, ExecutedTo, RepeatsOptions
<1> HIDE DEF d
<1>6. ExecutesInSteps(d, specs) BY <1>2, ExecutedSteps
<1>7. \A k \in 0 .. n : D[k] = ExecutedTo(d, specs, k) BY DEF d
<1>8. ASSUME NEW k \in DOMAIN specs
      PROVE  /\ D[k - 1] = ExecutedTo(d, specs, k - 1) /\ D[k] = Exec(D[k - 1], specs[k])
  <2>1. k \in 0 .. n /\ k - 1 \in 0 .. n /\ k \in 1 .. n BY <1>3
  <2>2. ExecutedTo(d, specs, k) = Exec(ExecutedTo(d, specs, k - 1), specs[k])
    BY <1>6, <2>1 DEF ExecutesInSteps
  <2> QED BY <1>7, <2>1, <2>2
<1>9. D[0] = d /\ D[n] = FoldLeft(Exec, d, specs) BY <1>3, <1>6, <1>7 DEF ExecutesInSteps
<1>10. DatabaseAlters(specs, D) BY <1>4, <1>5, <1>8, <1>9 DEF DatabaseAlters, Follows
<1> QED BY <1>1, <1>9, <1>10 DEF d

LEMMA AlterTableParser ==
  ASSUME SchemaInv, PositionInv, ~Strays, NoKeyIsDropped, NEW tb \in TableNames,
         NEW specs \in Alters,
         AlterTable(tb, specs),
         NEW T, T = [k \in 0 .. Len(specs) |-> TableOf(SchemaEntered(tb, specs, k), tb)],
         NEW V, V = [k \in 0 .. Len(specs) |-> TableOf(SchemaVisited(tb, specs, k), tb)]
  PROVE  /\ ParserAlters(specs, T, V)
         /\ T[0] = TableOf(schema, tb) /\ V[Len(specs)] = TableOf(schema', tb)
<1> DEFINE N == used[tb] \cup NewNames(specs)
           n == Len(specs)
           E(k) == SchemaEntered(tb, specs, k)
           W(k) == SchemaVisited(tb, specs, k)
<1>1. AlterPremise(tb, specs, N) BY AlterPremiseHolds
<1> HIDE DEF N
<1>2. ReadsInOrder(tb, specs, N) BY <1>1, AlterReadsInOrder
<1>3. IsSeq(specs) /\ n \in Nat /\ DOMAIN specs = 1 .. n /\ AreAlters(specs)
  <2>1. IsSeq(specs) /\ AreAlters(specs) BY MigrationAssumption DEF AreAlters
  <2> QED BY <2>1, SeqIs
<1>4. /\ SchemaShape(schema) /\ tb \in KnownTables(schema) /\ tb # Nil
      /\ schema.current \in KnownTables(schema) /\ TableShape(TableOf(schema, tb))
      /\ Settled(TableOf(schema, tb)) /\ StaysInTable(tb, specs)
  BY <1>1, KnownTable DEF AlterPremise
<1>5. /\ tb \in DOMAIN db /\ LegalAlter(tb, specs) /\ NamesAreNew(tb, specs)
      /\ schema' = ReadAlter(schema, tb, specs)
  BY DEF AlterTable
<1>6. T[0] = TableOf(schema, tb) /\ V[n] = TableOf(schema', tb)
  BY <1>2, <1>3, <1>5 DEF ReadsInOrder
<1>7. V[0] = T[n]
  <2> DEFINE q == E(n)
  <2>1. W(0) = Using(q, tb) BY <1>2 DEF ReadsInOrder
  <2>2. AfterEntering(q, tb, specs, N) BY <1>2, <1>3 DEF ReadsInOrder
  <2> HIDE DEF q
  <2>3. TableOf(Using(q, tb), tb) = TableOf(q, tb) BY DEF TableOf, Using
  <2> QED BY <1>3, <2>1, <2>3 DEF q
<1>8. ASSUME NEW k \in DOMAIN specs
      PROVE  EntersTable(T[k - 1], T[k], specs[k]) /\ V[k] = VisitedTable(V[k - 1], specs[k])
  <2> DEFINE i == k - 1
             q == E(i)
             w == W(i)
             spec == specs[k]
  <2>1. i \in 0 .. n /\ k \in 0 .. n /\ k \in 1 .. n /\ k = i + 1 BY <1>3
  <2>2. E(k) = EnterSpec(q, tb, spec) /\ W(k) = VisitSpec(w, spec)
    BY <2>1, <1>2 DEF ReadsInOrder
  <2>3. AfterEntering(q, tb, specs, N) /\ AfterVisiting(w, tb, specs, N, i)
    BY <2>1, <1>2 DEF ReadsInOrder
  <2>4. T[i] = TableOf(q, tb) /\ V[i] = TableOf(w, tb) BY <2>1
  <2>5. T[k] = TableOf(E(k), tb) /\ V[k] = TableOf(W(k), tb) BY <2>1
  <2>6. IsGiven(spec) BY AltersGive
  <2>7. IsPositioned(spec) \/ RefersTo(spec) => schema.current = tb BY <1>4 DEF StaysInTable
  <2>8. Defines(spec) => w.current = tb
    <3> SUFFICES ASSUME Defines(spec) PROVE \A j \in 1 .. i : ~RefersTo(specs[j])
      BY <2>3 DEF AfterVisiting
    <3>1. ASSUME NEW j \in 1 .. i, RefersTo(specs[j]) PROVE FALSE
      <4>1. j \in DOMAIN specs /\ ~(k < j) BY <1>3, <2>1
      <4>2. k \in {e \in DOMAIN specs : Defines(specs[e])} OBVIOUS
      <4>3. \A e \in {e \in DOMAIN specs : Defines(specs[e])} : e < j
        BY <1>4, <3>1, <4>1 DEF StaysInTable
      <4> QED BY <4>1, <4>2, <4>3
    <3> QED BY <3>1
  <2> HIDE DEF i, q, w, spec, E, W
  <2>9. SchemaShape(q) /\ KnownTables(q) = KnownTables(schema) /\ q.current = schema.current
    BY <2>3 DEF AfterEntering, Reads, SameTables, KnownTables
  <2>10. SchemaShape(w) /\ KnownTables(w) = KnownTables(schema)
    BY <2>3 DEF AfterVisiting, Reads, SameTables, KnownTables
  <2>11. EntersTable(TableOf(q, tb), TableOf(EnterSpec(q, tb, spec), tb), spec)
    BY <1>4, <2>6, <2>7, <2>9, EnterSpecTable
  <2>12. spec.op \in AlterOps BY <2>6 DEF IsGiven
  <2>13. TableOf(VisitSpec(w, spec), tb) = VisitedTable(TableOf(w, tb), spec)
    BY <1>4, <2>8, <2>10, <2>12, VisitSpecTable
  <2> QED BY <2>2, <2>4, <2>5, <2>11, <2>13 DEF i, spec
<1>9. ASSUME NEW k \in DOMAIN specs, specs[k].op = "addColumn" PROVE NewColumn(specs, k, T[0])
  <2> DEFINE d == db[tb]
  <2>1. Follows(TableOf(schema, tb), d, used[tb]) BY <1>5 DEF PositionInv, Quiet
  <2>2. DefinedOnce(specs) /\ LegalInOrder(d, specs)
    BY <1>5 DEF LegalAlter, DefinedOnce, LegalInOrder
  <2> HIDE DEF d
  <2>3. DbShape(d) /\ ColumnNamesOf(d) \subseteq used[tb] BY <2>1 DEF Follows
  <2>4. Mentions(d, specs) BY <1>3, <2>2, <2>3, AlterMentions
  <2>5. /\ specs[k].col \notin used[tb]
        /\ \A j \in DOMAIN specs : /\ specs[k].col \notin NamesEntered(specs[j])
                                   /\ j # k => specs[k].col \notin NamesVisited(specs[j])
    BY <1>3, <1>4, <1>5, <1>9, <2>2, <2>3, <2>4, AddedIsNew
  <2> QED BY <1>6, <2>1, <2>5 DEF Follows, NewColumn
<1>10. ParserAlters(specs, T, V) BY <1>4, <1>6, <1>7, <1>8, <1>9 DEF ParserAlters
<1> QED BY <1>6, <1>10

LEMMA AlterTableFollows ==
  ASSUME SchemaInv, PositionInv, ~Strays, NoKeyIsDropped, NEW tb \in TableNames,
         NEW specs \in Alters,
         AlterTable(tb, specs), Agrees(TableOf(schema, tb), db[tb], {}),
         HoldsKeys(TableOf(schema, tb), db[tb])
  PROVE  Agrees(TableOf(schema', tb), db'[tb], {}) /\ HoldsKeys(TableOf(schema', tb), db'[tb])
<1> DEFINE T == [k \in 0 .. Len(specs) |-> TableOf(SchemaEntered(tb, specs, k), tb)]
           V == [k \in 0 .. Len(specs) |-> TableOf(SchemaVisited(tb, specs, k), tb)]
           D == [k \in 0 .. Len(specs) |-> ExecutedTo(db[tb], specs, k)]
<1>1. PICK p : AlterShape(specs, p)
  <2>1. StaysInTable(tb, specs) /\ DefinedOnce(specs)
    BY DEF AlterTable, LegalAlter, DefinedOnce
  <2> QED BY <2>1, AlterSplits
<1>3. /\ T = [k \in 0 .. Len(specs) |-> TableOf(SchemaEntered(tb, specs, k), tb)]
      /\ V = [k \in 0 .. Len(specs) |-> TableOf(SchemaVisited(tb, specs, k), tb)]
      /\ D = [k \in 0 .. Len(specs) |-> ExecutedTo(db[tb], specs, k)]
  OBVIOUS
<1> HIDE DEF T, V, D
<1>4. /\ ParserAlters(specs, T, V)
      /\ T[0] = TableOf(schema, tb) /\ V[Len(specs)] = TableOf(schema', tb)
  BY <1>3, AlterTableParser
<1>5. DatabaseAlters(specs, D) /\ D[0] = db[tb] /\ D[Len(specs)] = db'[tb]
  BY <1>3, AlterTableDb
<1>6. Agrees(T[0], D[0], {}) /\ HoldsKeys(T[0], D[0]) BY <1>4, <1>5
<1>7. Agrees(V[Len(specs)], D[Len(specs)], {}) /\ HoldsKeys(V[Len(specs)], D[Len(specs)])
  BY <1>1, <1>4, <1>5, <1>6, AlterFollows
<1> QED BY <1>4, <1>5, <1>7

----------------------------------------------------------------------------
(* The other statements, and the tables that a statement leaves alone.        *)
Matches(t, d) == Agrees(t, d, {}) /\ HoldsKeys(t, d)

LEMMA MatchesStill ==
  ASSUME NEW t, NEW d, Matches(t, d), NEW u, SameNodes(t, u)
  PROVE  Matches(u, d)
<1>1. u.cols = t.cols /\ u.idxs = t.idxs /\ u.fks = t.fks BY DEF SameNodes
<1>2. OneTable!KeysFollow(t, d) /\ d.idxs = d.idxs /\ d.fks = d.fks BY DEF Matches, HoldsKeys
<1>3. OneTable!KeysFollow(u, d)
  BY <1>1, <1>2, Fits, SpareCapacityAssumption, OneTable!KeysUnchanged
<1> QED BY <1>1, <1>3 DEF Matches, HoldsKeys, Agrees

\* CREATE INDEX and DROP INDEX.
LEMMA IndexComes ==
  ASSUME NEW t, TableShape(t), NEW d, Matches(t, d), NEW i \in IndexNames, NEW n \in ColumnNames,
         NEW u, u = AddIndex(t, Index(i, "add", "none", <<n>>)),
         NEW e, e = Exec(d, [op |-> "createIndex", idx |-> i, typ |-> "none", columns |-> <<n>>])
  PROVE  Matches(u, e)
<1>1. Agrees(t, d, {}) /\ OneTable!KeysFollow(t, d) BY DEF Matches, HoldsKeys
<1>2. OneTable!IsTable(t) /\ d \in [cols : {d.cols}, idxs : {d.idxs}, fks : {d.fks}]
  BY <1>1, Shapes
<1>3. u.cols = t.cols BY DEF AddIndex, TableShape, IsTable
<1>4. SameColumnsOf(e, d) BY <1>2 DEF Exec, KeyDrops, SameColumnsOf
<1>5. Agrees(u, e, {}) BY <1>1, <1>3, <1>4, ColumnsStay
<1> DEFINE item == Index(i, "add", "none", <<n>>)
<1>6. u = OneTable!AddIndex(t, OneTable!Index(i, "add", "none", <<n>>))
  <2>1. OneTable!AddIndex(t, item) = AddIndex(t, item) BY SameMethods
  <2>2. OneTable!Index(i, "add", "none", <<n>>) = item BY SameStatements
  <2> QED BY <2>1, <2>2
<1>7. e = OneTable!Exec(d, [op |-> "createIndex", idx |-> i, typ |-> "none", columns |-> <<n>>])
  BY SameStatements
<1>8. OneTable!KeysFollow(u, e)
  BY <1>1, <1>2, <1>6, <1>7, Fits, SpareCapacityAssumption, OneTable!IndexAdded
<1> QED BY <1>5, <1>8 DEF Matches, HoldsKeys

LEMMA IndexLeaves ==
  ASSUME NEW t, TableShape(t), NEW d, Matches(t, d), NEW i \in DOMAIN d.idxs,
         NEW u, u = RemoveIndex(t, i), NEW e, e = Exec(d, [op |-> "dropIndex", idx |-> i])
  PROVE  Matches(u, e)
<1>1. Agrees(t, d, {}) /\ OneTable!KeysFollow(t, d) BY DEF Matches, HoldsKeys
<1>2. OneTable!IsTable(t) /\ d \in [cols : {d.cols}, idxs : {d.idxs}, fks : {d.fks}]
  BY <1>1, Shapes
<1>3. u.cols = t.cols BY DEF RemoveIndex, TableShape, IsTable
<1>4. SameColumnsOf(e, d) BY <1>2 DEF Exec, KeyDrops, SameColumnsOf
<1>5. Agrees(u, e, {}) BY <1>1, <1>3, <1>4, ColumnsStay
<1>6. u = OneTable!RemoveIndex(t, i) /\ e = OneTable!Exec(d, [op |-> "dropIndex", idx |-> i])
  BY SameMethods, SameStatements
<1>7. OneTable!KeysFollow(u, e)
  BY <1>1, <1>2, <1>6, Fits, SpareCapacityAssumption, OneTable!IndexRemoved
<1> QED BY <1>5, <1>7 DEF Matches, HoldsKeys

\* A column of a CREATE TABLE goes last.
LEMMA ColumnComes ==
  ASSUME NEW t, TableShape(t), Settled(t), NEW d, Matches(t, d),
         NEW n \in ColumnNames, n \notin Known(t), NEW u, u = AddColumn(t, Column(n, "add", Attr)),
         NEW e, e = [d EXCEPT !.cols = Append(@, [name |-> n, type |-> Type, opts |-> {}])]
  PROVE  Matches(u, e)
<1> DEFINE spec == [op |-> "addColumn", col |-> n, type |-> Type, opts |-> <<>>, pos |-> NoPosition]
<1>1. /\ Agrees(t, d, {}) /\ OneTable!KeysFollow(t, d) BY DEF Matches, HoldsKeys
<1>2. /\ OneTable!LiveNames(t.cols) = ColumnNamesOf(d)
      /\ d \in [cols : {d.cols}, idxs : {d.idxs}, fks : {d.fks}]
      /\ OneTable!ColumnsFollow(t.cols, d, {})
  BY <1>1, Shapes
<1>3. n \notin ColumnNamesOf(d)
  <2>1. OneTable!Reachable(t.cols) BY <1>2 DEF OneTable!ColumnsFollow, OneTable!Sound
  <2>2. OneTable!LiveNames(t.cols) \subseteq DOMAIN t.cols.id
    BY <2>1 DEF OneTable!LiveNames, OneTable!Reachable
  <2> QED BY <1>2, <2>2 DEF Known
<1>4. Legal(d, spec) BY <1>3 DEF Legal, KeyDrops, NoPosition
<1>5. e = Exec(d, spec)
  <2> DEFINE s == d.cols
             new == [name |-> n, type |-> Type, opts |-> {}]
  <2>1. s \in Seq(OneTable!DbColumns) BY <1>2 DEF OneTable!ColumnsFollow, OneTable!IsDb
  <2>2. SubSeq(s, 1, Len(s) + 1 - 1) \o <<new>> \o SubSeq(s, Len(s) + 1, Len(s)) = Append(s, new)
    <3> HIDE DEF s, new
    <3>1. Len(s) \in Nat /\ Len(s) + 1 - 1 = Len(s) BY <2>1
    <3>2. SubSeq(s, 1, Len(s)) = s BY <2>1, SubSeqFull
    <3>3. SubSeq(s, Len(s) + 1, Len(s)) = <<>> BY <3>1, SubSeqEmpty
    <3>4. s \o <<new>> = Append(s, new) BY <2>1
    <3>5. s \o <<new>> \in Seq(OneTable!DbColumns \cup {new}) BY <2>1
    <3>6. s \o <<new>> \o <<>> = s \o <<new>> BY <3>5, ConcatEmptySeq
    <3> QED BY <3>1, <3>2, <3>3, <3>4, <3>6
  <2>3. {spec.opts[i] : i \in DOMAIN spec.opts} = {} OBVIOUS
  <2>4. AddDbColumn(d, spec) = [d EXCEPT !.cols = SubSeq(@, 1, Len(d.cols) + 1 - 1) \o <<new>>
                                                   \o SubSeq(@, Len(d.cols) + 1, Len(@))]
    <3>1. /\ spec.pos.tp # "first" /\ spec.pos.tp # "after"
          /\ spec.col = n /\ spec.type = Type /\ {spec.opts[i] : i \in DOMAIN spec.opts} = {}
      BY <2>3 DEF NoPosition
    <3> HIDE DEF spec
    <3> DEFINE at == CASE spec.pos.tp = "first" -> 1
                       [] spec.pos.tp = "after" -> PlaceOf(d, spec.pos.rel) + 1
                       [] OTHER -> Len(d.cols) + 1
               made == [name |-> spec.col, type |-> spec.type,
                        opts |-> {spec.opts[i] : i \in DOMAIN spec.opts}]
    <3>2. AddDbColumn(d, spec) = [d EXCEPT !.cols = SubSeq(@, 1, at - 1) \o <<made>>
                                                     \o SubSeq(@, at, Len(@))]
      BY DEF AddDbColumn
    <3>3. at = Len(d.cols) + 1 /\ made = new BY <3>1
    <3> HIDE DEF at, made, new
    <3> QED BY <3>2, <3>3
  <2>5. Exec(d, spec) = AddDbColumn(d, spec) BY DEF Exec, KeyDrops
  <2> QED BY <2>2, <2>4, <2>5
<1>6. IsGiven(spec)
  <2>1. spec.opts \in Seq([tp : STRING, val : STRING]) /\ DOMAIN spec.opts = {} OBVIOUS
  <2>2. IsSpec(spec) BY <2>1 DEF IsSpec, KeyDrops
  <2>3. spec.type \in TypesGiven /\ spec.opts \in OptionsGiven BY DEF TypesGiven, OptionsGiven
  <2> QED BY <2>2, <2>3 DEF IsGiven, AlterOps, KeyDrops
<1>7. u = VisitedTable(t, spec) BY DEF VisitedTable, Defines, Attr
<1>8. OneTable!SamePlace(t.pos, spec.pos) BY DEF OneTable!SamePlace, Settled, NoPosition
<1>9. Defines(spec) /\ spec.op = "addColumn" /\ spec.col = n BY DEF Defines
<1> HIDE DEF spec
<1> DEFINE none == {}
<1>10. n \notin none /\ Agrees(t, d, none) BY <1>1
<1> HIDE DEF none
<1>11. Agrees(u, e, none \ {n}) /\ u.idxs = t.idxs /\ u.fks = t.fks
  <2>1. spec.op = "addColumn" => /\ spec.col \notin Known(t) /\ spec.col \notin none
                                 /\ OneTable!SamePlace(t.pos, spec.pos)
    BY <1>8, <1>9, <1>10
  <2>2. spec.op = "modifyColumn" => Settled(t) /\ RepeatsOptions(d, spec) BY <1>9
  <2>3. Agrees(u, e, none \ {spec.col}) /\ u.idxs = t.idxs /\ u.fks = t.fks
    BY <1>4, <1>5, <1>6, <1>7, <1>9, <1>10, <2>1, <2>2, DefinitionVisited
  <2> QED BY <1>9, <2>3
<1>12. Agrees(u, e, {}) BY <1>11 DEF none
<1>13. e.idxs = d.idxs /\ e.fks = d.fks BY <1>2
<1>14. OneTable!KeysFollow(u, e)
  BY <1>1, <1>11, <1>13, Fits, SpareCapacityAssumption, OneTable!KeysUnchanged
<1> QED BY <1>12, <1>14 DEF Matches, HoldsKeys

----------------------------------------------------------------------------
(* CREATE TABLE: first the table without columns, then one column after the   *)
(* other.                                                                     *)
LEMMA EmptyMatches ==
  ASSUME NEW name PROVE Matches(NewTable(name), EmptyDbTable)
<1> DEFINE t == NewTable(name)
           d == EmptyDbTable
           none == EmptyList
<1>1. /\ t.cols = none /\ t.idxs = none /\ t.fks = none
      /\ none = OneTable!EmptyList
  BY DEF NewTable, NewTableWithAction, EmptyList, OneTable!EmptyList
<1> HIDE DEF none
<1>2. \A Items, Names : OneTable!Sound(none, Items, Names) /\ OneTable!LiveNames(none) = {}
  BY <1>1, Fits, SpareCapacityAssumption, OneTable!EmptyListSound
<1>3. d.cols = <<>> /\ d.idxs = EmptyFunction /\ d.fks = EmptyFunction
      /\ d \in [cols : {d.cols}, idxs : {d.idxs}, fks : {d.fks}]
  BY DEF EmptyDbTable
<1>4. OneTable!IsDb(d)
  <2>1. d.cols \in Seq(OneTable!DbColumns) /\ OneTable!DistinctNames(d.cols)
    BY <1>3 DEF OneTable!DistinctNames
  <2> HIDE DEF d
  <2> QED BY <1>3, <2>1 DEF OneTable!IsDb
<1>5. OneTable!ColumnNamesOf(d) = {} BY <1>3 DEF OneTable!ColumnNamesOf
<1> HIDE DEF t, d
<1>6. OneTable!ColumnsFollow(t.cols, d, {}) /\ OneTable!InOrder(t.cols, d)
  BY <1>1, <1>2, <1>4, <1>5 DEF OneTable!ColumnsFollow, OneTable!InOrder
<1>7. OneTable!KeysFollow(t, d)
  <2>1. d.idxs = OneTable!IdxDefs(t.idxs)
    BY <1>1, <1>2, <1>3 DEF OneTable!IdxDefs, EmptyFunction
  <2>2. d.fks = OneTable!FkDefs(t.fks)
    BY <1>1, <1>2, <1>3 DEF OneTable!FkDefs, EmptyFunction
  <2>3. DOMAIN d.idxs = {} BY <1>3 DEF EmptyFunction
  <2> QED BY <1>1, <1>2, <2>1, <2>2, <2>3 DEF OneTable!KeysFollow
<1> QED BY <1>6, <1>7 DEF Matches, Agrees, HoldsKeys, t, d

\* The indexes among the constraints: one, or none.
IndexesMade(idxs, n) == [k \in DOMAIN idxs |-> Index(idxs[k], "add", "none", <<n>>)]

LEMMA TableWithIndexes ==
  ASSUME NEW name, NEW idxs \in BoundedSeq(IndexNames, 1), NEW n, idxs # <<>> => n \in ColumnNames,
         NEW t, t = FoldLeft(AddIndex, NewTable(name), IndexesMade(idxs, n))
  PROVE  Matches(t, NewDbTable(<<>>, idxs, n, "none"))
<1> DEFINE base == NewTable(name)
           made == IndexesMade(idxs, n)
           d == NewDbTable(<<>>, idxs, n, "none")
<1>1. PICK k \in 0 .. 1 : idxs \in [1 .. k -> IndexNames] BY DEF BoundedSeq, SeqOf
<1>2. Matches(base, EmptyDbTable) /\ TableShape(base)
  BY EmptyMatches, NewTableShape DEF NewTable
<1> DEFINE Folded(s) == Indexing!Fold(0, base, s)
<1>3. \A s : Folded(s) = FoldLeft(AddIndex, base, s)
  BY DEF Indexing!Fold, IndexFold, FoldLeft,
         Indexing!MapThenFoldSet, MapThenFoldSet, Indexing!GreatestIn, Max
<1>4. CASE k = 0
  <2>1. idxs = <<>> /\ DOMAIN idxs = {} BY <1>1, <1>4
  <2>2. made = <<>> BY <2>1 DEF IndexesMade
  <2>3. Folded(<<>>) = base BY Indexing!FoldFew
  <2>4. t = base BY <1>3, <2>2, <2>3
  <2>5. d = EmptyDbTable
    <3>1. {idxs[j] : j \in DOMAIN idxs} = {} BY <2>1
    <3>2. d.idxs = EmptyFunction BY <3>1 DEF NewDbTable, EmptyFunction
    <3>3. d = [cols |-> <<>>, idxs |-> d.idxs, fks |-> EmptyFunction] BY DEF NewDbTable
    <3> HIDE DEF d
    <3> QED BY <3>2, <3>3 DEF EmptyDbTable
  <2> QED BY <1>2, <2>4, <2>5
<1>5. CASE k = 1
  <2> DEFINE i == idxs[1]
             item == Index(i, "add", "none", <<n>>)
             e == Exec(EmptyDbTable, [op |-> "createIndex", idx |-> i, typ |-> "none", columns |-> <<n>>])
             u == AddIndex(base, item)
  <2>1. DOMAIN idxs = {1} /\ i \in IndexNames /\ idxs # <<>> BY <1>1, <1>5
  <2>2. made = <<item>> BY <2>1 DEF IndexesMade
  <2> HIDE DEF item
  <2>3. Folded(<<item>>) = u BY Indexing!FoldFew DEF IndexFold
  <2>4. t = u BY <1>3, <2>2, <2>3
  <2>5. d = e
    <3>1. {idxs[j] : j \in DOMAIN idxs} = {i} BY <2>1
    <3>2. d.idxs = [m \in {i} |-> [typ |-> "none", columns |-> <<n>>]] BY <3>1 DEF NewDbTable
    <3>3. d = [cols |-> <<>>, idxs |-> d.idxs, fks |-> EmptyFunction] BY DEF NewDbTable
    <3>4. e = [cols |-> <<>>, idxs |-> e.idxs, fks |-> EmptyFunction] BY DEF Exec, KeyDrops, EmptyDbTable
    <3>5. e.idxs = With(EmptyFunction, i, [typ |-> "none", columns |-> <<n>>])
      BY DEF Exec, KeyDrops, EmptyDbTable
    <3>6. e.idxs = [m \in {i} |-> [typ |-> "none", columns |-> <<n>>]]
      BY <3>5 DEF With, EmptyFunction
    <3> HIDE DEF d, e
    <3> QED BY <3>2, <3>3, <3>4, <3>6
  <2>6. n \in ColumnNames BY <2>1
  <2> HIDE DEF i, e, u, base
  <2>7. Matches(u, e) BY <1>2, <2>1, <2>6, IndexComes DEF u, e, item
  <2> QED BY <2>4, <2>5, <2>7
<1> QED BY <1>1, <1>4, <1>5

\* The database's table with the first k columns.
CreatedTo(names, idxs, n, k) == NewDbTable([j \in 1 .. k |-> names[j]], idxs, n, "none")

CreatedInSteps(names, idxs, n) ==
  /\ CreatedTo(names, idxs, n, 0) = NewDbTable(<<>>, idxs, n, "none")
  /\ CreatedTo(names, idxs, n, Len(names)) = NewDbTable(names, idxs, n, "none")
  /\ \A k \in Nat :
       CreatedTo(names, idxs, n, k + 1)
         = [CreatedTo(names, idxs, n, k) EXCEPT
              !.cols = Append(@, [name |-> names[k + 1], type |-> Type, opts |-> {}])]

LEMMA CreatedSteps ==
  ASSUME NEW names, IsSeq(names), NEW idxs, NEW n PROVE CreatedInSteps(names, idxs, n)
<1>1. [j \in 1 .. 0 |-> names[j]] = <<>> OBVIOUS
<1>2. [j \in 1 .. Len(names) |-> names[j]] = names BY SeqIs
<1>3. ASSUME NEW k \in Nat
      PROVE  CreatedTo(names, idxs, n, k + 1)
               = [CreatedTo(names, idxs, n, k) EXCEPT
                    !.cols = Append(@, [name |-> names[k + 1], type |-> Type, opts |-> {}])]
  <2> DEFINE ColumnAt(j) == [name |-> names[j], type |-> Type, opts |-> {}]
             c == CreatedTo(names, idxs, n, k)
             e == CreatedTo(names, idxs, n, k + 1)
  <2>1. /\ c = [cols |-> c.cols, idxs |-> c.idxs, fks |-> c.fks]
        /\ e = [cols |-> e.cols, idxs |-> e.idxs, fks |-> e.fks]
        /\ c.idxs = e.idxs /\ c.fks = e.fks
    BY DEF CreatedTo, NewDbTable
  <2>2. c.cols = [j \in 1 .. k |-> ColumnAt(j)] /\ e.cols = [j \in 1 .. k + 1 |-> ColumnAt(j)]
    BY DEF CreatedTo, NewDbTable
  <2> HIDE DEF c, e, ColumnAt
  <2>3. Append(c.cols, ColumnAt(k + 1)) = e.cols
    <3> DEFINE s == c.cols
               new == ColumnAt(k + 1)
               S == {ColumnAt(j) : j \in 1 .. k}
    <3>1. s = [j \in 1 .. k |-> s[j]] /\ \A j \in 1 .. k : s[j] \in S BY <2>2
    <3>2. s \in Seq(S) /\ Len(s) = k BY <3>1
    <3> HIDE DEF S, new
    <3>3. /\ Append(s, new) \in Seq(S \cup {new}) /\ Len(Append(s, new)) = k + 1
          /\ \A j \in 1 .. k : Append(s, new)[j] = s[j]
          /\ Append(s, new)[k + 1] = new
      BY <3>2, AppendProperties
    <3>4. Append(s, new) = [j \in 1 .. k + 1 |-> Append(s, new)[j]] BY <3>3
    <3>5. ASSUME NEW j \in 1 .. k + 1 PROVE Append(s, new)[j] = ColumnAt(j)
      <4>1. CASE j \in 1 .. k
        <5>1. s[j] = ColumnAt(j) BY <2>2, <4>1
        <5> QED BY <3>3, <4>1, <5>1
      <4>2. CASE j = k + 1 BY <3>3, <4>2 DEF new
      <4>3. j \in 1 .. k \/ j = k + 1 OBVIOUS
      <4> QED BY <4>1, <4>2, <4>3
    <3> QED BY <2>2, <3>4, <3>5 DEF new
  <2>4. [c EXCEPT !.cols = Append(@, ColumnAt(k + 1))] = e BY <2>1, <2>3
  <2> QED BY <2>4 DEF c, e, ColumnAt
<1>4. /\ CreatedTo(names, idxs, n, 0) = NewDbTable(<<>>, idxs, n, "none")
      /\ CreatedTo(names, idxs, n, Len(names)) = NewDbTable(names, idxs, n, "none")
  BY <1>1, <1>2 DEF CreatedTo
<1> QED BY <1>3, <1>4 DEF CreatedInSteps

\* What has become of the table u of the schema after k columns.
ReadTo(u, names, idxs, n, k) ==
  /\ TableShape(u) /\ Settled(u)
  /\ Matches(u, CreatedTo(names, idxs, n, k))
  /\ Known(u) \subseteq {names[j] : j \in 1 .. k}

LEMMA OneMoreColumn ==
  ASSUME NEW names, IsSeq(names), IsInjective(names), \A k \in DOMAIN names : names[k] \in ColumnNames,
         NEW idxs, NEW n, NEW k \in Nat, k + 1 <= Len(names),
         NEW t, ReadTo(t, names, idxs, n, k),
         NEW u, u = AddColumn(t, Column(names[k + 1], "add", Attr))
  PROVE  ReadTo(u, names, idxs, n, k + 1)
<1> DEFINE name == names[k + 1]
           d == CreatedTo(names, idxs, n, k)
           e == CreatedTo(names, idxs, n, k + 1)
           col == Column(name, "add", Attr)
<1>1. Len(names) \in Nat /\ DOMAIN names = 1 .. Len(names) /\ k + 1 \in DOMAIN names BY SeqIs
<1>2. name \in ColumnNames BY <1>1
<1>3. name \notin Known(t)
  <2>1. ASSUME NEW j \in 1 .. k PROVE names[j] # name
    <3>1. j \in DOMAIN names /\ j # k + 1 BY <1>1
    <3> QED BY <1>1, <3>1 DEF IsInjective
  <2> QED BY <2>1 DEF ReadTo
<1>4. e = [d EXCEPT !.cols = Append(@, [name |-> name, type |-> Type, opts |-> {}])]
  <2>1. CreatedInSteps(names, idxs, n) BY CreatedSteps
  <2> QED BY <2>1 DEF CreatedInSteps
<1>5. TableShape(t) /\ Settled(t) /\ Matches(t, d) /\ Known(t) \subseteq {names[j] : j \in 1 .. k}
  BY DEF ReadTo
<1> HIDE DEF d, e
<1>6. Matches(u, e)
  <2> HIDE DEF name
  <2> QED BY <1>2, <1>3, <1>4, <1>5, ColumnComes DEF name
<1>7. col.name = name BY DEF Column
<1> HIDE DEF col
<1>8. Becomes(t, u, {col.name}) BY <1>5, AddColumnBecomes DEF col
<1>9. TableShape(u) /\ Known(u) \subseteq Known(t) \cup {name} /\ u.pos \in {t.pos, NoPosition}
  BY <1>7, <1>8 DEF Becomes
<1>10. Settled(u) BY <1>5, <1>9 DEF Settled, NoPosition
<1>11. Known(u) \subseteq {names[j] : j \in 1 .. k + 1}
  <2>1. 1 .. k + 1 = (1 .. k) \cup {k + 1} OBVIOUS
  <2> QED BY <1>5, <1>9, <2>1
<1> QED BY <1>6, <1>9, <1>10, <1>11 DEF ReadTo, e

\* The columns are added to the table, which is the current one.
ColumnsMade(names) == [k \in DOMAIN names |-> Column(names[k], "add", Attr)]
MadeAt(m, tb, names, idxs, n, k) ==
  /\ SchemaShape(m) /\ tb \in KnownTables(m) /\ m.current = tb
  /\ ReadTo(TableOf(m, tb), names, idxs, n, k)

LEMMA OneMoreMade ==
  ASSUME NEW names, IsSeq(names), IsInjective(names), \A k \in DOMAIN names : names[k] \in ColumnNames,
         NEW idxs, NEW n, NEW tb, tb # Nil, NEW k \in Nat, k + 1 <= Len(names),
         NEW m, MadeAt(m, tb, names, idxs, n, k),
         NEW r, r = SchemaAddColumn(m, Nil, Column(names[k + 1], "add", Attr))
  PROVE  MadeAt(r, tb, names, idxs, n, k + 1)
<1> DEFINE col == Column(names[k + 1], "add", Attr)
           t == TableOf(m, tb)
           u == AddColumn(t, col)
<1>1. SchemaShape(m) /\ tb \in KnownTables(m) /\ m.current = tb /\ ReadTo(t, names, idxs, n, k)
  BY DEF MadeAt
<1>2. ReadTo(u, names, idxs, n, k + 1)
  <2> HIDE DEF t
  <2> QED BY <1>1, OneMoreColumn
<1> HIDE DEF col
<1>3. Ensured(m, tb) = m /\ TableShape(t) BY <1>1, EnsuredKnown, KnownTable
<1>4. Named(m, Nil) = tb BY <1>1 DEF Named
<1>5. SchemaAddColumn(m, Nil, col) = SetTable(m, tb, u) BY <1>3, <1>4 DEF SchemaAddColumn
<1> DEFINE N == {col.name}
<1>6. Becomes(t, u, N) BY <1>3, AddColumnBecomes
<1> HIDE DEF u, N
<1>7. /\ Touches(m, SetTable(m, tb, u), tb, N, {}) /\ SetTable(m, tb, u).current = m.current
      /\ TableOf(SetTable(m, tb, u), tb) = u
  BY <1>1, <1>6, BecomesTouches
<1>8. r = SetTable(m, tb, u) BY <1>5 DEF col
<1> QED BY <1>1, <1>2, <1>7, <1>8 DEF MadeAt, Touches, SameTables, KnownTables

LEMMA AllMade ==
  ASSUME NEW names, IsSeq(names), IsInjective(names), \A k \in DOMAIN names : names[k] \in ColumnNames,
         NEW idxs, NEW n, NEW tb, tb # Nil, NEW m, MadeAt(m, tb, names, idxs, n, 0)
  PROVE  MadeAt(FoldLeft(LAMBDA s, c : SchemaAddColumn(s, Nil, c), m, ColumnsMade(names)),
                tb, names, idxs, n, Len(names))
<1> DEFINE cols == ColumnsMade(names)
           S == {cols[k] : k \in DOMAIN cols}
           size == Len(names)
           F(k) == Defining!FoldTo(0, m, cols, k)
<1>1. size \in Nat /\ DOMAIN names = 1 .. size BY SeqIs
<1>2. cols \in Seq(S) /\ Len(cols) = size /\ DOMAIN cols = 1 .. size
  <2>1. cols = [k \in 1 .. size |-> cols[k]] BY <1>1 DEF ColumnsMade
  <2> HIDE DEF cols, size
  <2>2. IsSeq(cols) /\ Len(cols) = size /\ DOMAIN cols = 1 .. size BY <1>1, <2>1, FunctionIsSeq
  <2> QED BY <2>2 DEF IsSeq
<1>3. \A k \in 1 .. size : cols[k] = Column(names[k], "add", Attr) BY <1>1 DEF ColumnsMade
<1> HIDE DEF S, cols, size
<1>4. F(0) = m BY <1>2, Defining!FoldNone
<1>5. \A k \in 1 .. size : F(k) = SchemaAddColumn(F(k - 1), Nil, cols[k])
  <2>1. \A k \in 1 .. size : F(k) = ColumnFold(0, F(k - 1), cols[k]) BY <1>2, Defining!FoldNext
  <2> QED BY <2>1 DEF ColumnFold
<1>6. FoldLeft(LAMBDA s, c : SchemaAddColumn(s, Nil, c), m, cols) = F(size)
  <2>1. Defining!Fold(0, m, cols) = F(size) BY <1>2, Defining!FoldAll
  <2>2. Defining!Fold(0, m, cols) = FoldLeft(LAMBDA s, c : SchemaAddColumn(s, Nil, c), m, cols)
    BY DEF Defining!Fold, ColumnFold, FoldLeft,
           Defining!MapThenFoldSet, MapThenFoldSet, Defining!GreatestIn, Max
  <2> QED BY <2>1, <2>2
<1> HIDE DEF F
<1> DEFINE P(k) == MadeAt(F(k), tb, names, idxs, n, k)
           T == {k \in Nat : k <= size => P(k)}
<1>7. P(0) BY <1>4
<1>8. ASSUME NEW k \in Nat, k + 1 <= size, P(k) PROVE P(k + 1)
  <2> DEFINE q == F(k)
             w == F(k + 1)
             i == k + 1
  <2>1. i \in 1 .. size /\ i - 1 = k BY <1>1, <1>8
  <2>2. w = SchemaAddColumn(q, Nil, cols[i]) BY <1>5, <2>1
  <2>3. cols[i] = Column(names[i], "add", Attr) BY <1>3, <2>1
  <2>4. MadeAt(q, tb, names, idxs, n, k) BY <1>8
  <2>5. k + 1 <= Len(names) BY <1>8 DEF size
  <2>6. w = SchemaAddColumn(q, Nil, Column(names[k + 1], "add", Attr)) BY <2>2, <2>3
  <2> HIDE DEF q, w, i, P
  <2>7. MadeAt(w, tb, names, idxs, n, k + 1) BY <2>4, <2>5, <2>6, OneMoreMade
  <2> QED BY <2>7 DEF w, P
<1> HIDE DEF P
<1>9. \A k \in Nat : k \in T
  <2>1. 0 \in T BY <1>7
  <2>2. ASSUME NEW k \in Nat, k \in T PROVE k + 1 \in T BY <1>1, <1>8, <2>2
  <2> HIDE DEF T
  <2> QED BY <2>1, <2>2, Entering!EveryNatural
<1>10. P(size) BY <1>1, <1>9
<1> QED BY <1>6, <1>10 DEF P, cols, size

LEMMA CreateTableFollows ==
  ASSUME SchemaInv, NEW tb \in TableNames, NEW names \in Creates,
         NEW idxs \in BoundedSeq(IndexNames, 1), NEW n \in KeyColumns, CreateTable(tb, names, idxs, n)
  PROVE  Matches(TableOf(schema', tb), db'[tb])
<1> DEFINE m == schema
           t == FoldLeft(AddIndex, NewTable(tb), IndexesMade(idxs, n))
           u == Using(m, tb)
           a == AddTable(u, t)
           base == NewTable(tb)
           made == IndexesMade(idxs, n)
           r == FoldLeft(LAMBDA s, c : SchemaAddColumn(s, Nil, c), a, ColumnsMade(names))
<1>1. IsSeq(names) /\ IsInjective(names) /\ \A k \in DOMAIN names : names[k] \in ColumnNames
  BY MigrationAssumption
<1>2. SchemaShape(m) /\ tb # Nil /\ n \in ColumnNames
  BY SchemaNil, MigrationAssumption DEF SchemaInv, Sound
<1>3. schema' = r BY DEF CreateTable, ReadCreateTable, ColumnsMade, IndexesMade
<1>4. db'[tb] = NewDbTable(names, idxs, n, "none") BY DEF CreateTable, With
<1> HIDE DEF r, m
<1>5. IsSeq(made)
  <2>1. IsSeq(idxs) BY BoundedIsSeq
  <2>2. Len(idxs) \in Nat /\ DOMAIN idxs = 1 .. Len(idxs) BY <2>1, SeqIs
  <2>3. made = [k \in 1 .. Len(idxs) |-> made[k]] BY <2>2 DEF IndexesMade
  <2> HIDE DEF made
  <2> QED BY <2>2, <2>3, FunctionIsSeq
<1>6. /\ TableShape(base) /\ Known(base) = {} /\ base.name = tb /\ base.pos = NoPosition
  BY NewTableShape DEF NewTable, NewTableWithAction
<1>7. Matches(t, NewDbTable(<<>>, idxs, n, "none")) BY <1>2, TableWithIndexes
<1> HIDE DEF base, made
<1>8. Keeps(base, t, {}) BY <1>5, <1>6, IndexesRead DEF base, made
<1> HIDE DEF t
<1>9. TableShape(t) /\ Known(t) = {} /\ t.name = tb /\ t.pos = NoPosition
  BY <1>6, <1>8 DEF Keeps, Becomes
<1>10. SchemaShape(u) /\ u.current = tb BY <1>2, UsingTouches DEF Touches, SameTables
<1> HIDE DEF u
<1>11. Gains(u, a, tb) /\ TableOf(a, tb) = t /\ a.current = tb BY <1>9, <1>10, AddTableGains
<1> HIDE DEF a
<1>12. SchemaShape(a) /\ tb \in KnownTables(a) BY <1>11 DEF Gains
<1>13. CreatedInSteps(names, idxs, n) BY <1>1, CreatedSteps
<1>14. ReadTo(t, names, idxs, n, 0)
  <2>1. Matches(t, CreatedTo(names, idxs, n, 0)) BY <1>7, <1>13 DEF CreatedInSteps
  <2>2. Settled(t) BY <1>9 DEF Settled, NoPosition
  <2> QED BY <1>9, <2>1, <2>2 DEF ReadTo
<1>15. MadeAt(a, tb, names, idxs, n, 0) BY <1>11, <1>12, <1>14 DEF MadeAt
<1>16. MadeAt(r, tb, names, idxs, n, Len(names)) BY <1>1, <1>2, <1>15, AllMade DEF r
<1>17. Matches(TableOf(r, tb), CreatedTo(names, idxs, n, Len(names))) BY <1>16 DEF MadeAt, ReadTo
<1> QED BY <1>3, <1>4, <1>13, <1>17 DEF CreatedInSteps

----------------------------------------------------------------------------
(* Every table of the database is found.                                      *)
AllMatch(m, d) == \A tb \in DOMAIN d : Matches(TableOf(m, tb), d[tb])
AgreementInv == AllMatch(schema, db)

LEMMA InitMatches == Init => AgreementInv
BY DEF Init, EmptyFunction, AgreementInv, AllMatch

LEMMA CreateTableMatches ==
  ASSUME SchemaInv, AgreementInv, NEW tb \in TableNames, NEW names \in Creates,
         NEW idxs \in BoundedSeq(IndexNames, 1), NEW n \in KeyColumns, CreateTable(tb, names, idxs, n)
  PROVE  AgreementInv'
<1> DEFINE m == schema
           r == schema'
           N == {names[k] : k \in DOMAIN names}
           e == db'
<1>1. GainsNew(m, r, tb, N) BY CreateTableGains
<1>2. DOMAIN db \subseteq KnownTables(m) BY DEF SchemaInv, Sound
<1>3. e = With(db, tb, NewDbTable(names, idxs, n, "none")) BY DEF CreateTable
<1>4. Matches(TableOf(r, tb), e[tb]) BY CreateTableFollows
<1>5. \A k \in DOMAIN db : Matches(TableOf(m, k), db[k]) BY DEF AgreementInv, AllMatch
<1> HIDE DEF m, r, N, e
<1>6. DOMAIN e = DOMAIN db \cup {tb} /\ \A k \in DOMAIN db : k # tb => e[k] = db[k] BY <1>3 DEF With
<1>7. \A k \in KnownTables(m) \ {tb} : TableOf(r, k) = TableOf(m, k) BY <1>1 DEF GainsNew, Gains
<1>8. \A k \in DOMAIN e : Matches(TableOf(r, k), e[k]) BY <1>2, <1>4, <1>5, <1>6, <1>7
<1> QED BY <1>8 DEF AgreementInv, AllMatch, r, e

LEMMA DropTablesMatches ==
  ASSUME SchemaInv, AgreementInv, NEW tbs \in BoundedSeq(TableNames, 2), tbs # <<>>, DropTables(tbs)
  PROVE  AgreementInv'
<1> DEFINE gone == {tbs[k] : k \in DOMAIN tbs}
           m == schema
           r == schema'
           e == db'
<1>1. SchemaShape(m) /\ DOMAIN db \subseteq KnownTables(m) BY DEF SchemaInv, Sound
<1>2. IsSeq(tbs) /\ Len(tbs) # 0 BY BoundedIsSeq
<1>3. gone \subseteq DOMAIN db /\ r = ReadDropTable(m, tbs) /\ e = Without(db, gone)
  BY DEF DropTables
<1>4. \A k \in DOMAIN tbs : tbs[k] \in KnownTables(m) BY <1>1, <1>3
<1>5. \A k \in DOMAIN db : Matches(TableOf(m, k), db[k]) BY DEF AgreementInv, AllMatch
<1> HIDE DEF m, r, e
<1>6. Marks(m, r, gone) BY <1>1, <1>2, <1>3, <1>4, ReadDropTableMarks
<1> HIDE DEF gone
<1>7. DOMAIN e = DOMAIN db \ gone /\ \A k \in DOMAIN e : e[k] = db[k] BY <1>3 DEF Without
<1>8. \A k \in KnownTables(m) \ gone : TableOf(r, k) = TableOf(m, k) BY <1>6 DEF Marks
<1>9. \A k \in DOMAIN e : Matches(TableOf(r, k), e[k]) BY <1>1, <1>5, <1>7, <1>8
<1> QED BY <1>9 DEF AgreementInv, AllMatch, r, e

LEMMA RenameToMatches ==
  ASSUME SchemaInv, AgreementInv, NEW tb \in TableNames, NEW to \in TableNames, RenameTo(tb, to)
  PROVE  AgreementInv'
<1> DEFINE m == schema
           r == schema'
           e == db'
<1>1. SchemaShape(m) /\ DOMAIN db \subseteq KnownTables(m) BY DEF SchemaInv, Sound
<1>2. /\ tb \in DOMAIN db /\ to \notin DOMAIN db
      /\ r = ReadAlter(m, tb, <<[op |-> "renameTable", to |-> to]>>)
      /\ e = Without(With(db, to, db[tb]), {tb})
  BY DEF RenameTo
<1>3. tb \in KnownTables(m) /\ to # tb BY <1>1, <1>2
<1>4. \A k \in DOMAIN db : Matches(TableOf(m, k), db[k]) BY DEF AgreementInv, AllMatch
<1> HIDE DEF m, r, e
<1>5. Renames(m, r, tb, to) BY <1>1, <1>2, <1>3, ReadRenameRenames
<1>6. /\ DOMAIN e = (DOMAIN db \cup {to}) \ {tb} /\ e[to] = db[tb]
      /\ \A k \in DOMAIN db \ {tb} : k # to => e[k] = db[k]
  BY <1>2, <1>3 DEF With, Without
<1>7. /\ KnownTables(r) = (KnownTables(m) \cup {to}) \ {tb}
      /\ \A k \in KnownTables(r) \ {to} : TableOf(r, k) = TableOf(m, k)
      /\ SameNodes(TableOf(m, tb), TableOf(r, to))
  BY <1>5 DEF Renames
<1>8. ASSUME NEW k \in DOMAIN e PROVE Matches(TableOf(r, k), e[k])
  <2>1. CASE k = to
    <3>1. Matches(TableOf(m, tb), db[tb]) BY <1>2, <1>4
    <3>2. Matches(TableOf(r, to), db[tb]) BY <1>7, <3>1, MatchesStill
    <3> QED BY <1>6, <2>1, <3>2
  <2>2. CASE k # to BY <1>1, <1>4, <1>6, <1>7, <2>2
  <2> QED BY <2>1, <2>2
<1> QED BY <1>8 DEF AgreementInv, AllMatch, r, e

\* A statement of one table: the others match as before.
LEMMA OneMatches ==
  ASSUME SchemaInv, AgreementInv, NEW tb \in DOMAIN db, NEW r, NEW e, DOMAIN e = DOMAIN db,
         Matches(TableOf(r, tb), e[tb]), \A k \in DOMAIN db : k # tb => e[k] = db[k],
         \A k \in KnownTables(schema) : k # tb => SameNodes(TableOf(schema, k), TableOf(r, k))
  PROVE  AllMatch(r, e)
<1> SUFFICES ASSUME NEW k \in DOMAIN e PROVE Matches(TableOf(r, k), e[k]) BY DEF AllMatch
<1>1. CASE k = tb BY <1>1
<1>2. CASE k # tb
  <2> DEFINE t == TableOf(schema, k)
             u == TableOf(r, k)
             d == db[k]
  <2>1. Matches(t, d) BY DEF AgreementInv, AllMatch
  <2>2. SameNodes(t, u) BY <1>2 DEF SchemaInv, Sound
  <2>3. e[k] = d BY <1>2
  <2> HIDE DEF t, u, d
  <2>4. Matches(u, d) BY <2>1, <2>2, MatchesStill
  <2> QED BY <2>3, <2>4 DEF u
<1> QED BY <1>1, <1>2

LEMMA AlterTableMatches ==
  ASSUME SchemaInv, PositionInv, AgreementInv, ~Strays, NoKeyIsDropped, NEW tb \in TableNames,
         NEW specs \in Alters,
         AlterTable(tb, specs)
  PROVE  AgreementInv'
<1> DEFINE m == schema
           r == schema'
           e == db'
           N == used[tb] \cup NewNames(specs)
<1>1. tb \in DOMAIN db /\ e = [db EXCEPT ![tb] = FoldLeft(Exec, @, specs)] BY DEF AlterTable
<1>2. SchemaShape(m) /\ tb \in KnownTables(m) BY <1>1 DEF SchemaInv, Sound
<1>3. Matches(TableOf(m, tb), db[tb]) BY <1>1 DEF AgreementInv, AllMatch
<1>4. Matches(TableOf(r, tb), e[tb]) BY <1>3, AlterTableFollows DEF Matches
<1>5. Reads(m, r, tb, N) BY AlterTableReads
<1> HIDE DEF N
<1>6. ASSUME NEW k \in KnownTables(m), k # tb PROVE SameNodes(TableOf(m, k), TableOf(r, k))
  <2> DEFINE t == TableOf(m, k)
             u == TableOf(r, k)
  <2>1. SameButPosition(t, u) BY <1>2, <1>5, <1>6, ReadsOthers
  <2>2. SchemaShape(r) /\ KnownTables(r) = KnownTables(m) BY <1>5 DEF Reads, SameTables, KnownTables
  <2>3. IsTable(t) /\ IsTable(u) BY <1>2, <1>6, <2>2, KnownTable DEF TableShape
  <2> HIDE DEF t, u
  <2>4. SameNodes(t, u) BY <2>1, <2>3 DEF SameButPosition, IsTable, SameNodes
  <2> QED BY <2>4 DEF t, u
<1>7. DOMAIN e = DOMAIN db /\ \A k \in DOMAIN db : k # tb => e[k] = db[k] BY <1>1
<1> HIDE DEF r, e
<1>8. AllMatch(r, e) BY <1>1, <1>4, <1>6, <1>7, OneMatches
<1> QED BY <1>8 DEF AgreementInv, r, e

LEMMA CreateIndexMatches ==
  ASSUME SchemaInv, AgreementInv, NEW tb \in TableNames, NEW i \in IndexNames, NEW n \in KeyColumns,
         CreateIndex(tb, i, n)
  PROVE  AgreementInv'
<1> DEFINE m == schema
           r == schema'
           e == db'
           idx == Index(i, "add", "none", <<n>>)
           stm == [op |-> "createIndex", idx |-> i, typ |-> "none", columns |-> <<n>>]
           t == TableOf(m, tb)
           u == AddIndex(t, idx)
           d == db[tb]
           f == Exec(d, stm)
<1>1. tb \in DOMAIN db /\ e = [db EXCEPT ![tb] = Exec(@, stm)] /\ r = ReadCreateIndex(m, tb, idx)
  BY DEF CreateIndex
<1>2. SchemaShape(m) /\ tb \in KnownTables(m) BY <1>1 DEF SchemaInv, Sound
<1>3. Matches(t, d) /\ n \in ColumnNames BY <1>1, MigrationAssumption DEF AgreementInv, AllMatch
<1>4. Ensured(m, tb) = m /\ TableShape(t) BY <1>2, EnsuredKnown, KnownTable
<1>5. r = Using(SetTable(m, tb, u), tb) BY <1>1, <1>4 DEF ReadCreateIndex, SchemaAddIndex
<1>6. e[tb] = f BY <1>1
<1>7. Touches(m, r, tb, {}, {}) BY <1>1, <1>2, ReadIndexTouches
<1>8. DOMAIN e = DOMAIN db /\ \A k \in DOMAIN db : k # tb => e[k] = db[k] BY <1>1
<1> HIDE DEF stm, e
<1>9. Matches(u, f)
  <2> HIDE DEF t, d
  <2> QED BY <1>3, <1>4, IndexComes DEF stm
<1> HIDE DEF u, f, r, m
<1>10. TableOf(r, tb) = u
  <2>1. TableOf(SetTable(m, tb, u), tb) = u BY <1>2, TableSet
  <2>2. r.tables = SetTable(m, tb, u).tables BY <1>2, <1>5 DEF Using, SetTable, SchemaShape
  <2> QED BY <2>1, <2>2 DEF TableOf
<1>11. ASSUME NEW k \in KnownTables(m), k # tb PROVE SameNodes(TableOf(m, k), TableOf(r, k))
  <2>1. TableOf(r, k) = TableOf(m, k) BY <1>2, <1>7, <1>11, TouchesOne
  <2> QED BY <2>1 DEF SameNodes
<1>12. AllMatch(r, e) BY <1>1, <1>6, <1>8, <1>9, <1>10, <1>11, OneMatches DEF m
<1> QED BY <1>12 DEF AgreementInv, r, e

LEMMA DropIndexMatches ==
  ASSUME SchemaInv, AgreementInv, NEW tb \in TableNames, NEW i \in IndexNames, DropIndex(tb, i)
  PROVE  AgreementInv'
<1> DEFINE m == schema
           r == schema'
           e == db'
           stm == [op |-> "dropIndex", idx |-> i]
           t == TableOf(m, tb)
           u == RemoveIndex(t, i)
           d == db[tb]
           f == Exec(d, stm)
<1>1. tb \in DOMAIN db /\ e = [db EXCEPT ![tb] = Exec(@, stm)] /\ r = ReadDropIndex(m, tb, i)
  BY DEF DropIndex
<1>2. SchemaShape(m) /\ tb \in KnownTables(m) BY <1>1 DEF SchemaInv, Sound
<1>3. Matches(t, d) /\ i \in DOMAIN d.idxs BY <1>1 DEF AgreementInv, AllMatch, DropIndex, Legal, KeyDrops
<1>4. Ensured(m, tb) = m /\ TableShape(t) BY <1>2, EnsuredKnown, KnownTable
<1>5. r = Using(SetTable(m, tb, u), tb) BY <1>1, <1>4 DEF ReadDropIndex, SchemaRemoveIndex
<1>6. e[tb] = f BY <1>1
<1>7. Touches(m, r, tb, {}, {}) BY <1>1, <1>2, ReadIndexTouches
<1>8. DOMAIN e = DOMAIN db /\ \A k \in DOMAIN db : k # tb => e[k] = db[k] BY <1>1
<1> HIDE DEF stm, e
<1>9. Matches(u, f)
  <2> HIDE DEF t, d
  <2> QED BY <1>3, <1>4, IndexLeaves DEF stm
<1> HIDE DEF u, f, r, m
<1>10. TableOf(r, tb) = u
  <2>1. TableOf(SetTable(m, tb, u), tb) = u BY <1>2, TableSet
  <2>2. r.tables = SetTable(m, tb, u).tables BY <1>2, <1>5 DEF Using, SetTable, SchemaShape
  <2> QED BY <2>1, <2>2 DEF TableOf
<1>11. ASSUME NEW k \in KnownTables(m), k # tb PROVE SameNodes(TableOf(m, k), TableOf(r, k))
  <2>1. TableOf(r, k) = TableOf(m, k) BY <1>2, <1>7, <1>11, TouchesOne
  <2> QED BY <2>1 DEF SameNodes
<1>12. AllMatch(r, e) BY <1>1, <1>6, <1>8, <1>9, <1>10, <1>11, OneMatches DEF m
<1> QED BY <1>12 DEF AgreementInv, r, e

----------------------------------------------------------------------------
(* The theorem.                                                               *)
FoundInv == SchemaInv /\ PositionInv /\ AgreementInv

LEMMA NextFinds ==
  ASSUME ~Strays, NoKeyIsDropped, FoundInv, [Next]_vars PROVE FoundInv'
<1>1. SchemaInv /\ PositionInv /\ AgreementInv BY DEF FoundInv
<1>2. SchemaInv' /\ PositionInv' BY <1>1, NextKeeps
<1>3. AgreementInv'
  <2>1. CASE \E tb \in TableNames, names \in Creates, idxs \in BoundedSeq(IndexNames, 1),
                n \in KeyColumns : CreateTable(tb, names, idxs, n)
    BY <1>1, <2>1, CreateTableMatches
  <2>2. CASE \E tbs \in BoundedSeq(TableNames, 2) : tbs # <<>> /\ IsInjective(tbs) /\ DropTables(tbs)
    BY <1>1, <2>2, DropTablesMatches
  <2>3. CASE \E tb, to \in TableNames : RenameTo(tb, to)
    BY <1>1, <2>3, RenameToMatches
  <2>4. CASE \E tb \in TableNames, specs \in Alters : AlterTable(tb, specs)
    BY <1>1, <2>4, AlterTableMatches
  <2>5. CASE \E tb \in TableNames, i \in IndexNames, n \in KeyColumns : CreateIndex(tb, i, n)
    BY <1>1, <2>5, CreateIndexMatches
  <2>6. CASE \E tb \in TableNames, i \in IndexNames : DropIndex(tb, i)
    BY <1>1, <2>6, DropIndexMatches
  <2>7. CASE UNCHANGED vars
    <3>1. schema' = schema /\ db' = db BY <2>7 DEF vars
    <3> QED BY <1>1, <3>1 DEF AgreementInv
  <2> QED BY <2>1, <2>2, <2>3, <2>4, <2>5, <2>6, <2>7 DEF Next
<1> QED BY <1>2, <1>3 DEF FoundInv

LEMMA FoundHolds == FoundInv => TablesFound
<1> SUFFICES ASSUME FoundInv, NEW tb \in DOMAIN db
             PROVE  IsKnown(schema, tb) /\ View(TableOf(schema, tb)) = db[tb]
  BY DEF TablesFound
<1>1. SchemaShape(schema) /\ tb \in KnownTables(schema) BY DEF FoundInv, SchemaInv, Sound
<1>2. IsKnown(schema, tb) BY <1>1, KnownTable
<1> DEFINE t == TableOf(schema, tb)
           d == db[tb]
<1>3. Matches(t, d) BY DEF FoundInv, AgreementInv, AllMatch
<1> HIDE DEF t, d
<1>4. /\ OneTable!ColumnsFollow(t.cols, d, {}) /\ OneTable!InOrder(t.cols, d)
      /\ OneTable!KeysFollow(t, d)
  BY <1>3 DEF Matches, Agrees, HoldsKeys
<1>5. OneTable!View(t) = d BY <1>4, Fits, SpareCapacityAssumption, OneTable!ViewFollows
<1>6. View(t) = d BY <1>5, SameMethods
<1> QED BY <1>2, <1>6 DEF t, d

\* As long as no part of a statement strays and none drops a foreign key, what the parser believes of every table is
\* what the database has, its columns in order with their definitions, its indexes and its
\* foreign keys, however many tables and statements there are: nothing that is filed under
\* the current table is filed under the wrong one, and a table that is dropped and created
\* again or renamed is not taken for another (Enter of sqlparser/mysql.go, element/migration.go).
THEOREM TablesAreFound == ~Strays /\ NoKeyIsDropped => (Spec => []TablesFound)
<1> SUFFICES ASSUME ~Strays, NoKeyIsDropped PROVE Spec => []TablesFound OBVIOUS
<1>1. Init => FoundInv BY InitSound, InitMatches DEF FoundInv
<1>2. FoundInv /\ [Next]_vars => FoundInv' BY NextFinds
<1>3. FoundInv => TablesFound BY FoundHolds
<1> QED BY <1>1, <1>2, <1>3, PTL DEF Spec

=============================================================================
