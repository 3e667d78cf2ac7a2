------------------------------- MODULE DiffOps -------------------------------
(***************************************************************************)
(* Table.Diff of element/table.go, which turns the wanted table into a     *)
(* list of changes against the current one, and the statements that        *)
(* MigrationColumnUp/Down, MigrationIndexUp/Down and                       *)
(* MigrationForeignKeyUp/Down write for a table that exists in both        *)
(* schemas (Migration.Diff in element/migration.go gives it the action     *)
(* No).  Statements are the records of DbOps.tla.                          *)
(***************************************************************************)
EXTENDS TableOps

CONSTANT IgnoreFieldOrder   \* the option of this name: no AFTER is written

ASSUME IgnoreFieldOrderAssumption == IgnoreFieldOrder \in BOOLEAN

----------------------------------------------------------------------------
(* Comparing columns.                                                       *)

\* The options up to the first comment, the comment included.
UpToComment(opts) ==
  SubSeq(opts, 1, Min({i \in DOMAIN opts : opts[i].tp = "comment"} \cup {Len(opts)}))

CountOf(opts, tp) == Cardinality({i \in DOMAIN opts : opts[i].tp = tp})

\* Options are compared by the number of each type, never by their values.
HasChangedOptions(new, old) ==
  LET n == UpToComment(new)
      o == UpToComment(old)
  IN  \/ Len(n) # Len(o)
      \/ \E i \in DOMAIN o : CountOf(n, o[i].tp) # CountOf(o, o[i].tp)

\* Deviation: types are not compared.
HasChangedTypeNever(new, old) == FALSE

HasChangedType(new, old) == new # NoType /\ new # old

HasChangedAttr(new, old) ==
  HasChangedOptions(new.opts, old.opts) \/ HasChangedType(new.type, old.type)

----------------------------------------------------------------------------
(* Diff.  A pair of tables is [t, old]: Diff changes both, because the old   *)
(* table is passed by value but shares its slices.                           *)

\* Is item of the wanted table also in the current one?
IsShared(item, oldList) ==
  LET j == IdOf(oldList, item.name)
  IN  item.action = "add" /\ j > 0 /\ oldList.items[j].action # "no"

DiffSharedColumn(item, old) ==
  IF ~IsShared(item, old.cols) THEN item
  ELSE LET was == old.cols.items[IdOf(old.cols, item.name)]
       IN  IF HasChangedAttr(item.attr, was.attr)
           THEN [item EXCEPT !.action = "modify", !.prev = was.attr]
           ELSE [item EXCEPT !.action = "no"]

DiffSharedColumns(p) ==
  IF \E i \in DOMAIN p.t.cols.items :
       p.t.cols.items[i].action = "add" /\ IsStale(p.old.cols, p.t.cols.items[i].name)
  THEN [p EXCEPT !.t = Panicked(@)]
  ELSE [p EXCEPT !.t.cols.items = [i \in DOMAIN @ |-> DiffSharedColumn(@[i], p.old)]]

\* Deviation: a node that was dropped before is lost too.
IsLostWhenDropped(oldList, j, list) == IdOf(list, oldList.items[j].name) = 0

\* The node at j of list is an addition that the wanted list lacks.
IsLost(oldList, j, list) ==
  oldList.items[j].action = "add" /\ IdOf(list, oldList.items[j].name) = 0

\* Deviation: the place is one further.
PutLostColumnOneFurther(p, j) ==
  IF p.t.panic \/ ~IsLost(p.old.cols, j, p.t.cols) THEN p
  ELSE LET gone  == [p.old.cols.items[j] EXCEPT !.action = "remove"]
           added == AddColumn(p.t, gone)
       IN  [old |-> [p.old EXCEPT !.cols = SetItem(@, j, gone)],
            t   |-> SwapColumns(added, gone.name, Len(added.cols.items), j + 1)]

\* A lost column is put among the wanted ones with the action Remove, after the
\* place its predecessor has in the current table.
PutLostColumn(p, j) ==
  IF p.t.panic \/ ~IsLost(p.old.cols, j, p.t.cols) THEN p
  ELSE LET gone   == [p.old.cols.items[j] EXCEPT !.action = "remove"]
           old2   == [p.old EXCEPT !.cols = SetItem(@, j, gone)]
           added  == AddColumn(p.t, gone)
           before == IF j = 1 THEN 0 ELSE IdOf(old2.cols, old2.cols.items[j - 1].name)
       IN  [old |-> old2,
            t   |-> IF ~added.panic /\ (j = 1 \/ before > 0)
                    THEN SwapColumns(added, gone.name, Len(added.cols.items), before + 1)
                    ELSE added]

PutLostColumns(p) == FoldLeftDomain(PutLostColumn, p, p.old.cols.items)

\* A shared index with another definition takes the current one.
DiffSharedIndex(item, old) ==
  IF ~IsShared(item, old.idxs) THEN item
  ELSE LET was == old.idxs.items[IdOf(old.idxs, item.name)]
       IN  IF item.typ = was.typ /\ item.columns = was.columns
           THEN [item EXCEPT !.action = "no"]
           ELSE [was EXCEPT !.action = "modify"]

DiffSharedIndexes(p) ==
  [p EXCEPT !.t.idxs.items = [i \in DOMAIN @ |-> DiffSharedIndex(@[i], p.old)]]

PutLostIndex(p, j) ==
  IF p.t.panic \/ ~IsLost(p.old.idxs, j, p.t.idxs) THEN p
  ELSE LET gone == [p.old.idxs.items[j] EXCEPT !.action = "remove"]
       IN  [old |-> [p.old EXCEPT !.idxs = SetItem(@, j, gone)], t |-> AddIndex(p.t, gone)]

PutLostIndexes(p) == FoldLeftDomain(PutLostIndex, p, p.old.idxs.items)

\* A shared foreign key takes the current definition, the same or not.
DiffSharedKey(item, old) ==
  IF ~IsShared(item, old.fks) THEN item
  ELSE [old.fks.items[IdOf(old.fks, item.name)] EXCEPT !.action = "modify"]

DiffSharedKeys(p) ==
  [p EXCEPT !.t.fks.items = [i \in DOMAIN @ |-> DiffSharedKey(@[i], p.old)]]

PutLostKey(p, j) ==
  IF p.t.panic \/ ~IsLost(p.old.fks, j, p.t.fks) THEN p
  ELSE LET gone == [p.old.fks.items[j] EXCEPT !.action = "remove"]
       IN  [old |-> [p.old EXCEPT !.fks = SetItem(@, j, gone)], t |-> AddForeignKey(p.t, gone)]

PutLostKeys(p) == FoldLeftDomain(PutLostKey, p, p.old.fks.items)

\* The wanted and the current table after Diff; Migration.Diff gives the wanted
\* one the action No.
Diff(t, old) ==
  LET cols == PutLostColumns(DiffSharedColumns([t |-> t, old |-> old]))
      idxs == PutLostIndexes(DiffSharedIndexes(cols))
      fks  == PutLostKeys(DiffSharedKeys(idxs))
  IN  [fks EXCEPT !.t.action = "no"]

----------------------------------------------------------------------------
(* Writing the changes of a table whose action is No.                       *)

HasPrimaryKey(attr) == \E i \in DOMAIN attr.opts : IsPrimaryKey(attr.opts[i])

\* The options but for those of a set, in their order.
Omit(opts, gone) ==
  FoldLeft(LAMBDA some, o : IF o \in gone THEN some ELSE Append(some, o), <<>>, opts)

\* What a definition shows of the options: nothing after a comment, and no
\* Reference, which only marks the column.
Shown(opts) == Omit(UpToComment(opts), {Reference})

\* A redefinition of attr that was other: a key that stays is not repeated.
Redefined(attr, other) ==
  IF HasPrimaryKey(attr) /\ HasPrimaryKey(other)
  THEN Omit(Shown(attr.opts), {o \in {attr.opts[i] : i \in DOMAIN attr.opts} : IsPrimaryKey(o)})
  ELSE Shown(attr.opts)

ModifyTo(item, attr, other) ==
  [op |-> "modifyColumn", col |-> item.name, type |-> attr.type, opts |-> Redefined(attr, other)]

\* migrationUp of a column; after is the column it follows, Nil for none.
ColumnUp(item, after) ==
  CASE item.action = "add"    -> <<[op |-> "addColumn", col |-> item.name, type |-> item.attr.type,
                                    opts |-> Shown(item.attr.opts),
                                    pos |-> IF after = Nil THEN First ELSE After(after)]>>
    [] item.action = "remove" -> <<[op |-> "dropColumn", col |-> item.name]>>
    [] item.action = "modify" -> <<ModifyTo(item, item.attr, item.prev)>>
    [] item.action = "revert" -> <<ModifyTo(item, item.prev, item.attr)>>
    [] item.action = "rename" -> <<[op |-> "renameColumn", col |-> item.oldName, to |-> item.name]>>
    [] OTHER -> <<>>

IndexUp(item) ==
  LET create == [op |-> "createIndex", idx |-> item.name, typ |-> item.typ, columns |-> item.columns]
      drop   == [op |-> "dropIndex", idx |-> item.name]
  IN  CASE item.action = "add"    -> IF item.typ \in {"none", "unique"} THEN <<create>> ELSE <<>>
        [] item.action = "remove" -> <<drop>>
        [] item.action = "modify" -> <<drop, create>>
        [] item.action = "rename" -> <<[op |-> "renameIndex", idx |-> item.oldName, to |-> item.name]>>
        [] OTHER -> <<>>

ForeignKeyUp(item) ==
  CASE item.action = "add"    -> <<[op |-> "addForeignKey", fk |-> item.name,
                                    col |-> item.column, ref |-> item.ref]>>
    [] item.action = "remove" -> <<[op |-> "dropConstraint", fk |-> item.name]>>
    [] OTHER -> <<>>

\* migrationDown: the opposite change, written by migrationUp.  A modified
\* index is dropped and created again, a modified foreign key stays.
Undone(action) == CASE action = "add" -> "remove" [] action = "remove" -> "add" [] OTHER -> action

NamesSwapped(item) ==
  IF item.action = "rename" THEN [item EXCEPT !.name = item.oldName, !.oldName = item.name] ELSE item

UndoItem(item)   == [NamesSwapped(item) EXCEPT !.action = Undone(@)]
\* Deviation: a modified column is modified again.
UndoColumnModifies(item) == UndoItem(item)

UndoColumn(item) == [NamesSwapped(item) EXCEPT !.action = IF @ = "modify" THEN "revert" ELSE Undone(@)]

\* Deviation: the closest column, whatever its action.
ColumnJustBefore(items, i, skip) == IF i = 1 THEN Nil ELSE items[i - 1].name

\* The closest column before number i whose action is not skip.
ColumnBefore(items, i, skip) ==
  LET before == {j \in 1 .. i - 1 : items[j].action # skip}
  IN  IF before = {} \/ IgnoreFieldOrder THEN Nil ELSE items[Max(before)].name

NamesWith(items, action) == {items[i].name : i \in {j \in DOMAIN items : items[j].action = action}}

\* MigrationColumnUp and MigrationColumnDown.
ColumnsUp(items) ==
  FlattenSeq([i \in DOMAIN items |-> ColumnUp(items[i], ColumnBefore(items, i, "remove"))])
ColumnsDown(items) ==
  FlattenSeq([i \in DOMAIN items |-> ColumnUp(UndoColumn(items[i]), ColumnBefore(items, i, "add"))])

\* MigrationIndexUp and Down, MigrationForeignKeyUp and Down: in both
\* directions a node with the action Remove is left out when its column is
\* among the dropped ones.
IsWritten(item, column, dropped) == item.action # "remove" \/ column \notin dropped

IndexesUp(items, dropped) ==
  FlattenSeq([i \in DOMAIN items |->
    IF IsWritten(items[i], items[i].columns[1], dropped) THEN IndexUp(items[i]) ELSE <<>>])
IndexesDown(items, dropped) ==
  FlattenSeq([i \in DOMAIN items |->
    IF IsWritten(items[i], items[i].columns[1], dropped) THEN IndexUp(UndoItem(items[i])) ELSE <<>>])
ForeignKeysUp(items, dropped) ==
  FlattenSeq([i \in DOMAIN items |->
    IF IsWritten(items[i], items[i].column, dropped) THEN ForeignKeyUp(items[i]) ELSE <<>>])
ForeignKeysDown(items, dropped) ==
  FlattenSeq([i \in DOMAIN items |->
    IF IsWritten(items[i], items[i].column, dropped) THEN ForeignKeyUp(UndoItem(items[i])) ELSE <<>>])

\* MigrationUp and MigrationDown for one table: columns, then indexes, then keys.
Up(t) ==
  LET dropped == NamesWith(t.cols.items, "remove")
  IN  ColumnsUp(t.cols.items) \o IndexesUp(t.idxs.items, dropped)
        \o ForeignKeysUp(t.fks.items, dropped)
Down(t) ==
  LET dropped == NamesWith(t.cols.items, "add")
  IN  ColumnsDown(t.cols.items) \o IndexesDown(t.idxs.items, dropped)
        \o ForeignKeysDown(t.fks.items, dropped)

\* MigrationIndexUp reads the first column of every index, and a redefined index
\* takes the first statement of its creation: both may be missing.
WritingPanics(t) ==
  \E i \in DOMAIN t.idxs.items :
    \/ t.idxs.items[i].columns = <<>>
    \/ t.idxs.items[i].action = "modify" /\ t.idxs.items[i].typ \notin {"none", "unique"}

=============================================================================
