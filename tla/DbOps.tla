-------------------------------- MODULE DbOps --------------------------------
(***************************************************************************)
(* What a database does with the DDL statements of one table: the external *)
(* system the migrations are for.  The code in src/ writes these           *)
(* statements (sqltemplates/ddl.go) and reads them back (sqlparser/); what *)
(* they mean here is what that code takes for granted.  In particular a    *)
(* dropped column takes with it the indexes it leads and its foreign keys, *)
(* because MigrationIndexUp and MigrationForeignKeyUp (element/table.go)   *)
(* write no DROP for them; and a MODIFY COLUMN leaves the primary key      *)
(* alone, because migrationUp (element/column.go) does not repeat it.      *)
(*                                                                         *)
(* A table of the database is a record:                                    *)
(*   cols - the columns in order, [name, type, opts], opts a set           *)
(*   idxs - index names to [typ, columns]                                  *)
(*   fks  - foreign key names to [column, ref]                             *)
(* A statement is a record whose field op names it.  A foreign key has two *)
(* that drop it, DROP FOREIGN KEY and DROP CONSTRAINT: the same to a       *)
(* database, and not to the parser.                                        *)
(***************************************************************************)
EXTENDS Integers, Sequences

KeyDrops == {"dropForeignKey", "dropConstraint"}

EmptyFunction == [n \in {} |-> 0]

\* A table with no column, index or foreign key.
EmptyDbTable == [cols |-> <<>>, idxs |-> EmptyFunction, fks |-> EmptyFunction]

ColumnNamesOf(db) == {db.cols[i].name : i \in 1 .. Len(db.cols)}

\* The position of column n, 0 when the table has no such column.
PlaceOf(db, n) ==
  IF n \in ColumnNamesOf(db)
  THEN CHOOSE i \in 1 .. Len(db.cols) : db.cols[i].name = n
  ELSE 0

\* Does an index or a foreign key mention column n?
IsMentioned(db, n) ==
  \/ \E i \in DOMAIN db.idxs : \E k \in DOMAIN db.idxs[i].columns : db.idxs[i].columns[k] = n
  \/ \E f \in DOMAIN db.fks : db.fks[f].column = n

Without(f, S) == [n \in DOMAIN f \ S |-> f[n]]
With(f, n, v) == [m \in DOMAIN f \cup {n} |-> IF m = n THEN v ELSE f[m]]

----------------------------------------------------------------------------
\* The statements a database accepts.
Legal(db, stm) ==
  LET cols == ColumnNamesOf(db)
  IN  CASE stm.op = "addColumn"    -> /\ stm.col \notin cols
                                      /\ stm.pos.tp = "after" => stm.pos.rel \in cols
        [] stm.op = "dropColumn"   -> stm.col \in cols /\ Len(db.cols) > 1
        [] stm.op = "renameColumn" -> stm.col \in cols /\ stm.to \notin cols
        [] stm.op = "modifyColumn" -> stm.col \in cols
        [] stm.op = "createIndex"  -> /\ stm.idx \notin DOMAIN db.idxs
                                      /\ \A k \in DOMAIN stm.columns : stm.columns[k] \in cols
        [] stm.op = "dropIndex"    -> stm.idx \in DOMAIN db.idxs
        [] stm.op = "renameIndex"  -> stm.idx \in DOMAIN db.idxs /\ stm.to \notin DOMAIN db.idxs
        [] stm.op = "addForeignKey"  -> stm.fk \notin DOMAIN db.fks /\ stm.col \in cols
        [] stm.op \in KeyDrops      -> stm.fk \in DOMAIN db.fks

\* ADD COLUMN puts the column last unless it says FIRST or AFTER.
AddDbColumn(db, stm) ==
  LET at == CASE stm.pos.tp = "first" -> 1
              [] stm.pos.tp = "after" -> PlaceOf(db, stm.pos.rel) + 1
              [] OTHER -> Len(db.cols) + 1
      new == [name |-> stm.col, type |-> stm.type,
              opts |-> {stm.opts[i] : i \in DOMAIN stm.opts}]
  IN  [db EXCEPT !.cols = SubSeq(@, 1, at - 1) \o <<new>> \o SubSeq(@, at, Len(@))]

DropDbColumn(db, n) ==
  LET at == PlaceOf(db, n)
  IN  [cols |-> SubSeq(db.cols, 1, at - 1) \o SubSeq(db.cols, at + 1, Len(db.cols)),
       idxs |-> Without(db.idxs, {i \in DOMAIN db.idxs : db.idxs[i].columns[1] = n}),
       fks  |-> Without(db.fks, {f \in DOMAIN db.fks : db.fks[f].column = n})]

\* The column of name n is overwritten.
SetDbColumn(db, n, col) == [db EXCEPT !.cols = [db.cols EXCEPT ![PlaceOf(db, n)] = col]]

RenameDbColumn(db, n, to) ==
  SetDbColumn(db, n, [db.cols[PlaceOf(db, n)] EXCEPT !.name = to])

\* MODIFY COLUMN replaces the definition; a primary key stays.
ModifyDbColumn(db, stm) ==
  SetDbColumn(db, stm.col,
    [name |-> stm.col, type |-> stm.type,
     opts |-> {stm.opts[i] : i \in DOMAIN stm.opts}
                \cup {o \in db.cols[PlaceOf(db, stm.col)].opts : o.tp = "primary"}])

\* The table after a legal statement.
Exec(db, stm) ==
  CASE stm.op = "addColumn"    -> AddDbColumn(db, stm)
    [] stm.op = "dropColumn"   -> DropDbColumn(db, stm.col)
    [] stm.op = "renameColumn" -> RenameDbColumn(db, stm.col, stm.to)
    [] stm.op = "modifyColumn" -> ModifyDbColumn(db, stm)
    [] stm.op = "createIndex"  ->
         [db EXCEPT !.idxs = With(@, stm.idx, [typ |-> stm.typ, columns |-> stm.columns])]
    [] stm.op = "dropIndex"    -> [db EXCEPT !.idxs = Without(@, {stm.idx})]
    [] stm.op = "renameIndex"  ->
         [db EXCEPT !.idxs = Without(With(@, stm.to, @[stm.idx]), {stm.idx})]
    [] stm.op = "addForeignKey"  ->
         [db EXCEPT !.fks = With(@, stm.fk, [column |-> stm.col, ref |-> stm.ref])]
    [] stm.op \in KeyDrops      -> [db EXCEPT !.fks = Without(@, {stm.fk})]

=============================================================================
