---------------------------- MODULE MigrationOps ----------------------------
(***************************************************************************)
(* The Migration of element/migration.go, a schema of several tables, as a *)
(* record with the fields                                                  *)
(*   tables  - the named list Tables/tableIndexes                          *)
(*   current - currentTable, which stands in for an empty table name       *)
(* its methods, and what the MySQL parser calls for each statement: Enter  *)
(* of sqlparser/mysql.go is called for a statement before it is called for *)
(* the nodes below it, and only the TableName below it makes the           *)
(* statement's table the current one.                                      *)
(***************************************************************************)
EXTENDS TableOps

NewMigration == [tables |-> EmptyList, current |-> Nil]

Using(m, tb) == [m EXCEPT !.current = tb]

\* The table of an empty name is the current one.
Named(m, tb) == IF tb = Nil THEN m.current ELSE tb

IsKnown(m, tb) == IdOf(m.tables, tb) > 0
TableOf(m, tb) == m.tables.items[IdOf(m.tables, tb)]

AddTable(m, t) == [m EXCEPT !.tables = PutItem(@, t)]

\* Deviation: the list forgets the table.
RemoveTableForgets(m, tb) == m

RemoveTable(m, tb) ==
  [m EXCEPT !.tables = RemoveItem(@, tb, NewTableWithAction(tb, "remove"))]

RenameTable(m, old, new) ==
  [m EXCEPT !.tables = RenameItem(@, old, new, "remove")]

\* The schema with a table tb: the methods that add or remove something make an
\* unknown table known, those that rename something ignore it.
Ensured(m, tb) ==
  IF IsKnown(m, tb) THEN m ELSE AddTable(m, NewTableWithAction(tb, "modify"))

\* Table tb becomes t.
SetTable(m, tb, t) == [m EXCEPT !.tables = SetItem(@, IdOf(@, tb), t)]

\* Deviation: the table's name is not used.
SchemaAddColumnToCurrent(m, tb, col) ==
  SetTable(m, m.current, AddColumn(TableOf(m, m.current), col))

SchemaAddColumn(m, tb, col) ==
  LET n == Named(m, tb)
      e == Ensured(m, n)
  IN  SetTable(e, n, AddColumn(TableOf(e, n), col))

SchemaRemoveColumn(m, tb, col) ==
  LET e == Ensured(m, tb) IN SetTable(e, tb, RemoveColumn(TableOf(e, tb), col))

\* Deviation: the table's name is not used.
SchemaAddIndexToCurrent(m, tb, idx) ==
  LET e == Ensured(m, m.current)
  IN  SetTable(e, m.current, AddIndex(TableOf(e, m.current), idx))

SchemaAddIndex(m, tb, idx) ==
  LET e == Ensured(m, tb) IN SetTable(e, tb, AddIndex(TableOf(e, tb), idx))

SchemaRemoveIndex(m, tb, idx) ==
  LET e == Ensured(m, tb) IN SetTable(e, tb, RemoveIndex(TableOf(e, tb), idx))

SchemaAddForeignKey(m, tb, fk) ==
  LET n == Named(m, tb)
      e == Ensured(m, n)
  IN  SetTable(e, n, AddForeignKey(TableOf(e, n), fk))

SchemaRemoveForeignKey(m, tb, fk) ==
  LET e == Ensured(m, tb) IN SetTable(e, tb, RemoveForeignKey(TableOf(e, tb), fk))

SchemaRenameColumn(m, tb, old, new) ==
  IF IsKnown(m, tb) THEN SetTable(m, tb, RenameColumn(TableOf(m, tb), old, new)) ELSE m

SchemaRenameIndex(m, tb, old, new) ==
  IF IsKnown(m, tb) THEN SetTable(m, tb, RenameIndex(TableOf(m, tb), old, new)) ELSE m

SetColumnPosition(m, tb, pos) ==
  LET n == Named(m, tb)
  IN  IF IsKnown(m, n) THEN SetTable(m, n, [TableOf(m, n) EXCEPT !.pos = pos]) ELSE m

----------------------------------------------------------------------------
(* The statements.  An ALTER TABLE is a sequence of specifications, each a     *)
(* statement record of DbOps.tla.                                           *)

\* The parser died while it read a statement about table tb.
SchemaPanicked(m, tb) ==
  LET e == Ensured(m, tb) IN SetTable(e, tb, Panicked(TableOf(e, tb)))

SchemaPanics(m) == \E i \in DOMAIN m.tables.items : m.tables.items[i].panic

\* What Enter does for the ALTER TABLE itself.  A position and a foreign key are
\* given to the empty table name (Text() of a TableName is empty).  A DROP FOREIGN
\* KEY has no Constraint to take the name from, and DROP CONSTRAINT no case.
EnterSpec(m, tb, spec) ==
  CASE spec.op = "addColumn" ->
         IF spec.pos = NoPosition THEN m ELSE SetColumnPosition(m, Nil, spec.pos)
    [] spec.op = "addForeignKey" ->
         SchemaAddForeignKey(m, Nil, ForeignKey(spec.fk, "add", spec.col, spec.ref))
    [] spec.op = "dropColumn"     -> SchemaRemoveColumn(m, tb, spec.col)
    [] spec.op = "dropForeignKey" -> SchemaPanicked(m, tb)
    [] spec.op = "dropConstraint" -> m
    [] spec.op = "modifyColumn"   ->
         SchemaAddColumn(m, tb, Column(spec.col, "modify", [type |-> spec.type, opts |-> <<>>]))
    [] spec.op = "renameColumn"   -> SchemaRenameColumn(m, tb, spec.col, spec.to)
    [] spec.op = "renameTable"    -> RenameTable(m, tb, spec.to)
    [] spec.op = "renameIndex"    -> SchemaRenameIndex(m, tb, spec.idx, spec.to)

\* What it does for the nodes below: column definitions and table names.
VisitSpec(m, spec) ==
  CASE spec.op \in {"addColumn", "modifyColumn"} ->
         SchemaAddColumn(m, Nil, Column(spec.col, "add", [type |-> spec.type, opts |-> spec.opts]))
    [] spec.op = "addForeignKey" -> Using(m, spec.ref)
    [] spec.op = "renameTable"   -> Using(m, spec.to)
    [] OTHER -> m

ReadAlter(m, tb, specs) ==
  LET entered == FoldLeft(LAMBDA s, spec : EnterSpec(s, tb, spec), m, specs)
  IN  FoldLeft(VisitSpec, Using(entered, tb), specs)

\* CREATE TABLE: its indexes first, its columns when they are visited.
ReadCreateTable(m, tb, cols, idxs) ==
  FoldLeft(LAMBDA s, c : SchemaAddColumn(s, Nil, c),
           AddTable(Using(m, tb), FoldLeft(AddIndex, NewTable(tb), idxs)), cols)

ReadDropTable(m, tbs) == FoldLeft(Using, FoldLeft(RemoveTable, m, tbs), tbs)

ReadCreateIndex(m, tb, idx) == Using(SchemaAddIndex(m, tb, idx), tb)

\* Deviation: DROP INDEX is read as nothing.
ReadDropIndexSkips(m, tb, idx) == Using(m, tb)

ReadDropIndex(m, tb, idx) == Using(SchemaRemoveIndex(m, tb, idx), tb)

=============================================================================
