---------------------------- MODULE SchemaDiffOps ----------------------------
(***************************************************************************)
(* Migration.Diff of element/migration.go, and MigrationUp and             *)
(* MigrationDown for every table: those that both schemas have are written *)
(* by DiffOps.tla, the others are created or dropped.  A script is a       *)
(* sequence of [tb, stm]: a table name and a statement record of DbOps.tla *)
(* or one of                                                               *)
(*   [op |-> "createTable", cols |-> definitions]                          *)
(*   [op |-> "dropTable"]           (DROP TABLE IF EXISTS)                 *)
(***************************************************************************)
EXTENDS MigrationOps, DiffOps

CONSTANT DefaultMigrationTable   \* the table that scripts leave alone

----------------------------------------------------------------------------
(* Diff.  A pair of schemas is [m, old]: Diff changes both.                   *)

\* Deviation: a table is compared with the one at its place.
DiffSharedTableByPlace(p, i) ==
  IF i > Len(p.old.tables.items) THEN p
  ELSE LET both == Diff(p.m.tables.items[i], p.old.tables.items[i])
       IN  [m   |-> [p.m EXCEPT !.tables = SetItem(@, i, both.t)],
            old |-> [p.old EXCEPT !.tables = SetItem(@, i, both.old)]]

DiffSharedTable(p, i) ==
  LET j    == IdOf(p.old.tables, p.m.tables.items[i].name)
      both == Diff(p.m.tables.items[i], p.old.tables.items[j])
  IN  IF j = 0 THEN p
      ELSE [m   |-> [p.m EXCEPT !.tables = SetItem(@, i, both.t)],
            old |-> [p.old EXCEPT !.tables = SetItem(@, j, both.old)]]

\* Deviation: a table that only the migrations have stays.
PutLostTableSkips(p, j) == p

\* A table that the wanted schema lacks is added to it with the action Remove.
PutLostTable(p, j) ==
  LET gone == [p.old.tables.items[j] EXCEPT !.action = "remove"]
  IN  IF IsKnown(p.m, gone.name) THEN p
      ELSE [m   |-> AddTable(p.m, gone),
            old |-> [p.old EXCEPT !.tables = SetItem(@, j, gone)]]

SchemaDiff(m, old) ==
  LET shared == FoldLeftDomain(DiffSharedTable, [m |-> m, old |-> old], m.tables.items)
  IN  FoldLeftDomain(PutLostTable, shared, old.tables.items)

----------------------------------------------------------------------------
(* Writing.                                                                  *)

Definition(item) == [name |-> item.name, type |-> item.attr.type, opts |-> Shown(item.attr.opts)]

\* CREATE TABLE takes the nodes a database would hold, in their order, and the
\* indexes and foreign keys that were added and neither renamed nor modified.
Creation(t) ==
  LET cols == LiveItems(t.cols)
      idxs == t.idxs.items
      fks  == t.fks.items
  IN  <<[op |-> "createTable", cols |-> [i \in DOMAIN cols |-> Definition(cols[i])]]>>
        \o FlattenSeq([i \in DOMAIN idxs |->
                         IF idxs[i].action = "add" THEN IndexUp(idxs[i]) ELSE <<>>])
        \o FlattenSeq([i \in DOMAIN fks |->
                         IF fks[i].action = "add" THEN ForeignKeyUp(fks[i]) ELSE <<>>])

Dropping == <<[op |-> "dropTable"]>>

TableUp(t) ==
  CASE t.action = "no"     -> Up(t)
    [] t.action = "add"    -> Creation(t)
    [] t.action = "remove" -> Dropping
    [] OTHER -> <<>>

\* Deviation: a dropped table does not come back.
TableDownForgets(t) ==
  CASE t.action = "no"     -> Down(t)
    [] t.action = "add"    -> Dropping
    [] OTHER -> <<>>

TableDown(t) ==
  CASE t.action = "no"     -> Down(t)
    [] t.action = "add"    -> Dropping
    [] t.action = "remove" -> Creation(t)
    [] OTHER -> <<>>

\* Deviation: no table is left alone.
IsLeftAloneNever(t) == FALSE

IsLeftAlone(t) == t.name = DefaultMigrationTable

TableScript(t, stms) ==
  IF IsLeftAlone(t) THEN <<>> ELSE [k \in DOMAIN stms |-> [tb |-> t.name, stm |-> stms[k]]]

\* Both directions go through the tables in the same order.
SchemaUp(m) ==
  LET ts == m.tables.items IN FlattenSeq([i \in DOMAIN ts |-> TableScript(ts[i], TableUp(ts[i]))])
SchemaDown(m) ==
  LET ts == m.tables.items IN FlattenSeq([i \in DOMAIN ts |-> TableScript(ts[i], TableDown(ts[i]))])

\* A table is arranged before it is written; one that is created, by the script or
\* by its inverse, is read at its first column.
ArrangeTable(t, created) ==
  IF IsLeftAlone(t) THEN t
  ELSE IF \/ t.action = "no" /\ WritingPanics(t)
          \/ t.action = created /\ t.cols.items = <<>>
       THEN Panicked(t)
       ELSE Arrange(t)
ArrangeTables(m, created) ==
  [m EXCEPT !.tables.items = [i \in DOMAIN @ |-> ArrangeTable(@[i], created)]]

----------------------------------------------------------------------------
(* Reading a script.                                                         *)
ReadScriptStatement(m, s) ==
  CASE s.stm.op = "createTable" ->
         ReadCreateTable(m, s.tb,
           [i \in DOMAIN s.stm.cols |->
              Column(s.stm.cols[i].name, "add",
                     [type |-> s.stm.cols[i].type, opts |-> s.stm.cols[i].opts])], <<>>)
    [] s.stm.op = "dropTable"   -> ReadDropTable(m, <<s.tb>>)
    [] s.stm.op = "createIndex" ->
         ReadCreateIndex(m, s.tb, Index(s.stm.idx, "add", s.stm.typ, s.stm.columns))
    [] s.stm.op = "dropIndex"   -> ReadDropIndex(m, s.tb, s.stm.idx)
    [] OTHER -> ReadAlter(m, s.tb, <<s.stm>>)

ReadScript(m, script) == FoldLeft(ReadScriptStatement, m, script)

=============================================================================
