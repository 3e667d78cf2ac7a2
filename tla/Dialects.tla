------------------------------ MODULE Dialects ------------------------------
(***************************************************************************)
(* The three parsers of sqlparser/ side by side.  MySQL's is Migration.tla; *)
(* those of PostgreSQL and SQLite walk trees of other libraries, know fewer *)
(* statements and file them differently: both name the table of an ALTER    *)
(* TABLE, PostgreSQL gives its indexes to the current table, which only a   *)
(* CREATE TABLE makes, and reads one command of an ALTER TABLE, SQLite reads *)
(* one statement of a text.                                                 *)
(*                                                                         *)
(* What a parser misreads has a name here, and Misread is the set of the    *)
(* names of what the migrations contain:                                   *)
(*   constraint       PostgreSQL: UNIQUE among the constraints of a table   *)
(*   statement        SQLite: a CREATE INDEX behind a CREATE TABLE          *)
(*   strayIndex       PostgreSQL: CREATE or DROP INDEX of another table     *)
(*   secondCommand    PostgreSQL: ALTER TABLE with several commands         *)
(*   setType, setDefault, dropNotNull   PostgreSQL: ALTER COLUMN            *)
(*   dropConstraint   PostgreSQL: a name that does not tell what it is of   *)
(*   dropTable        PostgreSQL: DROP TABLE                                *)
(*   dropIndex        SQLite: DROP INDEX                                    *)
(***************************************************************************)
EXTENDS Migration

CONSTANTS
  Dialects,    \* which of "mysql", "postgres" and "sqlite"
  Misread,
  FkPrefixed,  \* the names of constraints that start with fk
  PgAlters,    \* PostgreSQL's ALTER TABLEs: sequences of commands
  LiteAlters   \* SQLite's: statements of DbOps.tla

ASSUME DialectsAssumption == Dialects \subseteq {"mysql", "postgres", "sqlite"}

VARIABLE dialect

dvars == <<schema, db, used, dialect>>

----------------------------------------------------------------------------
(* The database.  Three commands of PostgreSQL are not in DbOps.tla.         *)

Default(v) == [tp |-> "default", val |-> v]
IsDefault(option) == option.tp = "default"

IsAlterColumn(cmd) == cmd.op \in {"setType", "setDefault", "dropNotNull"}

PgLegal(dbt, cmd) ==
  IF IsAlterColumn(cmd) THEN cmd.col \in ColumnNamesOf(dbt) ELSE Legal(dbt, cmd)

\* The parser reads no NOT NULL, so that the model's columns have none to drop.
PgExec(dbt, cmd) ==
  LET col == dbt.cols[PlaceOf(dbt, cmd.col)]
  IN  CASE cmd.op = "setType" -> SetDbColumn(dbt, cmd.col, [col EXCEPT !.type = cmd.type])
        [] cmd.op = "setDefault" ->
             SetDbColumn(dbt, cmd.col,
               [col EXCEPT !.opts = {o \in @ : ~IsDefault(o)} \cup {Default(cmd.val)}])
        [] cmd.op = "dropNotNull" -> dbt
        [] OTHER -> Exec(dbt, cmd)

PgAccepts(tb, cmds) ==
  \A k \in DOMAIN cmds :
    /\ PgLegal(FoldLeft(PgExec, db[tb], SubSeq(cmds, 1, k - 1)), cmds[k])
    /\ cmds[k].op = "addForeignKey" => cmds[k].ref \in DOMAIN db

----------------------------------------------------------------------------
(* The parser of PostgreSQL.                                                *)

\* AddColumn in a dialect whose type is not the MySQL one: that of a column that is
\* merged stays (element/table.go:76).
AddOtherColumn(t, col) ==
  LET id == IdOf(t.cols, col.name)
  IN  IF id > 0 /\ t.cols.items[id].action = "add"
      THEN MergeColumn(t, id, [col EXCEPT !.attr.type = t.cols.items[id].attr.type])
      ELSE AddColumn(t, col)

SchemaAddOtherColumn(m, tb, col) ==
  LET e == Ensured(m, tb) IN SetTable(e, tb, AddOtherColumn(TableOf(e, tb), col))

\* Deviation: every constraint is taken for an index.
PgDropConstraintOfIndex(m, tb, name) == SchemaRemoveIndex(m, tb, name)

\* A constraint whose name starts with fk is a foreign key.
PgDropConstraint(m, tb, name) ==
  IF name \in FkPrefixed THEN SchemaRemoveForeignKey(m, tb, name)
  ELSE SchemaRemoveIndex(m, tb, name)

\* A command of an ALTER TABLE.
PgReadCommand(m, tb, cmd) ==
  CASE cmd.op = "renameColumn" -> SchemaRenameColumn(m, tb, cmd.col, cmd.to)
    [] cmd.op = "renameIndex"  -> SchemaRenameIndex(m, tb, cmd.idx, cmd.to)
    [] cmd.op = "addColumn"    ->
         SchemaAddOtherColumn(m, tb, Column(cmd.col, "add", [type |-> cmd.type, opts |-> cmd.opts]))
    [] cmd.op \in {"dropColumn", "dropNotNull"} -> SchemaRemoveColumn(m, tb, cmd.col)
    [] cmd.op = "setType"      ->
         SchemaAddOtherColumn(m, tb, Column(cmd.col, "modify", [type |-> cmd.type, opts |-> <<>>]))
    [] cmd.op = "setDefault"   ->
         SchemaAddOtherColumn(m, tb,
           Column(cmd.col, "modify", [type |-> NoType, opts |-> <<Default(cmd.val)>>]))
    [] cmd.op = "createIndex"  ->
         SchemaAddIndex(m, tb, Index(cmd.idx, "add", cmd.typ, cmd.columns))
    [] cmd.op = "addForeignKey" ->
         SchemaAddForeignKey(m, tb, ForeignKey(cmd.fk, "add", cmd.col, cmd.ref))
    [] cmd.op = "dropIndex"      -> PgDropConstraint(m, tb, cmd.idx)
    [] cmd.op = "dropConstraint" -> PgDropConstraint(m, tb, cmd.fk)

\* The name of what is misread in a command, "none" when it is read right.
PgMisreading(tb, cmd) ==
  LET t   == TableOf(schema, tb)
      col == t.cols.items[IdOf(t.cols, cmd.col)]
  IN  CASE cmd.op = "setType" /\ (col.action = "add" \/ col.attr.opts # <<>>) -> "setType"
        [] cmd.op = "setDefault"
             /\ (col.action # "add" \/ \E o \in OptionsOf(col.attr) : IsDefault(o)) -> "setDefault"
        [] cmd.op = "dropNotNull" -> "dropNotNull"
        [] cmd.op = "dropIndex" /\ cmd.idx \in FkPrefixed -> "dropConstraint"
        [] cmd.op = "dropConstraint" /\ cmd.fk \notin FkPrefixed -> "dropConstraint"
        [] OTHER -> "none"

----------------------------------------------------------------------------
(* The statements, of either dialect or of one.                              *)

\* Where a text says that a new table has an index: in a column's definition,
\* among the table's constraints, or in a CREATE INDEX behind the CREATE TABLE;
\* and where the parser reads it.
PlacesOfIndex == [postgres |-> {"column", "constraint", "statement"},
                  sqlite   |-> {"constraint", "statement"}]
PlacesRead    == [postgres |-> {"column", "statement"}, sqlite |-> {"constraint"}]

CreateTableOf(tb, names, idxs, n, place) ==
  LET read == IF place \in PlacesRead[dialect] THEN idxs ELSE <<>>
      made == FoldLeft(LAMBDA m, name : SchemaAddOtherColumn(m, tb, Column(name, "add", Attr)),
                       Using(AddTable(schema, NewTable(tb)), tb), names)
  IN  /\ tb \notin DOMAIN db
      /\ idxs # <<>> => n \in {names[k] : k \in DOMAIN names}
      /\ place \in PlacesOfIndex[dialect]
      /\ read = idxs \/ place \in Misread
      /\ schema' = FoldLeft(LAMBDA m, i : SchemaAddIndex(m, tb, Index(i, "add", "unique", <<n>>)),
                            made, read)
      /\ db' = With(db, tb, NewDbTable(names, idxs, n, "unique"))
      /\ used' = With(used, tb, {names[k] : k \in DOMAIN names})
      /\ WithinBounds

\* DROP TABLE: PostgreSQL's is not among what the walker looks at.
DropTableOf(tb) ==
  /\ tb \in DOMAIN db
  /\ Referring(tb) \subseteq {tb}
  /\ dialect = "postgres" => "dropTable" \in Misread
  /\ schema' = IF dialect = "sqlite" THEN RemoveTable(schema, tb) ELSE schema
  /\ db' = Without(db, {tb})
  /\ used' = Without(used, {tb})

\* A table is renamed and the current table stays what it was.
RenameToOf(tb, to) ==
  /\ tb \in DOMAIN db /\ to \notin DOMAIN db
  /\ Referring(tb) = {}
  /\ schema' = RenameTable(schema, tb, to)
  /\ db' = Without(With(db, to, db[tb]), {tb})
  /\ used' = Without(With(used, to, used[tb]), {tb})

PgAlterTable(tb, cmds) ==
  /\ tb \in DOMAIN db
  /\ NewNames(cmds) \cap used[tb] = {}
  /\ PgAccepts(tb, cmds)
  /\ \A k \in DOMAIN cmds :
       cmds[k].op \in {"dropColumn", "renameColumn"} => ~IsMentioned(db[tb], cmds[k].col)
  /\ Len(cmds) > 1 => "secondCommand" \in Misread
  /\ PgMisreading(tb, cmds[1]) \in Misread \cup {"none"}
  /\ schema' = PgReadCommand(schema, tb, cmds[1])
  /\ db' = [db EXCEPT ![tb] = FoldLeft(PgExec, @, cmds)]
  /\ used' = [used EXCEPT ![tb] = @ \cup NewNames(cmds)]
  /\ WithinBounds

LiteAlterTable(tb, stm) ==
  /\ tb \in DOMAIN db
  /\ NewNames(<<stm>>) \cap used[tb] = {}
  /\ Legal(db[tb], stm)
  /\ stm.op = "renameColumn" => ~IsMentioned(db[tb], stm.col)
  /\ schema' = IF stm.op = "renameColumn"
               THEN SchemaRenameColumn(schema, tb, stm.col, stm.to)
               ELSE SchemaAddOtherColumn(schema, tb,
                      Column(stm.col, "add", [type |-> stm.type, opts |-> stm.opts]))
  /\ db' = [db EXCEPT ![tb] = Exec(@, stm)]
  /\ used' = [used EXCEPT ![tb] = @ \cup NewNames(<<stm>>)]
  /\ WithinBounds

\* The table that CREATE INDEX and DROP INDEX are filed under.
FiledUnder(tb) == IF dialect = "postgres" THEN schema.current ELSE tb

CreateIndexOf(tb, i, n) ==
  LET stm == [op |-> "createIndex", idx |-> i, typ |-> "unique", columns |-> <<n>>]
  IN  /\ tb \in DOMAIN db
      /\ Legal(db[tb], stm)
      /\ FiledUnder(tb) = tb \/ "strayIndex" \in Misread
      /\ schema' = SchemaAddIndex(schema, FiledUnder(tb), Index(i, "add", "unique", <<n>>))
      /\ db' = [db EXCEPT ![tb] = Exec(@, stm)]
      /\ UNCHANGED used
      /\ WithinBounds

\* SQLite's DROP INDEX names no table, and its case is empty.
DropIndexOf(tb, i) ==
  LET stm == [op |-> "dropIndex", idx |-> i]
  IN  /\ tb \in DOMAIN db
      /\ Legal(db[tb], stm)
      /\ FiledUnder(tb) = tb \/ "strayIndex" \in Misread
      /\ dialect = "sqlite" => "dropIndex" \in Misread
      /\ schema' = IF dialect = "postgres" THEN SchemaRemoveIndex(schema, FiledUnder(tb), i)
                   ELSE schema
      /\ db' = [db EXCEPT ![tb] = Exec(@, stm)]
      /\ UNCHANGED used

----------------------------------------------------------------------------
DialectsInit == Init /\ dialect \in Dialects

OtherNext ==
  \/ \E tb \in TableNames, names \in Creates, idxs \in BoundedSeq(IndexNames, 1),
        n \in KeyColumns, place \in {"column", "constraint", "statement"} :
       CreateTableOf(tb, names, idxs, n, place)
  \/ \E tb \in TableNames : DropTableOf(tb)
  \/ \E tb, to \in TableNames : RenameToOf(tb, to)
  \/ \E tb \in TableNames, i \in IndexNames, n \in KeyColumns : CreateIndexOf(tb, i, n)
  \/ \E tb \in TableNames, i \in IndexNames : DropIndexOf(tb, i)

DialectsNext ==
  /\ UNCHANGED dialect
  /\ \/ dialect = "mysql" /\ Next
     \/ dialect # "mysql" /\ OtherNext
     \/ /\ dialect = "postgres"
        /\ \E tb \in TableNames, cmds \in PgAlters : PgAlterTable(tb, cmds)
     \/ /\ dialect = "sqlite"
        /\ \E tb \in TableNames, stm \in LiteAlters : LiteAlterTable(tb, stm)

DialectsSpec == DialectsInit /\ [][DialectsNext]_dvars

=============================================================================
