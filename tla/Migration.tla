------------------------------ MODULE Migration ------------------------------
(***************************************************************************)
(* A schema of several tables whose migrations are executed by a database  *)
(* and read by sqlize.  Table.tla follows one table closely; here the      *)
(* question is whether every statement reaches the table it is about, and  *)
(* only that one, although part of it is filed under the table of the      *)
(* statement before (MigrationOps.tla).                                    *)
(*                                                                         *)
(* schema  the Migration the parser builds                                 *)
(* db      the database: table names to tables (DbOps.tla)                 *)
(* used    table names to the column names the table has ever had          *)
(***************************************************************************)
EXTENDS MigrationOps, DbOps

CONSTANTS
  TableNames, ColumnNames, IndexNames, FkNames, Type,
  KeyColumns,  \* the columns that indexes are on
  Creates,     \* the column names of the CREATE TABLEs, in order
  Alters,      \* the ALTER TABLEs: sequences of statements of DbOps.tla
  Strays,      \* may a statement of which a part goes to the current table be
               \* about another one, or have an order that matters
  MaxItems,    \* bound on the length of every list of nodes
  MaxOptions   \* bound on the length of a column's option list

\* What an ALTER TABLE consists of, and the places it gives to a new column.
AlterOps  == {"addColumn", "dropColumn", "renameColumn", "modifyColumn", "renameIndex",
              "addForeignKey"} \cup KeyDrops
Places    == {"nil", "none", "first", "after"}
IsSeq(s)  == s \in Seq({s[k] : k \in DOMAIN s})

\* A specification speaks of the names there are, and a definition's options are
\* not those that AddForeignKey sets.
IsSpec(spec) ==
  LET columnOps == {"addColumn", "dropColumn", "renameColumn", "modifyColumn", "addForeignKey"}
  IN  /\ spec.op \in columnOps => spec.col \in ColumnNames
      /\ spec.op = "addColumn" =>
           spec.pos \in {NoPosition, PositionNone, First} \cup {After(n) : n \in ColumnNames}
      /\ spec.op \in {"addColumn", "modifyColumn"} =>
           /\ spec.opts \in Seq([tp : STRING, val : STRING])
           /\ \A i \in DOMAIN spec.opts : spec.opts[i] # Reference
      /\ spec.op = "renameColumn" => spec.to \in ColumnNames
      /\ spec.op = "renameIndex"  => spec.idx \in IndexNames /\ spec.to \in IndexNames
      /\ spec.op \in {"addForeignKey"} \cup KeyDrops => spec.fk \in FkNames
      /\ spec.op = "addForeignKey" => spec.ref \in TableNames

\* The empty name stands for the current table: no table has it.
ASSUME MigrationAssumption ==
  /\ Nil \notin TableNames
  /\ KeyColumns \subseteq ColumnNames
  /\ \A names \in Creates :
       /\ IsSeq(names) /\ IsInjective(names)
       /\ \A k \in DOMAIN names : names[k] \in ColumnNames
  /\ \A specs \in Alters :
       /\ IsSeq(specs)
       /\ \A k \in DOMAIN specs :
            /\ specs[k].op \in AlterOps
            /\ specs[k].op = "addColumn" => specs[k].pos.tp \in Places
            /\ IsSpec(specs[k])
  /\ Strays \in BOOLEAN
  /\ MaxItems \in Nat
  /\ MaxOptions \in Nat

\* A specification that defines a column.
Defines(spec) == spec.op \in {"addColumn", "modifyColumn"}

VARIABLES schema, db, used

vars == <<schema, db, used>>

Attr == [type |-> Type, opts |-> <<>>]

----------------------------------------------------------------------------
(* The database.                                                            *)

\* A database accepts the specifications of an ALTER TABLE one after another, and
\* one definition of a column.
LegalAlter(tb, specs) ==
  /\ \A k \in DOMAIN specs :
       /\ Legal(FoldLeft(Exec, db[tb], SubSeq(specs, 1, k - 1)), specs[k])
       /\ specs[k].op = "addForeignKey" => specs[k].ref \in DOMAIN db
  /\ \A j, k \in DOMAIN specs :
       Defines(specs[j]) /\ Defines(specs[k]) /\ specs[j].col = specs[k].col => j = k

\* The tables with a foreign key that refers to tb.
Referring(tb) == {t \in DOMAIN db : \E f \in DOMAIN db[t].fks : db[t].fks[f].ref = tb}

\* A new table with columns and, all of them on column n, indexes.
NewDbTable(names, idxs, n, typ) ==
  [cols |-> [k \in DOMAIN names |-> [name |-> names[k], type |-> Type, opts |-> {}]],
   idxs |-> [i \in {idxs[k] : k \in DOMAIN idxs} |-> [typ |-> typ, columns |-> <<n>>]],
   fks  |-> EmptyFunction]

----------------------------------------------------------------------------
(* Bounds and preconditions.                                                *)

HasRoom(t) ==
  /\ \A list \in {t.cols, t.idxs, t.fks} : Len(list.items) <= MaxItems
  /\ \A i \in DOMAIN t.cols.items : Len(t.cols.items[i].attr.opts) <= MaxOptions
WithinBounds ==
  /\ Len(schema'.tables.items) <= MaxItems
  /\ \A i \in DOMAIN schema'.tables.items : HasRoom(schema'.tables.items[i])

\* The names that a specification gives to columns.
NamesGiven(spec) ==
  CASE spec.op = "addColumn" -> {spec.col} [] spec.op = "renameColumn" -> {spec.to} [] OTHER -> {}
NewNames(specs) == UNION {NamesGiven(specs[k]) : k \in DOMAIN specs}

\* They are names the table has never had, and each is given once.
NamesAreNew(tb, specs) ==
  /\ NewNames(specs) \cap used[tb] = {}
  /\ \A j, k \in DOMAIN specs : j # k => NamesGiven(specs[j]) \cap NamesGiven(specs[k]) = {}

RefersTo(spec)     == spec.op = "addForeignKey"
IsPositioned(spec) == spec.op = "addColumn" /\ spec.pos.tp \in {"first", "after"}

\* No part of the ALTER TABLE strays: a position or a foreign key needs the
\* table to be the current one, and a position to be about the only definition;
\* definitions, which are read after everything else, must be written after
\* everything else except a foreign key, which makes its target the current table.
StaysInTable(tb, specs) ==
  LET definitions == {k \in DOMAIN specs : Defines(specs[k])}
      last(k)     == \A j \in k + 1 .. Len(specs) : Defines(specs[j]) \/ RefersTo(specs[j])
  IN  \A k \in DOMAIN specs :
        /\ IsPositioned(specs[k]) \/ RefersTo(specs[k]) => schema.current = tb
        /\ IsPositioned(specs[k]) => Cardinality(definitions) = 1
        /\ Defines(specs[k]) => last(k)
        /\ RefersTo(specs[k]) => \A j \in definitions : j < k

\* No column is dropped or renamed under an index or a foreign key.
KeepsMentioned(tb, specs) ==
  \A k \in DOMAIN specs :
    specs[k].op \in {"dropColumn", "renameColumn"} =>
      ~IsMentioned(FoldLeft(Exec, db[tb], SubSeq(specs, 1, k - 1)), specs[k].col)

\* A definition repeats the options that the column has: AddColumn keeps those of a
\* column that is defined again.
KeepsOptions(tb, specs) ==
  \A k \in DOMAIN specs : specs[k].op = "modifyColumn" =>
    LET d == FoldLeft(Exec, db[tb], SubSeq(specs, 1, k - 1))
    IN  d.cols[PlaceOf(d, specs[k].col)].opts
          \subseteq {specs[k].opts[i] : i \in DOMAIN specs[k].opts}

----------------------------------------------------------------------------
Init ==
  /\ schema = NewMigration
  /\ db = EmptyFunction
  /\ used = EmptyFunction

\* CREATE TABLE with columns and, among its constraints, indexes on column n.
CreateTable(tb, names, idxs, n) ==
  /\ tb \notin DOMAIN db
  /\ idxs # <<>> => n \in {names[k] : k \in DOMAIN names}
  /\ schema' = ReadCreateTable(schema, tb,
                 [k \in DOMAIN names |-> Column(names[k], "add", Attr)],
                 [k \in DOMAIN idxs |-> Index(idxs[k], "add", "none", <<n>>)])
  /\ db' = With(db, tb, NewDbTable(names, idxs, n, "none"))
  /\ used' = With(used, tb, {names[k] : k \in DOMAIN names})
  /\ WithinBounds

\* DROP TABLE of one table or several.
DropTables(tbs) ==
  LET gone == {tbs[k] : k \in DOMAIN tbs}
  IN  /\ gone \subseteq DOMAIN db
      /\ \A tb \in gone : Referring(tb) \subseteq gone
      /\ schema' = ReadDropTable(schema, tbs)
      /\ db' = Without(db, gone)
      /\ used' = Without(used, gone)

\* ALTER TABLE ... RENAME TO.  (A table that is referred to keeps its name: the
\* database would follow it and the parser would not.)
RenameTo(tb, to) ==
  /\ tb \in DOMAIN db /\ to \notin DOMAIN db
  /\ Referring(tb) = {}
  /\ schema' = ReadAlter(schema, tb, <<[op |-> "renameTable", to |-> to]>>)
  /\ db' = Without(With(db, to, db[tb]), {tb})
  /\ used' = Without(With(used, to, used[tb]), {tb})
  /\ WithinBounds

AlterTable(tb, specs) ==
  /\ tb \in DOMAIN db
  /\ NamesAreNew(tb, specs)
  /\ ~Strays => StaysInTable(tb, specs)
  /\ LegalAlter(tb, specs)
  /\ KeepsMentioned(tb, specs)
  /\ KeepsOptions(tb, specs)
  /\ schema' = ReadAlter(schema, tb, specs)
  /\ db' = [db EXCEPT ![tb] = FoldLeft(Exec, @, specs)]
  /\ used' = [used EXCEPT ![tb] = @ \cup NewNames(specs)]
  /\ WithinBounds

CreateIndex(tb, i, n) ==
  LET stm == [op |-> "createIndex", idx |-> i, typ |-> "none", columns |-> <<n>>]
  IN  /\ tb \in DOMAIN db
      /\ Legal(db[tb], stm)
      /\ schema' = ReadCreateIndex(schema, tb, Index(i, "add", "none", <<n>>))
      /\ db' = [db EXCEPT ![tb] = Exec(@, stm)]
      /\ UNCHANGED used
      /\ WithinBounds

DropIndex(tb, i) ==
  LET stm == [op |-> "dropIndex", idx |-> i]
  IN  /\ tb \in DOMAIN db
      /\ Legal(db[tb], stm)
      /\ schema' = ReadDropIndex(schema, tb, i)
      /\ db' = [db EXCEPT ![tb] = Exec(@, stm)]
      /\ UNCHANGED used

\* The next statement, which the parser lives to read.
Next ==
  /\ ~SchemaPanics(schema)
  /\ \/ \E tb \in TableNames, names \in Creates, idxs \in BoundedSeq(IndexNames, 1),
           n \in KeyColumns : CreateTable(tb, names, idxs, n)
     \/ \E tbs \in BoundedSeq(TableNames, 2) : tbs # <<>> /\ IsInjective(tbs) /\ DropTables(tbs)
     \/ \E tb, to \in TableNames : RenameTo(tb, to)
     \/ \E tb \in TableNames, specs \in Alters : AlterTable(tb, specs)
     \/ \E tb \in TableNames, i \in IndexNames, n \in KeyColumns : CreateIndex(tb, i, n)
     \/ \E tb \in TableNames, i \in IndexNames : DropIndex(tb, i)

Spec == Init /\ [][Next]_vars

----------------------------------------------------------------------------
\* The type invariant: the schema holds tables by name, the current one is a
\* name, and no list is longer than its bound.
TypeOK ==
  /\ schema.current \in TableNames \cup {Nil}
  /\ DOMAIN schema.tables.id \subseteq TableNames
  /\ Coherent(schema.tables)
  /\ \A i \in DOMAIN schema.tables.items : schema.tables.items[i].action \in Actions
  /\ DOMAIN db \subseteq TableNames
  /\ DOMAIN used = DOMAIN db

\* Every table of the database is found by its name and the parser believes it to
\* have the columns, in order, the indexes and the foreign keys it has: every
\* statement reached its table, also one that was dropped and created again or
\* renamed onto the name of a dropped one.
TablesFound ==
  \A tb \in DOMAIN db : IsKnown(schema, tb) /\ View(TableOf(schema, tb)) = db[tb]

\* A table that is gone from the database is no addition of the schema: created
\* under a name, dropped or renamed away, it does not come back by a statement
\* about another table.
GoneTablesAreMarked ==
  \A tb \in DOMAIN schema.tables.id \ DOMAIN db :
    TableOf(schema, tb).action \in {"no", "remove"}

\* Between two statements no table has a position waiting that its next new
\* column would take, whatever its own statement says.
NoPositionWaits ==
  \A i \in DOMAIN schema.tables.items : schema.tables.items[i].pos.tp \in {"nil", "none"}

\* A statement changes no table but its own: what the database leaves alone the
\* parser leaves alone, its positions, dropped columns and markers included.
OthersUntouched ==
  [][\A tb \in DOMAIN db \cap DOMAIN db' :
       tb # schema'.current /\ db'[tb] = db[tb] =>
         [TableOf(schema', tb) EXCEPT !.pos = NoPosition]
           = [TableOf(schema, tb) EXCEPT !.pos = NoPosition]]_vars

=============================================================================
