-------------------------------- MODULE Table --------------------------------
(***************************************************************************)
(* One table whose DDL statements are executed by a database and read by   *)
(* sqlize: what the parser (sqlparser/mysql.go) calls on the Table of      *)
(* element/table.go, statement by statement, next to what the statement    *)
(* did.  The parser sees the whole history of the table, from its CREATE   *)
(* TABLE on, which is what a migration folder holds.                       *)
(*                                                                         *)
(* The statements of one table do not all reach it: a position and a new   *)
(* foreign key go to the parser's current table, which is this one unless  *)
(* the statement before made another one current.  Here such a statement   *)
(* waits for one that makes this table the current one again; where it     *)
(* goes otherwise is in Migration.tla.                                     *)
(*                                                                         *)
(* table  the Table the parser builds                                      *)
(* here   is it the parser's current table                                 *)
(* db     the table of the database that executed the same statements      *)
(* used   the column names the database's table has ever had               *)
(***************************************************************************)
EXTENDS TableOps, DbOps

CONSTANTS
  ColumnNames, IndexNames, FkNames,   \* names the statements use
  Types,                              \* column types
  OptionLists,                        \* the option lists a definition may carry
  IndexTypes,                         \* "none" and "unique" of ast.IndexKeyType
  References,                         \* what a foreign key refers to
  Operations,                         \* the statements this history is made of
  Reuse,         \* may the name of a column the table once had come back:
                 \*   "never" - no;  "last" - yes, but at the default position
                 \*   and by renaming;  "any" - yes
  Cascades,      \* may a column be dropped or renamed while an index or a
                 \* foreign key mentions it
  ShedsOptions,  \* may MODIFY COLUMN leave out an option the column has
  MaxItems,      \* bound on the length of each of the table's lists
  MaxOptions     \* bound on the length of a column's option list

AllOperations == {"addColumn", "dropColumn", "renameColumn", "modifyColumn",
                  "createIndex", "dropIndex", "renameIndex", "addForeignKey"} \cup KeyDrops

\* Those whose effect the parser reads.
OperationsRead == AllOperations \ KeyDrops

Own == "t"   \* the name of the table

ASSUME TableAssumption ==
  /\ Operations \subseteq AllOperations
  /\ Reuse \in {"never", "last", "any"}
  /\ Cascades \in BOOLEAN
  /\ ShedsOptions \in BOOLEAN
  /\ MaxItems \in Nat
  /\ MaxOptions \in Nat
  /\ \A opts \in OptionLists : /\ opts \in Seq([tp : STRING, val : STRING])
                               /\ \A i \in DOMAIN opts : opts[i] # Reference

VARIABLES table, here, db, used

vars == <<table, here, db, used>>

AddPositions ==
  {NoPosition, PositionNone, First} \cup {After(n) : n \in ColumnNames}

----------------------------------------------------------------------------
(* The parser's calls for a statement (Enter in sqlparser/mysql.go).        *)

\* A MODIFY COLUMN is read twice: once for the statement, with the action
\* Modify and no options, once for the column definition inside it.
ReadModify(t, n, attr) ==
  AddColumn(AddColumn(t, Column(n, "modify", [type |-> attr.type, opts |-> <<>>])),
            Column(n, "add", attr))

\* An ADD COLUMN leaves its position with the table before the column.
ReadAdd(t, n, attr, pos) ==
  AddColumn(IF pos = NoPosition THEN t ELSE [t EXCEPT !.pos = pos],
            Column(n, "add", attr))

\* Dropping a foreign key: Enter looks for the name of a DROP FOREIGN KEY in a
\* constraint that its specification does not have, and has no case for a DROP
\* CONSTRAINT.
ReadStatement(t, stm) ==
  CASE stm.op = "addColumn"    ->
         ReadAdd(t, stm.col, [type |-> stm.type, opts |-> stm.opts], stm.pos)
    [] stm.op = "dropColumn"   -> RemoveColumn(t, stm.col)
    [] stm.op = "renameColumn" -> RenameColumn(t, stm.col, stm.to)
    [] stm.op = "modifyColumn" ->
         ReadModify(t, stm.col, [type |-> stm.type, opts |-> stm.opts])
    [] stm.op = "createIndex"  -> AddIndex(t, Index(stm.idx, "add", stm.typ, stm.columns))
    [] stm.op = "dropIndex"    -> RemoveIndex(t, stm.idx)
    [] stm.op = "renameIndex"  -> RenameIndex(t, stm.idx, stm.to)
    [] stm.op = "addForeignKey"  -> AddForeignKey(t, ForeignKey(stm.fk, "add", stm.col, stm.ref))
    [] stm.op = "dropForeignKey" -> Panicked(t)
    [] stm.op = "dropConstraint" -> t

\* What is filed under the current table, whatever table the statement names.
IsFiled(stm) ==
  \/ stm.op = "addForeignKey"
  \/ stm.op = "addColumn" /\ stm.pos.tp \in {"first", "after"}

\* A statement makes its table the current one; ADD FOREIGN KEY then makes it the
\* one referred to.
StaysHere(stm) == stm.op = "addForeignKey" => stm.ref = Own

\* A statement the database accepts is executed and read.
Statement(stm) ==
  /\ stm.op \in Operations
  /\ ~table.panic
  /\ IsFiled(stm) => here
  /\ Legal(db, stm)
  /\ db' = Exec(db, stm)
  /\ table' = ReadStatement(table, stm)
  /\ here' = StaysHere(stm)

----------------------------------------------------------------------------
(* Bounds: every list of the table and every option list stays short.       *)
RoomFor(list) == Len(list.items) < MaxItems

RoomForOptions(n, opts) ==
  \A i \in DOMAIN table.cols.items :
    table.cols.items[i].name = n =>
      Len(table.cols.items[i].attr.opts) + Len(opts) <= MaxOptions

----------------------------------------------------------------------------
Create(n, attr) ==
  /\ table = AddColumn(NewTable(Own), Column(n, "add", attr))
  /\ here = TRUE
  /\ db = [EmptyDbTable EXCEPT !.cols =
             <<[name |-> n, type |-> attr.type,
                opts |-> {attr.opts[i] : i \in DOMAIN attr.opts}]>>]
  /\ used = {n}

\* CREATE TABLE with its first column; its other columns are added like those
\* of an ALTER TABLE without a position.
Init == \E n \in ColumnNames, type \in Types, opts \in OptionLists :
          Create(n, [type |-> type, opts |-> opts])

AddColumnStatement(n, type, opts, pos) ==
  /\ n \in used => \/ Reuse = "any"
                   \/ Reuse = "last" /\ pos.tp \in {"nil", "none"}
  /\ RoomFor(table.cols)
  /\ Statement([op |-> "addColumn", col |-> n, type |-> type, opts |-> opts, pos |-> pos])
  /\ used' = used \cup {n}

DropColumnStatement(n) ==
  /\ ~Cascades => ~IsMentioned(db, n)
  /\ Statement([op |-> "dropColumn", col |-> n])
  /\ UNCHANGED used

RenameColumnStatement(n, to) ==
  /\ to \in used => Reuse # "never"
  /\ ~Cascades => ~IsMentioned(db, n)
  /\ Statement([op |-> "renameColumn", col |-> n, to |-> to])
  /\ used' = used \cup {to}

ModifyColumnStatement(n, type, opts) ==
  /\ RoomForOptions(n, opts)
  /\ ~ShedsOptions => \A i \in DOMAIN db.cols :
                        db.cols[i].name = n =>
                          db.cols[i].opts \subseteq {opts[k] : k \in DOMAIN opts}
  /\ Statement([op |-> "modifyColumn", col |-> n, type |-> type, opts |-> opts])
  /\ UNCHANGED used

CreateIndexStatement(i, typ, columns) ==
  /\ RoomFor(table.idxs)
  /\ Statement([op |-> "createIndex", idx |-> i, typ |-> typ, columns |-> columns])
  /\ UNCHANGED used

DropIndexStatement(i) ==
  /\ Statement([op |-> "dropIndex", idx |-> i])
  /\ UNCHANGED used

RenameIndexStatement(i, to) ==
  /\ Statement([op |-> "renameIndex", idx |-> i, to |-> to])
  /\ UNCHANGED used

AddForeignKeyStatement(f, n, ref) ==
  /\ RoomFor(table.fks)
  /\ RoomForOptions(n, <<Reference>>)
  /\ Statement([op |-> "addForeignKey", fk |-> f, col |-> n, ref |-> ref])
  /\ UNCHANGED used

DropForeignKeyStatement(f) ==
  /\ Statement([op |-> "dropForeignKey", fk |-> f])
  /\ UNCHANGED used

DropConstraintStatement(f) ==
  /\ Statement([op |-> "dropConstraint", fk |-> f])
  /\ UNCHANGED used

Next ==
  \/ \E n \in ColumnNames, type \in Types, opts \in OptionLists, pos \in AddPositions :
       AddColumnStatement(n, type, opts, pos)
  \/ \E n \in ColumnNames : DropColumnStatement(n)
  \/ \E n, to \in ColumnNames : RenameColumnStatement(n, to)
  \/ \E n \in ColumnNames, type \in Types, opts \in OptionLists :
       ModifyColumnStatement(n, type, opts)
  \/ \E i \in IndexNames, typ \in IndexTypes, n \in ColumnNames :
       CreateIndexStatement(i, typ, <<n>>)
  \/ \E i \in IndexNames : DropIndexStatement(i)
  \/ \E i, to \in IndexNames : RenameIndexStatement(i, to)
  \/ \E f \in FkNames, n \in ColumnNames, ref \in References : AddForeignKeyStatement(f, n, ref)
  \/ \E f \in FkNames : DropForeignKeyStatement(f)
  \/ \E f \in FkNames : DropConstraintStatement(f)

Spec == Init /\ [][Next]_vars

----------------------------------------------------------------------------
(* Types.                                                                    *)
Options == UNION {{opts[i] : i \in DOMAIN opts} : opts \in OptionLists}

Attrs == [type : Types \cup {NoType}, opts : Seq(Options \cup {Reference})]

ColumnItems ==
  [name : ColumnNames, oldName : ColumnNames \cup {Nil}, action : Actions,
   attr : Attrs, prev : {NilAttr}]
IndexItems ==
  [name : IndexNames, oldName : IndexNames \cup {Nil}, action : Actions,
   typ : IndexTypes \cup {"none"}, columns : Seq(ColumnNames)]
FkItems ==
  [name : FkNames, oldName : {Nil}, action : Actions,
   column : ColumnNames \cup {Nil}, ref : References \cup {Nil}]

\* The type invariant: every list holds nodes of its own kind, and no position
\* is left pending between two statements on the table (AddColumn forgets it).
TypeOK ==
  /\ table.action = "add"
  /\ IsList(table.cols, ColumnItems, ColumnNames)
  /\ IsList(table.idxs, IndexItems, IndexNames)
  /\ IsList(table.fks, FkItems, FkNames)
  /\ table.pos = NoPosition
  /\ table.panic \in BOOLEAN
  /\ here \in BOOLEAN
  /\ used \in SUBSET ColumnNames
  /\ ColumnNamesOf(db) \subseteq used

(* Safety.                                                                   *)

\* Each name map points to nodes that bear the name, and each node the table
\* still has is found by its name, through every insertion that shifts the
\* slice of columns under the map (swapOrder).
ColumnsCoherent == Coherent(table.cols) /\ Reachable(table.cols)
IndexesCoherent == Coherent(table.idxs) /\ Reachable(table.idxs)
ForeignKeysCoherent == Coherent(table.fks) /\ Reachable(table.fks)

\* The parser never slices its columns out of range: what it dies of is a DROP
\* FOREIGN KEY, whose name it looks for in the wrong place, and nothing else.
OnlyKeyDropsPanic ==
  [][~table.panic /\ table'.panic => \E f \in FkNames : DropForeignKeyStatement(f)]_vars

\* The columns the parser believes in are those of the database, each with its
\* type and options, whatever their order.
ColumnSetAgrees ==
  LET believed == View(table).cols
  IN  {believed[i] : i \in DOMAIN believed} = {db.cols[i] : i \in DOMAIN db.cols}

\* The order of the columns is the database's order: FIRST and AFTER were
\* applied to the right places in spite of the dropped columns in the slice.
ColumnOrderAgrees == View(table).cols = db.cols

\* Printing changes nothing: MigrationUp and MigrationDown arrange the columns of
\* the table they print in place, without touching the map.
PrintingIsHarmless == Arrange(table) = table

\* The indexes are those of the database, with their definitions.
IndexesAgree == View(table).idxs = db.idxs

\* The parser never misses a foreign key, nor takes it for another: also one that
\* was dropped by a statement it does not read, and added again otherwise.
ForeignKeysKnown ==
  \A f \in DOMAIN db.fks : f \in DOMAIN View(table).fks /\ View(table).fks[f] = db.fks[f]

\* The parser is a database: under the mapping View every statement it reads
\* is a step of the specification of a database table (DbTable.tla).
Believed == INSTANCE DbTable WITH db <- View(table)
ImplementsDbTable == Believed!Spec

=============================================================================
