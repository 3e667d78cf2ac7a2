------------------------------ MODULE DbTable ------------------------------
(***************************************************************************)
(* The abstract specification of a table: what a database promises to hold *)
(* after a sequence of DDL statements, each accepted when Legal and then   *)
(* executed (DbOps.tla).  Table.tla shows that the parser's Table is one.  *)
(***************************************************************************)
EXTENDS DbOps

CONSTANTS ColumnNames, IndexNames, FkNames, Types, OptionLists, IndexTypes,
          References, AddPositions

VARIABLE db

Step(stm) == Legal(db, stm) /\ db' = Exec(db, stm)

\* CREATE TABLE with one column.
Init ==
  \E n \in ColumnNames, type \in Types, opts \in OptionLists :
    db = Exec(EmptyDbTable, [op |-> "addColumn", col |-> n, type |-> type,
                             opts |-> opts, pos |-> [tp |-> "none"]])

AddColumn ==
  \E n \in ColumnNames, type \in Types, opts \in OptionLists, pos \in AddPositions :
    Step([op |-> "addColumn", col |-> n, type |-> type, opts |-> opts, pos |-> pos])
DropColumn == \E n \in ColumnNames : Step([op |-> "dropColumn", col |-> n])
RenameColumn ==
  \E n, to \in ColumnNames : Step([op |-> "renameColumn", col |-> n, to |-> to])
ModifyColumn ==
  \E n \in ColumnNames, type \in Types, opts \in OptionLists :
    Step([op |-> "modifyColumn", col |-> n, type |-> type, opts |-> opts])
CreateIndex ==
  \E i \in IndexNames, typ \in IndexTypes, n \in ColumnNames :
    Step([op |-> "createIndex", idx |-> i, typ |-> typ, columns |-> <<n>>])
DropIndex == \E i \in IndexNames : Step([op |-> "dropIndex", idx |-> i])
RenameIndex == \E i, to \in IndexNames : Step([op |-> "renameIndex", idx |-> i, to |-> to])
AddForeignKey ==
  \E f \in FkNames, n \in ColumnNames, ref \in References :
    Step([op |-> "addForeignKey", fk |-> f, col |-> n, ref |-> ref])
DropForeignKey == \E f \in FkNames, op \in KeyDrops : Step([op |-> op, fk |-> f])

Next == \/ AddColumn \/ DropColumn \/ RenameColumn \/ ModifyColumn
        \/ CreateIndex \/ DropIndex \/ RenameIndex
        \/ AddForeignKey \/ DropForeignKey

Spec == Init /\ [][Next]_db

=============================================================================
