----------------------------- MODULE MCDialects -----------------------------
(* Constants for the run of Dialects.tla. *)
EXTENDS Dialects, MCMigration

None == {}

\* PostgreSQL: every command, alone.
LastColumns == [op : {"addColumn"}, col : ColumnNames, type : {Type},
                opts : {<<>>, <<Default("1")>>}, pos : {PositionNone}]
PgCommands ==
       LastColumns
  \cup [op : {"dropColumn", "dropNotNull"}, col : ColumnNames]
  \cup [op : {"renameColumn"}, col : ColumnNames, to : ColumnNames]
  \cup [op : {"setType"}, col : ColumnNames, type : {"text"}]
  \cup [op : {"setDefault"}, col : ColumnNames, val : {"1"}]
  \cup [op : {"createIndex"}, idx : IndexNames, typ : {"unique"}, columns : {<<"a">>}]
  \cup [op : {"dropIndex"}, idx : IndexNames]
  \cup [op : {"dropConstraint"}, fk : FkNames]
  \cup Keys
OnePgCommand == Singles(PgCommands)

LiteStatements ==
  LastColumns \cup [op : {"renameColumn"}, col : ColumnNames, to : ColumnNames]

=============================================================================
