-------------------------------- MODULE Sync --------------------------------
(***************************************************************************)
(* The whole use of sqlize on a table that both schemas have (README.md,   *)
(* "How it works"; sqlize.go):                                             *)
(*   1. statements run against the database and are kept as migrations,    *)
(*      which the parser reads (Table.tla);                                *)
(*   2. the wanted schema is loaded from the models;                       *)
(*   3. Diff compares the two, StringUp and StringDown write the script    *)
(*      and its inverse;                                                   *)
(*   4. the script runs against the database, statement by statement;      *)
(*   5. then either the inverse runs, or the script joins the migrations   *)
(*      and the same models are compared with them again.                  *)
(* Each call of the tool is an action.                                     *)
(*                                                                         *)
(* phase   the last call; again: this is the second comparison             *)
(* wanted  the models: columns, indexes and foreign keys                   *)
(* new     the table built from them, after Diff the list of changes       *)
(* start   the database's table before the script                          *)
(* read    the table the parser had read before Diff                       *)
(* up      the script; undo its inverse; script what is left to run        *)
(***************************************************************************)
EXTENDS Table, DiffOps

CONSTANTS
  Models,            \* the tables that models can describe
  Reorders,          \* may the models list shared columns in another order
  RedefinesIndexes,  \* may a shared index have another definition
  RedefinesKeys,     \* may a shared foreign key have another definition
  RedefinesOptions,  \* which options of a shared column may differ: "none",
                     \* "types" - an option may be added or left out, but no
                     \* value or primary key changes, "any" - anything may
  MovesIndexed,      \* may a column be added or dropped that an index or a
                     \* foreign key of the schema with the column mentions
  RereadsKeyDrops    \* may the script that joins the migrations drop a foreign key

\* Models are tables whose columns, indexes and foreign keys can be written.
ASSUME ModelsAssumption ==
  \A m \in Models :
    /\ m.cols \in Seq([name : ColumnNames, type : Types, opts : OptionLists])
    /\ IsFiniteSet(m.idxs) /\ IsFiniteSet(m.fks)
    /\ m.idxs \subseteq [name : IndexNames, typ : IndexTypes, columns : Seq(ColumnNames)]
    /\ m.fks \subseteq [name : FkNames, column : ColumnNames, ref : References]
    /\ \A i \in m.idxs : i.columns # <<>>

VARIABLES phase, again, wanted, new, start, read, up, undo, script, failed

syncVars == <<table, here, db, used, phase, again, wanted, new, start, read, up, undo, script, failed>>

NoModel == [cols |-> <<>>, idxs |-> {}, fks |-> {}]

----------------------------------------------------------------------------
(* Building the wanted table: FromObjects writes the CREATE statements of the *)
(* models (sqlbuilder/builder.go) and parses them.                           *)
Build(m) ==
  LET cols == FoldLeft(LAMBDA t, c : AddColumn(t, Column(c.name, "add",
                                        [type |-> c.type, opts |-> c.opts])),
                       NewTable(Own), m.cols)
      idxs == FoldLeft(LAMBDA t, i : AddIndex(t, Index(i.name, "add", i.typ, i.columns)),
                       cols, SetToSeq(m.idxs))
  IN  FoldLeft(LAMBDA t, f : AddForeignKey(t, ForeignKey(f.name, "add", f.column, f.ref)),
               idxs, SetToSeq(m.fks))

Target == View(Build(wanted))

\* Every statement of a script, read by the parser after the migrations.
ReadAll(t, statements) == FoldLeft(ReadStatement, t, statements)

\* No part of the script goes to another table, which the history or the statement
\* before has made the current one.
IsReadHere(statements) ==
  \A k \in DOMAIN statements :
    IsFiled(statements[k]) => IF k = 1 THEN here ELSE StaysHere(statements[k - 1])

----------------------------------------------------------------------------
(* The models that follow a database table: what may change between the two. *)

SharedColumns(m) == ColumnNamesOf(db) \cap {m.cols[i].name : i \in DOMAIN m.cols}

\* Two shared columns stand in the models as they do in the database.
KeepsOrder(m) ==
  \A i, j \in DOMAIN m.cols, k, l \in DOMAIN db.cols :
    /\ i < j
    /\ m.cols[i].name = db.cols[k].name
    /\ m.cols[j].name = db.cols[l].name
    => k < l

KeepsOptions(m) ==
  \A i \in DOMAIN m.cols, j \in DOMAIN db.cols :
    m.cols[i].name = db.cols[j].name =>
      LET mine   == {m.cols[i].opts[k] : k \in DOMAIN m.cols[i].opts}
          theirs == db.cols[j].opts
          types(O) == {o.tp : o \in O}
      IN  CASE RedefinesOptions = "none"  -> mine = theirs
            [] RedefinesOptions = "types" ->
                 /\ types(mine) = types(theirs) => mine = theirs
                 /\ "primary" \in types(mine) <=> "primary" \in types(theirs)
            [] OTHER -> TRUE

KeepsIndexes(m) ==
  \A i \in m.idxs : i.name \in DOMAIN db.idxs =>
    db.idxs[i.name] = [typ |-> i.typ, columns |-> i.columns]

KeepsKeys(m) ==
  \A f \in m.fks : f.name \in DOMAIN db.fks =>
    db.fks[f.name] = [column |-> f.column, ref |-> f.ref]

KeepsIndexed(m) ==
  LET shared == SharedColumns(m)
  IN  /\ \A n \in ColumnNamesOf(db) : IsMentioned(db, n) => n \in shared
      /\ \A i \in m.idxs : \A k \in DOMAIN i.columns : i.columns[k] \in shared
      /\ \A f \in m.fks : f.column \in shared

\* Each foreign key of the models is written, and read, while this table is the
\* current one.
KeysStay(m) == Cardinality(m.fks) <= 1 \/ \A f \in m.fks : f.ref = Own

MayFollow(m) ==
  /\ SharedColumns(m) # {}
  /\ KeysStay(m)
  /\ Reorders \/ KeepsOrder(m)
  /\ KeepsOptions(m)
  /\ RedefinesIndexes \/ KeepsIndexes(m)
  /\ RedefinesKeys \/ KeepsKeys(m)
  /\ MovesIndexed \/ KeepsIndexed(m)

----------------------------------------------------------------------------
SyncInit ==
  /\ Init
  /\ phase = "history" /\ again = FALSE
  /\ wanted = NoModel
  /\ new = NewTable(Own) /\ read = NewTable(Own)
  /\ start = EmptyDbTable
  /\ up = <<>> /\ undo = <<>> /\ script = <<>>
  /\ failed = FALSE

\* A migration is written by hand, run and read.
History ==
  /\ phase = "history"
  /\ Next
  /\ UNCHANGED <<phase, again, wanted, new, start, read, up, undo, script, failed>>

\* FromObjects, next to the migrations that FromMigrationFolder has read.
LoadModels(m) ==
  /\ phase = "history" /\ ~table.panic
  /\ MayFollow(m)
  /\ phase' = "loaded"
  /\ wanted' = m
  /\ new' = Build(m)
  /\ start' = db
  /\ read' = table
  /\ UNCHANGED <<table, here, db, used, again, up, undo, script, failed>>

\* Diff changes both tables.
Compare ==
  LET p == Diff(new, table)
  IN  /\ phase = "loaded"
      /\ phase' = "compared"
      /\ new' = p.t
      /\ table' = p.old
      /\ UNCHANGED <<here, db, used, again, wanted, start, read, up, undo, script, failed>>

\* StringUp and StringDown arrange the columns before they write.
Printed(t) == IF WritingPanics(t) THEN Panicked(t) ELSE Arrange(t)

WriteUp ==
  /\ phase = "compared" /\ ~new.panic
  /\ phase' = "written"
  /\ new' = Printed(new)
  /\ up' = IF new'.panic THEN <<>> ELSE Up(new')
  /\ UNCHANGED <<table, here, db, used, again, wanted, start, read, undo, script, failed>>

WriteDown ==
  /\ phase = "written" /\ ~new.panic
  /\ phase' = "up"
  /\ new' = Printed(new)
  /\ undo' = IF new'.panic THEN <<>> ELSE Down(new')
  /\ script' = up
  /\ UNCHANGED <<table, here, db, used, again, wanted, start, read, up, failed>>

\* The database runs the next statement of the script, or refuses it.
RunStatement ==
  /\ phase \in {"up", "down"}
  /\ ~new.panic /\ ~failed
  /\ script # <<>>
  /\ IF Legal(db, Head(script))
     THEN db' = Exec(db, Head(script)) /\ script' = Tail(script) /\ UNCHANGED failed
     ELSE failed' = TRUE /\ UNCHANGED <<db, script>>
  /\ UNCHANGED <<table, here, used, phase, again, wanted, new, start, read, up, undo>>

HasRun == phase = "up" /\ ~again /\ script = <<>> /\ ~new.panic

\* The inverse script is run.
Revert ==
  /\ HasRun
  /\ phase' = "down"
  /\ script' = undo
  /\ UNCHANGED <<table, here, db, used, again, wanted, new, start, read, up, undo, failed>>

\* The script is now a migration: it is read after the others and the same
\* models are compared with the result.
LoadAgain ==
  /\ HasRun
  /\ IsReadHere(up)
  /\ RereadsKeyDrops \/ \A k \in DOMAIN up : up[k].op # "dropConstraint"
  /\ phase' = "loaded" /\ again' = TRUE
  /\ new' = Build(wanted)
  /\ table' = ReadAll(read, up)
  /\ here' = IF up = <<>> THEN here ELSE StaysHere(Last(up))
  /\ UNCHANGED <<db, used, wanted, start, read, up, undo, script, failed>>

SyncNext == \/ History
            \/ \E m \in Models : LoadModels(m)
            \/ Compare
            \/ WriteUp
            \/ WriteDown
            \/ RunStatement
            \/ Revert
            \/ LoadAgain

SyncSpec == SyncInit /\ [][SyncNext]_syncVars

----------------------------------------------------------------------------
\* Comparing, arranging and writing never run out of range.
DiffNeverPanics == ~new.panic

\* The database accepts every statement of the script and of its inverse.
NeverFails == ~failed

\* Whenever the script stops, at its end or before, or is never written because
\* the program died, the database is what the models describe.
Stopped == new.panic \/ (phase = "up" /\ (script = <<>> \/ failed))
UpReachesModels == Stopped /\ ~again => db = Target

\* The inverse brings it back.
Unordered(d) == [d EXCEPT !.cols = {@[i] : i \in DOMAIN @}]
DownReturns == phase = "down" /\ script = <<>> => Unordered(db) = Unordered(start)

\* The script that the second comparison writes changes nothing.
SecondDiffIsHarmless ==
  again => ~failed /\ (phase = "up" /\ script = <<>> => db = Target)

\* Once the script is among the migrations there is nothing left to add or to
\* drop: the second comparison can only redefine columns once more.
SecondDiffOnlyRepeats ==
  again /\ phase \in {"written", "up"} => \A k \in DOMAIN up : up[k].op = "modifyColumn"

=============================================================================
