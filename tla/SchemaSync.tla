------------------------------ MODULE SchemaSync ------------------------------
(***************************************************************************)
(* The whole use of sqlize on a schema of several tables: Migration.tla's  *)
(* histories, then the calls of Sync.tla.  Here tables are created and     *)
(* dropped by the script, refer to each other, and the script that joins   *)
(* the migrations is read statement by statement, with a current table.    *)
(*                                                                         *)
(* phase, again, failed           as in Sync.tla                           *)
(* wanted  the models: a sequence of tables                                *)
(* new     the schema built from them, after Diff the list of changes      *)
(* start   the database before the script                                  *)
(* read    the schema the parser had read before Diff                      *)
(* up, undo, script               as in Sync.tla, statements [tb, stm]     *)
(***************************************************************************)
EXTENDS Migration, SchemaDiffOps

CONSTANTS
  Models,          \* the sequences of tables that models can describe
  MigrationTable,  \* the table that records the version (WithMigrationTable)
  Recreates,       \* may a table of the migrations have been dropped or renamed
                   \* away and not be there
  Relates,         \* may a foreign key refer to another table that the script
                   \* or its inverse creates or drops
  ManyKeys,        \* may a model have more than one foreign key
  RereadsKeyDrops  \* may the script that joins the migrations drop a foreign key

\* Models list their tables and columns in order and have finitely many keys.
ASSUME SchemaSyncAssumption ==
  /\ \A ms \in Models :
       /\ IsSeq(ms)
       /\ \A i \in DOMAIN ms : /\ IsSeq(ms[i].cols)
                               /\ IsFiniteSet(ms[i].idxs) /\ IsFiniteSet(ms[i].fks)
  /\ Recreates \in BOOLEAN
  /\ Relates \in BOOLEAN
  /\ ManyKeys \in BOOLEAN
  /\ RereadsKeyDrops \in BOOLEAN

VARIABLES phase, again, wanted, new, start, read, up, undo, script, failed

syncVars == <<schema, db, used, phase, again, wanted, new, start, read, up, undo, script, failed>>

----------------------------------------------------------------------------
(* The database.                                                            *)

LegalInSchema(s) ==
  CASE s.stm.op = "createTable" -> s.tb \notin DOMAIN db
    [] s.stm.op = "dropTable"   -> Referring(s.tb) \subseteq {s.tb}
    [] OTHER -> /\ s.tb \in DOMAIN db
                /\ Legal(db[s.tb], s.stm)
                /\ s.stm.op = "addForeignKey" => s.stm.ref \in DOMAIN db

ExecInSchema(s) ==
  CASE s.stm.op = "createTable" ->
         With(db, s.tb, [EmptyDbTable EXCEPT !.cols =
           [i \in DOMAIN s.stm.cols |->
              [name |-> s.stm.cols[i].name, type |-> s.stm.cols[i].type,
               opts |-> {s.stm.cols[i].opts[k] : k \in DOMAIN s.stm.cols[i].opts}]]])
    [] s.stm.op = "dropTable"   -> Without(db, {s.tb})
    [] OTHER -> [db EXCEPT ![s.tb] = Exec(@, s.stm)]

----------------------------------------------------------------------------
(* Building the wanted schema: FromObjects writes for one object after another *)
(* a CREATE TABLE, then its indexes and foreign keys, and parses the text.     *)

ModelScript(m) ==
  LET idxs == SetToSeq(m.idxs)
      fks  == SetToSeq(m.fks)
      stms == <<[op |-> "createTable", cols |-> m.cols]>>
                \o [k \in DOMAIN idxs |-> [op |-> "createIndex", idx |-> idxs[k].name,
                                           typ |-> idxs[k].typ, columns |-> idxs[k].columns]]
                \o [k \in DOMAIN fks |-> [op |-> "addForeignKey", fk |-> fks[k].name,
                                          col |-> fks[k].column, ref |-> fks[k].ref]]
  IN  [k \in DOMAIN stms |-> [tb |-> m.name, stm |-> stms[k]]]

BuildSchema(ms) == FoldLeft(LAMBDA s, m : ReadScript(s, ModelScript(m)), NewMigration, ms)

NamesOf(ms) == {ms[i].name : i \in DOMAIN ms}

\* What the models describe, and the version table if the database has one.
TargetTable(m) ==
  [cols |-> [i \in DOMAIN m.cols |->
               [name |-> m.cols[i].name, type |-> m.cols[i].type,
                opts |-> {m.cols[i].opts[k] : k \in DOMAIN m.cols[i].opts}]],
   idxs |-> [n \in {i.name : i \in m.idxs} |->
               LET i == CHOOSE x \in m.idxs : x.name = n
               IN  [typ |-> i.typ, columns |-> i.columns]],
   fks  |-> [n \in {f.name : f \in m.fks} |->
               LET f == CHOOSE x \in m.fks : x.name = n
               IN  [column |-> f.column, ref |-> f.ref]]]
Target ==
  [tb \in NamesOf(wanted) \cup (DOMAIN start \cap {MigrationTable}) |->
     IF tb = MigrationTable THEN start[tb]
     ELSE TargetTable(wanted[CHOOSE i \in DOMAIN wanted : wanted[i].name = tb])]

----------------------------------------------------------------------------
(* Preconditions.                                                           *)

GoneTables == {schema.tables.items[i].name : i \in DOMAIN schema.tables.items} \ DOMAIN db

\* Foreign keys lead to tables that both the database and the models have.
KeepsTargets(ms) ==
  LET stays == NamesOf(ms) \cap DOMAIN db
      wants == UNION {{<<ms[i].name, f.ref>> : f \in ms[i].fks} : i \in DOMAIN ms}
      has   == UNION {{<<tb, db[tb].fks[f].ref>> : f \in DOMAIN db[tb].fks} : tb \in DOMAIN db}
  IN  \A link \in wants \cup has : link[1] = link[2] \/ link[2] \in stays

\* An index of both has one definition, and so has a foreign key.
KeepsDefinitions(ms) ==
  \A i \in DOMAIN ms : ms[i].name \in DOMAIN db =>
    LET t == TargetTable(ms[i])
        d == db[ms[i].name]
    IN  /\ \A n \in DOMAIN t.idxs \cap DOMAIN d.idxs : t.idxs[n] = d.idxs[n]
        /\ \A n \in DOMAIN t.fks \cap DOMAIN d.fks : t.fks[n] = d.fks[n]

MayFollow(ms) ==
  /\ Recreates \/ GoneTables = {}
  /\ Relates \/ KeepsTargets(ms)
  /\ ManyKeys \/ \A i \in DOMAIN ms : Cardinality(ms[i].fks) <= 1
  /\ KeepsDefinitions(ms)

----------------------------------------------------------------------------
SyncInit ==
  /\ Init
  /\ phase = "history" /\ again = FALSE
  /\ wanted = <<>>
  /\ new = NewMigration /\ read = NewMigration
  /\ start = EmptyFunction
  /\ up = <<>> /\ undo = <<>> /\ script = <<>>
  /\ failed = FALSE

History ==
  /\ phase = "history"
  /\ Next
  /\ UNCHANGED <<phase, again, wanted, new, start, read, up, undo, script, failed>>

\* FromObjects, next to the migrations that FromMigrationFolder has read.
LoadModels(ms) ==
  /\ phase = "history" /\ ~SchemaPanics(schema)
  /\ MayFollow(ms)
  /\ phase' = "loaded"
  /\ wanted' = ms
  /\ new' = BuildSchema(ms)
  /\ start' = db
  /\ read' = schema
  /\ UNCHANGED <<schema, db, used, again, up, undo, script, failed>>

Compare ==
  LET p == SchemaDiff(new, schema)
  IN  /\ phase = "loaded"
      /\ phase' = "compared"
      /\ new' = p.m
      /\ schema' = p.old
      /\ UNCHANGED <<db, used, again, wanted, start, read, up, undo, script, failed>>

WriteUp ==
  /\ phase = "compared" /\ ~SchemaPanics(new)
  /\ phase' = "written"
  /\ new' = ArrangeTables(new, "add")
  /\ up' = IF SchemaPanics(new') THEN <<>> ELSE SchemaUp(new')
  /\ UNCHANGED <<schema, db, used, again, wanted, start, read, undo, script, failed>>

WriteDown ==
  /\ phase = "written" /\ ~SchemaPanics(new)
  /\ phase' = "up"
  /\ new' = ArrangeTables(new, "remove")
  /\ undo' = IF SchemaPanics(new') THEN <<>> ELSE SchemaDown(new')
  /\ script' = up
  /\ UNCHANGED <<schema, db, used, again, wanted, start, read, up, failed>>

\* The database runs the next statement of the script, or refuses it.
RunStatement ==
  /\ phase \in {"up", "down"}
  /\ ~SchemaPanics(new) /\ ~failed
  /\ script # <<>>
  /\ IF LegalInSchema(Head(script))
     THEN db' = ExecInSchema(Head(script)) /\ script' = Tail(script) /\ UNCHANGED failed
     ELSE failed' = TRUE /\ UNCHANGED <<db, script>>
  /\ UNCHANGED <<schema, used, phase, again, wanted, new, start, read, up, undo>>

HasRun == phase = "up" /\ ~again /\ script = <<>> /\ ~SchemaPanics(new)

Revert ==
  /\ HasRun
  /\ phase' = "down"
  /\ script' = undo
  /\ UNCHANGED <<schema, db, used, again, wanted, new, start, read, up, undo, failed>>

\* The script is now a migration: it is read after the others and the same
\* models are compared with the result.
LoadAgain ==
  /\ HasRun
  /\ RereadsKeyDrops \/ \A k \in DOMAIN up : up[k].stm.op # "dropConstraint"
  /\ phase' = "loaded" /\ again' = TRUE
  /\ new' = BuildSchema(wanted)
  /\ schema' = ReadScript(read, up)
  /\ UNCHANGED <<db, used, wanted, start, read, up, undo, script, failed>>

SyncNext == \/ History
            \/ \E ms \in Models : LoadModels(ms)
            \/ Compare
            \/ WriteUp
            \/ WriteDown
            \/ RunStatement
            \/ Revert
            \/ LoadAgain

SyncSpec == SyncInit /\ [][SyncNext]_syncVars

----------------------------------------------------------------------------
\* The database accepts every statement of the script and of its inverse: no
\* table is created twice, none is altered before it is there, and none is
\* dropped while another refers to it.
SchemaNeverFails == ~failed

\* Whenever the script stops, at its end or before, or is never written because
\* the program died, the database has the tables that the models describe, those
\* and no others, and the version table.
Stopped == SchemaPanics(new) \/ (phase = "up" /\ (script = <<>> \/ failed))
SchemaReachesModels == Stopped => db = Target

\* The inverse brings back the tables with what they had, except for the order of
\* columns.
Unordered(d) == [tb \in DOMAIN d |-> [d[tb] EXCEPT !.cols = {@[i] : i \in DOMAIN @}]]
SchemaReturns == phase = "down" /\ script = <<>> => Unordered(db) = Unordered(start)

\* Once the script is among the migrations the same models need no change but the
\* tables that the script dropped, which are dropped again, and columns that are
\* redefined as they are: every statement of the script, read with whatever table
\* was current, reached its own table.
OnlyRepeatsLeft ==
  again /\ phase \in {"written", "up"} =>
    \A k \in DOMAIN up : \/ up[k].stm.op = "modifyColumn"
                         \/ up[k].stm.op = "dropTable" /\ up[k].tb \notin NamesOf(wanted)

\* No script, and no inverse, drops or changes the version table, from which the
\* migration tool knows what has run.
VersionTableKept ==
  MigrationTable \in DOMAIN start =>
    MigrationTable \in DOMAIN db /\ db[MigrationTable] = start[MigrationTable]

=============================================================================
