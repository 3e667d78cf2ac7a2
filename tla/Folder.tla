------------------------------- MODULE Folder -------------------------------
(***************************************************************************)
(* The folder of migration files.  A run of a program that generates        *)
(* migrations makes two Sqlize (sqlize.go), one of the models and one of    *)
(* the files, compares them and writes an up file and a down file; it may   *)
(* stop anywhere.  golang-migrate, which is external, executes the files.   *)
(*                                                                         *)
(* A schema is a set of things, what a diff is about is that a migration    *)
(* adds some and drops others (SchemaSync.tla has the statements).  A file   *)
(* is told by the second in its name, [at, text, whole]: os.WriteFile makes  *)
(* it empty, and then writes it.                                            *)
(***************************************************************************)
EXTENDS Integers, FiniteSets, DbOps

CONSTANTS
  Things,
  Runs,            \* the generator's runs
  WithVersion,    \* do they write the version too
  PairedSuffixes, \* is there a down suffix, and not the one of up files
  Together,       \* may runs, or a run and the migrator, go on at once
  SameSecond,     \* may two files be made within a second
  TornIsRun,      \* may a down file that is not whole be executed
  MaxEdits, MaxCrashes,
  MaxSpare        \* bound on the migrations that are about the version only

ASSUME FolderAssumption ==
  /\ Runs # {}
  /\ {PairedSuffixes, Together, SameSecond, TornIsRun} \subseteq BOOLEAN
  /\ {MaxEdits, MaxCrashes, MaxSpare} \subseteq Nat

VARIABLES
  models,   \* the schema of the Go models
  ups,      \* up files: the second in the name to the file
  downs,
  clock,
  run,      \* per run: where it is, and what it has read
  db,       \* the database's schema
  version,  \* the last migration executed, 0 for none
  rows,     \* the rows of the version table
  spent     \* edits, crashes and spare migrations so far

dbVars == <<db, version, rows>>
vars   == <<models, ups, downs, clock, run, dbVars, spent>>

----------------------------------------------------------------------------
(* Texts: the things a migration adds and drops, whether it deletes a version *)
(* and the versions it inserts, which are hashes of the models: the models    *)
(* themselves.                                                              *)

\* A file that is not whole yet has no text.
NoText == [add |-> {}, drop |-> {}, deletes |-> FALSE, inserts |-> {}]
Content(file) == IF file.whole THEN file.text ELSE NoText

Apply(s, text) == (s \ text.drop) \cup text.add

\* What the files up to second n come to, n = clock for all of them.
ReplayTo(files, n) ==
  LET upTo[t \in Nat] ==
        IF t = 0 THEN {}
        ELSE IF t \in DOMAIN files THEN Apply(upTo[t - 1], Content(files[t]))
        ELSE upTo[t - 1]
  IN  upTo[n]

\* Deviation: the last file comes first.
ReplayNewestFirst(files) ==
  ReplayTo([t \in {clock + 1 - u : u \in DOMAIN files} |-> files[clock + 1 - t]], clock)

\* ReadPath and FromMigrationFolder: the files in the order of their names.
Replay(files) == ReplayTo(files, clock)

\* Deviation: the down file takes away what the up file adds, and no more.
DownTextOnlyDrops(r, versioned) ==
  [add |-> {}, drop |-> r.want \ r.old, deletes |-> versioned, inserts |-> {}]

\* Deviation: the up file has all of the models, as if there were no files yet.
UpTextFromNothing(r, versioned) ==
  [add |-> r.want, drop |-> r.old \ r.want,
   deletes |-> versioned, inserts |-> IF versioned THEN {r.want} ELSE {}]

UpText(r, versioned) ==
  [add |-> r.want \ r.old, drop |-> r.old \ r.want,
   deletes |-> versioned, inserts |-> IF versioned THEN {r.want} ELSE {}]
DownText(r, versioned) ==
  [add |-> r.old \ r.want, drop |-> r.want \ r.old,
   deletes |-> versioned, inserts |-> {}]

\* Deviation: models that only gained something are no reason to write.
NothingGone(r) == r.old \subseteq r.want

\* Both texts are empty.
IsEmpty(r) == r.want = r.old

----------------------------------------------------------------------------
(* The generator's runs.                                                    *)

IsOver(w) == run[w].pc \in {"idle", "done"}
AllOver   == \A w \in Runs : IsOver(w)

\* Deviation: the name of a file has no seconds.
MigrationFileMinute(now) == now \div 2

\* MigrationFileName: what of the time is in the name.
MigrationFileTime(now) == now

NewRun == [pc |-> "idle", want |-> {}, old |-> {}, at |-> 0, up |-> NoText, down |-> NoText]
Done(r) == [NewRun EXCEPT !.pc = "done", !.want = r.want]

\* NewSqlize and FromObjects.  A run that was done has exited by now.
Open(w) ==
  /\ IF Together THEN IsOver(w) ELSE AllOver
  /\ run' = [v \in Runs |->
       IF v = w THEN [NewRun EXCEPT !.pc = "opened", !.want = models]
       ELSE IF IsOver(v) THEN NewRun ELSE run[v]]
  /\ UNCHANGED <<models, ups, downs, clock, dbVars, spent>>

\* The second NewSqlize and FromMigrationFolder, and Diff.
ReadFolder(w) ==
  /\ run[w].pc = "opened"
  /\ run' = [run EXCEPT ![w].pc = "read", ![w].old = Replay(ups)]
  /\ UNCHANGED <<models, ups, downs, clock, dbVars, spent>>

\* A version of 0, which is the hash of no models, would stand for the version
\* table itself; such a run calls WriteFiles.
Versioned(w) == WithVersion[w] /\ run[w].want # {}

\* WriteFiles with nothing to write.
WriteNothing(w) ==
  /\ run[w].pc = "read"
  /\ IsEmpty(run[w])
  /\ Versioned(w) => spent.spare = MaxSpare
  /\ run' = [run EXCEPT ![w] = Done(@)]
  /\ UNCHANGED <<models, ups, downs, clock, dbVars, spent>>

\* WriteFiles, or WriteFilesWithVersion, which always has something to write.
\* The texts are made, the up file is named and made.
CreateUp(w) ==
  LET versioned == Versioned(w)
      spare == IF IsEmpty(run[w]) THEN 1 ELSE 0
      at    == MigrationFileTime(clock)
      up    == UpText(run[w], versioned)
  IN  /\ run[w].pc = "read"
      /\ versioned \/ ~IsEmpty(run[w])
      /\ spent.spare + spare <= MaxSpare
      /\ SameSecond \/ \A t \in DOMAIN ups : ups[t].made # clock
      /\ ups' = With(ups, at, [text |-> up, made |-> clock, whole |-> FALSE])
      /\ run' = [run EXCEPT ![w].pc = "upCreated", ![w].at = at, ![w].up = up,
                            ![w].down = DownText(run[w], versioned)]
      /\ spent' = [spent EXCEPT !.spare = @ + spare]
      /\ UNCHANGED <<models, downs, clock, dbVars>>

FillUp(w) ==
  /\ run[w].pc = "upCreated"
  /\ ups' = [ups EXCEPT ![run[w].at].text = run[w].up, ![run[w].at].whole = TRUE]
  /\ run' = [run EXCEPT ![w] = IF PairedSuffixes THEN [@ EXCEPT !.pc = "upWritten"] ELSE Done(@)]
  /\ UNCHANGED <<models, downs, clock, dbVars, spent>>

CreateDown(w) ==
  /\ run[w].pc = "upWritten"
  /\ downs' = With(downs, run[w].at,
               [text |-> run[w].down, made |-> clock, whole |-> FALSE])
  /\ run' = [run EXCEPT ![w].pc = "downCreated"]
  /\ UNCHANGED <<models, ups, clock, dbVars, spent>>

FillDown(w) ==
  /\ run[w].pc = "downCreated"
  /\ downs' = [downs EXCEPT ![run[w].at].text = run[w].down, ![run[w].at].whole = TRUE]
  /\ run' = [run EXCEPT ![w] = Done(@)]
  /\ UNCHANGED <<models, ups, clock, dbVars, spent>>

\* A run stops: an error of the file system, or the program is killed.
Crash(w) ==
  /\ ~IsOver(w)
  /\ spent.crashes < MaxCrashes
  /\ run' = [run EXCEPT ![w] = NewRun]
  /\ spent' = [spent EXCEPT !.crashes = @ + 1]
  /\ UNCHANGED <<models, ups, downs, clock, dbVars>>

----------------------------------------------------------------------------
(* What goes on around the generator.                                       *)

EditModels ==
  /\ spent.edits < MaxEdits
  /\ \E m \in SUBSET Things \ {models} : models' = m
  /\ spent' = [spent EXCEPT !.edits = @ + 1]
  /\ UNCHANGED <<ups, downs, clock, run, dbVars>>

\* Only a second in which a file was made needs to pass.
Tick ==
  /\ \E t \in DOMAIN ups : ups[t].made = clock
  /\ clock' = clock + 1
  /\ UNCHANGED <<models, ups, downs, run, dbVars, spent>>

\* The database refuses to add what there is, and to drop what there is not.
Accepted(text) == text.add \cap db = {} /\ text.drop \subseteq db

\* Deviation: the version before stays.
RowsAfterKeeps(text) == {rows \cup text.inserts}

\* DELETE ... LIMIT 1, and INSERT.
RowsAfter(text) ==
  IF ~text.deletes THEN {rows}
  ELSE {r \cup text.inserts :
          r \in IF rows = {} THEN {{}} ELSE {rows \ {row} : row \in rows}}

Execute(text) ==
  /\ Accepted(text)
  /\ db' = Apply(db, text)
  /\ rows' \in RowsAfter(text)
  /\ UNCHANGED <<models, ups, downs, clock, run, spent>>

Pending == {t \in DOMAIN ups : t > version}
Before  == {t \in DOMAIN ups : t < version} \cup {0}
Least(S)    == CHOOSE t \in S : \A u \in S : t <= u
Greatest(S) == CHOOSE t \in S : \A u \in S : t >= u

MigrateUp ==
  /\ Together \/ AllOver
  /\ Pending # {}
  /\ version' = Least(Pending)
  /\ Execute(Content(ups[Least(Pending)]))

\* The down file of the last migration is there, and it is whole.
CanRevert == version \in DOMAIN downs /\ (downs[version].whole \/ TornIsRun)

MigrateDown ==
  /\ Together \/ AllOver
  /\ CanRevert
  /\ version' = Greatest(Before)
  /\ Execute(Content(downs[version]))

----------------------------------------------------------------------------
Init ==
  /\ models = {} /\ ups = EmptyFunction /\ downs = EmptyFunction
  /\ clock = 1
  /\ run = [w \in Runs |-> NewRun]
  /\ db = {} /\ version = 0 /\ rows = {}
  /\ spent = [edits |-> 0, crashes |-> 0, spare |-> 0]

Write(w) ==
  \/ WriteNothing(w)
  \/ CreateUp(w)
  \/ FillUp(w) \/ CreateDown(w) \/ FillDown(w)

Step(w) == ReadFolder(w) \/ Write(w)

Next ==
  \/ \E w \in Runs : Open(w) \/ Step(w) \/ Crash(w)
  \/ EditModels \/ Tick \/ MigrateUp \/ MigrateDown

\* A run that has started goes on, time passes, and the generator is run again.
Fairness ==
  /\ \A w \in Runs : WF_vars(Step(w))
  /\ WF_vars(Tick)
  /\ WF_vars(\E w \in Runs : Open(w))

Spec     == Init /\ [][Next]_vars
FairSpec == Spec /\ Fairness

----------------------------------------------------------------------------
\* The type invariant: a file's name has a second that has passed, a down file has
\* its up file, a run writes a file that is there, the database's version is one.
TypeOK ==
  /\ models \in SUBSET Things /\ db \in SUBSET Things
  /\ DOMAIN ups \subseteq 1 .. clock
  /\ DOMAIN downs \cup {version} \subseteq DOMAIN ups \cup {0}
  /\ \A w \in Runs : run[w].pc \in {"upCreated", "upWritten", "downCreated"} =>
                      run[w].at \in DOMAIN ups
  /\ spent.edits \in 0 .. MaxEdits /\ spent.crashes \in 0 .. MaxCrashes
  /\ spent.spare \in 0 .. MaxSpare

\* Once a run has written its up file, or had none to write, the files replay to
\* the models it started with, also when runs before it stopped half-way.
FolderReachesModels ==
  \A w \in Runs : run[w].pc \in {"upWritten", "downCreated", "done"} =>
                    Replay(ups) = run[w].want

\* The migrations run: the database accepts the next one, and the down file of
\* the last one, whatever was reverted and executed again before.
MigrationsRun ==
  /\ Pending # {} => Accepted(Content(ups[Least(Pending)]))
  /\ CanRevert => Accepted(Content(downs[version]))

\* The database's schema is that of the files up to its version, in whatever
\* order they were executed and reverted.
DbFollowsFolder ==
  db = Replay([t \in {u \in DOMAIN ups : u <= version} |-> ups[t]])

\* The version table has at most one row, that of the last migration with a version
\* that is executed; the down file of one takes its row away without giving back
\* the row before, so that there is none until a migration with a version, which is
\* then pending, is executed again.
VersionFollows ==
  LET versioned == {t \in DOMAIN ups : Content(ups[t]).deletes}
      executed  == {t \in versioned : t <= version}
      last      == IF executed = {} THEN {} ELSE Content(ups[Greatest(executed)]).inserts
  IN  /\ Cardinality(rows) <= 1
      /\ \/ rows = last
         \/ rows = {} /\ executed # versioned

\* No file that is whole is touched again: what the database executed stays what
\* the next run reads.
WholeFilesStay ==
  [][/\ \A t \in DOMAIN ups : ups[t].whole => t \in DOMAIN ups' /\ ups'[t] = ups[t]
     /\ \A t \in DOMAIN downs : downs[t].whole => t \in DOMAIN downs' /\ downs'[t] = downs[t]]_vars

\* When the models are edited no more, the files reach them and stay with them,
\* whatever runs stopped on the way.
Converges == <>[](Replay(ups) = models)

=============================================================================
