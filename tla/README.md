# sqlize: a verification project

`sqlize` reads Go model structs and a folder of SQL migrations, compares the two
schemas, and writes the next migration (an *up* script and a *down* script). A
wrong answer is a script that a production database refuses, or worse, accepts
and ends in another schema than the models describe. This directory models the
way from the tags of a struct to the files in the folder: the builder, the
parsers, the in-memory schema they fill, `Diff`, the scripts, and what becomes of
the files when programs stop half-way.

Inside one program everything is sequential: no goroutine, no lock, no timer. What
is hard there is *history*: the state after a long sequence of legal statements
(add, drop, rename, add again, move), slices and maps that must stay in step,
slices that are shared by value copies, and a current table that is never named.
Nothing is scheduled, so these specifications assume no fairness, and "the script finishes"
is a safety property of its end state. Around the program there is concurrency
and failure: two programs write to one folder, either may stop between two
writes, and the migrations are executed and reverted meanwhile. `Folder` is about
that, and has the fairness and the liveness property.

## Inventory

| Component (source) | State | Operations | Hard part | What makes it correct |
|---|---|---|---|---|
| Named lists (`element/*.go`, four copies of one pattern) | a slice of nodes and a map name -> index | append, overwrite, remove, rename | nodes are never deleted, only marked; the map must follow every move | a name points to the node that bears it; every live node is reachable |
| `Table` (`element/table.go`) | three named lists, `columnPosition` | `AddColumn`, `removeColumn`, `RenameColumn`, `swapOrder`, `AddIndex`, `RemoveIndex`, `RenameIndex`, `AddForeignKey`, `RemoveForeignKey`, `Arrange` | FIRST/AFTER among dropped columns; a name that comes back; slicing past the length | the live nodes are what a database holds after the same statements |
| `Table.Diff` and the writers (`element/table.go`, `column.go`, `index.go`, `foreign_key.go`) | the two tables, shared slices | `Diff`, `MigrationColumnUp/Down`, `MigrationIndexUp/Down`, `MigrationForeignKeyUp/Down` | the order of statements; what a dropped column takes along; what a MODIFY must repeat | up reaches the models, down returns, a second comparison finds nothing |
| `Migration` (`element/migration.go`) | a named list of tables, `currentTable`; package variables `sql`, `ignoreFieldOrder` | `Using`, `AddTable`, `RemoveTable`, `RenameTable`, per-table delegation, `Diff`, `MigrationUp/Down`, `HashValue` | the current table is implicit; tables are matched by name whatever their action | each statement reaches the table it names |
| MySQL parser (`sqlparser/mysql.go`) | none of its own; a visitor over the AST of an external parser | `Enter` per node | parent nodes are entered before the table name below them is visited; some statements are read as nothing, one panics | the tree follows the text |
| PostgreSQL, SQLite parsers (`sqlparser/*.go`) | same tree | visitors over other ASTs | other statements are known, and some are filed under the table that was created last | same |
| SQL builder (`sqlbuilder/builder.go`) | options, table-name mapping | struct tags to CREATE statements | tags are read in order, nested structs bring prefixes | the statements run and make what the tags say |
| `Sqlize` facade (`sqlize.go`) | parser, options | `FromObjects`, `FromMigrationFolder`, `Diff`, `StringUp/Down`, `WriteFiles*` | `Diff` changes both arguments; up and down files are two writes | the composition of the above |
| Migration files, version table (`utils/file.go`, `utils/str.go`, `sqlize.go`) | a directory, a table | read, write, name by time | one name per second, two writes, a program that stops between them, another that writes meanwhile | no file lost, every file runs in its turn, the files reach the models |
| Templates, exports, utilities | none | formatting | - | not modelled: text |

Interaction: `FromObjects` builds CREATE statements and gives them to the
parser; `FromMigrationFolder` gives it every up file in order; the parser calls
the methods of `Migration`, which finds the `Table` and calls its methods.
`wanted.Diff(current)` walks the tables of both, leaves in `wanted` only nodes
whose action says what to write, and *also writes into `current`*, whose slices
it shares. `StringUp` and `StringDown` print the marked tree; both call
`Arrange`, which reorders the shared slice of columns. `WriteFiles` names the pair
of files by the second and writes them one after the other; golang-migrate, which
is not part of the repository, executes them.

`PROJECT.json` lists under `hazards` each place in the code where one of these
goes wrong first, with the property that would notice.

## Modules

| Module | Models | State and actions |
|---|---|---|
| `NamedList` | the slice-and-map pattern | operators on `[items, id]`; positions are 1-based, 0 is the code's -1 |
| `TableOps` | the methods of `Table` | operators from table record to table record; `panic` is set where Go would index or slice out of range |
| `DbOps` | the database (external) | `Legal(db, stm)`, `Exec(db, stm)` for the statements of one table |
| `DbTable` | abstract specification | a table changes by legal statements |
| `Table` | one table's migration history | `table` (the parser's), `here` (is it the parser's current table), `db` (the database's), `used` (names ever used); one action per kind of statement, which executes it on `db` and makes the parser's calls on `table` |
| `DiffOps` | `Table.Diff` and the writers | operators; a script is a sequence of the statement records of `DbOps` |
| `Sync` | the whole use of the tool on one table | `History` steps (those of `Table`), then one action per call: `LoadModels` (`FromObjects`), `Compare` (`Diff`), `WriteUp`, `WriteDown` (`StringUp`, `StringDown`), `RunStatement` (the database runs the script one statement at a time), `Revert` (the down script), `LoadAgain` (the script becomes a migration, the models are compared again) |
| `MigrationOps` | the methods of `Migration`, and `Enter` of the MySQL parser over several tables | operators on `[tables, current]`; `EnterSpec` is what happens when the ALTER TABLE is entered, `VisitSpec` when the nodes below it are |
| `Migration` | the history of a schema | `schema` (the parser's), `db` (table name to table), `used`; actions `CreateTable`, `DropTables`, `RenameTo`, `AlterTable` (a sequence of specifications), `CreateIndex`, `DropIndex` |
| `SchemaDiffOps` | `Migration.Diff`, `MigrationUp`, `MigrationDown` | operators on the pair of schemas; statements are `[tb, stm]`, among them the CREATE and DROP of a table |
| `SchemaSync` | the whole use of the tool on a schema | `Migration`'s history, then the calls of `Sync`; the script that joins the migrations is read statement by statement, with the current table that each leaves behind |
| `Dialects` | the parsers of PostgreSQL and SQLite next to MySQL's | `dialect`, chosen at the start, and the state of `Migration`; `CreateTableOf` ... `DropIndexOf` are the statements of the two, `PgAlterTable` and `LiteAlterTable` their ALTER TABLEs |
| `Builder` | `AddTable` and `parseStruct` of the SQL builder | `model` (a struct: fields with tags), `script`, the parser's `schema`, the database's `db`; the script is made at the start, `NextStatement` executes and reads its next statement |
| `Folder` | the files, the generator's runs, the version table | `ups`, `downs` (second to file), `run` (per run a program counter and what it has read), `db`, `version`, `rows`; one action per call that another process can see: `Open`, `ReadFolder`, `CreateUp`, `FillUp`, `CreateDown`, `FillDown`, `WriteNothing`, `Crash`, and around them `EditModels`, `Tick`, `MigrateUp`, `MigrateDown` |
| `TableProofs`, `TableAgreement`, `SyncProofs`, `MigrationProofs`, `MigrationAgreement`, `SchemaSyncProofs`, `FolderProofs` | | theorems about `NamedList`, `TableOps`, `Table`, its refinement of `DbTable`, `Sync` with the scripts of `DiffOps`, `Migration` (its shape, then its agreement with the database), `SchemaSync` with those of `SchemaDiffOps`, and `Folder` |
| `Folding` | | what these proofs know of natural numbers, of functions defined by recursion over them and of folds over a sequence |
| `MCTable`, `MCSync`, `MCMigration`, `MCSchemaSync`, `MCDialects`, `MCBuilder`, `MCFolder` | | constants, constraints and symmetry of the runs |

`Sync` composes `Table` and `DiffOps`; `SchemaSync` composes `Migration` and
`SchemaDiffOps`; `Dialects` has `Migration`'s actions as one of its three
parsers; `Builder` feeds the parser of `MigrationOps` and the database of `DbOps`.
`Folder` stands on the others: that a script takes the database from the files'
schema to the models' is what `SchemaSync` checks, and `Folder` takes it for
granted, so that there a migration is no more than what it adds and drops.

A definition under the comment "Deviation" is not part of any specification: it is
a mistake that the code might have made, kept because a property is known to
notice it.

Choices that matter when reading the model beside the code:

* The database is what the code takes for granted about it: a dropped column
  takes the indexes it leads and its foreign keys with it (the writers emit no
  DROP for them), and MODIFY leaves the primary key alone (`migrationUp` does not
  repeat it). A database that differs would make different findings.
* A primary-key constraint is an index named `primary_key` in the code and an
  ordinary index here.
* A database drops a foreign key by DROP FOREIGN KEY or DROP CONSTRAINT; the parser
  reads neither. `Enter` takes the name of the first from `Specs[i].Constraint`
  (`sqlparser/mysql.go:111`), where the external parser leaves nil for this
  statement, and panics (`Panicked`, `SchemaPanicked`: nothing is read after it). The
  second, which is what the tool writes itself (`sqltemplates/ddl.go:138`), is a
  specification that `Enter` has no case for, and is read as nothing. `RemoveForeignKey`
  is called by the PostgreSQL parser only. What the external parser returns for the two
  is taken from its AST and not from code under `src/`.
* Whether Go's append left spare capacity decides whether `swapOrder`
  (`element/table.go:106`) may slice one past the length. `SpareCapacity` makes
  this a constant, the same for a whole run; runs of both kinds exist.
* `Table` reads a column definition where the code visits the `ColumnDef` below
  the statement, so MODIFY COLUMN is read twice, as in the code.
* The position of an ADD COLUMN and a new foreign key go to the parser's current
  table, which is not always the one that the statement is about: after ADD FOREIGN KEY
  it is the one referred to. `Table` follows with `here` whether it is this table, and
  has such a statement wait until another one makes this table current again
  (`IsFiled`, `StaysHere`); the theorems and runs about one table speak of these
  histories. Where the position or the key goes otherwise is in `Migration`, with
  `Strays`.
* In `Builder` a name is a sequence of words, those of a prefix first: two names
  are the same when the code's strings are.
* In `Folder` a file's name is its second: the code's name has the user's words
  too, and two migrations with other words do not collide. The version in a
  version file is the hash of the models, and so is taken to be the models
  themselves; a hash of 0, which the code would take for the request to make the
  version table, is taken to be that of no models. The version table is there. The
  package variables (`element/migration.go:27`) are not in the model: each program has
  its own, and a file has no other text than what it adds and drops.

## Runs

Each run has at most two or three things in play so that the state space is
exhausted. The constants that restrict a history are preconditions, each because
the code does not do more; the violation runs lift the most important ones, and
the last table says what was seen when the others were lifted.

| Constant | Meaning | Why |
|---|---|---|
| `Reuse` | may a dropped or renamed name come back: never / only at the default place / anywhere | run `readd_positioned` shows that "anywhere" fails |
| `Cascades` | may a column be dropped or renamed while an index or foreign key mentions it | the parser keeps such indexes alive (hazard `table.go:137`) |
| `ShedsOptions` | may MODIFY leave out an option the column has | options accumulate (hazard `table.go:65`) |
| `Reorders`, `RedefinesIndexes`, `RedefinesKeys`, `RedefinesOptions`, `MovesIndexed` | what may differ between the models and the database | the tool writes nothing, or the wrong thing, for the rest |
| `Strays` | may a statement of which a part is filed under the current table be about another table, or have specifications in an order that matters | run `schema_position` shows that it fails |
| `Recreates`, `Relates`, `ManyKeys`, `MigrationTable` | what histories and models of several tables may contain | see the last table |
| `Misread` | what PostgreSQL and SQLite migrations contain of what their parsers misread | each name is one line of `Dialects`' head |
| `Quirks` | what structs contain of what the builder gets wrong | each is one conjunct of `IsRegular` |
| `RereadsKeyDrops` | may the script that joins the migrations drop a foreign key | run `sync_dropped_key` shows that it fails |
| `Together`, `SameSecond`, `TornIsRun` | may programs go on at once, may two files be made in a second, may half a down file be executed | see the last table |
| `MaxItems`, `MaxOptions`, `MaxColumns`, `MaxEdits`, `MaxCrashes`, `MaxSpare` | bounds | keep the state space finite |

| Run | Question | Result |
|---|---|---|
| `columns` | do FIRST/AFTER, drops, renames and modifications leave the parser with the database's table, in order, when names are not reused and a foreign key makes another table the current one in between? is it a refinement of `DbTable`? does printing disturb it? | holds |
| `names` | the names of columns come back at the default place or by renaming, those of indexes and foreign keys in any way: are the columns and indexes those of the database, is no foreign key missed, are the maps coherent, does reading panic on nothing but DROP FOREIGN KEY? | holds |
| `sync` | columns, types, options, indexes and foreign keys differ between models and database: does the script run and reach the models, does its inverse run and return, does a second comparison, after a script that drops no foreign key, only repeat a MODIFY? | holds |
| `dialects` | two tables are created, altered, renamed, dropped and created again, in each of the three dialects: does every statement reach its table and no other? | holds without `Strays` and `Misread` |
| `schema_sync` | tables come and go, refer to each other, and one is the version table: does the script of the whole schema run and reach the models, does its inverse return, is only a repetition left once it is a migration? | holds within the preconditions |
| `builder` | structs with up to two tags a field, foreign keys, composite keys, nested embedded structs: do the statements run, do they make what the tags say, does the parser read it? | holds without `Quirks` |
| `folder` | two generators, one of which writes versions, while models are edited, files are executed and reverted and a run stops anywhere: do the files reach the models, does every file run in its turn, do database and version table follow, do the files converge? | holds |
| `readd_positioned` | a dropped name comes back with FIRST or AFTER | **fails**: `swapOrder` moves a dropped node and the wrong one is cut out |
| `sync_dropped` | a migration dropped a column before | **fails**: the place of a lost column is computed in a slice with dropped columns |
| `sync_dropped_key` | the script that joins the migrations drops a foreign key | **fails**: DROP CONSTRAINT is read as nothing, and the next script drops the key again |
| `sync_new_index` | a new column comes with a new index | **fails**: the down script drops the column and then its index once more |
| `schema_position` | ADD COLUMN with FIRST or AFTER on another table than the statement before | **fails**: the position goes to that other table |

Bounds, and why they are enough. Four columns are the fewest for which a column
can be put after another, with a dropped one before and a live one behind it; two
indexes allow a rename and a swap of definitions; three columns in `sync` let a
column be lost from the start, the middle and the end, and there a model differs
from the database in its types, its options or its keys, not in two of these at
once: Diff has a loop of its own for columns, indexes and keys, and takes a column
for changed when its options or its type are. Two tables are the fewest for which a
statement and the one before it are about different ones, and for which a table
is dropped that another refers to; their names are symmetric. Two tags are the
fewest with an order, three fields leave room for a column that is neither the
primary key nor the indexed one, and one embedded struct in another is a nested
prefix. In `folder` two edits allow a migration to be followed by its opposite,
one crash separates any two writes, and one migration about the version alone is
the case of a version that did not change.

Deadlock is checked in `folder`, where after every step somebody has one to make:
a run, the clock or the migrator. It is not in the other runs: a history ends at its
bounds or with a panic, and a finished script has nothing left to do.

### Fairness

Only `Folder` assumes any: weak fairness of every step of a run that has started
(a program goes on unless it crashes; a crash ends the run, and there are
`MaxCrashes` of them), of the clock (only the passing of a second in which a file
was made), and of opening a run (somebody runs the generator again after the last
edit of the models: nothing in the repository does so by itself, and without it
there is nothing to converge). No fairness is assumed of the migrator or of the
person who edits the models: `Converges` is about the files.

### What was seen when a precondition was lifted

The counterexamples of the violation runs are in `PROJECT.json` under `findings`,
each with the line it contradicts. These were seen as well, by giving a constant
the other value in the `.cfg` of the run:

| Run | Change | Broken | Behaviour |
|---|---|---|---|
| `schema_sync` | `Recreates = TRUE` | `SchemaReachesModels` | a table that migrations dropped is taken for one that exists, and models that have it again do not create it |
| `schema_sync` | `Relates = TRUE` | `SchemaNeverFails` | both scripts go through the tables in one order: a table is dropped while another refers to it, or refers to a later one |
| `schema_sync` | `ManyKeys = TRUE`, `FkNames = {"f", "g"}` | `SchemaReachesModels` | after its first foreign key a new model's table is no longer the current one, and the next key is filed elsewhere |
| `schema_sync` | another `MigrationTable` | `VersionTableKept` | scripts spare the table with the default name, not the one that was asked for |
| `names` | `Cascades = TRUE` | `IndexesAgree` | an index that fell with its column is still there for the parser |
| `sync` | `RedefinesIndexes = TRUE` | `UpReachesModels` | `Diff` replaces the wanted index by the current one before it marks it (`element/table.go:353`), and the script drops the index and creates the old definition again |
| `schema_sync` | `RereadsKeyDrops = TRUE` | `OnlyRepeatsLeft` | as in `sync_dropped_key`: the drop of a key is written again |
| `dialects` | a name in `Misread` (`secondCommand` with `PgAlters` of two commands, `dropConstraint` with `FkPrefixed = {}`) | `TablesFound`, for `dropTable` `GoneTablesAreMarked` | the parser's table is not the database's; a dropped table is taken for one that is there |
| `builder` | `Quirks = {"tagOrder"}` | `ModelIsAccepted`, `ColumnsOfModel`, `IndexesOfModel` | the meaning of a field's tags depends on their order |
| `builder` | `{"indexedRename"}` | `ModelIsAccepted` | renames come before the indexes, which use the old names |
| `builder` | `{"prefix"}` | all but `ParserReadsModel` | lists of columns and renames are not given the prefix of an embedded struct |
| `builder` | `{"lateKey"}`, `{"null"}` | `ColumnsOfModel` | the primary key is swapped with the first column; `null` is read as `not_null` |
| `folder` | `Together = TRUE` | `FolderReachesModels` | what another run wrote after the folder was read is not in the text |
| `folder` | `SameSecond = TRUE` | `WholeFilesStay` | a migration overwrites the one of the same second |
| `folder` | `TornIsRun = TRUE` | `MigrationsRun` | half a down file reverts nothing, and the version goes back |

Also met: the script of a dropped table is repeated by every later comparison, and
its inverse creates the table again (`OnlyRepeatsLeft` allows the former); the
columns of a table that is rolled back return but not always to their place
(`Unordered` in `DownReturns` and `SchemaReturns`); under `Reuse = "last"` printing
changes the order of a table it prints (`Arrange` swaps without the map); a column
that was renamed is never found to be lost; an option whose value changed is no
change (`RedefinesOptions = "any"`); a redefined foreign key writes nothing
(`RedefinesKeys`).

The runs exclude these cases, so the passing runs do not show what the code does in
them; the hazards in `PROJECT.json` say so in their notes.

## Proofs

`TableProofs` first proves, for every list, that append, overwrite, remove and
rename keep it *sound*: coherent, every live node reachable, every position in
range. It and `TableAgreement` then prove for every value of the constants:

| Theorem | Under | Property |
|---|---|---|
| `ColumnsFound` | `Reuse # "any"` | `ColumnsCoherent` |
| `ReadingPanicsOnKeyDrops` | `Reuse # "any"` | `OnlyKeyDropsPanic` |
| `NamesAgree` | `Reuse # "any"` | the live columns' names are the database's |
| `ForeignKeysFound` | `Reuse # "any"` | `ForeignKeysCoherent` |
| `IndexesFound` | `Reuse # "any"`, `~Cascades` | `IndexesCoherent` |
| `TypeCorrect` | `Reuse # "any"`, `~Cascades` | `TypeOK` |
| `IndexesAreThose` | `Reuse # "any"`, `~Cascades` | `IndexesAgree` |
| `ForeignKeysAreKnown` | `Reuse # "any"`, `~Cascades` | `ForeignKeysKnown` |
| `ColumnsAreThose` | `Reuse # "any"`, `~ShedsOptions` | `ColumnSetAgrees` |
| `OrderIsThat` | `Reuse = "never"`, `~ShedsOptions` | `ColumnOrderAgrees` |
| `PrintingChangesNothing` | `Reuse = "never"` | `PrintingIsHarmless` |
| `ParserIsADatabase` | `Reuse = "never"`, `~Cascades`, `~ShedsOptions`, `Operations \subseteq OperationsRead` | `ImplementsDbTable`, the refinement |

`MigrationProofs` proves of the schema of several tables, as the MySQL parser reads it,
for every set of tables, columns, indexes and ALTER TABLEs:

| Theorem | Under | Property |
|---|---|---|
| `SchemaTyped` | | `TypeOK` |
| `GoneStayMarked` | | `GoneTablesAreMarked` |
| `PositionsAreTaken` | `~Strays` | `NoPositionWaits` |
| `OthersAreKept` | `~Strays` | `OthersKept`: a statement changes no other table, except for a position that is taken |

`MigrationAgreement` goes on to what the tables hold:

| Theorem | Under | Property |
|---|---|---|
| `TablesAreFound` | `~Strays`, `NoKeyIsDropped` | `TablesFound` |

`SyncProofs` proves of the whole use of the tool on one table, for every set of models
and of statements:

| Theorem | Under | Property |
|---|---|---|
| `ComparingNeverPanics` | `NoColumnGoes` (`Reuse = "never"`, no column is dropped or renamed), indexes of no kind or unique | `DiffNeverPanics` |

`SchemaSyncProofs` proves of the whole use of the tool on a schema, for every history,
every set of models and with or without strays:

| Theorem | Under | Property |
|---|---|---|
| `VersionTableStays` | `MigrationTable = DefaultMigrationTable` | `VersionTableKept` |

`FolderProofs` proves, for every set of runs and things, and all bounds:

| Theorem | Under | Property |
|---|---|---|
| `FilesStay` | `~SameSecond` | `WholeFilesStay` |
| `FolderTyped` | `~Together`, `~SameSecond`, `~TornIsRun` | `TypeOK` |
| `RunsReachModels` | the same | `FolderReachesModels` |
| `EveryMigrationRuns` | the same | `MigrationsRun` |
| `DatabaseFollows` | the same | `DbFollowsFolder` |
| `VersionIsTheLast` | the same | `VersionFollows` |

Each hypothesis is a precondition of the runs that check the property, and the runs
or the table above show what is broken without it.

### Induction and recursion

What a folder replays to and which nodes of a list are live are computed by
recursion, `ReplayTo` and `LiveItems`, both written as recursive functions on the
natural numbers. To the provers such a function is a CHOOSE of one that obeys its
equation. `Folding` shows once that there is one, for any value at 0 and any
step; a module that defines a recursive function instantiates it with its own two
and then has the equation as a fact (`ReplaySteps`, `LiveItemsStep`). Induction is by
least element: the induction theorems of the library take a predicate as a
parameter, which the provers cannot instantiate, but `EveryNatural` (in `Folding` as
well) takes a *set* of numbers, which they can.

### The parser's table

`ColumnsCoherent` is not inductive. `swapOrder` is given the place of the column
that AFTER names, and that the insertion is in range needs that column to be a
live one of the parser's table; that needs the parser's live names to be the
database's (`Legal` only speaks of the database); and that a new name is
*appended* before it is moved, so that the move starts at the last place, needs
every name in the map to be one the database's table has had (`used`).
`ColumnsInv` is the conjunction. It needs `Reuse # "any"` because a name that
comes back moves from the middle of the slice, where `swapOrder` is wrong, as
the run `readd_positioned` shows. `IndexesInv` says the same of the indexes: the
parser's live names are the database's, so a rename is never onto a live node.
It needs `~Cascades`: an index that the database dropped with its column is still
live for the parser, and renaming another index onto its name would leave two.

That the parser knows the *definitions* as well stands on three more invariants.
`KeysInv`: the database's indexes are the definitions of the live nodes, under their
names, and each of its foreign keys is that of a live node (`KeysKnown`; a key that was
dropped is live as well, since neither statement that drops one is read). `ColsInv`: for every live name the database's column is
the definition of its node, type and set of options; that a MODIFY COLUMN is read
twice, the second time merged into a node that is already there, is why it needs
`~ShedsOptions` (the merged options are the old and the new ones). `OrderInv`: of
two live names the one earlier in the slice is the one earlier in the database. It
speaks only of live nodes, since dropped ones lie anywhere in between, and needs
`Reuse = "never"`: a name that comes back at the default place takes its old node,
in the middle of the slice, while the database puts it last. (Under `"last"` the
order is in fact lost, which is why `ColumnOrderAgrees` is a property of the run
`columns` and not of `names`.) `ShapeInv` joins the two about columns. From them
`OrderFromInv` concludes that `LiveItems`, the nodes a CREATE TABLE would write, is
the database's sequence of columns: both are sequences without repetition, of the
same names, in the same order.

`ParserIsADatabase` is the refinement of `DbTable` under the mapping `View`. The
invariants give `View(table) = db` in every reachable state (`ViewIsDb`), with
`AllKeysInv`, the converse of `KeysKnown`, which holds as long as no statement drops a
foreign key (`Operations \subseteq OperationsRead`): after such a drop the two differ,
or the parser is dead. The database takes the steps of `DbTable` by its own definition, and so does the view
(`NextIsNext`): to read a history of legal statements with columns inserted in the
middle, dropped, renamed and redefined is, seen through the live nodes, to be a
database.

`PrintingChangesNothing` is about `Arrange`, which both scripts call: it reads the
names with their indexes from the map, sorts them by index and then, for one name
after the other, swaps the first column that bears it into the place that the name
has in the sorted list, leaving the map as it was. It is harmless when the sorted
list has at each place the name of the column there, that is, when no two names have one index and no place is
missing: `FoundInv`, which says that the map is a bijection between the names and
the places of the slice and that no name is borne twice, dropped nodes included.
Under `Reuse = "last"` renaming leaves gaps and printing does move columns. In the
model a name's rank is the number of names with a smaller index; the code never
makes two names with one index.

`OnlyKeyDropsPanic` is about every step on which reading begins to panic: `swapOrder`
panics on none (that is what `ColumnsInv` is for), and what is left is the one
statement whose reading is a panic by itself. The theorem says that nothing else in
`Table` or in the parser's calls can be fatal.

The proofs of a step have one lemma per statement; each uses one lemma about
what the parser's call does to the list (`...Sound`, `...Nodes`, `...Defs`) and one
about what the statement does to the database (`...Exec`, `...Places`).

### The schema of several tables

`SchemaInv` is inductive under no hypothesis, strays included: the list of tables is
sound, it knows every table of the database, those it knows beyond are marked (that
is `GoneStayMarked`), and the current table is a known one, or nothing was created
yet. A gone table stays marked because only `AddTable` sets a table's action to an
addition, and only a CREATE TABLE or a RENAME TO of that name calls it, after which
the database has the table.

`PositionInv` adds that no table has a position waiting and that `used` has every
name that a table's columns bear, in the parser and in the database. The second is
what makes the first inductive: `Enter` leaves the position at the current table and
the column that takes it is added when the nodes below are visited, and `AddColumn`
takes it only for a name the table does not know. That needs the name to be new
(`NamesAreNew`, which the code takes for granted in that a column it knows is
overwritten), the position to be about the only definition of the ALTER TABLE, and
the table to be the current one (`StaysInTable`); the run `schema_position` shows
what happens without the last. A dropped column stays a known name, hence `used` and
not the database's columns.

An ALTER TABLE is read in two passes, `EnterSpec` for every specification and then
`VisitSpec` for every one, each a fold that changes the current table on its way. The
proof goes through the first k specifications by induction on k (`EveryNatural`), with
one lemma per method of `Migration` for what it does to its own table and one for
what it leaves of the others. `Folding` supplies the step: `FoldLeft` takes elements
by the greatest number of a set and recurs over sets of numbers, and `FoldNext` says
that this is one application of the operator per element, in order.

`OthersKept` says of each *statement* that it keeps the tables it is not about.
`OthersUntouched`, which the run `dialects` checks, does not look at the statement but
takes for others the tables that are not current and that the database did not
change; that is TLC's, since it is not true of every `Alters`: an ALTER TABLE that
adds a foreign key and drops it by DROP CONSTRAINT changes its table in the parser only.

The assumption `MigrationAssumption` is about what an ALTER TABLE consists of (it
speaks of the names there are, and gives a column no option that the parser itself
sets for a foreign key), that a CREATE TABLE gives a name once, that no table has the
empty name (with which the code asks for the current table), and the bounds' types.

`TablesAreFound` is what all of this is for: in `FoundInv`, `AgreementInv` says of every
table of the database that the parser's table of that name has its columns with their
definitions, in their order, its indexes and its foreign keys (`Agrees`), and that the
names it knows are sound (`HoldsKeys`). One table's statements were dealt with in
`TableAgreement`, by lemmas about a table record and a database table that mention no
variable (`ColumnsFollow`, `InOrder`, `KeysFollow`, and what each method and statement
does to them), so that `MigrationAgreement` can instantiate that module and cite them for
each table of the schema. What is left is that a statement arrives there unchanged:

* ALTER TABLE. The parser takes the specifications in another order than the database,
  since definitions are only visited when all else has been entered. No specification drops a foreign key
  (`NoKeyIsDropped`), or the parser would keep it, or panic. Where the statement
  stays in its table there is a place at which its definitions begin (`AlterSplits`).
  Before it the two go in step (`StatementFollows`). From there on the pass that enters
  leaves the columns to be and only does the foreign keys, while the database has its
  columns already (`AgreesEntered`); then the pass that visits catches up, one
  definition after the other (`AgreesVisited`). A MODIFY COLUMN is entered first and
  visited later, and in between its column may lack options that the database's has:
  these are the `Halfway` ones, of which only that is said.
* CREATE TABLE, RENAME TO, DROP TABLE. A table that is created under the name of a
  dropped one starts from an empty record, and one renamed onto a dropped name takes its
  place in the map, so nothing of the dropped table is left under the name.
* every other table keeps its nodes (`SameNodes`), which is all that its view depends on.

Two more things are said of an ALTER TABLE than in a history of single statements. It
defines a column once, as databases ask (`LegalAlter`). And MODIFY COLUMN repeats the
options the column has (`KeepsOptions`, what `ShedsOptions = FALSE` is for one table),
because `AddColumn` merges the options of a column that it knows with the new ones
(hazard `table.go:65`).

### Comparing a table

`DiffNeverPanics` says that no list is sliced or indexed past its end, by the first
comparison, by either writer, or by the comparison that follows when the script is among
the migrations. `SyncInv` is inductive and says, phase by phase, what that takes:

* *history*: the parser's table is at rest and its columns were only added (`Ready`,
  `Grown`). A dropped column stays in the slice, and the place that `Diff` computes for a
  lost column counts it (`element/table.go:341`); without `NoColumnGoes` the run
  `sync_dropped` ends in a panic. Modified columns, and indexes and keys that come, go
  and are renamed, do no harm. A history may end in the panic of a DROP FOREIGN KEY, and
  then nothing is compared with it (`LoadModels`).
* *loaded*: what `FromObjects` built has additions only (`BuildMade`).
* *compared* and after: `ListsChanges`. Every column of either side is in the list, with
  the action that its side asks for (`ChangesTo`), and the map is still a bijection, so
  that `Arrange` moves nothing (`PrintedIs`); an index that is written has a column. The
  heart is `RecoverNext`: when `Diff` puts back lost column j, the j - 1 columns before
  it are in the slice already, each at a place of its own, so the place it computes is
  at most one past the end.
* *loaded* again: `NothingLost`. The script was read after the migrations, and no column
  is live that the models lack, so `Diff` puts none back and computes no place
  (`NoneRecovered`, `SecondDiff`). That is what `ScriptRead` is for: it follows the text
  that was written, `up = Up(new)`, statement by statement through the parser. Every
  ADD COLUMN names a column that is there or none, every DROP COLUMN one that is live,
  and the statements about indexes and keys touch no column's name. Here the parser's
  table does have dropped columns, and what the first comparison needs is not so.

A comparison is a composition of folds, and each is taken apart by the same lemmas:
`Folding` is instantiated with one step of the loop (`LostColumnAt`, `LostIndexAt`,
`ReadNext` ...) and with what the step keeps; what a writer makes of a list is a
flattened sequence of pieces, which is read piece by piece (`FoldFlat`).
`ModelsAssumption` says what models are: columns, indexes and keys that can be written.

### The scripts of a schema

`VersionTableKept` is about the database while a script or its inverse is executed
statement by statement, so `VersionInv` has to follow the two texts from where they
are made: `Spares` says of a script that each of its statements is one a script may
hold and is about another table than the default version table. It holds because
`MigrationUp` and `MigrationDown` pass over the table of that name, whatever `Diff` has
made of it; and what is executed is what was written, or what is left of it.

The writers go through lists that `Diff` has changed, and the text that is compared
again has been read by the parser, so `VersionInv` also keeps all three schemas
well-shaped (`SchemaShape`): every list a sequence, every name known to lead to the
node of that name. This goes through every fold of `Diff` on both sides (the shared
tables with their columns, indexes and foreign keys, the lost ones that are put
back), through `Arrange`, and through every statement of a script that is read
(`ReadScriptShape`); no script and no model need be legal for it. `Replaces`
says of one step of `Diff` that it puts one table in the place of another, and
`StaysTable` that it bears the same name, so that the map still leads to it.

The hypothesis is the hazard's other half: `WithMigrationTable` sets the name under
which versions are kept, and the writers compare with the default one.
`SchemaSyncAssumption` is about the models only (their columns are a sequence, their
indexes and foreign keys finite sets).

### The folder

`WholeFilesStay` says of a step what it does to whole files; that no step touches
one needs to know that a file is only filled by the run that made it, and only
while it is empty. `OwnedInv` says so: every run that is about to write has a file
of its own which is not whole, and whose second no other run has. It holds for runs
that go on at once as well, because a second in which an up file was made is not
used again until the clock has moved.

`FolderInv` is about what the files come to. `Chained`: every up file fits what the
files before it come to, and a whole down file is the inverse of its up file, which
is whole. `RunsFollow`: a run that writes has the last file, which is not executed
yet, and its text is the difference between what the files before it come to and
what it wants; once the up file is whole, the folder comes to that. `DbFollows`: the
database has what the files up to its version come to, and the version table's row
is that of the last of them that has one, or was taken away by a down file, which does
not give back the row before (`sqlize.go:221`): then a migration with a version is
pending. The invariant is inductive only because
files are appended behind what is executed: a new file changes no `ReplayTo` of an
earlier second (`SameReplay`), and the seconds between two files change nothing
(`QuietReplay`). It needs that runs do not go on at once (what a run has read must
still be so when it writes), that no two files are made within a second, and that
half a down file is not executed.

### What is model-checked only, and why

* `Converges` and everything else under fairness: TLC's part.
* Of `Sync` everything but `DiffNeverPanics`, and of `SchemaSync` everything but
  `VersionTableKept`: that a script reaches the models is about the very definitions
  that `Diff` and the writers make of two slices. What is proved of them is which
  columns they add, drop and redefine and where the statements are about, not that the
  database ends with the models' definitions.
* `Builder`: `ParseStruct` is recursive, as in the code.
* `OthersUntouched` in its own form.
* `Dialects`: the theorems of `MigrationProofs` are about `Migration`'s `Spec`, which
  is one of its three parsers.

## Not modelled

* Text: templates, quoting, letter case, the SQL type of a Go type, the names of
  tables made from those of types, hashes. Two schemas with one hash
  (hazard `table.go:410`) are therefore out of sight.
* Exports (Mermaid, Avro): formatting of a schema that is built.
* The external SQL parsers; FULLTEXT and SPATIAL indexes (the writer returns
  nothing for some); the primary-key constraint of MySQL's ALTER TABLE, which is
  read as an index.
* The PostgreSQL comments that become statements of their own, and the PostgreSQL
  and SQLite text of a migration: `Sync` and `SchemaSync` are about MySQL scripts.
* The creation of the version table (version 0) and
  `FromMigrationFolder`'s errors: they end the program before it writes.

## Plan

1. (done) `NamedList`, `TableOps`, `DbOps`, `DbTable`, `Table`, `DiffOps`, `Sync`,
   `MigrationOps`, `Migration`; soundness of the lists and coherence of a table
   proved.
2. (done) `SchemaDiffOps` and `SchemaSync`, `Dialects`, `Builder`, `Folder`; the
   files proved.
3. (done) The definitions and the order of a table's columns, the refinement of
   `DbTable`, the folder's chain of migrations and `Migration`'s invariants proved.
4. `SchemaSync` for PostgreSQL and SQLite scripts, with comments and default values
   as statements of their own.
5. (done) The scripts leave the version table alone, proved through `Diff`, the writers
   and the second reading of a schema; comparing and writing a table stay in range,
   proved for histories that drop and rename no column; the parser's tables are the
   database's when there are several.
6. `UpReachesModels` and `NeverFails` for one table: what the statements listed by
   `ListsChanges` do to the database. An index that migrations renamed has the action
   Rename, which `Diff` does not look for, so that models without it keep it: histories
   that rename indexes are to be left out. `SchemaNeverFails` as far as
   one statement goes.
