---------------------------- MODULE FolderProofs ----------------------------
(***************************************************************************)
(* Theorems of Folder.tla for every set of runs and things and every bound.  *)
(* No file that is whole is touched again as long as no two are made within  *)
(* a second, also when runs go on at once.  And, as long as they do not, and *)
(* no down file that is torn runs: the files come to what the runs were      *)
(* given, the migrations run, the database follows the files, and the row of *)
(* the version table the database, whatever runs stop and whatever is        *)
(* reverted.                                                                *)
(***************************************************************************)
EXTENDS Folder, TLAPS, FiniteSetTheorems

Writing == {"upCreated", "upWritten", "downCreated"}
Places  == {"idle", "opened", "read", "done"} \cup Writing

\* r and f are records with the fields of a run and of a file.
IsRun(r) ==
  r \in [pc : Places, want : {r.want}, old : {r.old}, at : {r.at}, up : {r.up}, down : {r.down}]
IsFile(f) == f \in [text : {f.text}, made : {f.made}, whole : BOOLEAN]
IsFolder(files) ==
  /\ files = [t \in DOMAIN files |-> files[t]]
  /\ \A t \in DOMAIN files : IsFile(files[t])

\* What the variables of the folder hold.
Shapes ==
  /\ IsFolder(ups) /\ IsFolder(downs)
  /\ run = [w \in Runs |-> run[w]]
  /\ \A w \in Runs : IsRun(run[w])

\* The steps that touch neither the files nor the runs.
LEMMA OtherSteps ==
  ASSUME EditModels \/ Tick \/ MigrateUp \/ MigrateDown
  PROVE  UNCHANGED <<ups, downs, run>>
BY DEF EditModels, Tick, MigrateUp, MigrateDown, Execute

\* Making a file: what its record is.
LEMMA NewFile ==
  ASSUME NEW text, NEW made
  PROVE  IsFile([text |-> text, made |-> made, whole |-> FALSE])
BY DEF IsFile

\* Filling a file of a folder.
LEMMA FilledFile ==
  ASSUME NEW files, IsFolder(files), NEW t \in DOMAIN files, NEW text
  PROVE  LET r == [files EXCEPT ![t].text = text, ![t].whole = TRUE]
         IN  /\ IsFolder(r) /\ DOMAIN r = DOMAIN files
             /\ r[t] = [text |-> text, made |-> files[t].made, whole |-> TRUE]
             /\ \A u \in DOMAIN files : u # t => r[u] = files[u]
<1> DEFINE r == [files EXCEPT ![t].text = text, ![t].whole = TRUE]
<1>1. IsFile(files[t]) BY DEF IsFolder
<1>2. /\ r = [u \in DOMAIN files |-> r[u]] /\ DOMAIN r = DOMAIN files
      /\ r[t] = [[files[t] EXCEPT !.text = text] EXCEPT !.whole = TRUE]
      /\ \A u \in DOMAIN files : u # t => r[u] = files[u]
  BY DEF IsFolder
<1>3. r[t] = [text |-> text, made |-> files[t].made, whole |-> TRUE]
  BY <1>1, <1>2 DEF IsFile
<1> HIDE DEF r
<1>4. IsFile(r[t]) BY <1>3 DEF IsFile
<1>5. \A u \in DOMAIN files : IsFile(r[u]) BY <1>2, <1>4 DEF IsFolder
<1> QED BY <1>2, <1>3, <1>5 DEF IsFolder, r

----------------------------------------------------------------------------
\* A file that a run is about to fill is there and is not whole, a down file that
\* it is about to make is not there yet, and no other run writes under its name.
Owned ==
  /\ DOMAIN downs \subseteq DOMAIN ups
  /\ \A t \in DOMAIN ups : ups[t].made = t
  /\ \A w \in Runs : run[w].pc \in Writing => run[w].at \in DOMAIN ups
  /\ \A w \in Runs : run[w].pc = "upCreated" => ~ups[run[w].at].whole
  /\ \A w \in Runs : run[w].pc \in {"upCreated", "upWritten"} => run[w].at \notin DOMAIN downs
  /\ \A w \in Runs : run[w].pc = "downCreated" =>
       run[w].at \in DOMAIN downs /\ ~downs[run[w].at].whole
  /\ \A v, w \in Runs : v # w /\ run[v].pc \in Writing /\ run[w].pc \in Writing =>
       run[v].at # run[w].at

\* What files that are whole go through in a step.
Kept ==
  /\ \A t \in DOMAIN ups : ups[t].whole => t \in DOMAIN ups' /\ ups'[t] = ups[t]
  /\ \A t \in DOMAIN downs : downs[t].whole => t \in DOMAIN downs' /\ downs'[t] = downs[t]

OwnedInv == Shapes /\ Owned

LEMMA InitOwned == Init => OwnedInv
<1> SUFFICES ASSUME Init PROVE OwnedInv OBVIOUS
<1>1. NewRun.pc = "idle" /\ IsRun(NewRun) BY DEF NewRun, IsRun, Places
<1>2. DOMAIN ups = {} /\ DOMAIN downs = {} /\ IsFolder(ups) /\ IsFolder(downs)
  BY DEF Init, EmptyFunction, IsFolder
<1>3. run = [w \in Runs |-> NewRun] BY DEF Init
<1> QED BY <1>1, <1>2, <1>3 DEF OwnedInv, Shapes, Owned, Writing

\* A step that leaves the files alone and lets no run begin or go on writing.
LEMMA QuietStep ==
  ASSUME OwnedInv, UNCHANGED <<ups, downs>>, run' = [w \in Runs |-> run'[w]],
         \A w \in Runs : IsRun(run'[w]) /\ (run'[w] = run[w] \/ run'[w].pc \notin Writing)
  PROVE  OwnedInv' /\ Kept
<1>1. Shapes' BY DEF OwnedInv, Shapes, IsFolder, IsFile, IsRun
<1>2. Owned' BY DEF OwnedInv, Owned, Writing
<1> QED BY <1>1, <1>2 DEF OwnedInv, Kept

\* What a run becomes when only its own record changes.
LEMMA OneRun ==
  ASSUME Shapes, NEW w \in Runs, NEW r, IsRun(r), run' = [run EXCEPT ![w] = r]
  PROVE  /\ run' = [v \in Runs |-> run'[v]]
         /\ run'[w] = r
         /\ \A v \in Runs : v # w => run'[v] = run[v]
         /\ \A v \in Runs : IsRun(run'[v])
BY DEF Shapes

LEMMA OpenOwned ==
  ASSUME OwnedInv, NEW w \in Runs, Open(w) \/ ReadFolder(w) \/ WriteNothing(w) \/ Crash(w)
  PROVE  OwnedInv' /\ Kept
<1>1. IsRun(NewRun) BY DEF IsRun, NewRun, Places
<1>2. IsRun(run[w]) BY DEF OwnedInv, Shapes
<1>3. CASE Open(w)
  <2> DEFINE r == [NewRun EXCEPT !.pc = "opened", !.want = models]
  <2>1. IsRun(r) /\ r.pc = "opened" BY DEF IsRun, NewRun, Places
  <2> HIDE DEF r
  <2>2. run' = [v \in Runs |-> IF v = w THEN r ELSE IF IsOver(v) THEN NewRun ELSE run[v]]
    BY <1>3 DEF Open, r
  <2>3. NewRun.pc = "idle" BY DEF NewRun
  <2> QED BY <1>1, <1>3, <2>1, <2>2, <2>3, QuietStep DEF Open, OwnedInv, Shapes, Writing
<1>4. CASE ReadFolder(w)
  <2> DEFINE r == [run[w] EXCEPT !.pc = "read", !.old = Replay(ups)]
  <2>1. IsRun(r) /\ r.pc = "read" BY <1>2 DEF IsRun, Places
  <2>2. run' = [run EXCEPT ![w] = r] BY <1>4 DEF ReadFolder
  <2> HIDE DEF r
  <2> QED BY <1>4, <2>1, <2>2, OneRun, QuietStep DEF ReadFolder, OwnedInv, Writing
<1>5. CASE WriteNothing(w)
  <2>1. IsRun(Done(run[w])) /\ Done(run[w]).pc = "done" BY DEF IsRun, Done, NewRun, Places
  <2>2. run' = [run EXCEPT ![w] = Done(run[w])] BY <1>5 DEF WriteNothing
  <2> QED BY <1>5, <2>1, <2>2, OneRun, QuietStep DEF WriteNothing, OwnedInv, Writing
<1>6. CASE Crash(w)
  <2>1. NewRun.pc = "idle" BY DEF NewRun
  <2> QED BY <1>1, <1>6, <2>1, OneRun, QuietStep DEF Crash, OwnedInv, Writing
<1> QED BY <1>3, <1>4, <1>5, <1>6

LEMMA CreateUpOwned ==
  ASSUME OwnedInv, ~SameSecond, NEW w \in Runs, CreateUp(w)
  PROVE  OwnedInv' /\ Kept
<1> DEFINE text == UpText(run[w], Versioned(w))
           f == [text |-> text, made |-> clock, whole |-> FALSE]
           r == [run[w] EXCEPT !.pc = "upCreated", !.at = clock, !.up = text,
                               !.down = DownText(run[w], Versioned(w))]
<1>1. IsFile(f) /\ ~f.whole /\ f.made = clock BY NewFile
<1>2. IsRun(r) /\ r.pc = "upCreated" /\ r.at = clock
  BY DEF OwnedInv, Shapes, IsRun, Places, Writing
<1>3. ups' = With(ups, clock, f) /\ run' = [run EXCEPT ![w] = r] /\ downs' = downs
  BY DEF CreateUp, MigrationFileTime
<1>4. \A t \in DOMAIN ups : t # clock BY DEF CreateUp, OwnedInv, Owned
<1> HIDE DEF text, f, r
<1>5. /\ IsFolder(ups') /\ DOMAIN ups' = DOMAIN ups \cup {clock} /\ ups'[clock] = f
      /\ \A t \in DOMAIN ups : ups'[t] = ups[t]
  <2>1. IsFolder(ups) BY DEF OwnedInv, Shapes
  <2>2. /\ IsFolder(With(ups, clock, f))
        /\ DOMAIN With(ups, clock, f) = DOMAIN ups \cup {clock}
        /\ With(ups, clock, f)[clock] = f
        /\ \A t \in DOMAIN ups : t # clock => With(ups, clock, f)[t] = ups[t]
    BY <1>1, <2>1 DEF With, IsFolder
  <2> QED BY <1>3, <1>4, <2>2
<1>6. /\ run' = [v \in Runs |-> run'[v]] /\ run'[w] = r
      /\ \A v \in Runs : v # w => run'[v] = run[v]
      /\ \A v \in Runs : IsRun(run'[v])
  BY <1>2, <1>3, OneRun DEF OwnedInv
<1>7. Shapes' BY <1>3, <1>5, <1>6 DEF OwnedInv, Shapes, IsFolder, IsFile, IsRun
<1>8. Owned'
  <2>1. DOMAIN downs' \subseteq DOMAIN ups' /\ \A t \in DOMAIN ups' : ups'[t].made = t
    BY <1>1, <1>3, <1>5 DEF OwnedInv, Owned
  <2>2. \A v \in Runs : run'[v].pc \in Writing => run'[v].at \in DOMAIN ups'
    BY <1>2, <1>5, <1>6 DEF OwnedInv, Owned
  <2>3. \A v \in Runs : run'[v].pc = "upCreated" => ~ups'[run'[v].at].whole
    BY <1>1, <1>2, <1>5, <1>6 DEF OwnedInv, Owned, Writing
  <2>4. \A v \in Runs : run'[v].pc \in {"upCreated", "upWritten"} =>
                          run'[v].at \notin DOMAIN downs'
    BY <1>2, <1>3, <1>4, <1>6 DEF OwnedInv, Owned
  <2>5. \A v \in Runs : run'[v].pc = "downCreated" =>
                          run'[v].at \in DOMAIN downs' /\ ~downs'[run'[v].at].whole
    BY <1>2, <1>3, <1>6 DEF OwnedInv, Owned
  <2>6. \A v \in Runs : v # w /\ run'[v].pc \in Writing => run'[v].at # clock
    BY <1>4, <1>6 DEF OwnedInv, Owned
  <2>7. \A v, u \in Runs : v # u /\ run'[v].pc \in Writing /\ run'[u].pc \in Writing =>
                             run'[v].at # run'[u].at
    BY <1>2, <1>6, <2>6 DEF OwnedInv, Owned
  <2> QED BY <2>1, <2>2, <2>3, <2>4, <2>5, <2>7 DEF Owned
<1>9. Kept BY <1>3, <1>5 DEF Kept
<1> QED BY <1>7, <1>8, <1>9 DEF OwnedInv

LEMMA FillUpOwned ==
  ASSUME OwnedInv, NEW w \in Runs, FillUp(w)
  PROVE  OwnedInv' /\ Kept
<1> DEFINE t == run[w].at
           r == IF PairedSuffixes THEN [run[w] EXCEPT !.pc = "upWritten"] ELSE Done(run[w])
<1>1. /\ IsFolder(ups) /\ t \in DOMAIN ups /\ ~ups[t].whole /\ t \notin DOMAIN downs
      /\ run[w].pc = "upCreated"
  BY DEF OwnedInv, Shapes, Owned, FillUp, Writing
<1>2. IsRun(r) /\ r.pc \in {"upWritten", "done"} /\ (r.pc = "upWritten" => r.at = t)
  BY DEF OwnedInv, Shapes, IsRun, Done, NewRun, Places, Writing
<1>3. /\ ups' = [ups EXCEPT ![t].text = run[w].up, ![t].whole = TRUE]
      /\ run' = [run EXCEPT ![w] = r] /\ downs' = downs
  BY DEF FillUp
<1> HIDE DEF t, r
<1>4. /\ IsFolder(ups') /\ DOMAIN ups' = DOMAIN ups /\ ups'[t].made = ups[t].made
      /\ \A u \in DOMAIN ups : u # t => ups'[u] = ups[u]
  <2> DEFINE text == run[w].up
             q == [ups EXCEPT ![t].text = text, ![t].whole = TRUE]
  <2> HIDE DEF text
  <2>1. /\ IsFolder(q) /\ DOMAIN q = DOMAIN ups
        /\ q[t] = [text |-> text, made |-> ups[t].made, whole |-> TRUE]
        /\ \A u \in DOMAIN ups : u # t => q[u] = ups[u]
    BY <1>1, FilledFile
  <2>2. ups' = q BY <1>3 DEF text
  <2> HIDE DEF q
  <2> QED BY <2>1, <2>2
<1>5. /\ run' = [v \in Runs |-> run'[v]] /\ run'[w] = r
      /\ \A v \in Runs : v # w => run'[v] = run[v]
      /\ \A v \in Runs : IsRun(run'[v])
  BY <1>2, <1>3, OneRun DEF OwnedInv
<1>6. \A v \in Runs : v # w /\ run[v].pc \in Writing => run[v].at # t
  BY <1>1 DEF OwnedInv, Owned, Writing, t
<1>7. Shapes'
  <2>1. IsFolder(ups') /\ IsFolder(downs') BY <1>3, <1>4 DEF OwnedInv, Shapes
  <2> QED BY <1>5, <2>1 DEF Shapes, IsFolder, IsFile, IsRun
<1>8. Owned'
  <2>1. DOMAIN downs' \subseteq DOMAIN ups' /\ \A u \in DOMAIN ups' : ups'[u].made = u
    BY <1>1, <1>3, <1>4 DEF OwnedInv, Owned
  <2>2. \A v \in Runs : run'[v].pc \in Writing => run'[v].at \in DOMAIN ups'
    BY <1>1, <1>2, <1>4, <1>5 DEF OwnedInv, Owned, Writing
  <2>3. \A v \in Runs : run'[v].pc = "upCreated" => ~ups'[run'[v].at].whole
    BY <1>2, <1>4, <1>5, <1>6 DEF OwnedInv, Owned, Writing
  <2>4. \A v \in Runs : run'[v].pc \in {"upCreated", "upWritten"} =>
                          run'[v].at \notin DOMAIN downs'
    BY <1>1, <1>2, <1>3, <1>5 DEF OwnedInv, Owned
  <2>5. \A v \in Runs : run'[v].pc = "downCreated" =>
                          run'[v].at \in DOMAIN downs' /\ ~downs'[run'[v].at].whole
    BY <1>2, <1>3, <1>5 DEF OwnedInv, Owned
  <2>6. \A v, u \in Runs : v # u /\ run'[v].pc \in Writing /\ run'[u].pc \in Writing =>
                             run'[v].at # run'[u].at
    BY <1>2, <1>5, <1>6 DEF OwnedInv, Owned, Writing
  <2> QED BY <2>1, <2>2, <2>3, <2>4, <2>5, <2>6 DEF Owned
<1>9. Kept BY <1>1, <1>3, <1>4 DEF Kept
<1> QED BY <1>7, <1>8, <1>9 DEF OwnedInv

LEMMA CreateDownOwned ==
  ASSUME OwnedInv, NEW w \in Runs, CreateDown(w)
  PROVE  OwnedInv' /\ Kept
<1> DEFINE t == run[w].at
           f == [text |-> run[w].down, made |-> clock, whole |-> FALSE]
           r == [run[w] EXCEPT !.pc = "downCreated"]
<1>1. /\ IsFolder(downs) /\ t \in DOMAIN ups /\ t \notin DOMAIN downs /\ run[w].pc = "upWritten"
  BY DEF OwnedInv, Shapes, Owned, CreateDown, Writing
<1>2. IsRun(r) /\ r.pc = "downCreated" /\ r.at = t
  BY DEF OwnedInv, Shapes, IsRun, Places, Writing
<1>3. downs' = With(downs, t, f) /\ run' = [run EXCEPT ![w] = r] /\ ups' = ups
  BY DEF CreateDown
<1>4. IsFile(f) /\ ~f.whole BY NewFile
<1> HIDE DEF t, f, r
<1>5. /\ IsFolder(downs') /\ DOMAIN downs' = DOMAIN downs \cup {t} /\ downs'[t] = f
      /\ \A u \in DOMAIN downs : downs'[u] = downs[u]
  <2>1. /\ IsFolder(With(downs, t, f))
        /\ DOMAIN With(downs, t, f) = DOMAIN downs \cup {t}
        /\ With(downs, t, f)[t] = f
        /\ \A u \in DOMAIN downs : u # t => With(downs, t, f)[u] = downs[u]
    BY <1>1, <1>4 DEF With, IsFolder
  <2> QED BY <1>1, <1>3, <2>1
<1>6. /\ run' = [v \in Runs |-> run'[v]] /\ run'[w] = r
      /\ \A v \in Runs : v # w => run'[v] = run[v]
      /\ \A v \in Runs : IsRun(run'[v])
  BY <1>2, <1>3, OneRun DEF OwnedInv
<1>7. \A v \in Runs : v # w /\ run[v].pc \in Writing => run[v].at # t
  BY <1>1 DEF OwnedInv, Owned, Writing, t
<1>8. Shapes' BY <1>3, <1>5, <1>6 DEF OwnedInv, Shapes, IsFolder, IsFile, IsRun
<1>9. Owned'
  <2>1. DOMAIN downs' \subseteq DOMAIN ups' /\ \A u \in DOMAIN ups' : ups'[u].made = u
    BY <1>1, <1>3, <1>5 DEF OwnedInv, Owned
  <2>2. \A v \in Runs : run'[v].pc \in Writing => run'[v].at \in DOMAIN ups'
    BY <1>1, <1>2, <1>3, <1>6 DEF OwnedInv, Owned
  <2>3. \A v \in Runs : run'[v].pc = "upCreated" => ~ups'[run'[v].at].whole
    BY <1>2, <1>3, <1>6 DEF OwnedInv, Owned
  <2>4. \A v \in Runs : run'[v].pc \in {"upCreated", "upWritten"} =>
                          run'[v].at \notin DOMAIN downs'
    BY <1>2, <1>5, <1>6, <1>7 DEF OwnedInv, Owned, Writing
  <2>5. \A v \in Runs : run'[v].pc = "downCreated" =>
                          run'[v].at \in DOMAIN downs' /\ ~downs'[run'[v].at].whole
    BY <1>2, <1>4, <1>5, <1>6 DEF OwnedInv, Owned
  <2>6. \A v, u \in Runs : v # u /\ run'[v].pc \in Writing /\ run'[u].pc \in Writing =>
                             run'[v].at # run'[u].at
    BY <1>2, <1>6, <1>7 DEF OwnedInv, Owned, Writing
  <2> QED BY <2>1, <2>2, <2>3, <2>4, <2>5, <2>6 DEF Owned
<1>10. Kept BY <1>1, <1>3, <1>5 DEF Kept
<1> QED BY <1>8, <1>9, <1>10 DEF OwnedInv

LEMMA FillDownOwned ==
  ASSUME OwnedInv, NEW w \in Runs, FillDown(w)
  PROVE  OwnedInv' /\ Kept
<1> DEFINE t == run[w].at
           r == Done(run[w])
<1>1. IsFolder(downs) /\ t \in DOMAIN downs /\ ~downs[t].whole /\ run[w].pc = "downCreated"
  BY DEF OwnedInv, Shapes, Owned, FillDown
<1>2. IsRun(r) /\ r.pc = "done" BY DEF IsRun, Done, NewRun, Places
<1>3. /\ downs' = [downs EXCEPT ![t].text = run[w].down, ![t].whole = TRUE]
      /\ run' = [run EXCEPT ![w] = r] /\ ups' = ups
  BY DEF FillDown
<1> HIDE DEF t, r
<1>4. /\ IsFolder(downs') /\ DOMAIN downs' = DOMAIN downs
      /\ \A u \in DOMAIN downs : u # t => downs'[u] = downs[u]
  BY <1>1, <1>3, FilledFile
<1>5. /\ run' = [v \in Runs |-> run'[v]] /\ run'[w] = r
      /\ \A v \in Runs : v # w => run'[v] = run[v]
      /\ \A v \in Runs : IsRun(run'[v])
  BY <1>2, <1>3, OneRun DEF OwnedInv
<1>6. \A v \in Runs : v # w /\ run[v].pc \in Writing => run[v].at # t
  BY <1>1 DEF OwnedInv, Owned, Writing, t
<1>7. Shapes'
  <2>1. IsFolder(ups') /\ IsFolder(downs') BY <1>3, <1>4 DEF OwnedInv, Shapes
  <2> QED BY <1>5, <2>1 DEF Shapes, IsFolder, IsFile, IsRun
<1>8. Owned' BY <1>2, <1>3, <1>4, <1>5, <1>6 DEF OwnedInv, Owned, Writing
<1>9. Kept BY <1>1, <1>3, <1>4 DEF Kept
<1> QED BY <1>7, <1>8, <1>9 DEF OwnedInv

LEMMA NextOwned ==
  ASSUME OwnedInv, ~SameSecond, [Next]_vars
  PROVE  OwnedInv' /\ Kept
<1>1. CASE \E w \in Runs : Open(w) \/ Step(w) \/ Crash(w)
  <2>1. PICK w \in Runs : Open(w) \/ Step(w) \/ Crash(w) BY <1>1
  <2> QED BY <2>1, OpenOwned, CreateUpOwned, FillUpOwned, CreateDownOwned, FillDownOwned
          DEF Step, Write
<1>2. CASE EditModels \/ Tick \/ MigrateUp \/ MigrateDown
  <2>1. UNCHANGED <<ups, downs, run>> BY <1>2, OtherSteps
  <2> QED BY <2>1, QuietStep DEF OwnedInv, Shapes
<1>3. CASE UNCHANGED vars BY <1>3, QuietStep DEF vars, OwnedInv, Shapes
<1> QED BY <1>1, <1>2, <1>3 DEF Next

\* No file that is whole is written again (writeFiles, sqlize.go), whatever runs
\* go on at once or stop, as long as no two files are made within a second.
THEOREM FilesStay ==
  ASSUME ~SameSecond
  PROVE  Spec => WholeFilesStay
<1>1. Init => OwnedInv BY InitOwned
<1>2. OwnedInv /\ [Next]_vars => OwnedInv' /\ Kept BY NextOwned
<1>3. Kept => [/\ \A t \in DOMAIN ups : ups[t].whole => t \in DOMAIN ups' /\ ups'[t] = ups[t]
               /\ \A t \in DOMAIN downs : downs[t].whole => t \in DOMAIN downs' /\ downs'[t] = downs[t]]_vars
  BY DEF Kept
<1> QED BY <1>1, <1>2, <1>3, PTL DEF Spec, WholeFilesStay

----------------------------------------------------------------------------
(* What the files come to.                                                  *)

\* What replaying the files does at one second.
ReplayAt(files, s, t) == IF t \in DOMAIN files THEN Apply(s, Content(files[t])) ELSE s

Replaying == INSTANCE Folding WITH Op <- ReplayAt, Holds <- LAMBDA files, s : TRUE

\* What the file of a second says, nothing when there is no such file.
TextAt(files, t) == IF t \in DOMAIN files THEN Content(files[t]) ELSE NoText

\* The equation of ReplayTo.
LEMMA ReplaySteps ==
  ASSUME NEW files
  PROVE  /\ ReplayTo(files, 0) = {}
         /\ \A n \in Nat : ReplayTo(files, n + 1) = Apply(ReplayTo(files, n), TextAt(files, n + 1))
<1>1. \A n : ReplayTo(files, n) = Replaying!Iterate(files, {}, n)
  BY DEF ReplayTo, Replaying!Iterate, ReplayAt
<1>2. /\ Replaying!Iterate(files, {}, 0) = {}
      /\ \A n \in Nat : Replaying!Iterate(files, {}, n + 1) =
                          ReplayAt(files, Replaying!Iterate(files, {}, n), n + 1)
  BY Replaying!IterateStep
<1>3. \A n \in Nat : ReplayAt(files, ReplayTo(files, n), n + 1) =
                       Apply(ReplayTo(files, n), TextAt(files, n + 1))
  BY DEF ReplayAt, TextAt, Apply, NoText
<1> QED BY <1>1, <1>2, <1>3

\* Files that say the same up to a second come to the same.
LEMMA SameReplay ==
  ASSUME NEW f, NEW g, NEW n \in Nat, \A t \in 1 .. n : TextAt(f, t) = TextAt(g, t)
  PROVE  ReplayTo(f, n) = ReplayTo(g, n)
<1> DEFINE T == {k \in Nat : k <= n => ReplayTo(f, k) = ReplayTo(g, k)}
<1>1. 0 \in T BY ReplaySteps
<1>2. ASSUME NEW k \in Nat, k \in T PROVE k + 1 \in T
  <2> SUFFICES ASSUME k + 1 <= n PROVE ReplayTo(f, k + 1) = ReplayTo(g, k + 1) OBVIOUS
  <2>1. ReplayTo(f, k) = ReplayTo(g, k) /\ TextAt(f, k + 1) = TextAt(g, k + 1) BY <1>2
  <2> QED BY <2>1, ReplaySteps
<1> HIDE DEF T
<1>3. \A k \in Nat : k \in T BY <1>1, <1>2, Replaying!EveryNatural
<1> QED BY <1>3 DEF T

\* Seconds without a file, or with one that is not whole, change nothing.
LEMMA QuietReplay ==
  ASSUME NEW f, NEW m \in Nat, NEW n \in Nat, m <= n, \A t \in m + 1 .. n : TextAt(f, t) = NoText
  PROVE  ReplayTo(f, n) = ReplayTo(f, m)
<1> DEFINE T == {k \in Nat : m + k <= n => ReplayTo(f, m + k) = ReplayTo(f, m)}
<1>1. 0 \in T OBVIOUS
<1>2. ASSUME NEW k \in Nat, k \in T PROVE k + 1 \in T
  <2> SUFFICES ASSUME m + (k + 1) <= n PROVE ReplayTo(f, m + (k + 1)) = ReplayTo(f, m) OBVIOUS
  <2>1. ReplayTo(f, m + k) = ReplayTo(f, m) /\ m + k \in Nat BY <1>2
  <2>2. ReplayTo(f, (m + k) + 1) = Apply(ReplayTo(f, m + k), TextAt(f, (m + k) + 1))
    BY <2>1, ReplaySteps
  <2>3. TextAt(f, (m + k) + 1) = NoText /\ (m + k) + 1 = m + (k + 1) OBVIOUS
  <2>4. \A s : Apply(s, NoText) = s BY DEF Apply, NoText
  <2> QED BY <2>1, <2>2, <2>3, <2>4
<1> HIDE DEF T
<1>3. \A k \in Nat : k \in T BY <1>1, <1>2, Replaying!EveryNatural
<1>4. n - m \in T BY <1>3
<1> QED BY <1>4 DEF T

\* Files that add things come to things.
LEMMA ReplayOfThings ==
  ASSUME NEW files, \A t \in DOMAIN files : Content(files[t]).add \subseteq Things
  PROVE  \A n \in Nat : ReplayTo(files, n) \subseteq Things
<1> DEFINE T == {k \in Nat : ReplayTo(files, k) \subseteq Things}
<1>1. 0 \in T BY ReplaySteps
<1>2. ASSUME NEW k \in Nat, k \in T PROVE k + 1 \in T
  <2>1. TextAt(files, k + 1).add \subseteq Things BY DEF TextAt, NoText
  <2>2. ReplayTo(files, k + 1) = Apply(ReplayTo(files, k), TextAt(files, k + 1)) BY ReplaySteps
  <2> QED BY <1>2, <2>1, <2>2 DEF Apply
<1> HIDE DEF T
<1>3. \A k \in Nat : k \in T BY <1>1, <1>2, Replaying!EveryNatural
<1> QED BY <1>3 DEF T

----------------------------------------------------------------------------
\* The text adds what is not in schema s and drops what is; it is about the version
\* or inserts none.
Fits(text, s) ==
  /\ text.add \subseteq Things /\ text.add \cap s = {} /\ text.drop \subseteq s
  /\ \A a, b \in text.inserts : a = b

\* One text takes back what the other does.
Undoes(down, up) ==
  /\ down.add = up.drop /\ down.drop = up.add
  /\ down.deletes = up.deletes /\ down.inserts = {}

\* A run's texts are the difference of what it read and what it wants.
Differs(r) ==
  /\ Fits(r.up, r.old) /\ Apply(r.old, r.up) = r.want
  /\ Undoes(r.down, r.up)

\* At most one run is not idle.
OthersIdle == \A v, w \in Runs : v # w => run[v].pc = "idle" \/ run[w].pc = "idle"

\* What the variables hold besides files and runs.
Typed ==
  /\ models \subseteq Things /\ db \subseteq Things
  /\ clock \in Nat /\ clock > 0 /\ DOMAIN ups \subseteq 1 .. clock
  /\ DOMAIN downs \subseteq DOMAIN ups /\ version \in DOMAIN ups \cup {0}
  /\ spent \in [edits : 0 .. MaxEdits, crashes : 0 .. MaxCrashes, spare : 0 .. MaxSpare]

\* Every file fits what the files before it come to, and a down file that is whole
\* takes back an up file that is.
Chained ==
  /\ \A t \in DOMAIN ups : Fits(Content(ups[t]), ReplayTo(ups, t - 1))
  /\ \A t \in DOMAIN downs : downs[t].whole =>
       ups[t].whole /\ Undoes(downs[t].text, ups[t].text)

\* What a run has read is still so, it writes the last file, which is not executed,
\* and with that file the folder comes to what the run wants.
Follows(r) ==
  /\ r.want \subseteq Things /\ r.old \subseteq Things
  /\ r.pc = "read" => r.old = Replay(ups)
  /\ r.pc \in Writing =>
       /\ \A t \in DOMAIN ups : t <= r.at
       /\ version < r.at
       /\ r.old = ReplayTo(ups, r.at - 1)
       /\ Differs(r)
  /\ r.pc \in {"upWritten", "downCreated"} => ups[r.at].whole /\ ups[r.at].text = r.up
  /\ r.pc \in {"upWritten", "downCreated", "done"} => Replay(ups) = r.want

RunsFollow == \A w \in Runs : Follows(run[w])

\* The files a version of the schema has been through that are about the version.
VersionedTo(v) == {t \in DOMAIN ups : t <= v /\ Content(ups[t]).deletes}

\* The version table has the version of the last of those, or it is empty and a
\* migration that is about the version is yet to be executed.
RowOfTheLast ==
  /\ VersionedTo(version) = {} => rows = {}
  /\ \A t \in VersionedTo(version) :
       (\A u \in VersionedTo(version) : u <= t) => rows = Content(ups[t]).inserts
RowAwaited ==
  /\ rows = {}
  /\ \E t \in DOMAIN ups : t > version /\ Content(ups[t]).deletes

\* The database holds what the files up to its version come to, and its row.
DbFollows ==
  /\ db = ReplayTo(ups, version)
  /\ \A a, b \in rows : a = b
  /\ RowOfTheLast \/ RowAwaited

\* The parts of the invariant besides who writes which file.
Rest == Typed /\ OthersIdle /\ Chained /\ RunsFollow /\ DbFollows

FolderInv == OwnedInv /\ Rest

----------------------------------------------------------------------------
LEMMA InitFolder == Init => FolderInv
<1> SUFFICES ASSUME Init PROVE FolderInv OBVIOUS
<1>1. OwnedInv BY InitOwned
<1>2. DOMAIN ups = {} /\ DOMAIN downs = {} BY DEF Init, EmptyFunction
<1>3. /\ \A w \in Runs : run[w] = NewRun
      /\ NewRun.pc = "idle" /\ NewRun.want = {} /\ NewRun.old = {}
  BY DEF Init, NewRun
<1>4. Typed BY <1>2, FolderAssumption DEF Init, Typed
<1>5. OthersIdle /\ Chained BY <1>2, <1>3 DEF OthersIdle, Chained
<1>6. RunsFollow BY <1>3 DEF RunsFollow, Follows, Writing
<1>7. DbFollows BY <1>2, ReplaySteps DEF Init, DbFollows, VersionedTo, RowOfTheLast
<1> QED BY <1>1, <1>4, <1>5, <1>6, <1>7 DEF FolderInv, Rest

\* When one run goes on, the others are idle, and stay so.
LEMMA OneGoesOn ==
  ASSUME FolderInv, NEW w \in Runs, run[w].pc # "idle",
         \A v \in Runs : v # w => run'[v] = run[v]
  PROVE  /\ OthersIdle'
         /\ \A v \in Runs : v # w => run'[v].pc = "idle" /\ Follows(run[v])'
<1>1. \A v \in Runs : v # w => run[v].pc = "idle" /\ Follows(run[v])
  BY DEF FolderInv, Rest, OthersIdle, RunsFollow
<1>2. \A v \in Runs : v # w => run'[v].pc = "idle" /\ Follows(run[v])'
  BY <1>1 DEF Follows, Writing
<1> QED BY <1>2 DEF OthersIdle

\* A step of a run that touches no up file, nor a down file that is whole.
LEMMA RunStep ==
  ASSUME FolderInv, NEW w \in Runs, run[w].pc # "idle", UNCHANGED <<models, ups, clock, dbVars>>,
         \A v \in Runs : v # w => run'[v] = run[v],
         Follows(run'[w]),
         DOMAIN downs' \subseteq DOMAIN ups,
         \A t \in DOMAIN downs' : downs'[t].whole =>
           ups[t].whole /\ Undoes(downs'[t].text, ups[t].text),
         spent' \in [edits : 0 .. MaxEdits, crashes : 0 .. MaxCrashes, spare : 0 .. MaxSpare]
  PROVE  Rest'
<1>1. OthersIdle' /\ \A v \in Runs : v # w => Follows(run[v])' BY OneGoesOn
<1>2. Follows(run[w])' BY DEF Follows, Replay, dbVars
<1>3. RunsFollow' BY <1>1, <1>2 DEF RunsFollow
<1>4. Typed' BY DEF FolderInv, Rest, Typed, dbVars
<1>5. Chained' BY DEF FolderInv, Rest, Chained, Content
<1>6. DbFollows' BY DEF FolderInv, Rest, DbFollows, RowOfTheLast, RowAwaited, VersionedTo, dbVars
<1> QED BY <1>1, <1>3, <1>4, <1>5, <1>6 DEF Rest

\* What a run's record becomes.
LEMMA RunRecord ==
  ASSUME FolderInv, NEW w \in Runs
  PROVE  /\ run = [v \in Runs |-> run[v]] /\ IsRun(run[w])
         /\ \A r : run' = [run EXCEPT ![w] = r] =>
              run'[w] = r /\ \A v \in Runs : v # w => run'[v] = run[v]
BY DEF FolderInv, OwnedInv, Shapes

\* The records of runs that go on, and of those that stop.
LEMMA StoppedRuns ==
  /\ NewRun.pc = "idle" /\ NewRun.want = {} /\ NewRun.old = {}
  /\ \A r : Done(r).pc = "done" /\ Done(r).want = r.want /\ Done(r).old = {}
BY DEF NewRun, Done

LEMMA OpenFollows ==
  ASSUME FolderInv, ~Together, NEW w \in Runs, Open(w)
  PROVE  Rest'
<1> DEFINE r == [NewRun EXCEPT !.pc = "opened", !.want = models]
<1>1. r.pc = "opened" /\ r.want = models /\ r.old = {} BY DEF NewRun
<1> HIDE DEF r
<1>2. /\ run'[w] = r /\ \A v \in Runs : v # w => run'[v] = NewRun
      /\ UNCHANGED <<models, ups, downs, clock, dbVars, spent>>
  BY DEF Open, AllOver, r
<1>3. OthersIdle' BY <1>2, StoppedRuns DEF OthersIdle
<1>4. RunsFollow'
  <2>1. models \subseteq Things BY DEF FolderInv, Rest, Typed
  <2> QED BY <1>1, <1>2, <2>1, StoppedRuns DEF RunsFollow, Follows, Writing
<1>5. Typed' BY <1>2 DEF FolderInv, Rest, Typed, dbVars
<1>6. Chained' BY <1>2 DEF FolderInv, Rest, Chained
<1>7. DbFollows' BY <1>2 DEF FolderInv, Rest, DbFollows, RowOfTheLast, RowAwaited, VersionedTo, dbVars
<1> QED BY <1>3, <1>4, <1>5, <1>6, <1>7 DEF Rest

LEMMA ReadFolderFollows ==
  ASSUME FolderInv, NEW w \in Runs, ReadFolder(w)
  PROVE  Rest'
<1> DEFINE old == Replay(ups)
           r == [run[w] EXCEPT !.pc = "read", !.old = old]
<1>1. old \subseteq Things
  <2>1. \A t \in DOMAIN ups : Content(ups[t]).add \subseteq Things
    BY DEF FolderInv, Rest, Chained, Fits
  <2>2. clock \in Nat BY DEF FolderInv, Rest, Typed
  <2> QED BY <2>1, <2>2, ReplayOfThings DEF Replay
<1>2. run' = [run EXCEPT ![w] = r] BY DEF ReadFolder
<1>3. r.pc = "read" /\ r.old = old /\ r.want = run[w].want BY RunRecord DEF IsRun
<1>4. Follows(r) BY <1>1, <1>3 DEF Follows, FolderInv, Rest, RunsFollow, Writing
<1> HIDE DEF old, r
<1>5. run'[w] = r /\ \A v \in Runs : v # w => run'[v] = run[v] BY <1>2, RunRecord
<1> QED BY <1>4, <1>5, RunStep DEF ReadFolder, FolderInv, Rest, Typed, Chained

LEMMA StopFollows ==
  ASSUME FolderInv, NEW w \in Runs, WriteNothing(w) \/ Crash(w)
  PROVE  Rest'
<1> DEFINE r == IF WriteNothing(w) THEN Done(run[w]) ELSE NewRun
<1>1. run' = [run EXCEPT ![w] = r] BY DEF WriteNothing, Crash
<1>2. Follows(r)
  <2>1. Follows(run[w]) BY DEF FolderInv, Rest, RunsFollow
  <2>2. CASE WriteNothing(w)
    <3>1. run[w].want = Replay(ups) BY <2>1, <2>2 DEF WriteNothing, IsEmpty, Follows
    <3> QED BY <2>1, <2>2, <3>1, StoppedRuns DEF Follows, Writing
  <2>3. CASE ~WriteNothing(w) BY <2>3, StoppedRuns DEF Follows, Writing
  <2> QED BY <2>2, <2>3
<1> HIDE DEF r
<1>3. run'[w] = r /\ \A v \in Runs : v # w => run'[v] = run[v] BY <1>1, RunRecord
<1>4. /\ run[w].pc # "idle" /\ UNCHANGED <<models, ups, downs, clock, dbVars>>
      /\ spent' \in [edits : 0 .. MaxEdits, crashes : 0 .. MaxCrashes, spare : 0 .. MaxSpare]
  BY FolderAssumption DEF WriteNothing, Crash, IsOver, FolderInv, Rest, Typed
<1> QED BY <1>2, <1>3, <1>4, RunStep DEF FolderInv, Rest, Typed, Chained

LEMMA CreateDownFollows ==
  ASSUME FolderInv, NEW w \in Runs, CreateDown(w)
  PROVE  Rest'
<1> DEFINE t == run[w].at
           f == [text |-> run[w].down, made |-> clock, whole |-> FALSE]
           r == [run[w] EXCEPT !.pc = "downCreated"]
<1>1. run' = [run EXCEPT ![w] = r] /\ downs' = With(downs, t, f) BY DEF CreateDown
<1>2. /\ r.pc = "downCreated" /\ r.old = run[w].old /\ r.want = run[w].want
      /\ r.at = t /\ r.up = run[w].up /\ r.down = run[w].down
  BY RunRecord DEF IsRun
<1>3. Follows(r)
  BY <1>2 DEF Follows, FolderInv, Rest, RunsFollow, Writing, Differs, CreateDown
<1>4. t \in DOMAIN ups BY DEF FolderInv, OwnedInv, Owned, Writing, CreateDown
<1>5. ~f.whole OBVIOUS
<1> HIDE DEF t, f, r
<1>6. run'[w] = r /\ \A v \in Runs : v # w => run'[v] = run[v] BY <1>1, RunRecord
<1>7. /\ DOMAIN downs' \subseteq DOMAIN ups
      /\ \A u \in DOMAIN downs' : downs'[u].whole =>
           ups[u].whole /\ Undoes(downs'[u].text, ups[u].text)
  BY <1>1, <1>4, <1>5 DEF With, FolderInv, Rest, Typed, Chained
<1> QED BY <1>3, <1>6, <1>7, RunStep DEF CreateDown, FolderInv, Rest, Typed

LEMMA FillDownFollows ==
  ASSUME FolderInv, NEW w \in Runs, FillDown(w)
  PROVE  Rest'
<1> DEFINE t == run[w].at
           text == run[w].down
           r == Done(run[w])
<1>1. /\ run' = [run EXCEPT ![w] = r]
      /\ downs' = [downs EXCEPT ![t].text = text, ![t].whole = TRUE]
  BY DEF FillDown
<1>2. Follows(run[w]) /\ run[w].pc = "downCreated"
  BY DEF FolderInv, Rest, RunsFollow, FillDown
<1>3. Follows(r) BY <1>2, StoppedRuns DEF Follows, Writing
<1>4. IsFolder(downs) /\ t \in DOMAIN downs
  BY <1>2 DEF FolderInv, OwnedInv, Shapes, Owned
<1>5. ups[t].whole /\ Undoes(text, ups[t].text) BY <1>2 DEF Follows, Differs, Writing
<1> HIDE DEF t, text, r
<1>6. run'[w] = r /\ \A v \in Runs : v # w => run'[v] = run[v] BY <1>1, RunRecord
<1>7. /\ DOMAIN downs' = DOMAIN downs
      /\ downs'[t].text = text
      /\ \A u \in DOMAIN downs : u # t => downs'[u] = downs[u]
  <2> DEFINE q == [downs EXCEPT ![t].text = text, ![t].whole = TRUE]
  <2>1. /\ IsFolder(q) /\ DOMAIN q = DOMAIN downs
        /\ q[t] = [text |-> text, made |-> downs[t].made, whole |-> TRUE]
        /\ \A u \in DOMAIN downs : u # t => q[u] = downs[u]
    BY <1>4, FilledFile
  <2>2. downs' = q BY <1>1
  <2> HIDE DEF q
  <2> QED BY <2>1, <2>2
<1>8. \A u \in DOMAIN downs' : downs'[u].whole =>
        ups[u].whole /\ Undoes(downs'[u].text, ups[u].text)
  BY <1>5, <1>7 DEF FolderInv, Rest, Chained
<1> QED BY <1>2, <1>3, <1>6, <1>7, <1>8, RunStep DEF FillDown, FolderInv, Rest, Typed

\* The texts of a run are the difference of what it read and what it wants.
LEMMA TextsDiffer ==
  ASSUME NEW r, NEW versioned, NEW s,
         r.want \subseteq Things, r.old \subseteq Things,
         s.up = UpText(r, versioned), s.down = DownText(r, versioned),
         s.want = r.want, s.old = r.old
  PROVE  Differs(s)
<1>1. /\ s.up.add = r.want \ r.old /\ s.up.drop = r.old \ r.want
      /\ s.up.deletes = versioned /\ s.up.inserts = IF versioned THEN {r.want} ELSE {}
  BY DEF UpText
<1>2. /\ s.down.add = r.old \ r.want /\ s.down.drop = r.want \ r.old
      /\ s.down.deletes = versioned /\ s.down.inserts = {}
  BY DEF DownText
<1>3. Fits(s.up, s.old) BY <1>1 DEF Fits
<1>4. Undoes(s.down, s.up) BY <1>1, <1>2 DEF Undoes
<1>5. Apply(s.old, s.up) = s.want BY <1>1 DEF Apply
<1> QED BY <1>3, <1>4, <1>5 DEF Differs

LEMMA CreateUpFollows ==
  ASSUME FolderInv, ~SameSecond, NEW w \in Runs, CreateUp(w)
  PROVE  Rest'
<1> DEFINE up == UpText(run[w], Versioned(w))
           down == DownText(run[w], Versioned(w))
           f == [text |-> up, made |-> clock, whole |-> FALSE]
           r == [run[w] EXCEPT !.pc = "upCreated", !.at = clock, !.up = up, !.down = down]
<1>1. /\ run' = [run EXCEPT ![w] = r] /\ ups' = With(ups, clock, f)
      /\ UNCHANGED <<models, downs, clock, dbVars>>
  BY DEF CreateUp, MigrationFileTime
<1>2. /\ clock \in Nat /\ clock > 0 /\ DOMAIN ups \subseteq 1 .. clock
      /\ version \in DOMAIN ups \cup {0} /\ DOMAIN downs \subseteq DOMAIN ups
  BY DEF FolderInv, Rest, Typed
<1>3. clock \notin DOMAIN ups BY DEF CreateUp, FolderInv, OwnedInv, Owned
<1>4. /\ r.pc = "upCreated" /\ r.old = run[w].old /\ r.want = run[w].want
      /\ r.at = clock /\ r.up = up /\ r.down = down
  BY RunRecord DEF IsRun
<1>5. /\ Follows(run[w]) /\ run[w].pc = "read"
      /\ spent' \in [edits : 0 .. MaxEdits, crashes : 0 .. MaxCrashes, spare : 0 .. MaxSpare]
  <2> DEFINE spare == IF IsEmpty(run[w]) THEN 1 ELSE 0
  <2>1. spent' = [spent EXCEPT !.spare = @ + spare] /\ spent.spare + spare <= MaxSpare
    BY DEF CreateUp
  <2>2. spare \in 0 .. 1 OBVIOUS
  <2> HIDE DEF spare
  <2>3. spent' \in [edits : 0 .. MaxEdits, crashes : 0 .. MaxCrashes, spare : 0 .. MaxSpare]
    BY <2>1, <2>2, FolderAssumption DEF FolderInv, Rest, Typed
  <2> QED BY <2>3 DEF CreateUp, FolderInv, Rest, RunsFollow
<1>6. Content(f) = NoText BY DEF Content
<1>7. Differs(r) BY <1>4, <1>5, TextsDiffer DEF Follows
<1> HIDE DEF up, down, f, r
<1>8. run'[w] = r /\ \A v \in Runs : v # w => run'[v] = run[v] BY <1>1, RunRecord
<1>9. /\ DOMAIN ups' = DOMAIN ups \cup {clock} /\ ups'[clock] = f
      /\ \A t \in DOMAIN ups : ups'[t] = ups[t]
  BY <1>1, <1>3 DEF With
<1>10. \A n \in Nat : ReplayTo(ups', n) = ReplayTo(ups, n)
  <2>1. \A t : TextAt(ups', t) = TextAt(ups, t) BY <1>3, <1>6, <1>9 DEF TextAt
  <2> QED BY <2>1, SameReplay
<1>11. ReplayTo(ups, clock) = ReplayTo(ups, clock - 1)
  <2>1. \A t \in (clock - 1) + 1 .. clock : TextAt(ups, t) = NoText BY <1>2, <1>3 DEF TextAt
  <2>2. clock - 1 \in Nat BY <1>2
  <2> QED BY <1>2, <2>1, <2>2, QuietReplay
<1>12. OthersIdle' /\ \A v \in Runs : v # w => Follows(run[v])'
  BY <1>5, <1>8, OneGoesOn
<1>13. Follows(run[w])'
  <2>1. r.want \subseteq Things /\ r.old \subseteq Things BY <1>4, <1>5 DEF Follows
  <2>2. \A t \in DOMAIN ups' : t <= clock BY <1>2, <1>9
  <2>3. version' < clock BY <1>1, <1>2, <1>3 DEF dbVars
  <2>4. r.old = ReplayTo(ups', clock - 1)
    <3>1. r.old = Replay(ups) BY <1>4, <1>5 DEF Follows
    <3>2. clock - 1 \in Nat BY <1>2
    <3> QED BY <1>10, <1>11, <3>1, <3>2 DEF Replay
  <2> QED BY <1>4, <1>7, <1>8, <2>1, <2>2, <2>3, <2>4 DEF Follows
<1>14. RunsFollow' BY <1>12, <1>13 DEF RunsFollow
<1>15. Typed' BY <1>1, <1>2, <1>5, <1>9 DEF FolderInv, Rest, Typed, dbVars
<1>16. Chained'
  <2>1. ASSUME NEW t \in DOMAIN ups' PROVE Fits(Content(ups'[t]), ReplayTo(ups', t - 1))
    <3>1. t - 1 \in Nat BY <1>2, <1>9
    <3>2. CASE t = clock BY <1>6, <1>9, <3>2 DEF Fits, NoText
    <3>3. CASE t # clock BY <1>9, <1>10, <3>1, <3>3 DEF FolderInv, Rest, Chained
    <3> QED BY <3>2, <3>3
  <2>2. \A t \in DOMAIN downs' : downs'[t].whole =>
          ups'[t].whole /\ Undoes(downs'[t].text, ups'[t].text)
    BY <1>1, <1>2, <1>9 DEF FolderInv, Rest, Chained
  <2> QED BY <2>1, <2>2 DEF Chained
<1>17. DbFollows'
  <2>1. version' \in Nat /\ version' = version /\ db' = db /\ rows' = rows
    BY <1>1, <1>2 DEF dbVars
  <2>2. VersionedTo(version)' = VersionedTo(version)
    BY <1>6, <1>9, <2>1 DEF VersionedTo, NoText
  <2>3. \A t \in VersionedTo(version) : Content(ups'[t]) = Content(ups[t])
    BY <1>9 DEF VersionedTo
  <2>4. RowOfTheLast => RowOfTheLast' BY <2>1, <2>2, <2>3 DEF RowOfTheLast
  <2>5. RowAwaited => RowAwaited'
    BY <1>9, <2>1 DEF RowAwaited, Content, NoText
  <2> QED BY <1>10, <2>1, <2>4, <2>5 DEF FolderInv, Rest, DbFollows
<1> QED BY <1>12, <1>14, <1>15, <1>16, <1>17 DEF Rest

LEMMA FillUpFollows ==
  ASSUME FolderInv, NEW w \in Runs, FillUp(w)
  PROVE  Rest'
<1> DEFINE at == run[w].at
           up == run[w].up
           r  == IF PairedSuffixes THEN [run[w] EXCEPT !.pc = "upWritten"] ELSE Done(run[w])
<1>1. /\ run' = [run EXCEPT ![w] = r] /\ run[w].pc = "upCreated"
      /\ ups' = [ups EXCEPT ![at].text = up, ![at].whole = TRUE]
      /\ UNCHANGED <<models, downs, clock, dbVars, spent>>
  BY DEF FillUp
<1>2. /\ clock \in Nat /\ clock > 0 /\ DOMAIN ups \subseteq 1 .. clock
      /\ version \in DOMAIN ups \cup {0} /\ DOMAIN downs \subseteq DOMAIN ups
  BY DEF FolderInv, Rest, Typed
<1>3. IsFolder(ups) /\ at \in DOMAIN ups /\ at \notin DOMAIN downs /\ ~ups[at].whole
  BY <1>1 DEF FolderInv, OwnedInv, Shapes, Owned, Writing
<1>4. /\ run[w].want \subseteq Things /\ run[w].old \subseteq Things
      /\ \A t \in DOMAIN ups : t <= at
      /\ version < at /\ run[w].old = ReplayTo(ups, at - 1)
      /\ Differs(run[w]) /\ Fits(up, run[w].old) /\ Apply(run[w].old, up) = run[w].want
  BY <1>1 DEF FolderInv, Rest, RunsFollow, Follows, Writing, Differs
<1>5. \/ /\ r.pc = "upWritten" /\ r.old = run[w].old /\ r.want = run[w].want
         /\ r.at = at /\ r.up = up /\ r.down = run[w].down
      \/ r.pc = "done" /\ r.old = {} /\ r.want = run[w].want
  BY RunRecord, StoppedRuns DEF IsRun
<1> HIDE DEF at, up, r
<1>6. run'[w] = r /\ \A v \in Runs : v # w => run'[v] = run[v] BY <1>1, RunRecord
<1>7. /\ DOMAIN ups' = DOMAIN ups /\ ups'[at].text = up /\ ups'[at].whole
      /\ \A u \in DOMAIN ups : u # at => ups'[u] = ups[u]
  <2> DEFINE q == [ups EXCEPT ![at].text = up, ![at].whole = TRUE]
  <2>1. /\ IsFolder(q) /\ DOMAIN q = DOMAIN ups
        /\ q[at] = [text |-> up, made |-> ups[at].made, whole |-> TRUE]
        /\ \A u \in DOMAIN ups : u # at => q[u] = ups[u]
    BY <1>3, FilledFile
  <2>2. ups' = q BY <1>1
  <2> HIDE DEF q
  <2> QED BY <2>1, <2>2
<1>8. \A n \in Nat : n < at => ReplayTo(ups', n) = ReplayTo(ups, n)
  <2>1. ASSUME NEW n \in Nat, n < at PROVE \A t \in 1 .. n : TextAt(ups', t) = TextAt(ups, t)
    BY <1>7, <2>1 DEF TextAt
  <2> QED BY <2>1, SameReplay
<1>9. at \in Nat /\ at - 1 \in Nat /\ at <= clock BY <1>2, <1>3
<1>10. ReplayTo(ups', at) = run[w].want
  <2>1. ReplayTo(ups', (at - 1) + 1) = Apply(ReplayTo(ups', at - 1), TextAt(ups', (at - 1) + 1))
    BY <1>9, ReplaySteps
  <2>2. (at - 1) + 1 = at /\ TextAt(ups', at) = up BY <1>3, <1>7, <1>9 DEF TextAt, Content
  <2>3. ReplayTo(ups', at - 1) = run[w].old BY <1>4, <1>8, <1>9
  <2> QED BY <1>4, <2>1, <2>2, <2>3
<1>11. ReplayTo(ups', clock) = run[w].want
  <2>1. \A t \in at + 1 .. clock : TextAt(ups', t) = NoText BY <1>4, <1>7, <1>9 DEF TextAt
  <2> QED BY <1>2, <1>9, <1>10, <2>1, QuietReplay
<1>12. OthersIdle' /\ \A v \in Runs : v # w => Follows(run[v])' BY <1>1, <1>6, OneGoesOn
<1>13. Follows(run[w])'
  <2>1. Replay(ups)' = run[w].want BY <1>1, <1>11 DEF Replay
  <2>2. CASE r.pc = "done" BY <1>4, <1>5, <1>6, <2>1, <2>2 DEF Follows, Writing
  <2>3. CASE r.pc = "upWritten"
    <3>1. /\ r.old = run[w].old /\ r.want = run[w].want
          /\ r.at = at /\ r.up = up /\ r.down = run[w].down
      BY <1>5, <2>3
    <3>2. Differs(r) BY <1>4, <3>1 DEF Differs, up
    <3>3. \A t \in DOMAIN ups' : t <= at BY <1>4, <1>7
    <3>4. version' < at BY <1>1, <1>4 DEF dbVars
    <3>5. r.old = ReplayTo(ups', at - 1) BY <1>4, <1>8, <1>9, <3>1
    <3> QED BY <1>4, <1>6, <1>7, <2>1, <2>3, <3>1, <3>2, <3>3, <3>4, <3>5 DEF Follows
  <2> QED BY <1>5, <2>2, <2>3
<1>14. RunsFollow' BY <1>12, <1>13 DEF RunsFollow
<1>15. Typed' BY <1>1, <1>2, <1>7 DEF FolderInv, Rest, Typed, dbVars
<1>16. Chained'
  <2>1. ASSUME NEW t \in DOMAIN ups' PROVE Fits(Content(ups'[t]), ReplayTo(ups', t - 1))
    <3>1. t - 1 \in Nat /\ t - 1 < at /\ t \in DOMAIN ups BY <1>2, <1>4, <1>7, <1>9
    <3>2. ReplayTo(ups', t - 1) = ReplayTo(ups, t - 1) BY <1>8, <3>1
    <3>3. CASE t = at BY <1>4, <1>7, <3>2, <3>3 DEF Content
    <3>4. CASE t # at BY <1>7, <3>1, <3>2, <3>4 DEF FolderInv, Rest, Chained
    <3> QED BY <3>3, <3>4
  <2>2. \A t \in DOMAIN downs' : downs'[t].whole =>
          ups'[t].whole /\ Undoes(downs'[t].text, ups'[t].text)
    BY <1>1, <1>2, <1>3, <1>7 DEF FolderInv, Rest, Chained
  <2> QED BY <2>1, <2>2 DEF Chained
<1>17. DbFollows'
  <2>1. version' \in Nat /\ version' = version /\ db' = db /\ rows' = rows
    BY <1>1, <1>2 DEF dbVars
  <2>2. VersionedTo(version)' = VersionedTo(version)
    BY <1>2, <1>4, <1>7, <1>9, <2>1 DEF VersionedTo
  <2>3. \A t \in VersionedTo(version) : Content(ups'[t]) = Content(ups[t])
    BY <1>2, <1>4, <1>7, <1>9 DEF VersionedTo
  <2>4. ReplayTo(ups', version) = ReplayTo(ups, version) BY <1>4, <1>8, <2>1
  <2>5. RowOfTheLast => RowOfTheLast' BY <2>1, <2>2, <2>3 DEF RowOfTheLast
  <2>6. RowAwaited => RowAwaited'
    BY <1>3, <1>7, <2>1 DEF RowAwaited, Content, NoText
  <2> QED BY <2>4, <2>1, <2>5, <2>6 DEF FolderInv, Rest, DbFollows
<1> QED BY <1>12, <1>14, <1>15, <1>16, <1>17 DEF Rest

LEMMA EditModelsFollows ==
  ASSUME FolderInv, EditModels
  PROVE  Rest'
<1>1. UNCHANGED <<ups, downs, clock, run, dbVars>> BY DEF EditModels
<1>2. spent' \in [edits : 0 .. MaxEdits, crashes : 0 .. MaxCrashes, spare : 0 .. MaxSpare]
  BY FolderAssumption DEF EditModels, FolderInv, Rest, Typed
<1>3. Typed' BY <1>1, <1>2 DEF EditModels, FolderInv, Rest, Typed, dbVars
<1>4. OthersIdle' /\ Chained' BY <1>1 DEF FolderInv, Rest, OthersIdle, Chained
<1>5. RunsFollow' BY <1>1 DEF FolderInv, Rest, RunsFollow, Follows, Replay, dbVars
<1>6. DbFollows' BY <1>1 DEF FolderInv, Rest, DbFollows, RowOfTheLast, RowAwaited, VersionedTo, dbVars
<1> QED BY <1>3, <1>4, <1>5, <1>6 DEF Rest

LEMMA TickFollows ==
  ASSUME FolderInv, Tick
  PROVE  Rest'
<1>1. UNCHANGED <<models, ups, downs, run, dbVars, spent>> /\ clock' = clock + 1 BY DEF Tick
<1>2. clock \in Nat /\ clock > 0 /\ DOMAIN ups \subseteq 1 .. clock
  BY DEF FolderInv, Rest, Typed
<1>3. Replay(ups)' = Replay(ups)
  <2>1. \A t \in clock + 1 .. clock + 1 : TextAt(ups, t) = NoText BY <1>2 DEF TextAt
  <2>2. ReplayTo(ups, clock + 1) = ReplayTo(ups, clock)
    BY <1>2, <2>1, QuietReplay
  <2> QED BY <1>1, <2>2 DEF Replay
<1>4. Typed' BY <1>1, <1>2 DEF FolderInv, Rest, Typed, dbVars
<1>5. OthersIdle' /\ Chained' BY <1>1 DEF FolderInv, Rest, OthersIdle, Chained
<1>6. RunsFollow' BY <1>1, <1>3 DEF FolderInv, Rest, RunsFollow, Follows, dbVars
<1>7. DbFollows' BY <1>1 DEF FolderInv, Rest, DbFollows, RowOfTheLast, RowAwaited, VersionedTo, dbVars
<1> QED BY <1>4, <1>5, <1>6, <1>7 DEF Rest

----------------------------------------------------------------------------
\* What the invariant says of the file the migrator takes next.
LEMMA NextMigration ==
  ASSUME FolderInv, Pending # {}
  PROVE  LET n == Least(Pending)
         IN  /\ n \in DOMAIN ups /\ n \in Nat /\ version < n
             /\ \A t \in DOMAIN ups : t <= version \/ n <= t
             /\ db = ReplayTo(ups, n - 1)
             /\ Fits(Content(ups[n]), db) /\ Accepted(Content(ups[n]))
             /\ ReplayTo(ups, n) = Apply(db, Content(ups[n]))
<1> DEFINE n == Least(Pending)
<1>1. /\ clock \in Nat /\ DOMAIN ups \subseteq 1 .. clock /\ version \in DOMAIN ups \cup {0}
      /\ db = ReplayTo(ups, version)
  BY DEF FolderInv, Rest, Typed, DbFollows
<1>2. n \in Pending /\ \A t \in Pending : n <= t
  <2>1. Pending \in SUBSET Nat BY <1>1 DEF Pending
  <2>2. \E t \in Pending : \A u \in Pending : t <= u BY <2>1, Replaying!SmallestOf
  <2> QED BY <2>2 DEF Least
<1> HIDE DEF n
<1>3. n \in DOMAIN ups /\ n \in Nat /\ n - 1 \in Nat /\ version < n /\ version \in Nat
  BY <1>1, <1>2 DEF Pending
<1>4. \A t \in DOMAIN ups : t <= version \/ n <= t BY <1>1, <1>2, <1>3 DEF Pending
<1>5. db = ReplayTo(ups, n - 1)
  <2>1. \A t \in version + 1 .. n - 1 : TextAt(ups, t) = NoText BY <1>3, <1>4 DEF TextAt
  <2>2. version <= n - 1 BY <1>3
  <2> QED BY <1>1, <1>3, <2>1, <2>2, QuietReplay
<1>6. Fits(Content(ups[n]), db) BY <1>3, <1>5 DEF FolderInv, Rest, Chained
<1>7. Accepted(Content(ups[n])) BY <1>6 DEF Fits, Accepted
<1>8. ReplayTo(ups, n) = Apply(db, Content(ups[n]))
  <2>1. ReplayTo(ups, (n - 1) + 1) = Apply(ReplayTo(ups, n - 1), TextAt(ups, (n - 1) + 1))
    BY <1>3, ReplaySteps
  <2>2. (n - 1) + 1 = n /\ TextAt(ups, n) = Content(ups[n]) BY <1>3 DEF TextAt
  <2> QED BY <1>5, <2>1, <2>2
<1> QED BY <1>3, <1>4, <1>5, <1>6, <1>7, <1>8 DEF n

\* What it says of the down file of the last migration.
LEMMA LastMigration ==
  ASSUME FolderInv, ~TornIsRun, CanRevert
  PROVE  LET g == Greatest(Before)
         IN  /\ version \in DOMAIN ups /\ version \in Nat /\ g \in Nat /\ g < version
             /\ g \in DOMAIN ups \cup {0}
             /\ \A t \in DOMAIN ups : t <= g \/ version <= t
             /\ Content(downs[version]) = downs[version].text
             /\ Undoes(downs[version].text, Content(ups[version]))
             /\ Accepted(downs[version].text)
             /\ Apply(db, downs[version].text) = ReplayTo(ups, g)
<1> DEFINE g == Greatest(Before)
           v == version
           up == Content(ups[v])
           down == downs[v].text
<1>1. /\ clock \in Nat /\ DOMAIN ups \subseteq 1 .. clock
      /\ db = ReplayTo(ups, v) /\ DOMAIN downs \subseteq DOMAIN ups
  BY DEF FolderInv, Rest, Typed, DbFollows
<1>2. v \in DOMAIN ups /\ v \in Nat /\ v - 1 \in Nat /\ downs[v].whole
  BY <1>1 DEF CanRevert
<1>3. ups[v].whole /\ Undoes(down, up) /\ Content(downs[v]) = down
  BY <1>2 DEF FolderInv, Rest, Chained, Content, CanRevert
<1>4. Fits(up, ReplayTo(ups, v - 1)) BY <1>2 DEF FolderInv, Rest, Chained
<1>5. g \in Before /\ \A t \in Before : g >= t
  <2>1. Before \in SUBSET (0 .. clock) /\ Before # {} BY <1>1 DEF Before
  <2>2. \E t \in Before : \A u \in Before : t >= u BY <1>1, <2>1, Replaying!GreatestOf
  <2> QED BY <2>2 DEF Greatest
<1> HIDE DEF g
<1>6. g \in Nat /\ g < v /\ g \in DOMAIN ups \cup {0} BY <1>1, <1>2, <1>5 DEF Before
<1>7. \A t \in DOMAIN ups : t <= g \/ v <= t BY <1>1, <1>2, <1>5, <1>6 DEF Before
<1>8. ReplayTo(ups, v - 1) = ReplayTo(ups, g)
  <2>1. \A t \in g + 1 .. v - 1 : TextAt(ups, t) = NoText BY <1>2, <1>6, <1>7 DEF TextAt
  <2>2. g <= v - 1 BY <1>2, <1>6
  <2> QED BY <1>2, <1>6, <2>1, <2>2, QuietReplay
<1>9. db = Apply(ReplayTo(ups, g), up)
  <2>1. ReplayTo(ups, (v - 1) + 1) = Apply(ReplayTo(ups, v - 1), TextAt(ups, (v - 1) + 1))
    BY <1>2, ReplaySteps
  <2>2. (v - 1) + 1 = v /\ TextAt(ups, v) = up BY <1>2 DEF TextAt
  <2> QED BY <1>1, <1>8, <2>1, <2>2
<1> HIDE DEF up, down
<1>10. Accepted(down) /\ Apply(db, down) = ReplayTo(ups, g)
  BY <1>3, <1>4, <1>8, <1>9 DEF Fits, Undoes, Apply, Accepted
<1> QED BY <1>2, <1>3, <1>6, <1>7, <1>10 DEF g, up, down

\* What the version table holds after a migration: its version when it is about one.
LEMMA RowsFollow ==
  ASSUME NEW text, NEW new \in RowsAfter(text), \A a, b \in rows : a = b
  PROVE  new = IF text.deletes THEN text.inserts ELSE rows
<1>1. CASE ~text.deletes BY <1>1 DEF RowsAfter
<1>2. CASE text.deletes
  <2>1. \A row \in rows : rows \ {row} = {} OBVIOUS
  <2> QED BY <1>2, <2>1 DEF RowsAfter
<1> QED BY <1>1, <1>2

\* A step of the migrator leaves everything else alone.
LEMMA MigrateRest ==
  ASSUME FolderInv, AllOver, UNCHANGED <<models, ups, downs, clock, run, spent>>,
         version' \in DOMAIN ups \cup {0}, db' \subseteq Things, DbFollows'
  PROVE  Rest'
<1>1. Typed' BY DEF FolderInv, Rest, Typed
<1>2. OthersIdle' /\ Chained' BY DEF FolderInv, Rest, OthersIdle, Chained
<1>3. RunsFollow'
  BY DEF FolderInv, Rest, RunsFollow, Follows, Replay, AllOver, IsOver, Writing
<1> QED BY <1>1, <1>2, <1>3 DEF Rest

LEMMA MigrateUpFollows ==
  ASSUME FolderInv, ~Together, MigrateUp
  PROVE  Rest'
<1> DEFINE n == Least(Pending)
           text == Content(ups[n])
<1>1. /\ n \in DOMAIN ups /\ n \in Nat /\ version < n
      /\ \A t \in DOMAIN ups : t <= version \/ n <= t
      /\ db = ReplayTo(ups, n - 1)
      /\ Fits(text, db) /\ Accepted(text)
      /\ ReplayTo(ups, n) = Apply(db, text)
  BY NextMigration DEF MigrateUp
<1>2. /\ version' = n /\ db' = Apply(db, text) /\ rows' \in RowsAfter(text)
      /\ UNCHANGED <<models, ups, downs, clock, run, spent>> /\ AllOver
  BY DEF MigrateUp, Execute
<1> HIDE DEF n
<1>3. db' \subseteq Things
  <2>1. db \subseteq Things BY DEF FolderInv, Rest, Typed
  <2> QED BY <1>1, <1>2, <2>1 DEF Fits, Apply
<1>4. /\ \A a, b \in rows : a = b
      /\ RowOfTheLast \/ RowAwaited
      /\ DOMAIN ups \subseteq Nat /\ version \in Nat
  BY DEF FolderInv, Rest, DbFollows, Typed
<1>5. rows' = IF text.deletes THEN text.inserts ELSE rows BY <1>2, <1>4, RowsFollow
<1>6. VersionedTo(version)' = VersionedTo(version) \cup (IF text.deletes THEN {n} ELSE {})
  BY <1>1, <1>2, <1>4 DEF VersionedTo
<1>7. DbFollows'
  <2>1. db' = ReplayTo(ups', version') BY <1>1, <1>2
  <2>2. CASE text.deletes
    <3>1. \A t \in VersionedTo(version)' :
            (\A u \in VersionedTo(version)' : u <= t) => t = n
      BY <1>1, <1>4, <1>6, <2>2 DEF VersionedTo
    <3>2. RowOfTheLast' BY <1>2, <1>5, <1>6, <2>2, <3>1 DEF RowOfTheLast
    <3> QED BY <1>1, <1>5, <2>1, <2>2, <3>2 DEF DbFollows, Fits
  <2>3. CASE ~text.deletes
    <3>1. VersionedTo(version)' = VersionedTo(version) /\ rows' = rows /\ ups' = ups
      BY <1>2, <1>5, <1>6, <2>3
    <3>2. RowOfTheLast => RowOfTheLast' BY <3>1 DEF RowOfTheLast
    <3>3. RowAwaited => RowAwaited' BY <1>1, <1>2, <1>4, <2>3, <3>1 DEF RowAwaited
    <3> QED BY <1>4, <2>1, <3>1, <3>2, <3>3 DEF DbFollows
  <2> QED BY <2>2, <2>3
<1> QED BY <1>1, <1>2, <1>3, <1>7, MigrateRest

LEMMA MigrateDownFollows ==
  ASSUME FolderInv, ~Together, ~TornIsRun, MigrateDown
  PROVE  Rest'
<1> DEFINE g == Greatest(Before)
           up == Content(ups[version])
           down == downs[version].text
<1>1. /\ version \in DOMAIN ups /\ version \in Nat /\ g \in Nat /\ g < version
      /\ g \in DOMAIN ups \cup {0}
      /\ \A t \in DOMAIN ups : t <= g \/ version <= t
      /\ Content(downs[version]) = down
      /\ Undoes(down, up)
      /\ Accepted(down)
      /\ Apply(db, down) = ReplayTo(ups, g)
  BY LastMigration DEF MigrateDown
<1>2. /\ version' = g /\ db' = ReplayTo(ups, g) /\ rows' \in RowsAfter(down)
      /\ UNCHANGED <<models, ups, downs, clock, run, spent>> /\ AllOver
  BY <1>1 DEF MigrateDown, Execute
<1> HIDE DEF g, up, down
<1>3. db' \subseteq Things
  BY <1>1, <1>2, ReplayOfThings DEF FolderInv, Rest, Chained, Fits
<1>4. /\ \A a, b \in rows : a = b
      /\ RowOfTheLast \/ RowAwaited
      /\ DOMAIN ups \subseteq Nat
  BY DEF FolderInv, Rest, DbFollows, Typed
<1>5. rows' = IF up.deletes THEN {} ELSE rows
  BY <1>1, <1>2, <1>4, RowsFollow DEF Undoes
<1>6. ~up.deletes => VersionedTo(version)' = VersionedTo(version)
  BY <1>1, <1>2, <1>4 DEF VersionedTo, up
<1>7. DbFollows'
  <2>1. db' = ReplayTo(ups', version') BY <1>2
  <2>2. CASE up.deletes
    <3>1. RowAwaited' BY <1>1, <1>2, <1>5, <2>2 DEF RowAwaited, up
    <3> QED BY <1>5, <2>1, <2>2, <3>1 DEF DbFollows
  <2>3. CASE ~up.deletes
    <3>1. VersionedTo(version)' = VersionedTo(version) /\ rows' = rows /\ ups' = ups
      BY <1>2, <1>5, <1>6, <2>3
    <3>2. RowOfTheLast => RowOfTheLast' BY <3>1 DEF RowOfTheLast
    <3>3. RowAwaited => RowAwaited' BY <1>1, <1>2, <1>4, <3>1 DEF RowAwaited
    <3> QED BY <1>4, <2>1, <3>1, <3>2, <3>3 DEF DbFollows
  <2> QED BY <2>2, <2>3
<1> QED BY <1>1, <1>2, <1>3, <1>7, MigrateRest

\* The invariant is inductive.
LEMMA NextFolder ==
  ASSUME FolderInv, ~Together, ~SameSecond, ~TornIsRun, [Next]_vars
  PROVE  FolderInv'
<1>1. OwnedInv' BY NextOwned DEF FolderInv
<1> SUFFICES Rest' BY <1>1 DEF FolderInv
<1>2. CASE \E w \in Runs : Open(w) \/ Step(w) \/ Crash(w)
  <2>1. PICK w \in Runs : Open(w) \/ Step(w) \/ Crash(w) BY <1>2
  <2> QED BY <2>1, OpenFollows, ReadFolderFollows, StopFollows, CreateUpFollows,
             FillUpFollows, CreateDownFollows, FillDownFollows DEF Step, Write
<1>3. CASE EditModels BY <1>3, EditModelsFollows
<1>4. CASE Tick BY <1>4, TickFollows
<1>5. CASE MigrateUp BY <1>5, MigrateUpFollows
<1>6. CASE MigrateDown BY <1>6, MigrateDownFollows
<1>7. CASE UNCHANGED vars
  <2>1. UNCHANGED <<models, ups, downs, clock, run, db, version, rows, spent>>
    BY <1>7 DEF vars, dbVars
  <2>2. Typed' /\ OthersIdle' /\ Chained' BY <2>1 DEF FolderInv, Rest, Typed, OthersIdle, Chained
  <2>3. RunsFollow' BY <2>1 DEF FolderInv, Rest, RunsFollow, Follows, Replay
  <2>4. DbFollows' BY <2>1 DEF FolderInv, Rest, DbFollows, RowOfTheLast, RowAwaited, VersionedTo
  <2> QED BY <2>2, <2>3, <2>4 DEF Rest
<1> QED BY <1>2, <1>3, <1>4, <1>5, <1>6, <1>7 DEF Next

LEMMA FolderInvariant ==
  ASSUME ~Together, ~SameSecond, ~TornIsRun
  PROVE  Spec => []FolderInv
<1>1. Init => FolderInv BY InitFolder
<1>2. FolderInv /\ [Next]_vars => FolderInv' BY NextFolder
<1> QED BY <1>1, <1>2, PTL DEF Spec

\* Every file has a second that has passed in its name, every down file an up file, a
\* run that writes a file has made one (MigrationFileName, utils/string.go), and the
\* database's version is a file.
THEOREM FolderTyped ==
  ASSUME ~Together, ~SameSecond, ~TornIsRun
  PROVE  Spec => []TypeOK
<1>1. FolderInv => TypeOK
  <2> SUFFICES ASSUME FolderInv PROVE TypeOK OBVIOUS
  <2>1. Typed /\ Owned BY DEF FolderInv, Rest, OwnedInv
  <2> QED BY <2>1 DEF TypeOK, Typed, Owned, Writing
<1> QED BY <1>1, FolderInvariant, PTL

\* What FromMigrationFolder reads once a run has written its up file (writeFiles,
\* sqlize.go) is the schema the run was given, however many runs stopped before it
\* with a file that was empty, or without its down file.
THEOREM RunsReachModels ==
  ASSUME ~Together, ~SameSecond, ~TornIsRun
  PROVE  Spec => []FolderReachesModels
<1>1. FolderInv => FolderReachesModels
  BY DEF FolderInv, Rest, RunsFollow, Follows, FolderReachesModels
<1> QED BY <1>1, FolderInvariant, PTL

\* The database accepts the next migration and the down file of the last one, after
\* any number of migrations executed, reverted and executed again.
THEOREM EveryMigrationRuns ==
  ASSUME ~Together, ~SameSecond, ~TornIsRun
  PROVE  Spec => []MigrationsRun
<1>1. FolderInv => MigrationsRun
  BY NextMigration, LastMigration DEF MigrationsRun
<1> QED BY <1>1, FolderInvariant, PTL

\* The database has the schema of the files up to its version: reverting is to have
\* never executed.
THEOREM DatabaseFollows ==
  ASSUME ~Together, ~SameSecond, ~TornIsRun
  PROVE  Spec => []DbFollowsFolder
<1>1. FolderInv => DbFollowsFolder
  <2> SUFFICES ASSUME FolderInv PROVE DbFollowsFolder OBVIOUS
  <2> DEFINE done == [t \in {u \in DOMAIN ups : u <= version} |-> ups[t]]
  <2>1. /\ clock \in Nat /\ DOMAIN ups \subseteq 1 .. clock
        /\ version \in Nat /\ version <= clock /\ db = ReplayTo(ups, version)
    BY DEF FolderInv, Rest, Typed, DbFollows
  <2>2. /\ DOMAIN done = {u \in DOMAIN ups : u <= version}
        /\ \A t \in DOMAIN done : done[t] = ups[t]
    OBVIOUS
  <2> HIDE DEF done
  <2>3. ReplayTo(done, version) = ReplayTo(ups, version)
    <3>1. \A t \in 1 .. version : TextAt(done, t) = TextAt(ups, t) BY <2>1, <2>2 DEF TextAt
    <3> QED BY <2>1, <3>1, SameReplay
  <2>4. ReplayTo(done, clock) = ReplayTo(done, version)
    <3>1. \A t \in version + 1 .. clock : TextAt(done, t) = NoText BY <2>1, <2>2 DEF TextAt
    <3> QED BY <2>1, <3>1, QuietReplay
  <2> QED BY <2>1, <2>3, <2>4 DEF DbFollowsFolder, Replay, done
<1> QED BY <1>1, FolderInvariant, PTL

\* The version table has the row of the last migration with a version that is executed
\* (migrationUpVersion and migrationDownVersion, sqlize.go), and no other; it is empty
\* only when there is none, or while one that was reverted is yet to be executed again.
THEOREM VersionIsTheLast ==
  ASSUME ~Together, ~SameSecond, ~TornIsRun
  PROVE  Spec => []VersionFollows
<1>1. FolderInv => VersionFollows
  <2> SUFFICES ASSUME FolderInv PROVE VersionFollows OBVIOUS
  <2> DEFINE S == VersionedTo(version)
             W == {t \in DOMAIN ups : Content(ups[t]).deletes}
             last == IF S = {} THEN {} ELSE Content(ups[Greatest(S)]).inserts
  <2>1. /\ clock \in Nat /\ DOMAIN ups \subseteq 1 .. clock /\ version \in Nat
        /\ \A a, b \in rows : a = b
        /\ RowOfTheLast \/ RowAwaited
    BY DEF FolderInv, Rest, Typed, DbFollows
  <2>2. Cardinality(rows) <= 1
    <3>1. CASE rows = {} BY <3>1, FS_EmptySet
    <3>2. CASE rows # {}
      <4>1. PICK a : a \in rows BY <3>2
      <4>2. rows = {a} BY <2>1, <4>1
      <4> QED BY <4>2, FS_Singleton
    <3> QED BY <3>1, <3>2
  <2>3. S = {t \in W : t <= version} /\ S \subseteq DOMAIN ups BY DEF VersionedTo
  <2>4. S # {} => Greatest(S) \in S /\ \A u \in S : u <= Greatest(S)
    <3> SUFFICES ASSUME S # {} PROVE \E t \in S : \A u \in S : t >= u
      BY <2>1, <2>3 DEF Greatest
    <3>1. S \in SUBSET (0 .. clock) BY <2>1, <2>3
    <3> HIDE DEF S
    <3> QED BY <2>1, <3>1, Replaying!GreatestOf
  <2>5. RowOfTheLast => rows = last BY <2>4 DEF RowOfTheLast
  <2>6. RowAwaited => rows = {} /\ S # W
    <3> SUFFICES ASSUME RowAwaited PROVE rows = {} /\ S # W OBVIOUS
    <3>1. PICK t \in DOMAIN ups : t > version /\ Content(ups[t]).deletes BY DEF RowAwaited
    <3>2. t \in W /\ ~(t <= version) BY <2>1, <3>1
    <3> QED BY <3>2 DEF RowAwaited, VersionedTo
  <2> QED BY <2>1, <2>2, <2>3, <2>5, <2>6 DEF VersionFollows
<1> QED BY <1>1, FolderInvariant, PTL

=============================================================================
