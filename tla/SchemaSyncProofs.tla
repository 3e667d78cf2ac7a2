-------------------------- MODULE SchemaSyncProofs --------------------------
(***************************************************************************)
(* Theorems of SchemaSync.tla, for all histories and models: what the       *)
(* scripts leave alone.                                                     *)
(***************************************************************************)
EXTENDS SchemaSync, MigrationProofs

----------------------------------------------------------------------------
(* Sequences that are joined, and sequences without repetition.               *)
\* r joins pieces of ss.
ArePieces(ss) == IsSeq(ss) /\ \A k \in DOMAIN ss : IsSeq(ss[k])
JoinsPieces(ss, r) ==
  IsSeq(r) /\ \A i \in DOMAIN r : \E k \in DOMAIN ss : \E j \in DOMAIN ss[k] : r[i] = ss[k][j]

LEMMA FlattenJoins ==
  ASSUME NEW ss, ArePieces(ss) PROVE JoinsPieces(ss, FlattenSeq(ss))
<1> DEFINE n == Len(ss)
           R == {e \in UNION {{ss[k][j] : j \in DOMAIN ss[k]} : k \in DOMAIN ss} : TRUE}
<1>1. n \in Nat /\ DOMAIN ss = 1 .. n BY SeqIs DEF ArePieces
<1>2. CASE n = 0
  <2>1. FlattenSeq(ss) = ss BY <1>2 DEF FlattenSeq
  <2>2. DOMAIN ss = {} BY <1>1, <1>2
  <2> QED BY <2>1, <2>2 DEF JoinsPieces, ArePieces
<1>3. CASE n # 0
  <2>1. FlattenSeq(ss) = Executing!Joined(ss) BY <1>3 DEF FlattenSeq, Executing!Joined
  <2>2. PICK f : Executing!JoinsUpTo(ss, n, f) /\ Executing!Joined(ss) = f[n]
    BY <1>1, <1>3, Executing!JoinedTrace
  <2>3. f[1] = ss[1] /\ \A k \in 1 .. n : k # 1 => f[k] = f[k - 1] \o ss[k]
    BY <1>1, <1>3, <2>2 DEF Executing!JoinsUpTo
  <2>4. \A k \in 1 .. n : IsSeq(ss[k]) /\ \A j \in DOMAIN ss[k] : ss[k][j] \in R
    BY <1>1 DEF ArePieces
  <2> DEFINE Q(r) == IsSeq(r) /\ \A i \in DOMAIN r : r[i] \in R
             T == {k \in Nat : k + 1 <= n => Q(f[k + 1])}
  <2> HIDE DEF R
  <2>5. 0 \in T
    <3>1. 1 \in 1 .. n /\ 0 + 1 = 1 BY <1>1, <1>3
    <3> QED BY <2>3, <2>4, <3>1
  <2>6. ASSUME NEW k \in Nat, k \in T PROVE k + 1 \in T
    <3> DEFINE m == k + 1
               a == f[m]
               b == ss[m + 1]
    <3> SUFFICES ASSUME m + 1 <= n PROVE Q(f[m + 1]) OBVIOUS
    <3>1. m \in Nat /\ m <= n /\ m + 1 \in 1 .. n /\ m + 1 # 1 /\ (m + 1) - 1 = m BY <1>1
    <3>2. Q(a) BY <2>6, <3>1
    <3>3. f[m + 1] = a \o b BY <2>3, <3>1
    <3>4. IsSeq(b) /\ \A j \in DOMAIN b : b[j] \in R BY <2>4, <3>1
    <3> HIDE DEF a, b, m, T
    <3>5. /\ IsSeq(a \o b)
          /\ \A i \in DOMAIN (a \o b) :
               (a \o b)[i] \in {a[x] : x \in DOMAIN a} \cup {b[x] : x \in DOMAIN b}
      BY <3>2, <3>4, ConcatSeq, SMTT(60)
    <3>6. Q(a \o b) BY <3>2, <3>4, <3>5
    <3> QED BY <3>3, <3>6
  <2> HIDE DEF T
  <2>7. \A k \in Nat : k \in T BY <2>5, <2>6, Entering!EveryNatural
  <2> DEFINE j == n - 1
  <2>8. j \in Nat /\ j + 1 = n BY <1>1, <1>3
  <2>9. Q(f[n])
    <3>1. j + 1 <= n => Q(f[j + 1]) BY <2>7, <2>8 DEF T
    <3> HIDE DEF Q, n, j
    <3> QED BY <1>1, <2>8, <3>1
  <2> HIDE DEF j, n
  <2>10. FlattenSeq(ss) = f[n] BY <2>1, <2>2
  <2>11. Q(FlattenSeq(ss)) BY <2>9, <2>10
  <2> USE DEF R
  <2> QED BY <2>11 DEF JoinsPieces
<1> QED BY <1>2, <1>3

LEMMA SetToSeqIs == ASSUME NEW S, IsFiniteSet(S) PROVE IsSeq(SetToSeq(S))
<1> DEFINE n == Cardinality(S)
<1>1. n \in Nat /\ ExistsBijection(1 .. n, S) BY FS_CardinalityType
<1>2. \E f \in [1 .. n -> S] : IsInjective(f)
  BY <1>1 DEF ExistsBijection, Bijection, Injection, IsInjective
<1>3. SetToSeq(S) \in [1 .. n -> S] BY <1>2 DEF SetToSeq
<1>4. SetToSeq(S) \in Seq(S) BY <1>1, <1>3
<1> QED BY <1>4, SeqIsSeq

----------------------------------------------------------------------------
(* Scripts.                                                                   *)
IsStatement(stm) ==
  /\ stm.op \in AlterOps \cup {"createTable", "dropTable", "createIndex", "dropIndex"}
  /\ stm.op = "createTable" => IsSeq(stm.cols)
IsScript(s) == IsSeq(s) /\ \A k \in DOMAIN s : IsStatement(s[k])
AreScripts(ss) == IsSeq(ss) /\ \A k \in DOMAIN ss : IsScript(ss[k])

LEMMA ShortScripts ==
  /\ IsScript(<<>>)
  /\ \A a : IsStatement(a) => IsScript(<<a>>)
  /\ \A a, b : IsStatement(a) /\ IsStatement(b) => IsScript(<<a, b>>)
<1>1. IsScript(<<>>)
  <2>1. DOMAIN <<>> = {} OBVIOUS
  <2> QED BY <2>1, EmptyIsSeq DEF IsScript
<1>2. ASSUME NEW a, IsStatement(a) PROVE IsScript(<<a>>)
  <2>1. <<a>> \in Seq({a}) /\ \A k \in DOMAIN <<a>> : <<a>>[k] = a OBVIOUS
  <2>2. IsSeq(<<a>>) BY <2>1, SeqIsSeq
  <2> QED BY <1>2, <2>1, <2>2 DEF IsScript
<1>3. ASSUME NEW a, NEW b, IsStatement(a), IsStatement(b) PROVE IsScript(<<a, b>>)
  <2>1. <<a, b>> \in Seq({a, b}) OBVIOUS
  <2>2. \A k \in DOMAIN <<a, b>> : <<a, b>>[k] \in {a, b} BY <2>1
  <2>3. IsSeq(<<a, b>>) BY <2>1, SeqIsSeq
  <2> QED BY <1>3, <2>2, <2>3 DEF IsScript
<1> QED BY <1>1, <1>2, <1>3

LEMMA ScriptsJoin ==
  ASSUME NEW a, NEW b, IsScript(a), IsScript(b) PROVE IsScript(a \o b)
<1>1. /\ IsSeq(a \o b)
      /\ \A k \in DOMAIN (a \o b) : (a \o b)[k] \in {a[i] : i \in DOMAIN a} \cup {b[i] : i \in DOMAIN b}
  BY ConcatSeq DEF IsScript
<1> QED BY <1>1 DEF IsScript

LEMMA ScriptsFlatten ==
  ASSUME NEW ss, AreScripts(ss) PROVE IsScript(FlattenSeq(ss))
<1>1. ArePieces(ss) BY DEF AreScripts, IsScript, ArePieces
<1>2. JoinsPieces(ss, FlattenSeq(ss)) BY <1>1, FlattenJoins
<1> QED BY <1>2 DEF JoinsPieces, AreScripts, IsScript

\* A script for every item.
LEMMA ScriptPerItem ==
  ASSUME NEW items, IsSeq(items), NEW ss, ss = [k \in DOMAIN items |-> ss[k]],
         \A k \in DOMAIN items : IsScript(ss[k])
  PROVE  IsScript(FlattenSeq(ss))
<1>1. Len(items) \in Nat /\ DOMAIN items = 1 .. Len(items) BY SeqIs
<1>2. IsSeq(ss) /\ DOMAIN ss = DOMAIN items BY <1>1, FunctionIsSeq
<1>3. AreScripts(ss) BY <1>2 DEF AreScripts
<1> QED BY <1>3, ScriptsFlatten

\* What is written for a node, whatever it is.
LEMMA NodesWriteScripts ==
  /\ \A item, after : IsScript(ColumnUp(item, after))
  /\ \A item : IsScript(IndexUp(item))
  /\ \A item : IsScript(ForeignKeyUp(item))
<1>1. ASSUME NEW item, NEW after PROVE IsScript(ColumnUp(item, after))
  <2> DEFINE added == [op |-> "addColumn", col |-> item.name, type |-> item.attr.type,
                       opts |-> Shown(item.attr.opts),
                       pos |-> IF after = Nil THEN First ELSE After(after)]
             dropped == [op |-> "dropColumn", col |-> item.name]
             modified == ModifyTo(item, item.attr, item.prev)
             reverted == ModifyTo(item, item.prev, item.attr)
             renamed == [op |-> "renameColumn", col |-> item.oldName, to |-> item.name]
  <2>1. /\ IsStatement(added) /\ IsStatement(dropped) /\ IsStatement(modified)
        /\ IsStatement(reverted) /\ IsStatement(renamed)
    BY DEF IsStatement, AlterOps, ModifyTo
  <2>2. ColumnUp(item, after) \in {<<added>>, <<dropped>>, <<modified>>, <<reverted>>, <<renamed>>, <<>>}
    <3>1. CASE item.action = "add" BY <3>1 DEF ColumnUp
    <3>2. CASE item.action = "remove" BY <3>2 DEF ColumnUp
    <3>3. CASE item.action = "modify" BY <3>3 DEF ColumnUp
    <3>4. CASE item.action = "revert" BY <3>4 DEF ColumnUp
    <3>5. CASE item.action = "rename" BY <3>5 DEF ColumnUp
    <3>6. CASE item.action \notin {"add", "remove", "modify", "revert", "rename"}
      <4>1. ColumnUp(item, after) = <<>> BY <3>6 DEF ColumnUp
      <4> QED BY <4>1
    <3> QED BY <3>1, <3>2, <3>3, <3>4, <3>5, <3>6
  <2> HIDE DEF added, dropped, modified, reverted, renamed
  <2> QED BY <2>1, <2>2, ShortScripts
<1>2. ASSUME NEW item PROVE IsScript(IndexUp(item))
  <2> DEFINE create == [op |-> "createIndex", idx |-> item.name, typ |-> item.typ,
                        columns |-> item.columns]
             drop == [op |-> "dropIndex", idx |-> item.name]
             rename == [op |-> "renameIndex", idx |-> item.oldName, to |-> item.name]
  <2>1. IsStatement(create) /\ IsStatement(drop) /\ IsStatement(rename)
    BY DEF IsStatement, AlterOps
  <2>2. IndexUp(item) \in {<<create>>, <<drop>>, <<drop, create>>, <<rename>>, <<>>}
    <3>1. CASE item.action = "add" BY <3>1 DEF IndexUp
    <3>2. CASE item.action = "remove" BY <3>2 DEF IndexUp
    <3>3. CASE item.action = "modify" BY <3>3 DEF IndexUp
    <3>4. CASE item.action = "rename" BY <3>4 DEF IndexUp
    <3>5. CASE item.action \notin {"add", "remove", "modify", "rename"}
      <4>1. IndexUp(item) = <<>> BY <3>5 DEF IndexUp
      <4> QED BY <4>1
    <3> QED BY <3>1, <3>2, <3>3, <3>4, <3>5
  <2> HIDE DEF create, drop, rename
  <2> QED BY <2>1, <2>2, ShortScripts
<1>3. ASSUME NEW item PROVE IsScript(ForeignKeyUp(item))
  <2> DEFINE create == [op |-> "addForeignKey", fk |-> item.name, col |-> item.column,
                        ref |-> item.ref]
             drop == [op |-> "dropConstraint", fk |-> item.name]
  <2>1. IsStatement(create) /\ IsStatement(drop) BY DEF IsStatement, AlterOps, KeyDrops
  <2>2. ForeignKeyUp(item) \in {<<create>>, <<drop>>, <<>>}
    <3>1. CASE item.action = "add" BY <3>1 DEF ForeignKeyUp
    <3>2. CASE item.action = "remove" BY <3>2 DEF ForeignKeyUp
    <3>3. CASE item.action \notin {"add", "remove"}
      <4>1. ForeignKeyUp(item) = <<>> BY <3>3 DEF ForeignKeyUp
      <4> QED BY <4>1
    <3> QED BY <3>1, <3>2, <3>3
  <2> HIDE DEF create, drop
  <2> QED BY <2>1, <2>2, ShortScripts
<1> QED BY <1>1, <1>2, <1>3

LEMMA ListsWriteScripts ==
  ASSUME NEW items, IsSeq(items), NEW dropped
  PROVE  /\ IsScript(ColumnsUp(items)) /\ IsScript(ColumnsDown(items))
         /\ IsScript(IndexesUp(items, dropped)) /\ IsScript(IndexesDown(items, dropped))
         /\ IsScript(ForeignKeysUp(items, dropped)) /\ IsScript(ForeignKeysDown(items, dropped))
<1>1. IsScript(<<>>) BY ShortScripts
<1>2. IsScript(ColumnsUp(items))
  <2> DEFINE ss == [i \in DOMAIN items |-> ColumnUp(items[i], ColumnBefore(items, i, "remove"))]
  <2>1. ss = [k \in DOMAIN items |-> ss[k]] OBVIOUS
  <2>2. \A k \in DOMAIN items : IsScript(ss[k]) BY NodesWriteScripts
  <2>3. ColumnsUp(items) = FlattenSeq(ss) BY DEF ColumnsUp
  <2> HIDE DEF ss
  <2> QED BY <2>1, <2>2, <2>3, ScriptPerItem
<1>3. IsScript(ColumnsDown(items))
  <2> DEFINE ss == [i \in DOMAIN items |-> ColumnUp(UndoColumn(items[i]), ColumnBefore(items, i, "add"))]
  <2>1. ss = [k \in DOMAIN items |-> ss[k]] OBVIOUS
  <2>2. \A k \in DOMAIN items : IsScript(ss[k]) BY NodesWriteScripts
  <2>3. ColumnsDown(items) = FlattenSeq(ss) BY DEF ColumnsDown
  <2> HIDE DEF ss
  <2> QED BY <2>1, <2>2, <2>3, ScriptPerItem
<1>4. IsScript(IndexesUp(items, dropped))
  <2> DEFINE ss == [i \in DOMAIN items |->
                      IF IsWritten(items[i], items[i].columns[1], dropped)
                      THEN IndexUp(items[i]) ELSE <<>>]
  <2>1. ss = [k \in DOMAIN items |-> ss[k]] OBVIOUS
  <2>2. \A k \in DOMAIN items : IsScript(ss[k]) BY <1>1, NodesWriteScripts
  <2>3. IndexesUp(items, dropped) = FlattenSeq(ss) BY DEF IndexesUp
  <2> HIDE DEF ss
  <2> QED BY <2>1, <2>2, <2>3, ScriptPerItem
<1>5. IsScript(IndexesDown(items, dropped))
  <2> DEFINE ss == [i \in DOMAIN items |->
                      IF IsWritten(items[i], items[i].columns[1], dropped)
                      THEN IndexUp(UndoItem(items[i])) ELSE <<>>]
  <2>1. ss = [k \in DOMAIN items |-> ss[k]] OBVIOUS
  <2>2. \A k \in DOMAIN items : IsScript(ss[k]) BY <1>1, NodesWriteScripts
  <2>3. IndexesDown(items, dropped) = FlattenSeq(ss) BY DEF IndexesDown
  <2> HIDE DEF ss
  <2> QED BY <2>1, <2>2, <2>3, ScriptPerItem
<1>6. IsScript(ForeignKeysUp(items, dropped))
  <2> DEFINE ss == [i \in DOMAIN items |->
                      IF IsWritten(items[i], items[i].column, dropped)
                      THEN ForeignKeyUp(items[i]) ELSE <<>>]
  <2>1. ss = [k \in DOMAIN items |-> ss[k]] OBVIOUS
  <2>2. \A k \in DOMAIN items : IsScript(ss[k]) BY <1>1, NodesWriteScripts
  <2>3. ForeignKeysUp(items, dropped) = FlattenSeq(ss) BY DEF ForeignKeysUp
  <2> HIDE DEF ss
  <2> QED BY <2>1, <2>2, <2>3, ScriptPerItem
<1>7. IsScript(ForeignKeysDown(items, dropped))
  <2> DEFINE ss == [i \in DOMAIN items |->
                      IF IsWritten(items[i], items[i].column, dropped)
                      THEN ForeignKeyUp(UndoItem(items[i])) ELSE <<>>]
  <2>1. ss = [k \in DOMAIN items |-> ss[k]] OBVIOUS
  <2>2. \A k \in DOMAIN items : IsScript(ss[k]) BY <1>1, NodesWriteScripts
  <2>3. ForeignKeysDown(items, dropped) = FlattenSeq(ss) BY DEF ForeignKeysDown
  <2> HIDE DEF ss
  <2> QED BY <2>1, <2>2, <2>3, ScriptPerItem
<1> QED BY <1>2, <1>3, <1>4, <1>5, <1>6, <1>7

\* The live nodes of a list are a sequence.
NextLive(l, before, n) ==
  IF IsLive(l.items[n].action) THEN Append(before, l.items[n]) ELSE before
StaysSeq(l, items) == IsSeq(items)
Living == INSTANCE Folding WITH Op <- NextLive, Holds <- StaysSeq

LEMMA LiveItemsAreSeq ==
  ASSUME NEW l, ListShape(l) PROVE IsSeq(LiveItems(l))
<1> DEFINE it == Living!Iterate(l, <<>>, Len(l.items))
<1>1. LiveItems(l) = it BY DEF LiveItems, Living!Iterate, NextLive
<1>2. StaysSeq(l, <<>>) BY EmptyIsSeq DEF StaysSeq
<1>3. ASSUME NEW s, NEW n, StaysSeq(l, s) PROVE StaysSeq(l, NextLive(l, s, n))
  BY <1>3, AppendSeq DEF StaysSeq, NextLive
<1>4. Len(l.items) \in Nat BY SeqIs DEF ListShape
<1>5. Living!StepsKeep(l) BY <1>3 DEF Living!StepsKeep
<1>6. StaysSeq(l, it) BY <1>2, <1>4, <1>5, Living!IterateKeeps
<1> QED BY <1>1, <1>6 DEF StaysSeq

LEMMA TablesWriteScripts ==
  ASSUME NEW t, TableShape(t)
  PROVE  IsScript(TableUp(t)) /\ IsScript(TableDown(t))
<1>1. IsSeq(t.cols.items) /\ IsSeq(t.idxs.items) /\ IsSeq(t.fks.items)
  BY DEF TableShape, ListShape
<1>2. IsScript(Up(t))
  <2> DEFINE dropped == NamesWith(t.cols.items, "remove")
             a == ColumnsUp(t.cols.items)
             b == IndexesUp(t.idxs.items, dropped)
             c == ForeignKeysUp(t.fks.items, dropped)
  <2>1. IsScript(a) /\ IsScript(b) /\ IsScript(c) BY <1>1, ListsWriteScripts
  <2>2. Up(t) = (a \o b) \o c BY DEF Up
  <2> HIDE DEF a, b, c
  <2> QED BY <2>1, <2>2, ScriptsJoin
<1>3. IsScript(Down(t))
  <2> DEFINE dropped == NamesWith(t.cols.items, "add")
             a == ColumnsDown(t.cols.items)
             b == IndexesDown(t.idxs.items, dropped)
             c == ForeignKeysDown(t.fks.items, dropped)
  <2>1. IsScript(a) /\ IsScript(b) /\ IsScript(c) BY <1>1, ListsWriteScripts
  <2>2. Down(t) = (a \o b) \o c BY DEF Down
  <2> HIDE DEF a, b, c
  <2> QED BY <2>1, <2>2, ScriptsJoin
<1>4. IsScript(Creation(t))
  <2> DEFINE cols == LiveItems(t.cols)
             defs == [i \in DOMAIN cols |-> Definition(cols[i])]
             create == [op |-> "createTable", cols |-> defs]
             idxs == t.idxs.items
             fks == t.fks.items
             is == [i \in DOMAIN idxs |-> IF idxs[i].action = "add" THEN IndexUp(idxs[i]) ELSE <<>>]
             ks == [i \in DOMAIN fks |-> IF fks[i].action = "add" THEN ForeignKeyUp(fks[i]) ELSE <<>>]
  <2>1. IsSeq(cols) BY LiveItemsAreSeq DEF TableShape
  <2>2. Len(cols) \in Nat /\ DOMAIN cols = 1 .. Len(cols) BY <2>1, SeqIs
  <2> HIDE DEF cols
  <2>3. defs = [i \in 1 .. Len(cols) |-> defs[i]] BY <2>2
  <2>4. IsSeq(defs) BY <2>2, <2>3, FunctionIsSeq
  <2> HIDE DEF defs
  <2>5. IsStatement(create) BY <2>4 DEF IsStatement
  <2>6. IsScript(<<create>>) BY <2>5, ShortScripts
  <2>7. IsScript(<<>>) BY ShortScripts
  <2>8. is = [k \in DOMAIN idxs |-> is[k]] /\ \A k \in DOMAIN idxs : IsScript(is[k])
    BY <2>7, NodesWriteScripts
  <2>9. ks = [k \in DOMAIN fks |-> ks[k]] /\ \A k \in DOMAIN fks : IsScript(ks[k])
    BY <2>7, NodesWriteScripts
  <2>10. Creation(t) = (<<create>> \o FlattenSeq(is)) \o FlattenSeq(ks) BY DEF Creation, cols, defs
  <2>11. IsSeq(idxs) /\ IsSeq(fks) BY <1>1
  <2> HIDE DEF create, is, ks, idxs, fks
  <2>12. IsScript(FlattenSeq(is)) /\ IsScript(FlattenSeq(ks)) BY <2>8, <2>9, <2>11, ScriptPerItem
  <2> QED BY <2>6, <2>10, <2>12, ScriptsJoin
<1>5. IsScript(Dropping)
  <2>1. IsStatement([op |-> "dropTable"]) BY DEF IsStatement
  <2> QED BY <2>1, ShortScripts DEF Dropping
<1>6. IsScript(<<>>) BY ShortScripts
<1>7. TableUp(t) \in {Up(t), Creation(t), Dropping, <<>>} BY DEF TableUp
<1>8. TableDown(t) \in {Down(t), Creation(t), Dropping, <<>>} BY DEF TableDown
<1> QED BY <1>2, <1>3, <1>4, <1>5, <1>6, <1>7, <1>8

\* A script whose statements are about other tables than the version table.
Spares(s) ==
  /\ IsSeq(s)
  /\ \A k \in DOMAIN s : s[k].tb # DefaultMigrationTable /\ IsStatement(s[k].stm)

LEMMA TableScriptSpares ==
  ASSUME NEW t, NEW stms, IsScript(stms) PROVE Spares(TableScript(t, stms))
<1>1. CASE IsLeftAlone(t)
  <2>1. TableScript(t, stms) = <<>> BY <1>1 DEF TableScript
  <2>2. DOMAIN <<>> = {} OBVIOUS
  <2> QED BY <2>1, <2>2, EmptyIsSeq DEF Spares
<1>2. CASE ~IsLeftAlone(t)
  <2> DEFINE s == [k \in DOMAIN stms |-> [tb |-> t.name, stm |-> stms[k]]]
  <2>1. Len(stms) \in Nat /\ DOMAIN stms = 1 .. Len(stms) BY SeqIs DEF IsScript
  <2>2. s = [k \in 1 .. Len(stms) |-> s[k]] BY <2>1
  <2>3. \A k \in DOMAIN stms : s[k].tb = t.name /\ s[k].stm = stms[k] /\ IsStatement(stms[k])
    BY DEF IsScript
  <2>4. DOMAIN s = DOMAIN stms OBVIOUS
  <2>5. t.name # DefaultMigrationTable BY <1>2 DEF IsLeftAlone
  <2>6. TableScript(t, stms) = s BY <1>2 DEF TableScript
  <2> HIDE DEF s
  <2>7. IsSeq(s) BY <2>1, <2>2, FunctionIsSeq
  <2> QED BY <2>3, <2>4, <2>5, <2>6, <2>7 DEF Spares
<1> QED BY <1>1, <1>2

LEMMA SparesFlatten ==
  ASSUME NEW items, IsSeq(items), NEW ss, ss = [k \in DOMAIN items |-> ss[k]],
         \A k \in DOMAIN items : Spares(ss[k])
  PROVE  Spares(FlattenSeq(ss))
<1>1. Len(items) \in Nat /\ DOMAIN items = 1 .. Len(items) BY SeqIs
<1>2. IsSeq(ss) /\ DOMAIN ss = DOMAIN items BY <1>1, FunctionIsSeq
<1>3. ArePieces(ss) BY <1>2 DEF ArePieces, Spares
<1>4. JoinsPieces(ss, FlattenSeq(ss)) BY <1>3, FlattenJoins
<1> QED BY <1>2, <1>4 DEF JoinsPieces, Spares

\* Whatever the schema, both scripts spare the version table.
LEMMA ScriptsSpare ==
  ASSUME NEW m, SchemaShape(m) PROVE Spares(SchemaUp(m)) /\ Spares(SchemaDown(m))
<1> DEFINE ts == m.tables.items
           ups == [i \in DOMAIN ts |-> TableScript(ts[i], TableUp(ts[i]))]
           downs == [i \in DOMAIN ts |-> TableScript(ts[i], TableDown(ts[i]))]
<1>1. IsSeq(ts) /\ \A i \in DOMAIN ts : TableShape(ts[i]) BY DEF SchemaShape
<1>2. SchemaUp(m) = FlattenSeq(ups) /\ SchemaDown(m) = FlattenSeq(downs) BY DEF SchemaUp, SchemaDown
<1> HIDE DEF ts
<1>3. ups = [i \in DOMAIN ts |-> ups[i]] /\ downs = [i \in DOMAIN ts |-> downs[i]] OBVIOUS
<1>4. \A i \in DOMAIN ts : IsScript(TableUp(ts[i])) /\ IsScript(TableDown(ts[i]))
  BY <1>1, TablesWriteScripts
<1>5. \A i \in DOMAIN ts : Spares(TableScript(ts[i], TableUp(ts[i])))
                            /\ Spares(TableScript(ts[i], TableDown(ts[i])))
  BY <1>4, TableScriptSpares
<1>6. \A i \in DOMAIN ts : Spares(ups[i]) /\ Spares(downs[i]) BY <1>5
<1> HIDE DEF ups, downs
<1> QED BY <1>1, <1>2, <1>3, <1>6, SparesFlatten

----------------------------------------------------------------------------
(* What printing and comparing make of a table: another table of that name.   *)

\* Folding goes over the numbers of a sequence.
LEMMA NumbersOf ==
  ASSUME NEW s, NEW n \in Nat, DOMAIN s = 1 .. n
  PROVE  /\ [i \in DOMAIN s |-> i] \in Seq(1 .. n)
         /\ DOMAIN [i \in DOMAIN s |-> i] = 1 .. n
         /\ \A k \in 1 .. n : [i \in DOMAIN s |-> i][k] = k
OBVIOUS

LEMMA ItemsShape ==
  ASSUME NEW l, ListShape(l), NEW items, IsSeq(items)
  PROVE  /\ ListShape([l EXCEPT !.items = items])
         /\ [l EXCEPT !.items = items].id = l.id
         /\ [l EXCEPT !.items = items].items = items
BY DEF ListShape

\* One name after the other is swapped into place.
SwapNamed(l, items, i) ==
  LET names == NamesByPosition(l)
      bearers == {j \in DOMAIN items : items[j].name = names[i]}
  IN  IF bearers = {} THEN items
      ELSE [items EXCEPT ![i] = items[Min(bearers)], ![Min(bearers)] = items[i]]
Arranging == INSTANCE Folding WITH Op <- SwapNamed, Holds <- StaysSeq

LEMMA ArrangedIsSeq ==
  ASSUME NEW l, ListShape(l) PROVE IsSeq(Arranged(l))
<1> DEFINE n == Cardinality(DOMAIN l.id)
           names == NamesByPosition(l)
           places == [i \in DOMAIN names |-> i]
<1>1. n \in Nat BY FS_CardinalityType DEF ListShape
<1>2. DOMAIN names = 1 .. n BY DEF NamesByPosition
<1> HIDE DEF names, n
<1>3. places \in Seq(1 .. n) BY <1>1, <1>2, NumbersOf
<1>4. ASSUME NEW items, IsSeq(items), NEW i PROVE IsSeq(SwapNamed(l, items, i))
  <2> DEFINE bearers == {j \in DOMAIN items : items[j].name = NamesByPosition(l)[i]}
             mid == [items EXCEPT ![i] = items[Min(bearers)]]
  <2>1. IsSeq(mid) BY <1>4, SetSeq
  <2>2. IsSeq([mid EXCEPT ![Min(bearers)] = items[i]]) BY <2>1, SetSeq
  <2>3. [items EXCEPT ![i] = items[Min(bearers)], ![Min(bearers)] = items[i]]
          = [mid EXCEPT ![Min(bearers)] = items[i]]
    OBVIOUS
  <2>4. SwapNamed(l, items, i) \in {items, [mid EXCEPT ![Min(bearers)] = items[i]]}
    BY <2>3 DEF SwapNamed
  <2> QED BY <1>4, <2>2, <2>4
<1>5. Arranging!Kept(l, places)
  <2> HIDE DEF places
  <2> QED BY <1>4 DEF Arranging!Kept, StaysSeq
<1>6. StaysSeq(l, l.items) BY DEF StaysSeq, ListShape
<1> HIDE DEF places
<1>7. StaysSeq(l, Arranging!Fold(l, l.items, places)) BY <1>3, <1>5, <1>6, Arranging!FoldKeeps
<1>8. Arranging!Fold(l, l.items, places) = Arranged(l)
  BY DEF Arranging!Fold, SwapNamed, FoldLeft, Arranged, FoldLeftDomain,
         Arranging!MapThenFoldSet, MapThenFoldSet, Arranging!GreatestIn, Max, names, places
<1> QED BY <1>7, <1>8 DEF StaysSeq

\* r is a table with the name of t.
StaysTable(t, r) == TableShape(r) /\ r.name = t.name

LEMMA SetListStays ==
  ASSUME NEW t, TableShape(t), NEW l, ListShape(l)
  PROVE  /\ StaysTable(t, [t EXCEPT !.cols = l])
         /\ StaysTable(t, [t EXCEPT !.idxs = l])
         /\ StaysTable(t, [t EXCEPT !.fks = l])
BY DEF StaysTable, TableShape, IsTable

LEMMA ArrangeTableStays ==
  ASSUME NEW t, TableShape(t), NEW created PROVE StaysTable(t, ArrangeTable(t, created))
<1>1. StaysTable(t, t) BY DEF StaysTable
<1>2. StaysTable(t, Panicked(t)) BY PanickedBecomes DEF Becomes, StaysTable
<1>3. StaysTable(t, Arrange(t))
  <2> DEFINE l == [t.cols EXCEPT !.items = Arranged(t.cols)]
  <2>1. ListShape(l) BY ItemsShape, ArrangedIsSeq DEF TableShape
  <2>2. [t EXCEPT !.cols.items = Arranged(t.cols)] = [t EXCEPT !.cols = l] BY DEF TableShape, IsTable
  <2> HIDE DEF l
  <2>3. StaysTable(t, [t EXCEPT !.cols.items = Arranged(t.cols)]) BY <2>1, <2>2, SetListStays
  <2> QED BY <1>2, <2>3 DEF Arrange
<1>4. ArrangeTable(t, created) \in {t, Panicked(t), Arrange(t)} BY DEF ArrangeTable
<1> QED BY <1>1, <1>2, <1>3, <1>4

\* Tables are replaced by tables of the same names.
LEMMA TablesReplaced ==
  ASSUME NEW m, SchemaShape(m), NEW items, IsSeq(items), DOMAIN items = DOMAIN m.tables.items,
         \A i \in DOMAIN items : StaysTable(m.tables.items[i], items[i]),
         NEW r, r = [tables |-> [items |-> items, id |-> m.tables.id], current |-> m.current]
  PROVE  SchemaShape(r)
<1>1. r.tables.items = items /\ r.tables.id = m.tables.id
      /\ r \in [tables : {r.tables}, current : {r.current}]
      /\ r.tables \in [items : {r.tables.items}, id : {r.tables.id}]
  OBVIOUS
<1>2. Len(items) = Len(m.tables.items)
  <2> DEFINE n == Len(m.tables.items)
  <2>1. n \in Nat /\ DOMAIN items = 1 .. n BY SeqIs DEF SchemaShape
  <2>2. items = [k \in DOMAIN items |-> items[k]] BY SeqIs
  <2> HIDE DEF n
  <2>3. Len(items) = n BY <2>1, <2>2, FunctionIsSeq
  <2> QED BY <2>3 DEF n
<1>3. DOMAIN items = 1 .. Len(items) BY SeqIs
<1>4. Coherent(r.tables) BY <1>1, <1>2, <1>3 DEF Coherent, SchemaShape, StaysTable
<1>5. \A i \in DOMAIN items : TableShape(items[i]) BY DEF StaysTable
<1> QED BY <1>1, <1>4, <1>5 DEF SchemaShape

LEMMA ArrangeTablesShape ==
  ASSUME NEW m, SchemaShape(m), NEW created PROVE SchemaShape(ArrangeTables(m, created))
<1> DEFINE items == [i \in DOMAIN m.tables.items |-> ArrangeTable(m.tables.items[i], created)]
           r == [tables |-> [items |-> items, id |-> m.tables.id], current |-> m.current]
<1>1. Len(m.tables.items) \in Nat /\ DOMAIN m.tables.items = 1 .. Len(m.tables.items)
  BY SeqIs DEF SchemaShape
<1>2. items = [i \in 1 .. Len(m.tables.items) |-> items[i]] BY <1>1
<1>3. DOMAIN items = DOMAIN m.tables.items
      /\ \A i \in DOMAIN items : StaysTable(m.tables.items[i], items[i])
  BY ArrangeTableStays DEF SchemaShape
<1>4. ArrangeTables(m, created) = r BY DEF ArrangeTables, SchemaShape
<1> HIDE DEF items
<1>5. IsSeq(items) BY <1>1, <1>2, FunctionIsSeq
<1>6. SchemaShape(r) BY <1>3, <1>5, TablesReplaced
<1> QED BY <1>4, <1>6

----------------------------------------------------------------------------
(* Diff of two tables.                                                        *)

\* p is a pair of tables with the names of those of q.
StaysPair(q, p) ==
  /\ p \in [t : {p.t}, old : {p.old}]
  /\ StaysTable(q.t, p.t)
  /\ StaysTable(q.old, p.old)

LEMMA PairOf ==
  ASSUME NEW q, NEW p, StaysPair(q, p), NEW t, StaysTable(p.t, t), NEW old, StaysTable(p.old, old)
  PROVE  StaysPair(q, [t |-> t, old |-> old])
BY DEF StaysPair, StaysTable

LEMMA MappedIsSeq ==
  ASSUME NEW items, IsSeq(items), NEW s, s = [i \in DOMAIN items |-> s[i]]
  PROVE  IsSeq(s)
<1>1. Len(items) \in Nat /\ DOMAIN items = 1 .. Len(items) BY SeqIs
<1> QED BY <1>1, FunctionIsSeq

LEMMA SharedStay ==
  ASSUME NEW q, NEW p, StaysPair(q, p)
  PROVE  /\ StaysPair(q, DiffSharedColumns(p))
         /\ StaysPair(q, DiffSharedIndexes(p))
         /\ StaysPair(q, DiffSharedKeys(p))
<1>1. /\ TableShape(p.t) /\ TableShape(p.old) /\ p = [t |-> p.t, old |-> p.old]
      /\ StaysTable(p.old, p.old)
      /\ IsSeq(p.t.cols.items) /\ IsSeq(p.t.idxs.items) /\ IsSeq(p.t.fks.items)
  BY DEF StaysPair, StaysTable, TableShape, ListShape
<1>2. StaysPair(q, DiffSharedColumns(p))
  <2> DEFINE s == [i \in DOMAIN p.t.cols.items |-> DiffSharedColumn(p.t.cols.items[i], p.old)]
             l == [p.t.cols EXCEPT !.items = s]
             t == [p.t EXCEPT !.cols = l]
  <2>1. [p EXCEPT !.t.cols.items = [i \in DOMAIN @ |-> DiffSharedColumn(@[i], p.old)]]
          = [t |-> t, old |-> p.old]
    BY <1>1 DEF TableShape, IsTable
  <2>2. s = [i \in DOMAIN p.t.cols.items |-> s[i]] OBVIOUS
  <2> HIDE DEF s
  <2>3. IsSeq(s) BY <1>1, <2>2, MappedIsSeq
  <2>4. ListShape(l) BY <1>1, <2>3, ItemsShape DEF TableShape
  <2> HIDE DEF l
  <2>5. StaysTable(p.t, t) BY <1>1, <2>4, SetListStays
  <2> HIDE DEF t
  <2>6. StaysPair(q, [t |-> t, old |-> p.old]) BY <1>1, <2>5, PairOf
  <2>7. [p EXCEPT !.t = Panicked(@)] = [t |-> Panicked(p.t), old |-> p.old] BY <1>1
  <2>8. StaysTable(p.t, Panicked(p.t)) BY <1>1, PanickedBecomes DEF Becomes, StaysTable
  <2>9. StaysPair(q, [t |-> Panicked(p.t), old |-> p.old]) BY <1>1, <2>8, PairOf
  <2> QED BY <2>1, <2>6, <2>7, <2>9 DEF DiffSharedColumns
<1>3. StaysPair(q, DiffSharedIndexes(p))
  <2> DEFINE s == [i \in DOMAIN p.t.idxs.items |-> DiffSharedIndex(p.t.idxs.items[i], p.old)]
             l == [p.t.idxs EXCEPT !.items = s]
             t == [p.t EXCEPT !.idxs = l]
  <2>1. DiffSharedIndexes(p) = [t |-> t, old |-> p.old]
    BY <1>1 DEF TableShape, IsTable, DiffSharedIndexes
  <2>2. s = [i \in DOMAIN p.t.idxs.items |-> s[i]] OBVIOUS
  <2> HIDE DEF s
  <2>3. IsSeq(s) BY <1>1, <2>2, MappedIsSeq
  <2>4. ListShape(l) BY <1>1, <2>3, ItemsShape DEF TableShape
  <2> HIDE DEF l
  <2>5. StaysTable(p.t, t) BY <1>1, <2>4, SetListStays
  <2> HIDE DEF t
  <2> QED BY <1>1, <2>1, <2>5, PairOf
<1>4. StaysPair(q, DiffSharedKeys(p))
  <2> DEFINE s == [i \in DOMAIN p.t.fks.items |-> DiffSharedKey(p.t.fks.items[i], p.old)]
             l == [p.t.fks EXCEPT !.items = s]
             t == [p.t EXCEPT !.fks = l]
  <2>1. DiffSharedKeys(p) = [t |-> t, old |-> p.old]
    BY <1>1 DEF TableShape, IsTable, DiffSharedKeys
  <2>2. s = [i \in DOMAIN p.t.fks.items |-> s[i]] OBVIOUS
  <2> HIDE DEF s
  <2>3. IsSeq(s) BY <1>1, <2>2, MappedIsSeq
  <2>4. ListShape(l) BY <1>1, <2>3, ItemsShape DEF TableShape
  <2> HIDE DEF l
  <2>5. StaysTable(p.t, t) BY <1>1, <2>4, SetListStays
  <2> HIDE DEF t
  <2> QED BY <1>1, <2>1, <2>5, PairOf
<1> QED BY <1>2, <1>3, <1>4

\* The node at j of a list is marked.
LEMMA MarkedStays ==
  ASSUME NEW old, TableShape(old), NEW j, NEW gone
  PROVE  /\ StaysTable(old, [old EXCEPT !.cols = SetItem(@, j, gone)])
         /\ StaysTable(old, [old EXCEPT !.idxs = SetItem(@, j, gone)])
         /\ StaysTable(old, [old EXCEPT !.fks = SetItem(@, j, gone)])
<1>1. \A l : ListShape(l) => ListShape(SetItem(l, j, gone)) BY SetItemShape
<1>2. ListShape(old.cols) /\ ListShape(old.idxs) /\ ListShape(old.fks) BY DEF TableShape
<1>3. /\ [old EXCEPT !.cols = SetItem(@, j, gone)] = [old EXCEPT !.cols = SetItem(old.cols, j, gone)]
      /\ [old EXCEPT !.idxs = SetItem(@, j, gone)] = [old EXCEPT !.idxs = SetItem(old.idxs, j, gone)]
      /\ [old EXCEPT !.fks = SetItem(@, j, gone)] = [old EXCEPT !.fks = SetItem(old.fks, j, gone)]
  BY DEF TableShape, IsTable
<1>4. /\ ListShape(SetItem(old.cols, j, gone)) /\ ListShape(SetItem(old.idxs, j, gone))
      /\ ListShape(SetItem(old.fks, j, gone))
  BY <1>1, <1>2
<1> HIDE DEF SetItem
<1> QED BY <1>3, <1>4, SetListStays

LEMMA PutLostColumnStays ==
  ASSUME NEW q, NEW p, StaysPair(q, p), NEW j PROVE StaysPair(q, PutLostColumn(p, j))
<1>1. TableShape(p.t) /\ TableShape(p.old) BY DEF StaysPair, StaysTable
<1>2. CASE p.t.panic \/ ~IsLost(p.old.cols, j, p.t.cols)
  BY <1>2 DEF PutLostColumn
<1>3. CASE ~(p.t.panic \/ ~IsLost(p.old.cols, j, p.t.cols))
  <2> DEFINE gone == [p.old.cols.items[j] EXCEPT !.action = "remove"]
             old2 == [p.old EXCEPT !.cols = SetItem(@, j, gone)]
             added == AddColumn(p.t, gone)
             before == IF j = 1 THEN 0 ELSE IdOf(old2.cols, old2.cols.items[j - 1].name)
             moved == SwapColumns(added, gone.name, Len(added.cols.items), before + 1)
             t == IF ~added.panic /\ (j = 1 \/ before > 0) THEN moved ELSE added
  <2>1. PutLostColumn(p, j) = [old |-> old2, t |-> t] BY <1>3 DEF PutLostColumn
  <2>2. StaysTable(p.old, old2) BY <1>1, MarkedStays
  <2>3. gone.name = p.old.cols.items[j].name BY DEF gone
  <2>4. gone.name \notin Known(p.t)
    <3>1. IdOf(p.t.cols, gone.name) = 0 BY <1>3, <2>3 DEF IsLost
    <3> HIDE DEF gone
    <3> QED BY <1>1, <3>1 DEF IdOf, Known, TableShape, ListShape
  <2> HIDE DEF gone
  <2>5. Becomes(p.t, added, {gone.name}) /\ Len(added.cols.items) # 0
    BY <1>1, <2>4, AddColumnBecomes
  <2>6. TableShape(added) /\ StaysTable(p.t, added) BY <2>5 DEF Becomes, StaysTable
  <2> HIDE DEF added
  <2>7. Len(added.cols.items) \in 1 .. Len(added.cols.items)
    <3>1. Len(added.cols.items) \in Nat BY <2>6, SeqIs DEF TableShape, ListShape
    <3> QED BY <2>5, <3>1
  <2>8. before + 1 \in Nat \ {0}
    <3>1. ListShape(old2.cols) BY <2>2 DEF StaysTable, TableShape
    <3> HIDE DEF old2
    <3>2. \A n : IdOf(old2.cols, n) \in Nat BY <3>1 DEF IdOf, ListShape
    <3>3. before \in Nat BY <3>2
    <3> HIDE DEF before
    <3> QED BY <3>3
  <2> HIDE DEF before
  <2>9. Becomes(added, moved, {gone.name}) BY <2>6, <2>7, <2>8, SwapColumnsBecomes
  <2>10. StaysTable(p.t, moved) BY <2>6, <2>9 DEF Becomes, StaysTable
  <2> HIDE DEF moved
  <2>11. StaysTable(p.t, t) BY <2>6, <2>10
  <2> HIDE DEF t, old2
  <2> QED BY <2>1, <2>2, <2>11, PairOf
<1> QED BY <1>2, <1>3

LEMMA PutLostOthersStay ==
  ASSUME NEW q, NEW p, StaysPair(q, p), NEW j
  PROVE  StaysPair(q, PutLostIndex(p, j)) /\ StaysPair(q, PutLostKey(p, j))
<1>1. TableShape(p.t) /\ TableShape(p.old) BY DEF StaysPair, StaysTable
<1>2. StaysPair(q, PutLostIndex(p, j))
  <2>1. CASE p.t.panic \/ ~IsLost(p.old.idxs, j, p.t.idxs) BY <2>1 DEF PutLostIndex
  <2>2. CASE ~(p.t.panic \/ ~IsLost(p.old.idxs, j, p.t.idxs))
    <3> DEFINE gone == [p.old.idxs.items[j] EXCEPT !.action = "remove"]
               old2 == [p.old EXCEPT !.idxs = SetItem(@, j, gone)]
               t == AddIndex(p.t, gone)
    <3>1. PutLostIndex(p, j) = [old |-> old2, t |-> t] BY <2>2 DEF PutLostIndex
    <3> HIDE DEF gone
    <3>2. StaysTable(p.old, old2) BY <1>1, MarkedStays
    <3>3. Keeps(p.t, t, {}) BY <1>1, IndexMethodsBecome
    <3>4. StaysTable(p.t, t) BY <3>3 DEF Keeps, Becomes, StaysTable
    <3> HIDE DEF t, old2
    <3> QED BY <3>1, <3>2, <3>4, PairOf
  <2> QED BY <2>1, <2>2
<1>3. StaysPair(q, PutLostKey(p, j))
  <2>1. CASE p.t.panic \/ ~IsLost(p.old.fks, j, p.t.fks) BY <2>1 DEF PutLostKey
  <2>2. CASE ~(p.t.panic \/ ~IsLost(p.old.fks, j, p.t.fks))
    <3> DEFINE gone == [p.old.fks.items[j] EXCEPT !.action = "remove"]
               old2 == [p.old EXCEPT !.fks = SetItem(@, j, gone)]
               t == AddForeignKey(p.t, gone)
    <3>1. PutLostKey(p, j) = [old |-> old2, t |-> t] BY <2>2 DEF PutLostKey
    <3> HIDE DEF gone
    <3>2. StaysTable(p.old, old2) BY <1>1, MarkedStays
    <3>3. Keeps(p.t, t, {}) BY <1>1, KeyMethodsBecome
    <3>4. StaysTable(p.t, t) BY <3>3 DEF Keeps, Becomes, StaysTable
    <3> HIDE DEF t, old2
    <3> QED BY <3>1, <3>2, <3>4, PairOf
  <2> QED BY <2>1, <2>2
<1> QED BY <1>2, <1>3

LostColumnFold(q, p, j) == PutLostColumn(p, j)
LostColumns == INSTANCE Folding WITH Op <- LostColumnFold, Holds <- StaysPair
LostIndexFold(q, p, j) == PutLostIndex(p, j)
LostIndexes == INSTANCE Folding WITH Op <- LostIndexFold, Holds <- StaysPair
LostKeyFold(q, p, j) == PutLostKey(p, j)
LostKeys == INSTANCE Folding WITH Op <- LostKeyFold, Holds <- StaysPair

LEMMA LostStay ==
  ASSUME NEW q, NEW p, StaysPair(q, p)
  PROVE  /\ StaysPair(q, PutLostColumns(p))
         /\ StaysPair(q, PutLostIndexes(p))
         /\ StaysPair(q, PutLostKeys(p))
<1> DEFINE numbers(items) == [j \in DOMAIN items |-> j]
<1>1. ASSUME NEW items, IsSeq(items) PROVE \E n \in Nat : numbers(items) \in Seq(1 .. n)
  <2> DEFINE n == Len(items)
  <2>1. n \in Nat /\ DOMAIN items = 1 .. n BY <1>1, SeqIs
  <2> HIDE DEF n
  <2> QED BY <2>1, NumbersOf
<1>2. IsSeq(p.old.cols.items) /\ IsSeq(p.old.idxs.items) /\ IsSeq(p.old.fks.items)
  BY DEF StaysPair, StaysTable, TableShape, ListShape
<1> HIDE DEF numbers
<1>3. StaysPair(q, PutLostColumns(p))
  <2> DEFINE js == numbers(p.old.cols.items)
  <2>1. PICK n \in Nat : js \in Seq(1 .. n) BY <1>1, <1>2
  <2>2. PutLostColumns(p) = LostColumns!Fold(q, p, js)
    BY DEF PutLostColumns, FoldLeftDomain, LostColumns!Fold, LostColumnFold, numbers,
           FoldLeft, LostColumns!MapThenFoldSet, MapThenFoldSet,
           LostColumns!GreatestIn, Max
  <2> HIDE DEF js
  <2>3. LostColumns!Kept(q, js) BY PutLostColumnStays DEF LostColumns!Kept, LostColumnFold
  <2>4. StaysPair(q, LostColumns!Fold(q, p, js)) BY <2>1, <2>3, LostColumns!FoldKeeps
  <2> QED BY <2>2, <2>4
<1>4. StaysPair(q, PutLostIndexes(p))
  <2> DEFINE js == numbers(p.old.idxs.items)
  <2>1. PICK n \in Nat : js \in Seq(1 .. n) BY <1>1, <1>2
  <2>2. PutLostIndexes(p) = LostIndexes!Fold(q, p, js)
    BY DEF PutLostIndexes, FoldLeftDomain, LostIndexes!Fold, LostIndexFold, numbers,
           FoldLeft, LostIndexes!MapThenFoldSet, MapThenFoldSet,
           LostIndexes!GreatestIn, Max
  <2> HIDE DEF js
  <2>3. LostIndexes!Kept(q, js) BY PutLostOthersStay DEF LostIndexes!Kept, LostIndexFold
  <2>4. StaysPair(q, LostIndexes!Fold(q, p, js)) BY <2>1, <2>3, LostIndexes!FoldKeeps
  <2> QED BY <2>2, <2>4
<1>5. StaysPair(q, PutLostKeys(p))
  <2> DEFINE js == numbers(p.old.fks.items)
  <2>1. PICK n \in Nat : js \in Seq(1 .. n) BY <1>1, <1>2
  <2>2. PutLostKeys(p) = LostKeys!Fold(q, p, js)
    BY DEF PutLostKeys, FoldLeftDomain, LostKeys!Fold, LostKeyFold, numbers,
           FoldLeft, LostKeys!MapThenFoldSet, MapThenFoldSet,
           LostKeys!GreatestIn, Max
  <2> HIDE DEF js
  <2>3. LostKeys!Kept(q, js) BY PutLostOthersStay DEF LostKeys!Kept, LostKeyFold
  <2>4. StaysPair(q, LostKeys!Fold(q, p, js)) BY <2>1, <2>3, LostKeys!FoldKeeps
  <2> QED BY <2>2, <2>4
<1> QED BY <1>3, <1>4, <1>5

\* Both tables come out of Diff as tables of their names.
LEMMA DiffStays ==
  ASSUME NEW t, TableShape(t), NEW old, TableShape(old)
  PROVE  StaysTable(t, Diff(t, old).t) /\ StaysTable(old, Diff(t, old).old)
<1> DEFINE q == [t |-> t, old |-> old]
           cols == PutLostColumns(DiffSharedColumns(q))
           idxs == PutLostIndexes(DiffSharedIndexes(cols))
           fks == PutLostKeys(DiffSharedKeys(idxs))
<1>1. StaysPair(q, q) BY DEF StaysPair, StaysTable
<1>2. q.t = t /\ q.old = old OBVIOUS
<1>3. Diff(t, old) = [fks EXCEPT !.t.action = "no"] BY DEF Diff
<1> HIDE DEF q
<1>4. StaysPair(q, cols) BY <1>1, SharedStay, LostStay
<1> HIDE DEF cols
<1>5. StaysPair(q, idxs) BY <1>4, SharedStay, LostStay
<1> HIDE DEF idxs
<1>6. StaysPair(q, fks) BY <1>5, SharedStay, LostStay
<1> HIDE DEF fks
<1>7. /\ [fks EXCEPT !.t.action = "no"].t = [fks.t EXCEPT !.action = "no"]
      /\ [fks EXCEPT !.t.action = "no"].old = fks.old
  BY <1>6 DEF StaysPair
<1>8. TableShape(fks.t) /\ fks.t.name = t.name /\ StaysTable(old, fks.old)
  BY <1>2, <1>6 DEF StaysPair, StaysTable
<1>9. StaysTable(t, [fks.t EXCEPT !.action = "no"])
  BY <1>8 DEF StaysTable, TableShape, IsTable
<1> QED BY <1>3, <1>7, <1>8, <1>9

----------------------------------------------------------------------------
(* Diff of two schemas.                                                       *)

\* p is a pair of schemas with as many tables as those of q, in the old one at least.
StaysSchemas(q, p) ==
  /\ p \in [m : {p.m}, old : {p.old}]
  /\ SchemaShape(p.m) /\ SchemaShape(p.old)
  /\ DOMAIN p.old.tables.items = DOMAIN q.old.tables.items
StaysBoth(q, p) == StaysSchemas(q, p) /\ DOMAIN p.m.tables.items = DOMAIN q.m.tables.items

Replaces(m, r, i, t) == r = [m EXCEPT !.tables = SetItem(@, i, t)]

LEMMA TableReplaced ==
  ASSUME NEW m, SchemaShape(m), NEW i \in DOMAIN m.tables.items,
         NEW t, StaysTable(m.tables.items[i], t), NEW r, Replaces(m, r, i, t)
  PROVE  SchemaShape(r) /\ DOMAIN r.tables.items = DOMAIN m.tables.items
<1> DEFINE items == [m.tables.items EXCEPT ![i] = t]
<1>1. r = [tables |-> [items |-> items, id |-> m.tables.id], current |-> m.current]
  BY DEF Replaces, SetItem, SchemaShape
<1>2. DOMAIN items = DOMAIN m.tables.items OBVIOUS
<1>3. \A k \in DOMAIN items : StaysTable(m.tables.items[k], items[k])
  <2>1. \A k \in DOMAIN m.tables.items : StaysTable(m.tables.items[k], m.tables.items[k])
    BY DEF SchemaShape, StaysTable
  <2> QED BY <2>1
<1>4. IsSeq(items) BY SetSeq DEF SchemaShape
<1> HIDE DEF items
<1>5. SchemaShape(r) BY <1>1, <1>2, <1>3, <1>4, TablesReplaced
<1>6. r.tables.items = items BY <1>1
<1> QED BY <1>2, <1>5, <1>6

LEMMA DiffSharedTableStays ==
  ASSUME NEW q, NEW p, StaysBoth(q, p), NEW i \in DOMAIN q.m.tables.items
  PROVE  StaysBoth(q, DiffSharedTable(p, i))
<1> DEFINE j == IdOf(p.old.tables, p.m.tables.items[i].name)
           t == p.m.tables.items[i]
           old == p.old.tables.items[j]
           both == Diff(t, old)
           m2 == [p.m EXCEPT !.tables = SetItem(@, i, both.t)]
           old2 == [p.old EXCEPT !.tables = SetItem(@, j, both.old)]
<1>1. CASE j = 0 BY <1>1 DEF DiffSharedTable
<1>2. CASE j # 0
  <2>1. SchemaShape(p.m) /\ SchemaShape(p.old) /\ i \in DOMAIN p.m.tables.items
    BY DEF StaysBoth, StaysSchemas
  <2>2. j \in DOMAIN p.old.tables.items
    <3>1. j \in 1 .. Len(p.old.tables.items) BY <1>2, <2>1 DEF IdOf, SchemaShape, Coherent
    <3>2. DOMAIN p.old.tables.items = 1 .. Len(p.old.tables.items) BY <2>1, SeqIs DEF SchemaShape
    <3> QED BY <3>1, <3>2
  <2>3. DiffSharedTable(p, i) = [m |-> m2, old |-> old2] BY <1>2 DEF DiffSharedTable
  <2>4. TableShape(t) /\ TableShape(old) BY <2>1, <2>2 DEF SchemaShape
  <2>5. StaysTable(t, both.t) /\ StaysTable(old, both.old) BY <2>4, DiffStays
  <2>6. Replaces(p.m, m2, i, both.t) /\ Replaces(p.old, old2, j, both.old) BY DEF Replaces
  <2> HIDE DEF both, j, m2, old2
  <2>7. SchemaShape(m2) /\ DOMAIN m2.tables.items = DOMAIN p.m.tables.items
    BY <2>1, <2>5, <2>6, TableReplaced
  <2>8. SchemaShape(old2) /\ DOMAIN old2.tables.items = DOMAIN p.old.tables.items
    BY <2>1, <2>2, <2>5, <2>6, TableReplaced
  <2> QED BY <2>3, <2>7, <2>8 DEF StaysBoth, StaysSchemas
<1> QED BY <1>1, <1>2

LEMMA PutLostTableStays ==
  ASSUME NEW q, NEW p, StaysSchemas(q, p), NEW j \in DOMAIN q.old.tables.items
  PROVE  StaysSchemas(q, PutLostTable(p, j))
<1> DEFINE gone == [p.old.tables.items[j] EXCEPT !.action = "remove"]
           m2 == AddTable(p.m, gone)
           old2 == [p.old EXCEPT !.tables = SetItem(@, j, gone)]
<1>1. CASE IsKnown(p.m, gone.name) BY <1>1 DEF PutLostTable
<1>2. CASE ~IsKnown(p.m, gone.name)
  <2>1. SchemaShape(p.m) /\ SchemaShape(p.old) /\ j \in DOMAIN p.old.tables.items
    BY DEF StaysSchemas
  <2>2. PutLostTable(p, j) = [m |-> m2, old |-> old2] BY <1>2 DEF PutLostTable
  <2>3. StaysTable(p.old.tables.items[j], gone)
    <3> DEFINE t == p.old.tables.items[j]
    <3>1. TableShape(t) BY <2>1 DEF SchemaShape
    <3> HIDE DEF t
    <3>2. TableShape([t EXCEPT !.action = "remove"])
          /\ [t EXCEPT !.action = "remove"].name = t.name
      BY <3>1 DEF TableShape, IsTable
    <3> QED BY <3>1, <3>2 DEF StaysTable, t
  <2>4. TableShape(gone) BY <2>3 DEF StaysTable
  <2>5. Replaces(p.old, old2, j, gone) BY DEF Replaces
  <2> HIDE DEF gone
  <2>6. SchemaShape(m2) BY <2>1, <2>4, AddTableGains DEF Gains
  <2> HIDE DEF m2, old2
  <2>7. SchemaShape(old2) /\ DOMAIN old2.tables.items = DOMAIN p.old.tables.items
    BY <2>1, <2>3, <2>5, TableReplaced
  <2> QED BY <2>2, <2>6, <2>7 DEF StaysSchemas
<1> QED BY <1>1, <1>2

SharedTableFold(q, p, i) == DiffSharedTable(p, i)
SharedTables == INSTANCE Folding WITH Op <- SharedTableFold, Holds <- StaysBoth
LostTableFold(q, p, j) == PutLostTable(p, j)
LostTables == INSTANCE Folding WITH Op <- LostTableFold, Holds <- StaysSchemas

LEMMA SchemaDiffShape ==
  ASSUME NEW m, SchemaShape(m), NEW old, SchemaShape(old)
  PROVE  SchemaShape(SchemaDiff(m, old).m) /\ SchemaShape(SchemaDiff(m, old).old)
<1> DEFINE q == [m |-> m, old |-> old]
           is == [i \in DOMAIN m.tables.items |-> i]
           js == [i \in DOMAIN old.tables.items |-> i]
           shared == FoldLeftDomain(DiffSharedTable, q, m.tables.items)
           diff == FoldLeftDomain(PutLostTable, shared, old.tables.items)
           k == Len(m.tables.items)
           n == Len(old.tables.items)
<1>1. SchemaDiff(m, old) = diff BY DEF SchemaDiff
<1>2. q.m = m /\ q.old = old /\ StaysBoth(q, q) BY DEF StaysBoth, StaysSchemas
<1>3. k \in Nat /\ DOMAIN m.tables.items = 1 .. k /\ n \in Nat /\ DOMAIN old.tables.items = 1 .. n
  BY SeqIs DEF SchemaShape
<1> HIDE DEF k, n
<1>4. /\ is \in Seq(1 .. k) /\ DOMAIN is = 1 .. k /\ \A i \in 1 .. k : is[i] = i
      /\ js \in Seq(1 .. n) /\ DOMAIN js = 1 .. n /\ \A i \in 1 .. n : js[i] = i
  BY <1>3, NumbersOf
<1>5. shared = SharedTables!Fold(q, q, is)
  BY DEF FoldLeftDomain, SharedTables!Fold, SharedTableFold, FoldLeft,
         SharedTables!MapThenFoldSet, MapThenFoldSet, SharedTables!GreatestIn, Max
<1>6. diff = LostTables!Fold(q, shared, js)
  <2> HIDE DEF shared
  <2> QED
    BY DEF FoldLeftDomain, LostTables!Fold, LostTableFold, FoldLeft,
           LostTables!MapThenFoldSet, MapThenFoldSet, LostTables!GreatestIn, Max
<1> HIDE DEF q, is, js, shared, diff
<1>7. SharedTables!Kept(q, is)
  <2>1. \A i \in DOMAIN is : is[i] \in DOMAIN q.m.tables.items BY <1>2, <1>3, <1>4
  <2> QED BY <2>1, DiffSharedTableStays DEF SharedTables!Kept, SharedTableFold
<1>8. StaysBoth(q, shared)
  <2>1. StaysBoth(q, SharedTables!Fold(q, q, is)) BY <1>2, <1>4, <1>7, SharedTables!FoldKeeps
  <2> QED BY <1>5, <2>1
<1>9. LostTables!Kept(q, js)
  <2>1. \A i \in DOMAIN js : js[i] \in DOMAIN q.old.tables.items BY <1>2, <1>3, <1>4
  <2> QED BY <2>1, PutLostTableStays DEF LostTables!Kept, LostTableFold
<1>10. StaysSchemas(q, diff)
  <2>1. StaysSchemas(q, shared) BY <1>8 DEF StaysBoth
  <2>2. StaysSchemas(q, LostTables!Fold(q, shared, js)) BY <1>4, <1>9, <2>1, LostTables!FoldKeeps
  <2> QED BY <1>6, <2>2
<1> QED BY <1>1, <1>10 DEF StaysSchemas

----------------------------------------------------------------------------
(* Reading a statement, whatever its table and whatever the schema knows.     *)

LEMMA EnsuredShape ==
  ASSUME NEW m, SchemaShape(m), NEW n
  PROVE  /\ SchemaShape(Ensured(m, n)) /\ n \in KnownTables(Ensured(m, n))
         /\ TableShape(TableOf(Ensured(m, n), n))
<1> DEFINE e == Ensured(m, n)
           fresh == NewTableWithAction(n, "modify")
<1>1. SchemaShape(e) /\ n \in KnownTables(e)
  <2>1. CASE IsKnown(m, n) BY <2>1 DEF Ensured, IsKnown, IdOf, KnownTables
  <2>2. CASE ~IsKnown(m, n)
    <3>1. TableShape(fresh) /\ fresh.name = n BY NewTableShape DEF NewTableWithAction
    <3>2. e = AddTable(m, fresh) BY <2>2 DEF Ensured
    <3> HIDE DEF fresh, e
    <3>3. Gains(m, AddTable(m, fresh), fresh.name) BY <3>1, AddTableGains
    <3> QED BY <3>1, <3>2, <3>3 DEF Gains
  <2> QED BY <2>1, <2>2
<1> HIDE DEF e
<1>2. TableShape(TableOf(e, n)) BY <1>1, KnownTable
<1> QED BY <1>1, <1>2 DEF e

LEMMA SetShape ==
  ASSUME NEW m, SchemaShape(m), NEW n \in KnownTables(m), NEW t, NEW N, Becomes(TableOf(m, n), t, N)
  PROVE  SchemaShape(SetTable(m, n, t))
<1>1. Touches(m, SetTable(m, n, t), n, N, {}) BY BecomesTouches
<1> QED BY <1>1 DEF Touches, SameTables

\* The methods that make an unknown table known.
LEMMA AddingShapes ==
  ASSUME NEW m, SchemaShape(m), NEW tb, NEW x
  PROVE  /\ SchemaShape(SchemaAddColumn(m, tb, x)) /\ SchemaShape(SchemaRemoveColumn(m, tb, x))
         /\ SchemaShape(SchemaAddIndex(m, tb, x)) /\ SchemaShape(SchemaRemoveIndex(m, tb, x))
         /\ SchemaShape(SchemaAddForeignKey(m, tb, x))
         /\ SchemaShape(SchemaPanicked(m, tb))
<1>1. ASSUME NEW n, NEW e, e = Ensured(m, n), NEW t, NEW N, Becomes(TableOf(e, n), t, N)
      PROVE  SchemaShape(SetTable(e, n, t))
  <2>1. SchemaShape(e) /\ n \in KnownTables(e) BY <1>1, EnsuredShape
  <2> QED BY <1>1, <2>1, SetShape
<1> DEFINE n == Named(m, tb)
           e == Ensured(m, n)
           f == Ensured(m, tb)
<1>2. TableShape(TableOf(e, n)) /\ TableShape(TableOf(f, tb)) BY EnsuredShape
<1>3. /\ SchemaAddColumn(m, tb, x) = SetTable(e, n, AddColumn(TableOf(e, n), x))
      /\ SchemaAddForeignKey(m, tb, x) = SetTable(e, n, AddForeignKey(TableOf(e, n), x))
      /\ SchemaRemoveColumn(m, tb, x) = SetTable(f, tb, RemoveColumn(TableOf(f, tb), x))
      /\ SchemaAddIndex(m, tb, x) = SetTable(f, tb, AddIndex(TableOf(f, tb), x))
      /\ SchemaRemoveIndex(m, tb, x) = SetTable(f, tb, RemoveIndex(TableOf(f, tb), x))
      /\ SchemaPanicked(m, tb) = SetTable(f, tb, Panicked(TableOf(f, tb)))
  BY DEF SchemaAddColumn, SchemaAddForeignKey, SchemaRemoveColumn, SchemaAddIndex,
         SchemaRemoveIndex, SchemaPanicked
<1>4. e = Ensured(m, n) /\ f = Ensured(m, tb) OBVIOUS
<1> HIDE DEF n, e, f
<1>5. Becomes(TableOf(e, n), AddColumn(TableOf(e, n), x), {x.name}) BY <1>2, AddColumnBecomes
<1>6. Becomes(TableOf(e, n), AddForeignKey(TableOf(e, n), x), {}) BY <1>2, KeyMethodsBecome DEF Keeps
<1>7. Becomes(TableOf(f, tb), RemoveColumn(TableOf(f, tb), x), {x})
  BY <1>2, RemoveColumnBecomes DEF Keeps
<1>8. /\ Becomes(TableOf(f, tb), AddIndex(TableOf(f, tb), x), {})
      /\ Becomes(TableOf(f, tb), RemoveIndex(TableOf(f, tb), x), {})
  BY <1>2, IndexMethodsBecome DEF Keeps
<1>9. Becomes(TableOf(f, tb), Panicked(TableOf(f, tb)), {}) BY <1>2, PanickedBecomes
<1>10. SchemaShape(SchemaAddColumn(m, tb, x)) BY <1>1, <1>3, <1>4, <1>5
<1>11. SchemaShape(SchemaAddForeignKey(m, tb, x)) BY <1>1, <1>3, <1>4, <1>6
<1>12. SchemaShape(SchemaRemoveColumn(m, tb, x)) BY <1>1, <1>3, <1>4, <1>7
<1>13. SchemaShape(SchemaAddIndex(m, tb, x)) BY <1>1, <1>3, <1>4, <1>8
<1>14. SchemaShape(SchemaRemoveIndex(m, tb, x)) BY <1>1, <1>3, <1>4, <1>8
<1>15. SchemaShape(SchemaPanicked(m, tb)) BY <1>1, <1>3, <1>4, <1>9
<1> QED BY <1>10, <1>11, <1>12, <1>13, <1>14, <1>15

\* The others ignore one.
LEMMA ChangingShapes ==
  ASSUME NEW m, SchemaShape(m), NEW tb, NEW x, NEW y
  PROVE  /\ SchemaShape(SchemaRenameColumn(m, tb, x, y))
         /\ SchemaShape(SchemaRenameIndex(m, tb, x, y))
         /\ SchemaShape(SetColumnPosition(m, tb, x))
<1>1. ASSUME NEW n, IsKnown(m, n) PROVE n \in KnownTables(m) /\ TableShape(TableOf(m, n))
  <2>1. n \in KnownTables(m) BY <1>1 DEF IsKnown, IdOf, KnownTables
  <2> QED BY <2>1, KnownTable
<1>2. SchemaShape(SchemaRenameColumn(m, tb, x, y))
  <2> DEFINE r == RenameColumn(TableOf(m, tb), x, y)
  <2>1. CASE IsKnown(m, tb)
    <3>1. Becomes(TableOf(m, tb), r, {y}) BY <1>1, <2>1, RenameColumnBecomes DEF Keeps
    <3> HIDE DEF r
    <3>2. SchemaShape(SetTable(m, tb, r)) BY <1>1, <2>1, <3>1, SetShape
    <3> QED BY <2>1, <3>2 DEF SchemaRenameColumn, r
  <2> QED BY <2>1 DEF SchemaRenameColumn
<1>3. SchemaShape(SchemaRenameIndex(m, tb, x, y))
  <2> DEFINE r == RenameIndex(TableOf(m, tb), x, y)
  <2>1. CASE IsKnown(m, tb)
    <3>1. Becomes(TableOf(m, tb), r, {}) BY <1>1, <2>1, IndexMethodsBecome DEF Keeps
    <3> HIDE DEF r
    <3>2. SchemaShape(SetTable(m, tb, r)) BY <1>1, <2>1, <3>1, SetShape
    <3> QED BY <2>1, <3>2 DEF SchemaRenameIndex, r
  <2> QED BY <2>1 DEF SchemaRenameIndex
<1>4. SchemaShape(SetColumnPosition(m, tb, x))
  <2> DEFINE n == Named(m, tb)
             t == TableOf(m, n)
             r == [t EXCEPT !.pos = x]
  <2>1. CASE IsKnown(m, n)
    <3>1. SetColumnPosition(m, tb, x) = SetTable(m, n, r) BY <2>1 DEF SetColumnPosition
    <3> HIDE DEF n
    <3>2. n \in KnownTables(m) /\ TableShape(t) /\ t.name = n BY <1>1, <2>1, KnownTable
    <3> HIDE DEF t
    <3>3. /\ TableShape(r) /\ r.name = n /\ r.action = t.action /\ Known(r) \subseteq Known(t) \cup {}
          /\ r.pos \in {t.pos, NoPosition} \cup {x}
      BY <3>2 DEF TableShape, IsTable, Known
    <3> HIDE DEF r
    <3>4. Touches(m, SetTable(m, n, r), n, {}, {x}) BY <3>2, <3>3, SetTableTouches DEF t
    <3> QED BY <3>1, <3>4 DEF Touches, SameTables
  <2>2. CASE ~IsKnown(m, n) BY <2>2 DEF SetColumnPosition
  <2> QED BY <2>1, <2>2
<1> QED BY <1>2, <1>3, <1>4

LEMMA UsingShape == ASSUME NEW m, SchemaShape(m), NEW c PROVE SchemaShape(Using(m, c))
<1>1. Touches(m, Using(m, c), c, {}, {}) BY UsingTouches
<1> QED BY <1>1 DEF Touches, SameTables

LEMMA EnterSpecShape ==
  ASSUME NEW m, SchemaShape(m), NEW tb, NEW spec, spec.op \in AlterOps
  PROVE  SchemaShape(EnterSpec(m, tb, spec))
<1> DEFINE fk == ForeignKey(spec.fk, "add", spec.col, spec.ref)
           col == Column(spec.col, "modify", [type |-> spec.type, opts |-> <<>>])
<1>1. /\ SchemaShape(SetColumnPosition(m, Nil, spec.pos))
      /\ SchemaShape(SchemaRenameColumn(m, tb, spec.col, spec.to))
      /\ SchemaShape(SchemaRenameIndex(m, tb, spec.idx, spec.to))
  BY ChangingShapes
<1>2. SchemaShape(SchemaRemoveColumn(m, tb, spec.col)) /\ SchemaShape(SchemaPanicked(m, tb))
  BY AddingShapes
<1>3. SchemaShape(SchemaAddForeignKey(m, Nil, fk)) /\ SchemaShape(SchemaAddColumn(m, tb, col))
  <2> HIDE DEF fk, col
  <2> QED BY AddingShapes
<1>4. CASE spec.op = "addColumn" BY <1>1, <1>4 DEF EnterSpec
<1>5. CASE spec.op = "addForeignKey" BY <1>3, <1>5 DEF EnterSpec
<1>6. CASE spec.op = "dropColumn" BY <1>2, <1>6 DEF EnterSpec
<1>7. CASE spec.op \in KeyDrops
  <2>1. EnterSpec(m, tb, spec) \in {SchemaPanicked(m, tb), m} BY <1>7 DEF EnterSpec, KeyDrops
  <2> QED BY <1>2, <2>1
<1>8. CASE spec.op = "modifyColumn" BY <1>3, <1>8 DEF EnterSpec
<1>9. CASE spec.op = "renameColumn" BY <1>1, <1>9 DEF EnterSpec
<1>10. CASE spec.op = "renameIndex" BY <1>1, <1>10 DEF EnterSpec
<1> QED BY <1>4, <1>5, <1>6, <1>7, <1>8, <1>9, <1>10 DEF AlterOps, KeyDrops

LEMMA VisitSpecShape ==
  ASSUME NEW m, SchemaShape(m), NEW spec, spec.op \in AlterOps
  PROVE  SchemaShape(VisitSpec(m, spec))
<1> DEFINE col == Column(spec.col, "add", [type |-> spec.type, opts |-> spec.opts])
<1>1. CASE spec.op \in {"addColumn", "modifyColumn"}
  <2>1. VisitSpec(m, spec) = SchemaAddColumn(m, Nil, col) BY <1>1 DEF VisitSpec
  <2> HIDE DEF col
  <2> QED BY <2>1, AddingShapes
<1>2. CASE spec.op = "addForeignKey"
  <2>1. VisitSpec(m, spec) = Using(m, spec.ref) BY <1>2 DEF VisitSpec
  <2> QED BY <2>1, UsingShape
<1>3. CASE spec.op \notin {"addColumn", "modifyColumn", "addForeignKey"}
  <2>1. VisitSpec(m, spec) = m BY <1>3 DEF VisitSpec, AlterOps, KeyDrops
  <2> QED BY <2>1
<1> QED BY <1>1, <1>2, <1>3

LEMMA ReadAlterShape ==
  ASSUME NEW m, SchemaShape(m), NEW tb, NEW specs, IsSeq(specs),
         \A k \in DOMAIN specs : specs[k].op \in AlterOps
  PROVE  SchemaShape(ReadAlter(m, tb, specs))
<1> DEFINE S == {specs[k] : k \in DOMAIN specs}
           e == Entering!Fold(tb, m, specs)
           u == Using(e, tb)
<1>1. specs \in Seq(S) BY DEF IsSeq
<1> HIDE DEF S
<1>2. SchemaShape(e)
  <2>1. Entering!Kept(tb, specs) BY EnterSpecShape DEF Entering!Kept, EnterFold, IsSchema
  <2>2. IsSchema(tb, m) BY DEF IsSchema
  <2>3. IsSchema(tb, Entering!Fold(tb, m, specs)) BY <1>1, <2>1, <2>2, Entering!FoldKeeps
  <2> QED BY <2>3 DEF IsSchema
<1>3. ReadAlter(m, tb, specs) = FoldLeft(VisitSpec, u, specs)
  <2>1. e = FoldLeft(LAMBDA s, spec : EnterSpec(s, tb, spec), m, specs)
    BY DEF Entering!Fold, EnterFold, FoldLeft,
           Entering!MapThenFoldSet, MapThenFoldSet, Entering!GreatestIn, Max
  <2> QED BY <2>1 DEF ReadAlter
<1> HIDE DEF e
<1>4. SchemaShape(u) BY <1>2, UsingShape
<1> HIDE DEF u
<1>5. SchemaShape(Visiting!Fold(0, u, specs))
  <2>1. Visiting!Kept(0, specs) BY VisitSpecShape DEF Visiting!Kept, VisitFold, IsSchema
  <2>2. IsSchema(0, u) BY <1>4 DEF IsSchema
  <2>3. IsSchema(0, Visiting!Fold(0, u, specs)) BY <1>1, <2>1, <2>2, Visiting!FoldKeeps
  <2> QED BY <2>3 DEF IsSchema
<1>6. Visiting!Fold(0, u, specs) = FoldLeft(VisitSpec, u, specs)
  BY DEF Visiting!Fold, VisitFold, FoldLeft,
         Visiting!MapThenFoldSet, MapThenFoldSet, Visiting!GreatestIn, Max
<1> QED BY <1>3, <1>5, <1>6

LEMMA ReadCreateTableShape ==
  ASSUME NEW m, SchemaShape(m), NEW tb, NEW cols, IsSeq(cols), NEW idxs, IsSeq(idxs)
  PROVE  SchemaShape(ReadCreateTable(m, tb, cols, idxs))
<1> DEFINE t == FoldLeft(AddIndex, NewTable(tb), idxs)
           u == Using(m, tb)
           a == AddTable(u, t)
           S == {cols[k] : k \in DOMAIN cols}
<1>1. cols \in Seq(S) BY DEF IsSeq
<1> HIDE DEF S
<1>2. TableShape(NewTable(tb)) BY NewTableShape DEF NewTable
<1>3. TableShape(t)
  <2>1. Keeps(NewTable(tb), t, {}) BY <1>2, IndexesRead
  <2> QED BY <2>1 DEF Keeps, Becomes
<1>4. SchemaShape(u) BY UsingShape
<1>5. ReadCreateTable(m, tb, cols, idxs) = Defining!Fold(0, a, cols)
  BY DEF ReadCreateTable, Defining!Fold, ColumnFold, FoldLeft,
         Defining!MapThenFoldSet, MapThenFoldSet, Defining!GreatestIn, Max
<1> HIDE DEF t, u
<1>6. SchemaShape(a) BY <1>3, <1>4, AddTableGains DEF Gains
<1> HIDE DEF a
<1>7. Defining!Kept(0, cols) BY AddingShapes DEF Defining!Kept, ColumnFold, IsSchema
<1>8. IsSchema(0, a) BY <1>6 DEF IsSchema
<1>9. IsSchema(0, Defining!Fold(0, a, cols)) BY <1>1, <1>7, <1>8, Defining!FoldKeeps
<1> QED BY <1>5, <1>9 DEF IsSchema

LEMMA RemoveTableShape ==
  ASSUME NEW m, SchemaShape(m), NEW tb PROVE SchemaShape(RemoveTable(m, tb))
<1> DEFINE gone == NewTableWithAction(tb, "remove")
<1>1. CASE tb \in KnownTables(m)
  <2>1. Marks(m, RemoveTable(m, tb), {tb}) BY <1>1, RemoveTableMarks
  <2> QED BY <2>1 DEF Marks
<1>2. CASE tb \notin KnownTables(m)
  <2>1. IdOf(m.tables, tb) = 0 BY <1>2 DEF IdOf, KnownTables
  <2>2. TableShape(gone) /\ gone.name = tb BY NewTableShape DEF NewTableWithAction
  <2>3. RemoveTable(m, tb) = AddTable(m, gone)
    <3> HIDE DEF gone
    <3>1. PutItem(m.tables, gone) = AppendItem(m.tables, gone)
      BY <2>1, <2>2 DEF PutItem
    <3>2. RemoveItem(m.tables, tb, gone) = AppendItem(m.tables, gone) BY <2>1 DEF RemoveItem
    <3>3. RemoveTable(m, tb) = [m EXCEPT !.tables = RemoveItem(m.tables, tb, gone)]
      BY DEF RemoveTable, SchemaShape, gone
    <3>4. AddTable(m, gone) = [m EXCEPT !.tables = PutItem(m.tables, gone)]
      BY DEF AddTable, SchemaShape
    <3> QED BY <3>1, <3>2, <3>3, <3>4
  <2> HIDE DEF gone
  <2> QED BY <2>2, <2>3, AddTableGains DEF Gains
<1> QED BY <1>1, <1>2

LEMMA ReadDropTableShape ==
  ASSUME NEW m, SchemaShape(m), NEW tbs, IsSeq(tbs) PROVE SchemaShape(ReadDropTable(m, tbs))
<1> DEFINE S == {tbs[k] : k \in DOMAIN tbs}
           q == Removing!Fold(0, m, tbs)
           r == Choosing!Fold(0, q, tbs)
<1>1. tbs \in Seq(S) BY DEF IsSeq
<1> HIDE DEF S
<1>2. q = FoldLeft(RemoveTable, m, tbs)
  BY DEF Removing!Fold, DropFold, FoldLeft,
         Removing!MapThenFoldSet, MapThenFoldSet, Removing!GreatestIn, Max
<1>3. SchemaShape(q)
  <2>1. Removing!Kept(0, tbs) BY RemoveTableShape DEF Removing!Kept, DropFold, IsSchema
  <2>2. IsSchema(0, m) BY DEF IsSchema
  <2>3. IsSchema(0, Removing!Fold(0, m, tbs)) BY <1>1, <2>1, <2>2, Removing!FoldKeeps
  <2> QED BY <2>3 DEF IsSchema
<1> HIDE DEF q
<1>4. r = FoldLeft(Using, q, tbs)
  BY DEF Choosing!Fold, UseFold, FoldLeft,
         Choosing!MapThenFoldSet, MapThenFoldSet, Choosing!GreatestIn, Max
<1>5. SchemaShape(r)
  <2>1. Choosing!Kept(0, tbs) BY UsingShape DEF Choosing!Kept, UseFold, IsSchema
  <2>2. IsSchema(0, q) BY <1>3 DEF IsSchema
  <2>3. IsSchema(0, Choosing!Fold(0, q, tbs)) BY <1>1, <2>1, <2>2, Choosing!FoldKeeps
  <2> QED BY <2>3 DEF IsSchema
<1> QED BY <1>2, <1>4, <1>5 DEF ReadDropTable

LEMMA ReadIndexShape ==
  ASSUME NEW m, SchemaShape(m), NEW tb, NEW idx
  PROVE  SchemaShape(ReadCreateIndex(m, tb, idx)) /\ SchemaShape(ReadDropIndex(m, tb, idx))
<1>1. SchemaShape(SchemaAddIndex(m, tb, idx)) /\ SchemaShape(SchemaRemoveIndex(m, tb, idx))
  BY AddingShapes
<1> QED BY <1>1, UsingShape DEF ReadCreateIndex, ReadDropIndex

\* A script of statements that can be read.
IsReadable(s) == IsSeq(s) /\ \A k \in DOMAIN s : IsStatement(s[k].stm)

LEMMA ReadStatementShape ==
  ASSUME NEW m, SchemaShape(m), NEW s, IsStatement(s.stm)
  PROVE  SchemaShape(ReadScriptStatement(m, s))
<1>1. CASE s.stm.op = "createTable"
  <2> DEFINE col(c) == Column(c.name, "add", [type |-> c.type, opts |-> c.opts])
             cols == [i \in DOMAIN s.stm.cols |-> col(s.stm.cols[i])]
  <2>1. IsSeq(s.stm.cols) BY <1>1 DEF IsStatement
  <2>2. IsSeq(cols) BY <2>1, MappedIsSeq
  <2>3. ReadScriptStatement(m, s) = ReadCreateTable(m, s.tb, cols, <<>>)
    BY <1>1 DEF ReadScriptStatement
  <2> HIDE DEF cols
  <2> QED BY <2>2, <2>3, EmptyIsSeq, ReadCreateTableShape
<1>2. CASE s.stm.op = "dropTable"
  <2> DEFINE tbs == <<s.tb>>
  <2>1. ReadScriptStatement(m, s) = ReadDropTable(m, tbs) BY <1>2 DEF ReadScriptStatement
  <2>2. tbs \in Seq({s.tb}) OBVIOUS
  <2> HIDE DEF tbs
  <2>3. IsSeq(tbs) BY <2>2, SeqIsSeq
  <2> QED BY <2>1, <2>3, ReadDropTableShape
<1>3. CASE s.stm.op = "createIndex"
  <2> DEFINE idx == Index(s.stm.idx, "add", s.stm.typ, s.stm.columns)
  <2>1. ReadScriptStatement(m, s) = ReadCreateIndex(m, s.tb, idx) BY <1>3 DEF ReadScriptStatement
  <2> HIDE DEF idx
  <2> QED BY <2>1, ReadIndexShape
<1>4. CASE s.stm.op = "dropIndex"
  <2>1. ReadScriptStatement(m, s) = ReadDropIndex(m, s.tb, s.stm.idx)
    BY <1>4 DEF ReadScriptStatement
  <2> QED BY <2>1, ReadIndexShape
<1>5. CASE s.stm.op \in AlterOps
  <2> DEFINE specs == <<s.stm>>
  <2>1. ReadScriptStatement(m, s) = ReadAlter(m, s.tb, specs)
    BY <1>5 DEF ReadScriptStatement, AlterOps, KeyDrops
  <2>2. specs \in Seq({s.stm}) /\ \A k \in DOMAIN specs : specs[k] = s.stm OBVIOUS
  <2> HIDE DEF specs
  <2>3. IsSeq(specs) /\ \A k \in DOMAIN specs : specs[k].op \in AlterOps
    BY <1>5, <2>2, SeqIsSeq
  <2> QED BY <2>1, <2>3, ReadAlterShape
<1> QED BY <1>1, <1>2, <1>3, <1>4, <1>5 DEF IsStatement

ReadFold(p, m, s) == ReadScriptStatement(m, s)
Reading == INSTANCE Folding WITH Op <- ReadFold, Holds <- IsSchema

LEMMA ReadScriptShape ==
  ASSUME NEW m, SchemaShape(m), NEW s, IsReadable(s)
  PROVE  SchemaShape(ReadScript(m, s))
<1> DEFINE S == {s[k] : k \in DOMAIN s}
<1>1. s \in Seq(S) BY DEF IsSeq, IsReadable
<1> HIDE DEF S
<1>2. ReadScript(m, s) = Reading!Fold(0, m, s)
  BY DEF ReadScript, Reading!Fold, ReadFold, FoldLeft,
         Reading!MapThenFoldSet, MapThenFoldSet, Reading!GreatestIn, Max
<1>3. Reading!Kept(0, s) BY ReadStatementShape DEF Reading!Kept, ReadFold, IsSchema, IsReadable
<1>4. IsSchema(0, m) BY DEF IsSchema
<1>5. IsSchema(0, Reading!Fold(0, m, s)) BY <1>1, <1>3, <1>4, Reading!FoldKeeps
<1> QED BY <1>2, <1>5 DEF IsSchema

\* What a model says can be read.
LEMMA ModelIsReadable ==
  ASSUME NEW m, IsSeq(m.cols), IsFiniteSet(m.idxs), IsFiniteSet(m.fks)
  PROVE  IsReadable(ModelScript(m))
<1> DEFINE idxs == SetToSeq(m.idxs)
           fks == SetToSeq(m.fks)
           create == <<[op |-> "createTable", cols |-> m.cols]>>
           index(i) == [op |-> "createIndex", idx |-> i.name, typ |-> i.typ, columns |-> i.columns]
           key(f) == [op |-> "addForeignKey", fk |-> f.name, col |-> f.column, ref |-> f.ref]
           indexes == [k \in DOMAIN idxs |-> index(idxs[k])]
           keys == [k \in DOMAIN fks |-> key(fks[k])]
           stms == create \o indexes \o keys
           pair(stm) == [tb |-> m.name, stm |-> stm]
           pairs == [k \in DOMAIN stms |-> pair(stms[k])]
<1>1. ModelScript(m) = pairs BY DEF ModelScript
<1>2. IsSeq(idxs) /\ IsSeq(fks) BY SetToSeqIs
<1>3. IsScript(create)
  <2> DEFINE c == [op |-> "createTable", cols |-> m.cols]
  <2>1. IsStatement(c) BY DEF IsStatement
  <2> HIDE DEF c
  <2>2. IsScript(<<c>>) BY <2>1, ShortScripts
  <2> QED BY <2>2 DEF c
<1> HIDE DEF idxs, fks, create
<1>4. IsScript(indexes)
  <2>1. IsSeq(indexes) BY <1>2, MappedIsSeq
  <2>2. \A i : IsStatement(index(i)) BY DEF IsStatement
  <2> HIDE DEF index
  <2>3. \A k \in DOMAIN indexes : indexes[k] = index(idxs[k]) OBVIOUS
  <2> HIDE DEF indexes
  <2> QED BY <2>1, <2>2, <2>3 DEF IsScript
<1>5. IsScript(keys)
  <2>1. IsSeq(keys) BY <1>2, MappedIsSeq
  <2>2. \A f : IsStatement(key(f)) BY DEF IsStatement, AlterOps
  <2> HIDE DEF key
  <2>3. \A k \in DOMAIN keys : keys[k] = key(fks[k]) OBVIOUS
  <2> HIDE DEF keys
  <2> QED BY <2>1, <2>2, <2>3 DEF IsScript
<1> HIDE DEF indexes, keys
<1>6. IsScript(stms)
  <2>1. IsScript(create \o indexes) BY <1>3, <1>4, ScriptsJoin
  <2> QED BY <1>5, <2>1, ScriptsJoin
<1> HIDE DEF stms
<1>7. IsSeq(pairs) BY <1>6, MappedIsSeq DEF IsScript
<1>8. \A k \in DOMAIN pairs : pairs[k].stm = stms[k] /\ k \in DOMAIN stms OBVIOUS
<1> HIDE DEF pairs
<1>9. IsReadable(pairs) BY <1>6, <1>7, <1>8 DEF IsReadable, IsScript
<1> QED BY <1>1, <1>9

BuildFold(p, s, m) == ReadScript(s, ModelScript(m))
Building == INSTANCE Folding WITH Op <- BuildFold, Holds <- IsSchema

LEMMA EmptySchemaShape == SchemaShape(NewMigration)
<1>1. /\ NewMigration.tables = EmptyList
      /\ NewMigration \in [tables : {NewMigration.tables}, current : {NewMigration.current}]
  BY DEF NewMigration
<1>2. /\ EmptyList.items = <<>> /\ DOMAIN EmptyList.id = {} /\ IsSeq(EmptyList.items)
      /\ EmptyList \in [items : {EmptyList.items}, id : {EmptyList.id}]
  BY EmptyListShape DEF ListShape, EmptyList
<1>3. Coherent(EmptyList) BY <1>2 DEF Coherent
<1>4. DOMAIN EmptyList.items = {} BY <1>2
<1> QED BY <1>1, <1>2, <1>3, <1>4 DEF SchemaShape

LEMMA BuildSchemaShape ==
  ASSUME NEW ms \in Models PROVE SchemaShape(BuildSchema(ms))
<1> DEFINE S == {ms[k] : k \in DOMAIN ms}
<1>1. /\ ms \in Seq(S)
      /\ \A i \in DOMAIN ms : /\ IsSeq(ms[i].cols)
                              /\ IsFiniteSet(ms[i].idxs) /\ IsFiniteSet(ms[i].fks)
  BY SchemaSyncAssumption DEF IsSeq
<1> HIDE DEF S
<1>2. BuildSchema(ms) = Building!Fold(0, NewMigration, ms)
  BY DEF BuildSchema, Building!Fold, BuildFold, FoldLeft,
         Building!MapThenFoldSet, MapThenFoldSet, Building!GreatestIn, Max
<1>3. \A i \in DOMAIN ms : IsReadable(ModelScript(ms[i])) BY <1>1, ModelIsReadable
<1>4. Building!Kept(0, ms) BY <1>3, ReadScriptShape DEF Building!Kept, BuildFold, IsSchema
<1>5. IsSchema(0, NewMigration) BY EmptySchemaShape DEF IsSchema
<1>6. IsSchema(0, Building!Fold(0, NewMigration, ms)) BY <1>1, <1>4, <1>5, Building!FoldKeeps
<1> QED BY <1>2, <1>6 DEF IsSchema

----------------------------------------------------------------------------
(* The version table.                                                         *)

\* What always holds: the schemas are well formed, the script and its inverse have
\* been written to spare the default version table, and nothing is in the database to
\* come back to before models are loaded.
VersionInv ==
  /\ phase = "history" => SchemaInv /\ start = EmptyFunction
  /\ phase # "history" => wanted \in Models
  /\ SchemaShape(schema) /\ SchemaShape(new) /\ SchemaShape(read)
  /\ Spares(up) /\ Spares(undo) /\ Spares(script)
  /\ VersionTableKept

\* The statements of other tables leave table n as it is.
LEMMA OthersExecuted ==
  ASSUME NEW s, NEW n, s.tb # n, n \in DOMAIN db, NEW e, e = ExecInSchema(s)
  PROVE  n \in DOMAIN e /\ e[n] = db[n]
<1>1. ASSUME NEW t PROVE n \in DOMAIN With(db, s.tb, t) /\ With(db, s.tb, t)[n] = db[n]
  BY DEF With
<1>2. n \in DOMAIN Without(db, {s.tb}) /\ Without(db, {s.tb})[n] = db[n] BY DEF Without
<1>3. ASSUME NEW t PROVE n \in DOMAIN [db EXCEPT ![s.tb] = t] /\ [db EXCEPT ![s.tb] = t][n] = db[n]
  OBVIOUS
<1>4. CASE s.stm.op = "createTable" BY <1>1, <1>4 DEF ExecInSchema
<1>5. CASE s.stm.op = "dropTable" BY <1>2, <1>5 DEF ExecInSchema
<1>6. CASE s.stm.op \notin {"createTable", "dropTable"} BY <1>3, <1>6 DEF ExecInSchema
<1> QED BY <1>4, <1>5, <1>6

LEMMA EmptySpares == Spares(<<>>)
<1>1. DOMAIN <<>> = {} OBVIOUS
<1> QED BY <1>1, EmptyIsSeq DEF Spares

LEMMA TailSpares == ASSUME NEW s, Spares(s), s # <<>> PROVE Spares(Tail(s)) /\ Head(s).tb # DefaultMigrationTable
<1> DEFINE S == {s[k] : k \in DOMAIN s}
           t == Tail(s)
<1>1. s \in Seq(S) BY DEF Spares, IsSeq
<1>2. \A x \in S : x.tb # DefaultMigrationTable /\ IsStatement(x.stm) BY DEF Spares
<1> HIDE DEF S
<1>3. t \in Seq(S) /\ Head(s) \in S BY <1>1
<1>4. IsSeq(t) BY <1>3, SeqIsSeq
<1>5. \A k \in DOMAIN t : t[k] \in S BY <1>3
<1> HIDE DEF t
<1> QED BY <1>2, <1>3, <1>4, <1>5 DEF Spares, t

LEMMA SparesIsReadable == ASSUME NEW s, Spares(s) PROVE IsReadable(s)
BY DEF Spares, IsReadable

LEMMA SyncInitKeeps == SyncInit => VersionInv
<1> SUFFICES ASSUME SyncInit PROVE VersionInv OBVIOUS
<1>1. SchemaInv BY InitSound DEF SyncInit
<1>2. SchemaShape(schema) BY <1>1 DEF SchemaInv, Sound
<1>3. DOMAIN EmptyFunction = {} BY DEF EmptyFunction
<1>4. VersionTableKept BY <1>3 DEF SyncInit, VersionTableKept
<1> QED BY <1>1, <1>2, <1>4, EmptySpares, EmptySchemaShape DEF SyncInit, VersionInv

LEMMA HistoryKeeps == ASSUME VersionInv, History PROVE VersionInv'
<1>1. SchemaInv /\ start = EmptyFunction BY DEF VersionInv, History
<1>2. [Next]_vars BY DEF History
<1>3. SchemaInv' BY <1>1, <1>2, NextKeeps
<1>4. SchemaShape(schema') BY <1>3 DEF SchemaInv, Sound
<1>5. DOMAIN EmptyFunction = {} BY DEF EmptyFunction
<1>6. VersionTableKept' BY <1>1, <1>5 DEF VersionTableKept, History
<1> QED BY <1>1, <1>3, <1>4, <1>6 DEF VersionInv, History

\* RunStatement, the only step of the database after the history.
LEMMA RunStatementKeeps ==
  ASSUME MigrationTable = DefaultMigrationTable, VersionInv, RunStatement
  PROVE  VersionInv'
<1>1. Spares(script) /\ script # <<>> BY DEF VersionInv, RunStatement
<1>2. Spares(Tail(script)) /\ Head(script).tb # MigrationTable BY <1>1, TailSpares
<1>3. phase # "history" /\ phase' = phase /\ start' = start BY DEF RunStatement
<1>4. VersionTableKept' /\ Spares(script')
  <2>1. CASE LegalInSchema(Head(script))
    <3>1. db' = ExecInSchema(Head(script)) /\ script' = Tail(script) BY <2>1 DEF RunStatement
    <3>2. MigrationTable \in DOMAIN db =>
            MigrationTable \in DOMAIN db' /\ db'[MigrationTable] = db[MigrationTable]
      BY <1>2, <3>1, OthersExecuted
    <3> QED BY <1>2, <1>3, <3>1, <3>2 DEF VersionTableKept, VersionInv
  <2>2. CASE ~LegalInSchema(Head(script))
    <3>1. db' = db /\ script' = script BY <2>2 DEF RunStatement
    <3> QED BY <1>1, <1>3, <3>1 DEF VersionTableKept, VersionInv
  <2> QED BY <2>1, <2>2
<1> QED BY <1>3, <1>4 DEF VersionInv, RunStatement

LEMMA SyncNextKeeps ==
  ASSUME MigrationTable = DefaultMigrationTable, VersionInv, [SyncNext]_syncVars
  PROVE  VersionInv'
<1>1. CASE History BY <1>1, HistoryKeeps
<1>2. ASSUME NEW ms \in Models, LoadModels(ms) PROVE VersionInv'
  <2>1. SchemaShape(new') BY <1>2, BuildSchemaShape DEF LoadModels
  <2>2. VersionTableKept' BY <1>2 DEF LoadModels, VersionTableKept
  <2> QED BY <1>2, <2>1, <2>2 DEF VersionInv, LoadModels
<1>3. CASE Compare
  <2>1. SchemaShape(new') /\ SchemaShape(schema') BY <1>3, SchemaDiffShape DEF Compare, VersionInv
  <2>2. VersionTableKept' BY <1>3 DEF Compare, VersionTableKept, VersionInv
  <2> QED BY <1>3, <2>1, <2>2 DEF VersionInv, Compare
<1>4. CASE WriteUp
  <2>1. new' = ArrangeTables(new, "add") BY <1>4 DEF WriteUp
  <2>2. SchemaShape(new') BY <2>1, ArrangeTablesShape DEF VersionInv
  <2>3. Spares(up') BY <1>4, <2>2, ScriptsSpare, EmptySpares DEF WriteUp
  <2>4. VersionTableKept' BY <1>4 DEF WriteUp, VersionTableKept, VersionInv
  <2> QED BY <1>4, <2>2, <2>3, <2>4 DEF VersionInv, WriteUp
<1>5. CASE WriteDown
  <2>1. new' = ArrangeTables(new, "remove") BY <1>5 DEF WriteDown
  <2>2. SchemaShape(new') BY <2>1, ArrangeTablesShape DEF VersionInv
  <2>3. Spares(undo') BY <1>5, <2>2, ScriptsSpare, EmptySpares DEF WriteDown
  <2>4. VersionTableKept' BY <1>5 DEF WriteDown, VersionTableKept, VersionInv
  <2> QED BY <1>5, <2>2, <2>3, <2>4 DEF VersionInv, WriteDown
<1>6. CASE RunStatement BY <1>6, RunStatementKeeps
<1>7. CASE Revert
  <2>1. VersionTableKept' BY <1>7 DEF Revert, VersionTableKept, VersionInv
  <2> QED BY <1>7, <2>1 DEF VersionInv, Revert, HasRun
<1>8. CASE LoadAgain
  <2>1. IsReadable(up) BY SparesIsReadable DEF VersionInv
  <2>2. SchemaShape(schema') BY <1>8, <2>1, ReadScriptShape DEF LoadAgain, VersionInv
  <2>3. wanted \in Models BY <1>8 DEF LoadAgain, HasRun, VersionInv
  <2>4. SchemaShape(new') BY <1>8, <2>3, BuildSchemaShape DEF LoadAgain
  <2>5. VersionTableKept' BY <1>8 DEF LoadAgain, VersionTableKept, VersionInv
  <2> QED BY <1>8, <2>2, <2>3, <2>4, <2>5 DEF VersionInv, LoadAgain
<1>9. CASE UNCHANGED syncVars
  BY <1>9 DEF syncVars, VersionInv, SchemaInv, VersionTableKept
<1> QED BY <1>1, <1>2, <1>3, <1>4, <1>5, <1>6, <1>7, <1>8, <1>9 DEF SyncNext

\* Whatever the migrations and whatever the models, no statement of a script that sqlize
\* writes, and none of its inverse, drops or changes the table that records the version,
\* if it bears the default name (the comparison with DefaultMigrationTable in MigrationUp
\* and MigrationDown of element/migration.go).  A table of another name, which
\* WithMigrationTable allows, is not spared.
THEOREM VersionTableStays ==
  ASSUME MigrationTable = DefaultMigrationTable
  PROVE  SyncSpec => []VersionTableKept
<1>1. SyncInit => VersionInv BY SyncInitKeeps
<1>2. VersionInv /\ [SyncNext]_syncVars => VersionInv' BY SyncNextKeeps
<1>3. VersionInv => VersionTableKept BY DEF VersionInv
<1> QED BY <1>1, <1>2, <1>3, PTL DEF SyncSpec

=============================================================================
