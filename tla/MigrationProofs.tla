-------------------------- MODULE MigrationProofs --------------------------
(***************************************************************************)
(* Theorems of Migration.tla, for all tables, columns and ALTER TABLEs:     *)
(* what the parser keeps of a schema of several tables.                     *)
(***************************************************************************)
EXTENDS Migration, TLAPS, SequenceTheorems, FiniteSetTheorems

----------------------------------------------------------------------------
(* Sequences of whatever elements.                                            *)

LEMMA SeqIsSeq ==
  ASSUME NEW S, NEW s \in Seq(S) PROVE IsSeq(s)
<1> DEFINE R == {s[k] : k \in DOMAIN s}
<1>1. \A k \in DOMAIN s : s[k] \in R OBVIOUS
<1> HIDE DEF R
<1>2. s \in Seq(R) BY <1>1
<1> QED BY <1>2 DEF IsSeq, R

LEMMA FunctionIsSeq ==
  ASSUME NEW f, NEW n \in Nat, f = [k \in 1 .. n |-> f[k]]
  PROVE  IsSeq(f) /\ Len(f) = n /\ DOMAIN f = 1 .. n
<1> DEFINE R == {f[k] : k \in 1 .. n}
<1>1. f \in [1 .. n -> R] OBVIOUS
<1> HIDE DEF R
<1>2. f \in Seq(R) /\ Len(f) = n /\ DOMAIN f = 1 .. n BY <1>1
<1> QED BY <1>2, SeqIsSeq

LEMMA SeqIs ==
  ASSUME NEW s, IsSeq(s)
  PROVE  Len(s) \in Nat /\ DOMAIN s = 1 .. Len(s) /\ s = [k \in 1 .. Len(s) |-> s[k]]
BY DEF IsSeq

LEMMA EmptyIsSeq == IsSeq(<<>>) /\ Len(<<>>) = 0
<1>1. \A S : <<>> \in Seq(S) /\ Len(<<>>) = 0 BY EmptySeq
<1> QED BY <1>1 DEF IsSeq

LEMMA AppendSeq ==
  ASSUME NEW s, IsSeq(s), NEW e
  PROVE  IsSeq(Append(s, e)) /\ Len(Append(s, e)) = Len(s) + 1
<1> DEFINE R == {s[k] : k \in DOMAIN s} \cup {e}
<1>1. s \in Seq(R)
  <2> DEFINE Q == {s[k] : k \in DOMAIN s}
  <2>1. s \in Seq(Q) BY DEF IsSeq
  <2>2. Q \subseteq R OBVIOUS
  <2> HIDE DEF Q, R
  <2> QED BY <2>1, <2>2
<1>2. e \in R OBVIOUS
<1> HIDE DEF R
<1>3. Append(s, e) \in Seq(R) /\ Len(Append(s, e)) = Len(s) + 1 BY <1>1, <1>2
<1> QED BY <1>3, SeqIsSeq

LEMMA SetSeq ==
  ASSUME NEW s, IsSeq(s), NEW i, NEW e
  PROVE  /\ IsSeq([s EXCEPT ![i] = e])
         /\ Len([s EXCEPT ![i] = e]) = Len(s)
<1> DEFINE r == [s EXCEPT ![i] = e]
<1>1. Len(s) \in Nat /\ DOMAIN s = 1 .. Len(s) BY SeqIs
<1>2. r = [k \in 1 .. Len(s) |-> r[k]] BY <1>1
<1> HIDE DEF r
<1>3. IsSeq(r) /\ Len(r) = Len(s) BY <1>1, <1>2, FunctionIsSeq
<1> QED BY <1>3 DEF r

LEMMA ConcatSeq ==
  ASSUME NEW s, NEW t, IsSeq(s), IsSeq(t)
  PROVE  /\ IsSeq(s \o t)
         /\ Len(s \o t) = Len(s) + Len(t)
         /\ \A k \in DOMAIN (s \o t) : (s \o t)[k] \in {s[i] : i \in DOMAIN s} \cup {t[i] : i \in DOMAIN t}
<1> DEFINE P == {s[i] : i \in DOMAIN s}
           Q == {t[i] : i \in DOMAIN t}
           R == P \cup Q
<1>1. s \in Seq(P) /\ t \in Seq(Q) BY DEF IsSeq
<1>2. P \subseteq R /\ Q \subseteq R OBVIOUS
<1> HIDE DEF P, Q
<1>3. s \in Seq(R) /\ t \in Seq(R)
  <2> HIDE DEF R
  <2> QED BY <1>1, <1>2
<1> HIDE DEF R
<1>4. s \o t \in Seq(R) /\ Len(s \o t) = Len(s) + Len(t) BY <1>3
<1>5. \A k \in DOMAIN (s \o t) : (s \o t)[k] \in R BY <1>4
<1>6. IsSeq(s \o t) BY <1>4, SeqIsSeq
<1> QED BY <1>4, <1>5, <1>6 DEF P, Q, R

LEMMA PartSeq ==
  ASSUME NEW s, IsSeq(s), NEW m \in Nat \ {0}, NEW n \in Nat, m <= n + 1, n <= Len(s)
  PROVE  IsSeq(SubSeq(s, m, n)) /\ Len(SubSeq(s, m, n)) = n + 1 - m
<1> DEFINE P == {s[i] : i \in DOMAIN s}
<1>1. s \in Seq(P) BY DEF IsSeq
<1> HIDE DEF P
<1>2. SubSeq(s, m, n) \in Seq(P) /\ Len(SubSeq(s, m, n)) = n + 1 - m BY <1>1
<1> QED BY <1>2, SeqIsSeq

LEMMA InsertSeq ==
  ASSUME NEW s, IsSeq(s), NEW i \in 1 .. Len(s), NEW e
  PROVE  IsSeq(InsertAt(s, i, e)) /\ Len(InsertAt(s, i, e)) = Len(s) + 1
<1> DEFINE a == SubSeq(s, 1, i - 1)
           b == <<e>>
           c == SubSeq(s, i, Len(s))
<1>1. Len(s) \in Nat /\ i \in Nat \ {0} /\ i - 1 \in Nat /\ i <= Len(s) BY SeqIs
<1>2. IsSeq(a) /\ Len(a) = i - 1
  <2> DEFINE n == i - 1
  <2>1. n \in Nat /\ 1 <= n + 1 /\ n <= Len(s) /\ n + 1 - 1 = n /\ 1 \in Nat \ {0} BY <1>1
  <2> HIDE DEF n
  <2>2. IsSeq(SubSeq(s, 1, n)) /\ Len(SubSeq(s, 1, n)) = n BY <2>1, PartSeq
  <2> QED BY <2>2 DEF n
<1>3. IsSeq(c) /\ Len(c) = Len(s) + 1 - i
  <2>1. i <= Len(s) + 1 BY <1>1
  <2> QED BY <1>1, <2>1, PartSeq
<1>4. IsSeq(b) /\ Len(b) = 1
  <2>1. <<e>> \in Seq({e}) /\ Len(<<e>>) = 1 OBVIOUS
  <2> QED BY <2>1, SeqIsSeq
<1>5. InsertAt(s, i, e) = (a \o b) \o c BY DEF InsertAt
<1> HIDE DEF a, b, c
<1>6. IsSeq(a \o b) /\ Len(a \o b) = i - 1 + 1 BY <1>2, <1>4, ConcatSeq
<1>7. IsSeq((a \o b) \o c) /\ Len((a \o b) \o c) = Len(a \o b) + Len(c) BY <1>3, <1>6, ConcatSeq
<1> QED BY <1>1, <1>3, <1>5, <1>6, <1>7

LEMMA RemoveSeq ==
  ASSUME NEW s, IsSeq(s), NEW i \in 1 .. Len(s)
  PROVE  IsSeq(RemoveAt(s, i)) /\ Len(RemoveAt(s, i)) = Len(s) - 1
<1> DEFINE a == SubSeq(s, 1, i - 1)
           c == SubSeq(s, i + 1, Len(s))
<1>1. Len(s) \in Nat /\ i \in Nat \ {0} /\ i - 1 \in Nat /\ i <= Len(s) BY SeqIs
<1>2. IsSeq(a) /\ Len(a) = i - 1
  <2> DEFINE n == i - 1
  <2>1. n \in Nat /\ 1 <= n + 1 /\ n <= Len(s) /\ n + 1 - 1 = n /\ 1 \in Nat \ {0} BY <1>1
  <2> HIDE DEF n
  <2>2. IsSeq(SubSeq(s, 1, n)) /\ Len(SubSeq(s, 1, n)) = n BY <2>1, PartSeq
  <2> QED BY <2>2 DEF n
<1>3. IsSeq(c) /\ Len(c) = Len(s) - i
  <2> DEFINE m == i + 1
  <2>1. m \in Nat \ {0} /\ m <= Len(s) + 1 /\ Len(s) + 1 - m = Len(s) - i /\ Len(s) <= Len(s) BY <1>1
  <2> HIDE DEF m
  <2>2. IsSeq(SubSeq(s, m, Len(s))) /\ Len(SubSeq(s, m, Len(s))) = Len(s) + 1 - m
    BY <1>1, <2>1, PartSeq
  <2> QED BY <2>1, <2>2 DEF m
<1>4. RemoveAt(s, i) = a \o c BY DEF RemoveAt
<1> HIDE DEF a, c
<1>5. IsSeq(a \o c) /\ Len(a \o c) = Len(a) + Len(c) BY <1>2, <1>3, ConcatSeq
<1> QED BY <1>1, <1>2, <1>3, <1>4, <1>5

LEMMA FrontSeq ==
  ASSUME NEW s, IsSeq(s), Len(s) # 0
  PROVE  IsSeq(Front(s)) /\ Len(Front(s)) = Len(s) - 1
<1> DEFINE n == Len(s) - 1
<1>1. n \in Nat /\ 1 <= n + 1 /\ n <= Len(s) /\ n + 1 - 1 = n /\ 1 \in Nat \ {0} BY SeqIs
<1>2. Front(s) = SubSeq(s, 1, n) BY DEF Front
<1> HIDE DEF n
<1>3. IsSeq(SubSeq(s, 1, n)) /\ Len(SubSeq(s, 1, n)) = n BY <1>1, PartSeq
<1> QED BY <1>2, <1>3 DEF n

----------------------------------------------------------------------------
(* Lists of nodes: a slice, and a map into it.                                *)
ListShape(l) ==
  /\ l \in [items : {l.items}, id : {l.id}]
  /\ IsSeq(l.items)
  /\ IsFiniteSet(DOMAIN l.id)
  /\ \A n \in DOMAIN l.id : l.id[n] \in Nat \ {0}

LEMMA EmptyListShape == ListShape(EmptyList) /\ DOMAIN EmptyList.id = {}
<1>1. EmptyList.items = <<>> /\ EmptyList.id = [n \in {} |-> 0] BY DEF EmptyList
<1>2. DOMAIN EmptyList.id = {} BY <1>1
<1>3. IsSeq(EmptyList.items) BY <1>1, EmptyIsSeq
<1>4. IsFiniteSet(DOMAIN EmptyList.id) BY <1>2, FS_EmptySet
<1>5. EmptyList \in [items : {EmptyList.items}, id : {EmptyList.id}] BY DEF EmptyList
<1> QED BY <1>2, <1>3, <1>4, <1>5 DEF ListShape

\* A map with one more name, and with one less, has finitely many.
LEMMA PointIsFinite ==
  ASSUME NEW l, ListShape(l), NEW n, NEW i
  PROVE  /\ DOMAIN Point(l, n, i) = DOMAIN l.id \cup {n}
         /\ IsFiniteSet(DOMAIN Point(l, n, i))
         /\ \A m : IsFiniteSet(DOMAIN Point(l, n, i) \ {m})
<1>1. DOMAIN Point(l, n, i) = DOMAIN l.id \cup {n} BY DEF Point
<1>2. IsFiniteSet(DOMAIN l.id) BY DEF ListShape
<1>3. IsFiniteSet(DOMAIN l.id \cup {n}) BY <1>2, FS_AddElement
<1>4. \A m : IsFiniteSet((DOMAIN l.id \cup {n}) \ {m}) BY <1>3, FS_RemoveElement
<1> QED BY <1>1, <1>3, <1>4

LEMMA AppendItemShape ==
  ASSUME NEW l, ListShape(l), NEW item
  PROVE  ListShape(AppendItem(l, item)) /\ DOMAIN AppendItem(l, item).id = DOMAIN l.id \cup {item.name}
<1>1. IsSeq(Append(l.items, item)) BY AppendSeq DEF ListShape
<1>2. Len(l.items) + 1 \in Nat \ {0} BY SeqIs DEF ListShape
<1> DEFINE id == Point(l, item.name, Len(l.items) + 1)
<1>3. DOMAIN id = DOMAIN l.id \cup {item.name} /\ IsFiniteSet(DOMAIN id) BY PointIsFinite
<1>4. \A n \in DOMAIN id : id[n] \in Nat \ {0} BY <1>2 DEF Point, ListShape
<1> HIDE DEF id
<1>5. AppendItem(l, item) = [items |-> Append(l.items, item), id |-> id] BY DEF AppendItem, id
<1> QED BY <1>1, <1>3, <1>4, <1>5 DEF ListShape

LEMMA SetItemShape ==
  ASSUME NEW l, ListShape(l), NEW i, NEW item
  PROVE  ListShape(SetItem(l, i, item)) /\ SetItem(l, i, item).id = l.id
BY SetSeq DEF ListShape, SetItem

LEMMA PutItemShape ==
  ASSUME NEW l, ListShape(l), NEW item
  PROVE  /\ ListShape(PutItem(l, item))
         /\ DOMAIN PutItem(l, item).id = DOMAIN l.id \cup {item.name}
         /\ Len(PutItem(l, item).items)
              = IF IdOf(l, item.name) = 0 THEN Len(l.items) + 1 ELSE Len(l.items)
<1>1. CASE IdOf(l, item.name) = 0
  <2>1. Len(AppendItem(l, item).items) = Len(l.items) + 1 BY AppendSeq DEF AppendItem, ListShape
  <2> QED BY <1>1, <2>1, AppendItemShape DEF PutItem
<1>2. CASE IdOf(l, item.name) # 0
  <2>1. item.name \in DOMAIN l.id BY <1>2 DEF IdOf
  <2>2. \A i : Len(SetItem(l, i, item).items) = Len(l.items) BY SetSeq DEF SetItem, ListShape
  <2> QED BY <1>2, <2>1, <2>2, SetItemShape DEF PutItem
<1> QED BY <1>1, <1>2

LEMMA RemoveItemShape ==
  ASSUME NEW l, ListShape(l), NEW n, NEW tombstone
  PROVE  /\ ListShape(RemoveItem(l, n, tombstone))
         /\ DOMAIN RemoveItem(l, n, tombstone).id \subseteq DOMAIN l.id \cup {tombstone.name}
<1>1. CASE IdOf(l, n) = 0
  BY <1>1, AppendItemShape DEF RemoveItem
<1>2. CASE IdOf(l, n) # 0
  BY <1>2, SetItemShape DEF RemoveItem
<1> QED BY <1>1, <1>2

LEMMA RenameItemShape ==
  ASSUME NEW l, ListShape(l), NEW old, NEW new, NEW action
  PROVE  /\ ListShape(RenameItem(l, old, new, action))
         /\ DOMAIN RenameItem(l, old, new, action).id \subseteq DOMAIN l.id \cup {new}
<1> DEFINE i == IdOf(l, old)
           node == Renamed(l.items[i], old, new, action)
<1>1. CASE i = 0 BY <1>1 DEF RenameItem
<1>2. CASE i # 0
  <2>1. i \in Nat \ {0} BY <1>2 DEF IdOf, ListShape
  <2>2. [l.items EXCEPT ![i] = Renamed(@, old, new, action)] = [l.items EXCEPT ![i] = node]
    BY SeqIs DEF ListShape
  <2> HIDE DEF node
  <2>3. IsSeq([l.items EXCEPT ![i] = Renamed(@, old, new, action)])
    BY <2>2, SetSeq DEF ListShape
  <2> DEFINE moved == Point(l, new, i)
             id == [m \in DOMAIN moved \ {old} |-> moved[m]]
             items == [l.items EXCEPT ![i] = Renamed(@, old, new, action)]
  <2>4. DOMAIN moved = DOMAIN l.id \cup {new} /\ IsFiniteSet(DOMAIN moved \ {old})
    BY PointIsFinite
  <2>5. \A m \in DOMAIN moved : moved[m] \in Nat \ {0} BY <2>1 DEF Point, ListShape
  <2>6. RenameItem(l, old, new, action) = [items |-> items, id |-> id] BY <1>2 DEF RenameItem
  <2>7. IsSeq(items) BY <2>3
  <2> HIDE DEF items, moved
  <2>8. DOMAIN id = DOMAIN moved \ {old} /\ \A m \in DOMAIN id : id[m] \in Nat \ {0} BY <2>5
  <2> HIDE DEF id
  <2> QED BY <2>4, <2>6, <2>7, <2>8 DEF ListShape
<1> QED BY <1>1, <1>2

LEMMA SwapOrderShape ==
  ASSUME NEW l, ListShape(l), NEW name, NEW old \in 1 .. Len(l.items), NEW new \in Nat \ {0},
         old # new, ~SwapPanics(l, old, new)
  PROVE  /\ ListShape(SwapOrder(l, name, old, new))
         /\ DOMAIN SwapOrder(l, name, old, new).id = DOMAIN l.id \cup {name}
         /\ Len(SwapOrder(l, name, old, new).items) = Len(l.items)
<1> DEFINE grown == Copied(l.items, old, new)
           r == SwapOrder(l, name, old, new)
<1>1. IsSeq(l.items) /\ Len(l.items) \in Nat BY SeqIs DEF ListShape
<1>2. IsSeq(grown) /\ Len(grown) = Len(l.items) + 1
  <2>1. CASE new >= Len(l.items) BY <1>1, <2>1, AppendSeq DEF Copied
  <2>2. CASE new < Len(l.items)
    <3>1. new \in 1 .. Len(l.items) BY <1>1, <2>2
    <3> QED BY <1>1, <2>2, <3>1, InsertSeq DEF Copied
  <2> QED BY <1>1, <2>1, <2>2
<1> HIDE DEF grown
<1>3. IsSeq(r.items) /\ Len(r.items) = Len(l.items)
  <2>1. CASE new < old
    <3>1. old \in 1 .. Len(grown) /\ Len(grown) # 0 BY <1>1, <1>2
    <3>2. /\ IsSeq(Front(grown)) /\ IsSeq(RemoveAt(grown, old))
          /\ Len(Front(grown)) = Len(grown) - 1 /\ Len(RemoveAt(grown, old)) = Len(grown) - 1
      BY <1>2, <3>1, FrontSeq, RemoveSeq
    <3>3. Len(grown) - 1 = Len(l.items) BY <1>1, <1>2
    <3>4. r.items \in {Front(grown), RemoveAt(grown, old)}
      BY <2>1 DEF SwapOrder, CutAfterMoveUp, grown
    <3> QED BY <3>2, <3>3, <3>4
  <2>2. CASE old < new
    <3>1. old # 1 BY <2>2 DEF SwapPanics
    <3>2. old - 1 \in 1 .. Len(grown) BY <1>1, <1>2, <3>1
    <3>3. IsSeq(RemoveAt(grown, old - 1)) /\ Len(RemoveAt(grown, old - 1)) = Len(grown) - 1
      <4> DEFINE j == old - 1
      <4>1. j \in 1 .. Len(grown) BY <3>2
      <4> HIDE DEF j
      <4>2. IsSeq(RemoveAt(grown, j)) /\ Len(RemoveAt(grown, j)) = Len(grown) - 1
        BY <1>2, <4>1, RemoveSeq
      <4> QED BY <4>2 DEF j
    <3>4. ~(new < old) BY <2>2
    <3>5. Len(grown) - 1 = Len(l.items) BY <1>1, <1>2
    <3>6. r.items = RemoveAt(grown, old - 1)
      BY <2>2, <3>4 DEF SwapOrder, CutAfterMoveDown, grown
    <3> QED BY <3>3, <3>5, <3>6
  <2> QED BY <2>1, <2>2
<1>4. DOMAIN r.id = DOMAIN l.id \cup {name} BY DEF SwapOrder
<1>5. ASSUME NEW n \in DOMAIN r.id PROVE r.id[n] \in Nat \ {0}
  <2>1. CASE n = name BY <2>1 DEF SwapOrder
  <2>2. CASE n # name
    <3>1. n \in DOMAIN l.id /\ l.id[n] \in Nat \ {0} BY <1>4, <1>5, <2>2 DEF ListShape
    <3> QED BY <2>2, <3>1 DEF SwapOrder
  <2> QED BY <2>1, <2>2
<1>6. r \in [items : {r.items}, id : {r.id}] BY DEF SwapOrder
<1> HIDE DEF r
<1>7. IsFiniteSet(DOMAIN r.id)
  <2>1. IsFiniteSet(DOMAIN l.id \cup {name}) BY FS_AddElement DEF ListShape
  <2> QED BY <1>4, <2>1
<1>8. ListShape(r) BY <1>3, <1>5, <1>6, <1>7 DEF ListShape
<1> QED BY <1>3, <1>4, <1>8 DEF r

----------------------------------------------------------------------------
(* Tables.                                                                    *)
IsTable(t) ==
  t \in [name : {t.name}, oldName : {t.oldName}, action : {t.action}, cols : {t.cols},
         idxs : {t.idxs}, fks : {t.fks}, pos : {t.pos}, panic : {t.panic}]

TableShape(t) == IsTable(t) /\ ListShape(t.cols) /\ ListShape(t.idxs) /\ ListShape(t.fks)

\* The column names a table knows, dropped ones too.
Known(t) == DOMAIN t.cols.id

\* Table t becomes r by the statements of one table: it stays the same node, comes to
\* know no other names than those of N, and a pending position stays or is taken.
Becomes(t, r, N) ==
  /\ TableShape(r)
  /\ r.name = t.name /\ r.action = t.action
  /\ Known(r) \subseteq Known(t) \cup N
  /\ r.pos \in {t.pos, NoPosition}

LEMMA NewTableShape ==
  ASSUME NEW name, NEW action
  PROVE  /\ TableShape(NewTableWithAction(name, action))
         /\ Known(NewTableWithAction(name, action)) = {}
BY EmptyListShape DEF TableShape, IsTable, Known, NewTableWithAction

\* A list of t is replaced.
LEMMA ColumnsBecome ==
  ASSUME NEW t, TableShape(t), NEW l, ListShape(l), NEW N, DOMAIN l.id \subseteq Known(t) \cup N
  PROVE  Becomes(t, [t EXCEPT !.cols = l], N) /\ [t EXCEPT !.cols = l].pos = t.pos
BY DEF Becomes, TableShape, IsTable, Known

LEMMA IndexesBecome ==
  ASSUME NEW t, TableShape(t), NEW l, ListShape(l)
  PROVE  Becomes(t, [t EXCEPT !.idxs = l], {}) /\ [t EXCEPT !.idxs = l].pos = t.pos
BY DEF Becomes, TableShape, IsTable, Known

LEMMA KeysBecome ==
  ASSUME NEW t, TableShape(t), NEW l, ListShape(l)
  PROVE  Becomes(t, [t EXCEPT !.fks = l], {}) /\ [t EXCEPT !.fks = l].pos = t.pos
BY DEF Becomes, TableShape, IsTable, Known

LEMMA PanickedBecomes ==
  ASSUME NEW t, TableShape(t), NEW N
  PROVE  Becomes(t, Panicked(t), N) /\ Panicked(t).pos = t.pos
BY DEF Becomes, TableShape, IsTable, Known, Panicked

LEMMA SwapColumnsBecomes ==
  ASSUME NEW t, TableShape(t), NEW name, NEW old \in 1 .. Len(t.cols.items), NEW new \in Nat \ {0}
  PROVE  /\ Becomes(t, SwapColumns(t, name, old, new), {name})
         /\ Len(SwapColumns(t, name, old, new).cols.items) = Len(t.cols.items)
<1>1. CASE old # new /\ SwapPanics(t.cols, old, new)
  <2>1. SwapColumns(t, name, old, new) = Panicked(t) BY <1>1 DEF SwapColumns, Panicked
  <2>2. Panicked(t).cols = t.cols BY DEF Panicked, TableShape, IsTable
  <2> QED BY <2>1, <2>2, PanickedBecomes
<1>2. CASE old = new
  <2>1. [t EXCEPT !.cols = SwapOrder(@, name, old, new)] = [t EXCEPT !.cols = t.cols]
    BY <1>2 DEF SwapOrder, TableShape, IsTable
  <2>2. SwapColumns(t, name, old, new) = [t EXCEPT !.cols = t.cols] BY <1>2, <2>1 DEF SwapColumns
  <2>3. [t EXCEPT !.cols = t.cols].cols = t.cols BY DEF TableShape, IsTable
  <2> QED BY <2>2, <2>3, ColumnsBecome DEF TableShape, Known
<1>3. CASE old # new /\ ~SwapPanics(t.cols, old, new)
  <2> DEFINE l == SwapOrder(t.cols, name, old, new)
  <2>1. ListShape(l) /\ DOMAIN l.id = DOMAIN t.cols.id \cup {name} /\ Len(l.items) = Len(t.cols.items)
    BY <1>3, SwapOrderShape DEF TableShape
  <2>2. SwapColumns(t, name, old, new) = [t EXCEPT !.cols = l] /\ [t EXCEPT !.cols = l].cols = l
    BY <1>3 DEF SwapColumns, TableShape, IsTable
  <2> HIDE DEF l
  <2> QED BY <2>1, <2>2, ColumnsBecome DEF Known
<1> QED BY <1>1, <1>2, <1>3

LEMMA PlaceColumnBecomes ==
  ASSUME NEW t, TableShape(t), NEW name, NEW id \in 1 .. Len(t.cols.items)
  PROVE  /\ Becomes(t, PlaceColumn(t, name, id), {name})
         /\ PlaceColumn(t, name, id).pos = NoPosition
         /\ Len(PlaceColumn(t, name, id).cols.items) = Len(t.cols.items)
<1> DEFINE afterId == IdOf(t.cols, t.pos.rel)
           moved == CASE t.pos.tp = "first" -> SwapColumns(t, name, id, 1)
                      [] t.pos.tp = "after" /\ afterId > 0 -> SwapColumns(t, name, id, afterId + 1)
                      [] OTHER -> t
<1>1. Becomes(t, moved, {name}) /\ Len(moved.cols.items) = Len(t.cols.items)
  <2>1. CASE t.pos.tp = "first"
    <3>1. moved = SwapColumns(t, name, id, 1) BY <2>1
    <3>2. 1 \in Nat \ {0} OBVIOUS
    <3> HIDE DEF moved
    <3> QED BY <3>1, <3>2, SwapColumnsBecomes
  <2>2. CASE t.pos.tp = "after" /\ afterId > 0
    <3>1. moved = SwapColumns(t, name, id, afterId + 1) BY <2>2
    <3>2. afterId + 1 \in Nat \ {0} BY <2>2 DEF IdOf, TableShape, ListShape
    <3> HIDE DEF moved
    <3> QED BY <3>1, <3>2, SwapColumnsBecomes
  <2>3. CASE ~(t.pos.tp = "first") /\ ~(t.pos.tp = "after" /\ afterId > 0)
    <3>1. moved = t BY <2>3
    <3> QED BY <3>1 DEF Becomes, Known
  <2> QED BY <2>1, <2>2, <2>3
<1>2. PlaceColumn(t, name, id) = [moved EXCEPT !.pos = NoPosition] BY DEF PlaceColumn
<1> HIDE DEF moved
<1> QED BY <1>1, <1>2 DEF Becomes, TableShape, IsTable, Known

\* AddColumn; the pending position is taken by a column whose name is new.
LEMMA AddColumnBecomes ==
  ASSUME NEW t, TableShape(t), NEW col
  PROVE  /\ Becomes(t, AddColumn(t, col), {col.name})
         /\ col.name \notin Known(t) => AddColumn(t, col).pos = NoPosition
         /\ col.name \notin Known(t) => Len(AddColumn(t, col).cols.items) # 0
<1> DEFINE id == IdOf(t.cols, col.name)
           r == AddColumn(t, col)
<1>1. Len(t.cols.items) \in Nat BY SeqIs DEF TableShape, ListShape
<1>2. id # 0 => id \in Nat \ {0} BY DEF IdOf, TableShape, ListShape
<1>3. col.name \notin Known(t) => id = 0 BY DEF IdOf, Known
<1>4. CASE IsStale(t.cols, col.name)
  <2>1. id > Len(t.cols.items) BY <1>4 DEF IsStale
  <2>2. id # 0 BY <1>1, <2>1
  <2> QED BY <1>3, <1>4, <2>2, PanickedBecomes DEF AddColumn
<1>5. CASE ~IsStale(t.cols, col.name) /\ id > 0 /\ t.cols.items[id].action = "add"
  <2>1. r = MergeColumn(t, id, col) BY <1>5 DEF AddColumn
  <2>2. PICK l : r = [t EXCEPT !.cols = l] /\ ListShape(l) /\ l.id = t.cols.id
    <3> DEFINE was == t.cols.items[id]
               new == [was EXCEPT !.attr =
                         [type |-> col.attr.type, opts |-> MergeOptions(was.attr.opts, col.attr.opts)]]
               m == SetItem(t.cols, id, new)
    <3>1. r = [t EXCEPT !.cols = m] BY <2>1 DEF MergeColumn, TableShape, IsTable
    <3> HIDE DEF new
    <3>2. ListShape(m) /\ m.id = t.cols.id BY SetItemShape DEF TableShape
    <3> QED BY <3>1, <3>2
  <2>3. Becomes(t, [t EXCEPT !.cols = l], {col.name}) BY <2>2, ColumnsBecome DEF Known
  <2>4. id # 0 BY <1>1, <1>5
  <2> QED BY <1>3, <2>2, <2>3, <2>4
<1>6. CASE ~IsStale(t.cols, col.name) /\ ~(id > 0 /\ t.cols.items[id].action = "add")
  <2> DEFINE l == PutItem(t.cols, col)
             put == [t EXCEPT !.cols = PutItem(@, col)]
             at == IF id = 0 THEN Len(t.cols.items) + 1 ELSE id
  <2>1. /\ ListShape(l) /\ DOMAIN l.id = DOMAIN t.cols.id \cup {col.name}
        /\ Len(l.items) = IF id = 0 THEN Len(t.cols.items) + 1 ELSE Len(t.cols.items)
    BY PutItemShape DEF TableShape
  <2>2. put = [t EXCEPT !.cols = l] /\ put.cols = l BY DEF TableShape, IsTable
  <2>3. r = PlaceColumn(put, col.name, at) BY <1>6 DEF AddColumn
  <2>4. at \in 1 .. Len(l.items) BY <1>1, <1>2, <1>6, <2>1 DEF IsStale
  <2> HIDE DEF l, put, at
  <2>5. Becomes(t, put, {col.name}) BY <2>1, <2>2, ColumnsBecome DEF Known
  <2>6. TableShape(put) BY <2>5 DEF Becomes
  <2>7. Becomes(put, r, {col.name}) /\ r.pos = NoPosition /\ Len(r.cols.items) = Len(put.cols.items)
    <3>1. at \in 1 .. Len(put.cols.items) BY <2>2, <2>4
    <3> HIDE DEF r
    <3> QED BY <2>3, <2>6, <3>1, PlaceColumnBecomes
  <2>8. Len(put.cols.items) # 0 BY <1>1, <2>2, <2>4
  <2> QED BY <2>5, <2>7, <2>8 DEF Becomes
<1> QED BY <1>4, <1>5, <1>6

\* The other methods leave a pending position where it is.
Keeps(t, r, N) == Becomes(t, r, N) /\ r.pos = t.pos

LEMMA RemoveColumnBecomes ==
  ASSUME NEW t, TableShape(t), NEW n
  PROVE  Keeps(t, RemoveColumn(t, n), {n})
<1>1. CASE IsStale(t.cols, n) BY <1>1, PanickedBecomes DEF RemoveColumn, Keeps
<1>2. CASE ~IsStale(t.cols, n)
  <2> DEFINE tombstone == Column(n, "remove", NilAttr)
             l == RemoveItem(t.cols, n, tombstone)
  <2>1. ListShape(l) /\ DOMAIN l.id \subseteq Known(t) \cup {tombstone.name}
    BY RemoveItemShape DEF TableShape, Known
  <2>2. tombstone.name = n BY DEF Column
  <2>3. RemoveColumn(t, n) = [t EXCEPT !.cols = l] BY <1>2 DEF RemoveColumn, TableShape, IsTable
  <2> HIDE DEF l, tombstone
  <2> QED BY <2>1, <2>2, <2>3, ColumnsBecome DEF Keeps
<1> QED BY <1>1, <1>2

LEMMA RenameColumnBecomes ==
  ASSUME NEW t, TableShape(t), NEW old, NEW new
  PROVE  Keeps(t, RenameColumn(t, old, new), {new})
<1>1. CASE IsStale(t.cols, old) BY <1>1, PanickedBecomes DEF RenameColumn, Keeps
<1>2. CASE ~IsStale(t.cols, old)
  <2> DEFINE l == RenameItem(t.cols, old, new, "rename")
  <2>1. ListShape(l) /\ DOMAIN l.id \subseteq Known(t) \cup {new}
    BY RenameItemShape DEF TableShape, Known
  <2>2. RenameColumn(t, old, new) = [t EXCEPT !.cols = l]
    BY <1>2 DEF RenameColumn, TableShape, IsTable
  <2> HIDE DEF l
  <2> QED BY <2>1, <2>2, ColumnsBecome DEF Keeps
<1> QED BY <1>1, <1>2

LEMMA IndexMethodsBecome ==
  ASSUME NEW t, TableShape(t), NEW idx, NEW n, NEW to
  PROVE  /\ Keeps(t, AddIndex(t, idx), {})
         /\ Keeps(t, RemoveIndex(t, n), {})
         /\ Keeps(t, RenameIndex(t, n, to), {})
<1>1. ListShape(t.idxs) BY DEF TableShape
<1>2. AddIndex(t, idx) = [t EXCEPT !.idxs = PutItem(t.idxs, idx)]
  BY DEF AddIndex, TableShape, IsTable
<1>3. PICK new : RemoveIndex(t, n) = [t EXCEPT !.idxs = RemoveItem(t.idxs, n, new)]
  BY DEF RemoveIndex, TableShape, IsTable
<1>4. RenameIndex(t, n, to) = [t EXCEPT !.idxs = RenameItem(t.idxs, n, to, "rename")]
  BY DEF RenameIndex, TableShape, IsTable
<1>5. /\ ListShape(PutItem(t.idxs, idx)) /\ ListShape(RemoveItem(t.idxs, n, new))
      /\ ListShape(RenameItem(t.idxs, n, to, "rename"))
  BY <1>1, PutItemShape, RemoveItemShape, RenameItemShape
<1>6. Keeps(t, AddIndex(t, idx), {}) BY <1>2, <1>5, IndexesBecome DEF Keeps
<1>7. Keeps(t, RemoveIndex(t, n), {}) BY <1>3, <1>5, IndexesBecome DEF Keeps
<1>8. Keeps(t, RenameIndex(t, n, to), {}) BY <1>4, <1>5, IndexesBecome DEF Keeps
<1> QED BY <1>6, <1>7, <1>8

LEMMA MarkReferencedShape ==
  ASSUME NEW l, ListShape(l), NEW n
  PROVE  ListShape(MarkReferenced(l, n)) /\ MarkReferenced(l, n).id = l.id
<1> DEFINE r == MarkReferenced(l, n)
<1>1. Len(l.items) \in Nat /\ DOMAIN l.items = 1 .. Len(l.items) BY SeqIs DEF ListShape
<1>2. r.items = [k \in 1 .. Len(l.items) |-> r.items[k]] BY <1>1 DEF MarkReferenced
<1>3. r.id = l.id /\ r \in [items : {r.items}, id : {r.id}] BY DEF MarkReferenced
<1> HIDE DEF r
<1>4. IsSeq(r.items) BY <1>1, <1>2, FunctionIsSeq
<1>5. ListShape(r) BY <1>3, <1>4 DEF ListShape
<1> QED BY <1>3, <1>5 DEF r

LEMMA KeyMethodsBecome ==
  ASSUME NEW t, TableShape(t), NEW fk, NEW n
  PROVE  Keeps(t, AddForeignKey(t, fk), {}) /\ Keeps(t, RemoveForeignKey(t, n), {})
<1>1. ListShape(t.fks) /\ ListShape(t.cols) BY DEF TableShape
<1>2. PICK new : RemoveForeignKey(t, n) = [t EXCEPT !.fks = RemoveItem(t.fks, n, new)]
  BY DEF RemoveForeignKey, TableShape, IsTable
<1> DEFINE keys == PutItem(t.fks, fk)
           cols == MarkReferenced(t.cols, fk.column)
           mid  == [t EXCEPT !.fks = keys]
<1>3. /\ ListShape(RemoveItem(t.fks, n, new)) /\ ListShape(keys)
      /\ ListShape(cols) /\ cols.id = t.cols.id
  BY <1>1, PutItemShape, RemoveItemShape, MarkReferencedShape
<1>4. AddForeignKey(t, fk) = [mid EXCEPT !.cols = cols] /\ mid.cols = t.cols
  BY DEF AddForeignKey, TableShape, IsTable
<1> HIDE DEF keys, cols
<1>5. Keeps(t, mid, {}) BY <1>3, KeysBecome DEF Keeps
<1>6. TableShape(mid) /\ DOMAIN cols.id \subseteq Known(mid) \cup {}
  BY <1>3, <1>4, <1>5 DEF Keeps, Becomes, Known
<1> HIDE DEF mid
<1>7. Keeps(mid, [mid EXCEPT !.cols = cols], {}) BY <1>3, <1>6, ColumnsBecome DEF Keeps
<1>8. Keeps(t, AddForeignKey(t, fk), {}) BY <1>4, <1>5, <1>7 DEF Keeps, Becomes
<1>9. Keeps(t, RemoveForeignKey(t, n), {}) BY <1>2, <1>3, KeysBecome DEF Keeps
<1> QED BY <1>8, <1>9

----------------------------------------------------------------------------
(* The schema.                                                                *)

\* A node is never found under another name than its own.
SchemaShape(m) ==
  /\ m \in [tables : {m.tables}, current : {m.current}]
  /\ m.tables \in [items : {m.tables.items}, id : {m.tables.id}]
  /\ IsSeq(m.tables.items)
  /\ Coherent(m.tables)
  /\ \A i \in DOMAIN m.tables.items : TableShape(m.tables.items[i])

KnownTables(m) == DOMAIN m.tables.id

\* What the tables of m have become in r: the same nodes, in their places.
SameTables(m, r) ==
  /\ SchemaShape(r)
  /\ r.tables.id = m.tables.id
  /\ DOMAIN r.tables.items = DOMAIN m.tables.items
  /\ \A i \in DOMAIN m.tables.items :
       /\ r.tables.items[i].name = m.tables.items[i].name
       /\ r.tables.items[i].action = m.tables.items[i].action

\* The same, and only the table n has changed: it may know the names of N too, and
\* have a position of P waiting.
Touches(m, r, n, N, P) ==
  /\ SameTables(m, r)
  /\ \A i \in DOMAIN m.tables.items : i # m.tables.id[n] => r.tables.items[i] = m.tables.items[i]
  /\ Known(TableOf(r, n)) \subseteq Known(TableOf(m, n)) \cup N
  /\ TableOf(r, n).pos \in {TableOf(m, n).pos, NoPosition} \cup P

LEMMA KnownTable ==
  ASSUME NEW m, SchemaShape(m), NEW n \in KnownTables(m)
  PROVE  /\ IsKnown(m, n)
         /\ IdOf(m.tables, n) = m.tables.id[n]
         /\ m.tables.id[n] \in DOMAIN m.tables.items
         /\ TableOf(m, n) = m.tables.items[m.tables.id[n]]
         /\ TableOf(m, n).name = n
         /\ TableShape(TableOf(m, n))
<1>1. Len(m.tables.items) \in Nat /\ DOMAIN m.tables.items = 1 .. Len(m.tables.items)
  BY SeqIs DEF SchemaShape
<1>2. m.tables.id[n] \in 1 .. Len(m.tables.items) /\ m.tables.items[m.tables.id[n]].name = n
  BY DEF SchemaShape, Coherent, KnownTables
<1>3. IdOf(m.tables, n) = m.tables.id[n] BY DEF IdOf, KnownTables
<1> QED BY <1>1, <1>2, <1>3 DEF IsKnown, TableOf, SchemaShape

LEMMA SetTableTouches ==
  ASSUME NEW m, SchemaShape(m), NEW n \in KnownTables(m), NEW t, TableShape(t),
         t.name = n, t.action = TableOf(m, n).action,
         NEW N, NEW P, Known(t) \subseteq Known(TableOf(m, n)) \cup N,
         t.pos \in {TableOf(m, n).pos, NoPosition} \cup P
  PROVE  /\ Touches(m, SetTable(m, n, t), n, N, P)
         /\ SetTable(m, n, t).current = m.current
         /\ TableOf(SetTable(m, n, t), n) = t
<1> DEFINE i == m.tables.id[n]
           r == SetTable(m, n, t)
<1>1. /\ IdOf(m.tables, n) = i /\ i \in DOMAIN m.tables.items
      /\ TableOf(m, n) = m.tables.items[i] /\ TableOf(m, n).name = n
  BY KnownTable
<1>2. /\ r = [tables |-> [items |-> [m.tables.items EXCEPT ![i] = t], id |-> m.tables.id],
              current |-> m.current]
  BY <1>1 DEF SetTable, SetItem, SchemaShape
<1> DEFINE items == [m.tables.items EXCEPT ![i] = t]
<1>3. IsSeq(items) /\ Len(items) = Len(m.tables.items) /\ DOMAIN items = DOMAIN m.tables.items
  BY SetSeq DEF SchemaShape
<1>4. items[i] = t /\ \A j \in DOMAIN m.tables.items : j # i => items[j] = m.tables.items[j]
  BY <1>1
<1> HIDE DEF i, items
<1>5. r.tables.items = items /\ r.tables.id = m.tables.id /\ r.current = m.current
  BY <1>2 DEF items
<1>6. r \in [tables : {r.tables}, current : {r.current}]
      /\ r.tables \in [items : {r.tables.items}, id : {r.tables.id}]
  BY <1>2
<1> HIDE DEF r
<1>7. Coherent(r.tables)
  <2> SUFFICES ASSUME NEW k \in DOMAIN m.tables.id
               PROVE  /\ m.tables.id[k] \in 1 .. Len(items)
                      /\ items[m.tables.id[k]].name = k
    BY <1>5 DEF Coherent
  <2>1. m.tables.id[k] \in 1 .. Len(items) /\ m.tables.items[m.tables.id[k]].name = k
    BY <1>3 DEF SchemaShape, Coherent
  <2>2. m.tables.id[k] \in DOMAIN m.tables.items BY <2>1, SeqIs DEF SchemaShape, Coherent
  <2>3. CASE m.tables.id[k] = i BY <1>1, <1>4, <2>1, <2>3
  <2>4. CASE m.tables.id[k] # i BY <1>4, <2>1, <2>2, <2>4
  <2> QED BY <2>3, <2>4
<1>8. \A j \in DOMAIN items : TableShape(items[j]) BY <1>3, <1>4 DEF SchemaShape
<1>9. SchemaShape(r) BY <1>3, <1>5, <1>6, <1>7, <1>8 DEF SchemaShape
<1>10. SameTables(m, r)
  <2>1. \A j \in DOMAIN m.tables.items :
          items[j].name = m.tables.items[j].name /\ items[j].action = m.tables.items[j].action
    BY <1>1, <1>4
  <2> QED BY <1>3, <1>5, <1>9, <2>1 DEF SameTables
<1>11. TableOf(r, n) = t
  <2>1. IdOf(r.tables, n) = i BY <1>1, <1>5 DEF IdOf
  <2> QED BY <1>4, <1>5, <2>1 DEF TableOf
<1>12. \A j \in DOMAIN m.tables.items : j # m.tables.id[n] => r.tables.items[j] = m.tables.items[j]
  BY <1>4, <1>5 DEF i
<1>13. Touches(m, r, n, N, P) BY <1>10, <1>11, <1>12 DEF Touches
<1> QED BY <1>5, <1>11, <1>13 DEF r

\* A method of table n, by what it makes of the table.
LEMMA BecomesTouches ==
  ASSUME NEW m, SchemaShape(m), NEW n \in KnownTables(m), NEW t, NEW N, Becomes(TableOf(m, n), t, N)
  PROVE  /\ Touches(m, SetTable(m, n, t), n, N, {})
         /\ SetTable(m, n, t).current = m.current
         /\ TableOf(SetTable(m, n, t), n) = t
<1>1. TableOf(m, n).name = n BY KnownTable
<1>2. /\ TableShape(t) /\ t.name = n /\ t.action = TableOf(m, n).action
      /\ Known(t) \subseteq Known(TableOf(m, n)) \cup N
      /\ t.pos \in {TableOf(m, n).pos, NoPosition} \cup {}
  BY <1>1 DEF Becomes
<1> QED BY <1>2, SetTableTouches

LEMMA NothingTouches ==
  ASSUME NEW m, SchemaShape(m), NEW n, NEW N, NEW P
  PROVE  Touches(m, m, n, N, P)
BY DEF Touches, SameTables

\* Choosing a current table touches nothing.
LEMMA UsingTouches ==
  ASSUME NEW m, SchemaShape(m), NEW c, NEW n, NEW N, NEW P
  PROVE  Touches(m, Using(m, c), n, N, P) /\ Using(m, c).current = c
<1>1. /\ Using(m, c) = [tables |-> m.tables, current |-> c]
      /\ Using(m, c).tables = m.tables /\ Using(m, c).current = c
  BY DEF Using, SchemaShape
<1>2. SchemaShape(Using(m, c)) BY <1>1 DEF SchemaShape
<1>3. TableOf(Using(m, c), n) = TableOf(m, n) BY <1>1 DEF TableOf
<1> HIDE DEF Using
<1> QED BY <1>1, <1>2, <1>3 DEF Touches, SameTables

LEMMA SameTablesTransitive ==
  ASSUME NEW m, NEW q, NEW r, SameTables(m, q), SameTables(q, r)
  PROVE  SameTables(m, r)
BY DEF SameTables

LEMMA TouchesTransitive ==
  ASSUME NEW m, NEW q, NEW r, NEW n, NEW N, NEW P, Touches(m, q, n, N, P), Touches(q, r, n, N, P)
  PROVE  Touches(m, r, n, N, P)
<1>1. SameTables(m, r) BY SameTablesTransitive DEF Touches
<1>2. q.tables.id = m.tables.id /\ DOMAIN q.tables.items = DOMAIN m.tables.items
  BY DEF Touches, SameTables
<1>3. \A i \in DOMAIN m.tables.items : i # m.tables.id[n] => r.tables.items[i] = m.tables.items[i]
  BY <1>2 DEF Touches
<1>4. /\ Known(TableOf(r, n)) \subseteq Known(TableOf(m, n)) \cup N
      /\ TableOf(r, n).pos \in {TableOf(m, n).pos, NoPosition} \cup P
  BY DEF Touches
<1> QED BY <1>1, <1>3, <1>4 DEF Touches

----------------------------------------------------------------------------
(* Reading an ALTER TABLE.                                                    *)

\* The table that Enter changes for a specification, the column names it may learn
\* there and the positions it may leave there.
Entered(m, tb, spec) ==
  IF spec.op \in {"addColumn", "addForeignKey"} THEN m.current ELSE tb
NamesEntered(spec) ==
  CASE spec.op \in {"dropColumn", "modifyColumn"} -> {spec.col}
    [] spec.op = "renameColumn" -> {spec.to}
    [] OTHER -> {}
PositionsEntered(spec) == IF spec.op = "addColumn" THEN {spec.pos} ELSE {}

LEMMA EnsuredKnown ==
  ASSUME NEW m, SchemaShape(m), NEW n \in KnownTables(m)
  PROVE  Ensured(m, n) = m
BY KnownTable DEF Ensured

\* t is u but for the position that waits.
SameButPosition(t, u) == [u EXCEPT !.pos = NoPosition] = [t EXCEPT !.pos = NoPosition]

\* What m becomes by one specification.
EnteredAs(m, r, tb, spec) ==
  /\ Touches(m, r, Entered(m, tb, spec), NamesEntered(spec), PositionsEntered(spec))
  /\ r.current = m.current
  /\ spec.op = "addColumn" => SameButPosition(TableOf(m, m.current), TableOf(r, m.current))

LEMMA EnterSpecTouches ==
  ASSUME NEW m, SchemaShape(m), NEW tb \in KnownTables(m), tb # Nil, m.current \in KnownTables(m),
         NEW spec, spec.op \in AlterOps
  PROVE  EnteredAs(m, EnterSpec(m, tb, spec), tb, spec)
<1> DEFINE r == EnterSpec(m, tb, spec)
           n == Entered(m, tb, spec)
           t == TableOf(m, n)
<1>1. Named(m, Nil) = m.current BY DEF Named
<1>2. n \in KnownTables(m) BY DEF Entered
<1>3. IsKnown(m, n) /\ Ensured(m, n) = m /\ TableShape(t) /\ t.name = n
  <2> HIDE DEF n
  <2> QED BY <1>2, KnownTable, EnsuredKnown
<1> SUFFICES EnteredAs(m, r, tb, spec) OBVIOUS
<1> HIDE DEF n, r
<1>4. ASSUME NEW u, NEW N, Becomes(t, u, N), r = SetTable(m, n, u), NamesEntered(spec) = N,
             spec.op # "addColumn"
      PROVE  EnteredAs(m, r, tb, spec)
  <2>1. Touches(m, SetTable(m, n, u), n, N, {}) /\ SetTable(m, n, u).current = m.current
    BY <1>2, <1>4, BecomesTouches DEF t
  <2>2. Touches(m, SetTable(m, n, u), n, N, PositionsEntered(spec)) BY <2>1 DEF Touches
  <2> QED BY <1>4, <2>1, <2>2 DEF EnteredAs, n
<1>5. CASE spec.op = "addColumn"
  <2>1. n = m.current /\ PositionsEntered(spec) = {spec.pos} /\ NamesEntered(spec) = {}
    BY <1>5 DEF n, Entered, PositionsEntered, NamesEntered
  <2>2. CASE spec.pos = NoPosition
    <3>1. r = m BY <1>5, <2>2 DEF r, EnterSpec
    <3> QED BY <3>1, NothingTouches DEF EnteredAs, SameButPosition
  <2>3. CASE spec.pos # NoPosition
    <3> DEFINE u == [t EXCEPT !.pos = spec.pos]
    <3>1. r = SetTable(m, n, u) BY <1>1, <1>3, <1>5, <2>1, <2>3 DEF r, EnterSpec, SetColumnPosition
    <3>2. /\ TableShape(u) /\ u.name = t.name /\ u.action = t.action
          /\ Known(u) \subseteq Known(t) \cup {} /\ u.pos \in {t.pos, NoPosition} \cup {spec.pos}
      BY <1>3 DEF TableShape, IsTable, Known
    <3>3. SameButPosition(t, u) BY <1>3 DEF SameButPosition, TableShape, IsTable
    <3> HIDE DEF u
    <3>4. /\ Touches(m, SetTable(m, n, u), n, {}, {spec.pos})
          /\ SetTable(m, n, u).current = m.current /\ TableOf(SetTable(m, n, u), n) = u
      BY <1>2, <1>3, <3>2, SetTableTouches DEF t
    <3> QED BY <2>1, <3>1, <3>3, <3>4 DEF EnteredAs, n
  <2> QED BY <2>2, <2>3
<1>6. CASE spec.op = "addForeignKey"
  <2> DEFINE fk == ForeignKey(spec.fk, "add", spec.col, spec.ref)
  <2>1. n = m.current /\ NamesEntered(spec) = {} BY <1>6 DEF n, Entered, NamesEntered
  <2>2. r = SetTable(m, n, AddForeignKey(t, fk))
    BY <1>1, <1>3, <1>6, <2>1 DEF r, EnterSpec, SchemaAddForeignKey
  <2> HIDE DEF fk
  <2>3. Becomes(t, AddForeignKey(t, fk), {}) BY <1>3, KeyMethodsBecome DEF Keeps
  <2> QED BY <1>4, <1>6, <2>1, <2>2, <2>3
<1>7. CASE spec.op = "dropColumn"
  <2>1. n = tb /\ NamesEntered(spec) = {spec.col} BY <1>7 DEF n, Entered, NamesEntered
  <2>2. r = SetTable(m, n, RemoveColumn(t, spec.col))
    BY <1>3, <1>7, <2>1 DEF r, EnterSpec, SchemaRemoveColumn
  <2>3. Becomes(t, RemoveColumn(t, spec.col), {spec.col}) BY <1>3, RemoveColumnBecomes DEF Keeps
  <2> QED BY <1>4, <1>7, <2>1, <2>2, <2>3
<1>8. CASE spec.op = "dropForeignKey"
  <2>1. n = tb /\ NamesEntered(spec) = {} BY <1>8 DEF n, Entered, NamesEntered
  <2>2. r = SetTable(m, n, Panicked(t))
    BY <1>3, <1>8, <2>1 DEF r, EnterSpec, SchemaPanicked
  <2>3. Becomes(t, Panicked(t), {}) BY <1>3, PanickedBecomes
  <2> QED BY <1>4, <1>8, <2>1, <2>2, <2>3
<1>9. CASE spec.op = "modifyColumn"
  <2> DEFINE col == Column(spec.col, "modify", [type |-> spec.type, opts |-> <<>>])
  <2>1. n = tb /\ NamesEntered(spec) = {spec.col} BY <1>9 DEF n, Entered, NamesEntered
  <2>2. r = SchemaAddColumn(m, n, col) BY <1>9, <2>1 DEF r, EnterSpec
  <2>3. col.name = spec.col BY DEF Column
  <2> HIDE DEF col
  <2>4. Named(m, n) = n BY <2>1 DEF Named
  <2>5. r = SetTable(m, n, AddColumn(t, col)) BY <1>3, <2>2, <2>4 DEF SchemaAddColumn
  <2>6. Becomes(t, AddColumn(t, col), {spec.col}) BY <1>3, <2>3, AddColumnBecomes
  <2> QED BY <1>4, <1>9, <2>1, <2>5, <2>6
<1>10. CASE spec.op = "renameColumn"
  <2>1. n = tb /\ NamesEntered(spec) = {spec.to} BY <1>10 DEF n, Entered, NamesEntered
  <2>2. r = SetTable(m, n, RenameColumn(t, spec.col, spec.to))
    BY <1>3, <1>10, <2>1 DEF r, EnterSpec, SchemaRenameColumn
  <2>3. Becomes(t, RenameColumn(t, spec.col, spec.to), {spec.to})
    BY <1>3, RenameColumnBecomes DEF Keeps
  <2> QED BY <1>4, <1>10, <2>1, <2>2, <2>3
<1>11. CASE spec.op = "renameIndex"
  <2>1. n = tb /\ NamesEntered(spec) = {} BY <1>11 DEF n, Entered, NamesEntered
  <2>2. r = SetTable(m, n, RenameIndex(t, spec.idx, spec.to))
    BY <1>3, <1>11, <2>1 DEF r, EnterSpec, SchemaRenameIndex
  <2>3. Becomes(t, RenameIndex(t, spec.idx, spec.to), {}) BY <1>3, IndexMethodsBecome DEF Keeps
  <2> QED BY <1>4, <1>11, <2>1, <2>2, <2>3
<1>12. CASE spec.op = "dropConstraint"
  <2>1. n = tb /\ NamesEntered(spec) = {} /\ PositionsEntered(spec) = {}
    BY <1>12 DEF n, Entered, NamesEntered, PositionsEntered
  <2>2. r = m BY <1>12 DEF r, EnterSpec
  <2> QED BY <1>2, <1>12, <2>1, <2>2, NothingTouches DEF EnteredAs, n
<1> QED BY <1>5, <1>6, <1>7, <1>8, <1>9, <1>10, <1>11, <1>12 DEF AlterOps, KeyDrops

\* Reading the nodes below changes the current table: definitions go there.
NamesVisited(spec) == IF spec.op \in {"addColumn", "modifyColumn"} THEN {spec.col} ELSE {}

LEMMA VisitSpecTouches ==
  ASSUME NEW m, SchemaShape(m), m.current \in KnownTables(m), m.current # Nil,
         NEW spec, spec.op \in AlterOps
  PROVE  /\ Touches(m, VisitSpec(m, spec), m.current, NamesVisited(spec), {})
         /\ VisitSpec(m, spec).current
              = IF spec.op = "addForeignKey" THEN spec.ref ELSE m.current
         /\ spec.op \in {"addColumn", "modifyColumn"} /\ spec.col \notin Known(TableOf(m, m.current)) =>
              TableOf(VisitSpec(m, spec), m.current).pos = NoPosition
<1> DEFINE n == m.current
           t == TableOf(m, n)
<1>1. CASE spec.op \in {"addColumn", "modifyColumn"}
  <2> DEFINE col == Column(spec.col, "add", [type |-> spec.type, opts |-> spec.opts])
             u == AddColumn(t, col)
  <2>1. Ensured(m, n) = m /\ TableShape(t) BY EnsuredKnown, KnownTable
  <2>2. Named(m, Nil) = n BY DEF Named
  <2>3. col.name = spec.col BY DEF Column
  <2>4. VisitSpec(m, spec) = SetTable(m, n, u)
    BY <1>1, <2>1, <2>2 DEF VisitSpec, SchemaAddColumn
  <2> HIDE DEF t, col
  <2>5. Becomes(t, u, {spec.col}) /\ (spec.col \notin Known(t) => u.pos = NoPosition)
    BY <2>1, <2>3, AddColumnBecomes
  <2> HIDE DEF u
  <2>6. /\ Touches(m, SetTable(m, n, u), n, {spec.col}, {})
        /\ SetTable(m, n, u).current = m.current
        /\ TableOf(SetTable(m, n, u), n) = u
    BY <2>5, BecomesTouches DEF t
  <2> QED BY <1>1, <2>4, <2>5, <2>6 DEF NamesVisited, t
<1>2. CASE spec.op = "addForeignKey"
  <2>1. VisitSpec(m, spec) = Using(m, spec.ref) BY <1>2 DEF VisitSpec
  <2> QED BY <1>2, <2>1, UsingTouches
<1>3. CASE spec.op \notin {"addColumn", "modifyColumn", "addForeignKey"}
  <2>1. VisitSpec(m, spec) = m BY <1>3 DEF VisitSpec, AlterOps, KeyDrops
  <2> QED BY <1>3, <2>1, NothingTouches
<1> QED BY <1>1, <1>2, <1>3

\* The specifications are entered one after the other, then visited.
IsSchema(p, m) == SchemaShape(m)

EnterFold(tb, m, spec) == EnterSpec(m, tb, spec)
Entering == INSTANCE Folding WITH Op <- EnterFold, Holds <- IsSchema
EnteredTo(m, tb, specs, k) ==
  FoldLeft(LAMBDA s, spec : EnterSpec(s, tb, spec), m, SubSeq(specs, 1, k))

VisitFold(p, m, spec) == VisitSpec(m, spec)
Visiting == INSTANCE Folding WITH Op <- VisitFold, Holds <- IsSchema
VisitedTo(m, specs, k) == FoldLeft(VisitSpec, m, SubSeq(specs, 1, k))

EntersInSteps(m, tb, specs) ==
  /\ EnteredTo(m, tb, specs, 0) = m
  /\ \A k \in 1 .. Len(specs) :
       EnteredTo(m, tb, specs, k) = EnterSpec(EnteredTo(m, tb, specs, k - 1), tb, specs[k])
  /\ FoldLeft(LAMBDA s, spec : EnterSpec(s, tb, spec), m, specs)
       = EnteredTo(m, tb, specs, Len(specs))
VisitsInSteps(m, specs) ==
  /\ VisitedTo(m, specs, 0) = m
  /\ \A k \in 1 .. Len(specs) :
       VisitedTo(m, specs, k) = VisitSpec(VisitedTo(m, specs, k - 1), specs[k])
  /\ FoldLeft(VisitSpec, m, specs) = VisitedTo(m, specs, Len(specs))

LEMMA EnteredSteps ==
  ASSUME NEW m, NEW tb, NEW specs, IsSeq(specs)
  PROVE  EntersInSteps(m, tb, specs)
<1> DEFINE S == {specs[k] : k \in DOMAIN specs}
<1>1. specs \in Seq(S) BY DEF IsSeq
<1> HIDE DEF S
<1>2. \A b, k : Entering!FoldTo(tb, b, specs, k) = EnteredTo(b, tb, specs, k)
  BY DEF Entering!FoldTo, Entering!Fold, EnteredTo, EnterFold, FoldLeft,
         Entering!MapThenFoldSet, MapThenFoldSet, Entering!GreatestIn, Max
<1>3. Entering!Fold(tb, m, specs) = FoldLeft(LAMBDA s, spec : EnterSpec(s, tb, spec), m, specs)
  BY DEF Entering!Fold, EnterFold, FoldLeft,
         Entering!MapThenFoldSet, MapThenFoldSet, Entering!GreatestIn, Max
<1>4. /\ Entering!FoldTo(tb, m, specs, 0) = m
      /\ \A k \in 1 .. Len(specs) :
           Entering!FoldTo(tb, m, specs, k) = EnterFold(tb, Entering!FoldTo(tb, m, specs, k - 1), specs[k])
      /\ Entering!Fold(tb, m, specs) = Entering!FoldTo(tb, m, specs, Len(specs))
  BY <1>1, Entering!FoldNone, Entering!FoldNext, Entering!FoldAll
<1> QED BY <1>2, <1>3, <1>4 DEF EnterFold, EntersInSteps

LEMMA VisitedSteps ==
  ASSUME NEW m, NEW specs, IsSeq(specs)
  PROVE  VisitsInSteps(m, specs)
<1> DEFINE S == {specs[k] : k \in DOMAIN specs}
<1>1. specs \in Seq(S) BY DEF IsSeq
<1> HIDE DEF S
<1>2. \A b, k : Visiting!FoldTo(0, b, specs, k) = VisitedTo(b, specs, k)
  BY DEF Visiting!FoldTo, Visiting!Fold, VisitedTo, VisitFold, FoldLeft,
         Visiting!MapThenFoldSet, MapThenFoldSet, Visiting!GreatestIn, Max
<1>3. Visiting!Fold(0, m, specs) = FoldLeft(VisitSpec, m, specs)
  BY DEF Visiting!Fold, VisitFold, FoldLeft,
         Visiting!MapThenFoldSet, MapThenFoldSet, Visiting!GreatestIn, Max
<1>4. /\ Visiting!FoldTo(0, m, specs, 0) = m
      /\ \A k \in 1 .. Len(specs) :
           Visiting!FoldTo(0, m, specs, k) = VisitFold(0, Visiting!FoldTo(0, m, specs, k - 1), specs[k])
      /\ Visiting!Fold(0, m, specs) = Visiting!FoldTo(0, m, specs, Len(specs))
  BY <1>1, Visiting!FoldNone, Visiting!FoldNext, Visiting!FoldAll
<1> QED BY <1>2, <1>3, <1>4 DEF VisitFold, VisitsInSteps

\* Every ALTER TABLE keeps the tables.
LEMMA ReadAlterKeepsTables ==
  ASSUME NEW m, SchemaShape(m), Nil \notin KnownTables(m), NEW tb \in KnownTables(m),
         m.current \in KnownTables(m), NEW specs, IsSeq(specs),
         \A k \in DOMAIN specs : specs[k].op \in AlterOps,
         \A k \in DOMAIN specs : specs[k].op = "addForeignKey" => specs[k].ref \in KnownTables(m)
  PROVE  SameTables(m, ReadAlter(m, tb, specs)) /\ ReadAlter(m, tb, specs).current \in KnownTables(m)
<1> DEFINE n == Len(specs)
           E(k) == EnteredTo(m, tb, specs, k)
           e == Using(E(n), tb)
           V(k) == VisitedTo(e, specs, k)
<1>1. n \in Nat /\ DOMAIN specs = 1 .. n BY SeqIs
<1>2. /\ E(0) = m
      /\ \A k \in 1 .. n : E(k) = EnterSpec(E(k - 1), tb, specs[k])
      /\ ReadAlter(m, tb, specs) = FoldLeft(VisitSpec, e, specs)
  <2>1. EntersInSteps(m, tb, specs) BY EnteredSteps
  <2>2. ReadAlter(m, tb, specs) = FoldLeft(VisitSpec, e, specs)
    BY <2>1 DEF ReadAlter, EntersInSteps
  <2> QED BY <2>1, <2>2 DEF EntersInSteps
<1>3. V(0) = e /\ (\A k \in 1 .. n : V(k) = VisitSpec(V(k - 1), specs[k]))
      /\ FoldLeft(VisitSpec, e, specs) = V(n)
  <2> HIDE DEF e
  <2>1. VisitsInSteps(e, specs) BY VisitedSteps
  <2> QED BY <2>1 DEF VisitsInSteps
<1> HIDE DEF E, n
<1>4. SameTables(m, E(n)) /\ E(n).current = m.current
  <2> DEFINE T == {k \in Nat : k <= n => SameTables(m, E(k)) /\ E(k).current = m.current}
  <2>1. 0 \in T
    <3>1. SameTables(m, m) BY DEF SameTables
    <3> QED BY <1>2, <3>1
  <2>2. ASSUME NEW k \in Nat, k \in T PROVE k + 1 \in T
    <3> SUFFICES ASSUME k + 1 <= n PROVE SameTables(m, E(k + 1)) /\ E(k + 1).current = m.current
      OBVIOUS
    <3> DEFINE q == E(k)
               spec == specs[k + 1]
               r == EnterSpec(q, tb, spec)
    <3>1. SameTables(m, q) /\ q.current = m.current BY <1>1, <2>2
    <3>2. k + 1 \in 1 .. n /\ k + 1 - 1 = k BY <1>1
    <3>3. E(k + 1) = r BY <1>2, <3>2
    <3>4. spec.op \in AlterOps BY <1>1, <3>2
    <3> HIDE DEF q, spec
    <3>5. SchemaShape(q) /\ KnownTables(q) = KnownTables(m) BY <3>1 DEF SameTables, KnownTables
    <3>6. EnteredAs(q, r, tb, spec)
      <4>1. tb \in KnownTables(q) /\ tb # Nil /\ q.current \in KnownTables(q) BY <3>1, <3>5
      <4> QED BY <3>4, <3>5, <4>1, EnterSpecTouches
    <3> HIDE DEF r
    <3>7. SameTables(q, r) /\ r.current = q.current BY <3>6 DEF EnteredAs, Touches
    <3> QED BY <3>1, <3>3, <3>7, SameTablesTransitive
  <2> HIDE DEF T
  <2>3. \A k \in Nat : k \in T BY <2>1, <2>2, Entering!EveryNatural
  <2> QED BY <1>1, <2>3 DEF T
<1>5. SameTables(m, e) /\ e.current = tb
  <2> DEFINE q == E(n)
  <2> HIDE DEF q
  <2>1. SameTables(m, q) /\ SchemaShape(q) BY <1>4 DEF SameTables, q
  <2>2. SameTables(q, Using(q, tb)) /\ Using(q, tb).current = tb BY <2>1, UsingTouches DEF Touches
  <2> QED BY <2>1, <2>2, SameTablesTransitive DEF q
<1> HIDE DEF e, V
<1>6. SameTables(m, V(n)) /\ V(n).current \in KnownTables(m)
  <2> DEFINE T == {k \in Nat : k <= n => SameTables(m, V(k)) /\ V(k).current \in KnownTables(m)}
  <2>1. 0 \in T BY <1>3, <1>5
  <2>2. ASSUME NEW k \in Nat, k \in T PROVE k + 1 \in T
    <3> SUFFICES ASSUME k + 1 <= n
                 PROVE  SameTables(m, V(k + 1)) /\ V(k + 1).current \in KnownTables(m)
      OBVIOUS
    <3> DEFINE q == V(k)
               spec == specs[k + 1]
               r == VisitSpec(q, spec)
    <3>1. SameTables(m, q) /\ q.current \in KnownTables(m) BY <1>1, <2>2
    <3>2. k + 1 \in 1 .. n /\ k + 1 - 1 = k BY <1>1
    <3>3. V(k + 1) = r BY <1>3, <3>2
    <3>4. spec.op \in AlterOps /\ (spec.op = "addForeignKey" => spec.ref \in KnownTables(m))
      BY <1>1, <3>2
    <3> HIDE DEF q, spec
    <3>5. SchemaShape(q) /\ KnownTables(q) = KnownTables(m) BY <3>1 DEF SameTables, KnownTables
    <3>6. /\ Touches(q, r, q.current, NamesVisited(spec), {})
          /\ r.current = IF spec.op = "addForeignKey" THEN spec.ref ELSE q.current
      <4>1. q.current \in KnownTables(q) /\ q.current # Nil BY <3>1, <3>5
      <4> QED BY <3>4, <3>5, <4>1, VisitSpecTouches
    <3> HIDE DEF r
    <3>7. SameTables(q, r) BY <3>6 DEF Touches
    <3> QED BY <3>1, <3>3, <3>4, <3>6, <3>7, SameTablesTransitive
  <2> HIDE DEF T
  <2>3. \A k \in Nat : k \in T BY <2>1, <2>2, Entering!EveryNatural
  <2> QED BY <1>1, <2>3 DEF T
<1> QED BY <1>2, <1>3, <1>6

----------------------------------------------------------------------------
(* A statement that stays in its table.                                       *)

\* No position waits at t.
Settled(t) == t.pos.tp \in {"nil", "none"}

\* r is m after a statement of table n: the others are what they were, and n knows no
\* new names but those of N.
Reads(m, r, n, N) ==
  /\ SameTables(m, r)
  /\ \A i \in DOMAIN m.tables.items :
       i # m.tables.id[n] =>
         /\ SameButPosition(m.tables.items[i], r.tables.items[i])
         /\ Settled(m.tables.items[i]) => Settled(r.tables.items[i])
  /\ Known(TableOf(r, n)) \subseteq Known(TableOf(m, n)) \cup N

\* It leaves no position at n.
Settles(m, r, n) == Settled(TableOf(m, n)) => Settled(TableOf(r, n))

ArePlain(P) == \A p \in P : p.tp \in {"nil", "none"}

LEMMA ReadsNothing ==
  ASSUME NEW m, SchemaShape(m), NEW n, NEW N
  PROVE  Reads(m, m, n, N) /\ Settles(m, m, n)
BY DEF Reads, Settles, SameTables, SameButPosition

LEMMA ReadsTransitive ==
  ASSUME NEW m, NEW q, NEW r, NEW n, NEW N, Reads(m, q, n, N), Reads(q, r, n, N)
  PROVE  Reads(m, r, n, N)
<1>1. SameTables(m, r) BY SameTablesTransitive DEF Reads
<1>2. q.tables.id = m.tables.id /\ DOMAIN q.tables.items = DOMAIN m.tables.items
  BY DEF Reads, SameTables
<1>3. ASSUME NEW i \in DOMAIN m.tables.items, i # m.tables.id[n]
      PROVE  /\ SameButPosition(m.tables.items[i], r.tables.items[i])
             /\ Settled(m.tables.items[i]) => Settled(r.tables.items[i])
  BY <1>2, <1>3 DEF Reads, SameButPosition
<1>4. Known(TableOf(r, n)) \subseteq Known(TableOf(m, n)) \cup N BY DEF Reads
<1> QED BY <1>1, <1>3, <1>4 DEF Reads

LEMMA TouchesReads ==
  ASSUME NEW m, SchemaShape(m), NEW r, NEW n, NEW N, NEW P, Touches(m, r, n, N, P)
  PROVE  Reads(m, r, n, N) /\ (ArePlain(P) => Settles(m, r, n))
<1>1. Reads(m, r, n, N) BY DEF Touches, Reads, SameButPosition
<1>2. ArePlain(P) => Settles(m, r, n)
  <2>1. NoPosition.tp = "nil" BY DEF NoPosition
  <2>2. TableOf(r, n).pos \in {TableOf(m, n).pos, NoPosition} \cup P BY DEF Touches
  <2> QED BY <2>1, <2>2 DEF ArePlain, Settles, Settled
<1> QED BY <1>1, <1>2

\* A position that is none may be left at another table.
LEMMA PlainPositionReads ==
  ASSUME NEW m, SchemaShape(m), NEW r, NEW c \in KnownTables(m), NEW n \in KnownTables(m), NEW P,
         Touches(m, r, c, {}, P), ArePlain(P), SameButPosition(TableOf(m, c), TableOf(r, c)), NEW N
  PROVE  Reads(m, r, n, N) /\ Settles(m, r, n)
<1>1. Reads(m, r, c, {}) /\ Settles(m, r, c) BY TouchesReads
<1>2. SchemaShape(r) /\ KnownTables(r) = KnownTables(m) /\ r.tables.id = m.tables.id
  BY <1>1 DEF Reads, SameTables, KnownTables
<1>3. /\ \A k \in KnownTables(m) : TableOf(m, k) = m.tables.items[m.tables.id[k]]
      /\ \A k \in KnownTables(m) : TableOf(r, k) = r.tables.items[m.tables.id[k]]
      /\ \A k \in KnownTables(m) : m.tables.id[k] \in DOMAIN m.tables.items
  BY <1>2, KnownTable
<1>4. ASSUME NEW i \in DOMAIN m.tables.items
      PROVE  /\ SameButPosition(m.tables.items[i], r.tables.items[i])
             /\ Settled(m.tables.items[i]) => Settled(r.tables.items[i])
  <2>1. CASE i = m.tables.id[c] BY <1>1, <1>3, <2>1 DEF Settles
  <2>2. CASE i # m.tables.id[c] BY <1>1, <2>2 DEF Reads
  <2> QED BY <2>1, <2>2
<1>5. Settles(m, r, n) BY <1>3, <1>4 DEF Settles
<1>6. Known(TableOf(r, n)) \subseteq Known(TableOf(m, n)) \cup N
  <2>1. SameButPosition(TableOf(m, n), TableOf(r, n)) BY <1>3, <1>4
  <2>2. TableShape(TableOf(m, n)) /\ TableShape(TableOf(r, n)) BY <1>2, KnownTable
  <2>3. TableOf(r, n).cols = TableOf(m, n).cols
    <3> DEFINE t == TableOf(m, n)
               u == TableOf(r, n)
    <3>1. IsTable(t) /\ IsTable(u) BY <2>2 DEF TableShape
    <3> HIDE DEF t, u
    <3>2. [t EXCEPT !.pos = NoPosition].cols = t.cols /\ [u EXCEPT !.pos = NoPosition].cols = u.cols
      BY <3>1 DEF IsTable
    <3> QED BY <2>1, <3>2 DEF SameButPosition, t, u
  <2> QED BY <2>3 DEF Known
<1> QED BY <1>1, <1>4, <1>5, <1>6 DEF Reads

LEMMA ReadsMoreNames ==
  ASSUME NEW m, NEW r, NEW n, NEW N, NEW S, Reads(m, r, n, S), S \subseteq N
  PROVE  Reads(m, r, n, N)
BY DEF Reads

LEMMA EnterSpecReads ==
  ASSUME NEW m, SchemaShape(m), NEW tb \in KnownTables(m), tb # Nil, m.current \in KnownTables(m),
         NEW spec, spec.op \in AlterOps, spec.op = "addColumn" => spec.pos.tp \in Places,
         IsPositioned(spec) \/ RefersTo(spec) => m.current = tb
  PROVE  /\ Reads(m, EnterSpec(m, tb, spec), tb, NamesEntered(spec))
         /\ ~IsPositioned(spec) => Settles(m, EnterSpec(m, tb, spec), tb)
         /\ EnterSpec(m, tb, spec).current = m.current
<1> DEFINE r == EnterSpec(m, tb, spec)
           c == Entered(m, tb, spec)
           N == NamesEntered(spec)
           P == PositionsEntered(spec)
<1>1. EnteredAs(m, r, tb, spec) BY EnterSpecTouches
<1>2. ~IsPositioned(spec) => ArePlain(P)
  BY DEF IsPositioned, PositionsEntered, ArePlain, Places
<1>3. c # tb => c = m.current /\ spec.op = "addColumn" /\ ~IsPositioned(spec) /\ N = {}
  BY DEF Entered, RefersTo, NamesEntered
<1> HIDE DEF r, c, N, P
<1>4. Touches(m, r, c, N, P) BY <1>1 DEF EnteredAs, r, c, N, P
<1>5. CASE c = tb BY <1>1, <1>2, <1>4, <1>5, TouchesReads DEF EnteredAs, r, N
<1>6. CASE c # tb
  <2>1. SameButPosition(TableOf(m, c), TableOf(r, c)) BY <1>1, <1>3, <1>6 DEF EnteredAs
  <2>2. c \in KnownTables(m) /\ Touches(m, r, c, {}, P) /\ ArePlain(P) BY <1>2, <1>3, <1>4, <1>6
  <2>3. Reads(m, r, tb, N) /\ Settles(m, r, tb) BY <2>1, <2>2, PlainPositionReads
  <2> QED BY <1>1, <2>3 DEF EnteredAs, r, N
<1> QED BY <1>5, <1>6

LEMMA VisitSpecReads ==
  ASSUME NEW m, SchemaShape(m), m.current \in KnownTables(m), m.current # Nil,
         NEW tb \in KnownTables(m), NEW spec, spec.op \in AlterOps, Defines(spec) => m.current = tb
  PROVE  /\ Reads(m, VisitSpec(m, spec), tb, NamesVisited(spec))
         /\ Settles(m, VisitSpec(m, spec), tb)
         /\ VisitSpec(m, spec).current = IF RefersTo(spec) THEN spec.ref ELSE m.current
         /\ Defines(spec) /\ spec.col \notin Known(TableOf(m, tb)) =>
              Settled(TableOf(VisitSpec(m, spec), tb))
<1> DEFINE r == VisitSpec(m, spec)
           N == NamesVisited(spec)
<1>1. ArePlain({}) BY DEF ArePlain
<1>2. CASE Defines(spec)
  <2>1. /\ Touches(m, r, tb, N, {}) /\ ~RefersTo(spec) /\ r.current = m.current
        /\ spec.col \notin Known(TableOf(m, tb)) => TableOf(r, tb).pos = NoPosition
    BY <1>2, VisitSpecTouches DEF Defines, RefersTo
  <2> HIDE DEF r, N
  <2>2. Reads(m, r, tb, N) /\ Settles(m, r, tb) BY <1>1, <2>1, TouchesReads
  <2> QED BY <2>1, <2>2 DEF r, N, Settled, NoPosition
<1>3. CASE RefersTo(spec)
  <2>1. r = Using(m, spec.ref) /\ ~Defines(spec) BY <1>3 DEF VisitSpec, RefersTo, Defines
  <2> HIDE DEF r, N
  <2>2. Touches(m, r, tb, N, {}) /\ r.current = spec.ref BY <2>1, UsingTouches
  <2>3. Reads(m, r, tb, N) /\ Settles(m, r, tb) BY <1>1, <2>2, TouchesReads
  <2> QED BY <1>3, <2>1, <2>2, <2>3 DEF r, N
<1>4. CASE ~Defines(spec) /\ ~RefersTo(spec)
  <2>1. r = m BY <1>4 DEF VisitSpec, AlterOps, KeyDrops, Defines, RefersTo
  <2> HIDE DEF r, N
  <2>2. Reads(m, r, tb, N) /\ Settles(m, r, tb) BY <2>1, ReadsNothing
  <2> QED BY <1>4, <2>1, <2>2 DEF r, N
<1> QED BY <1>2, <1>3, <1>4

\* What is known of an ALTER TABLE of tb that stays in its table, N being all the names
\* that it mentions.
AlterPremise(tb, specs, N) ==
  /\ SchemaShape(schema) /\ Nil \notin KnownTables(schema)
  /\ tb \in KnownTables(schema) /\ schema.current \in KnownTables(schema)
  /\ Settled(TableOf(schema, tb))
  /\ IsSeq(specs)
  /\ StaysInTable(tb, specs)
  /\ \A k \in DOMAIN specs :
       /\ specs[k].op \in AlterOps
       /\ specs[k].op = "addColumn" => specs[k].pos.tp \in Places
       /\ RefersTo(specs[k]) => specs[k].ref \in KnownTables(schema)
       /\ NamesEntered(specs[k]) \subseteq N
       /\ NamesVisited(specs[k]) \subseteq N
  /\ \A k \in DOMAIN specs : IsPositioned(specs[k]) =>
       /\ specs[k].col \notin Known(TableOf(schema, tb))
       /\ \A j \in DOMAIN specs : specs[k].col \notin NamesEntered(specs[j])

\* The column that a waiting position is for is still to come.
Awaits(m, tb, specs, k) ==
  \E j \in DOMAIN specs :
    j > k /\ IsPositioned(specs[j]) /\ specs[j].col \notin Known(TableOf(m, tb))

\* Entering the specifications: every positioned column is still unknown after it.
AfterEntering(m, tb, specs, N) ==
  /\ Reads(schema, m, tb, N)
  /\ m.current = schema.current
  /\ Settled(TableOf(m, tb)) \/ \E k \in DOMAIN specs : IsPositioned(specs[k])
  /\ \A k \in DOMAIN specs : IsPositioned(specs[k]) => specs[k].col \notin Known(TableOf(m, tb))

LEMMA EnterOneMore ==
  ASSUME NEW tb, NEW specs, NEW N, AlterPremise(tb, specs, N),
         NEW m, AfterEntering(m, tb, specs, N), NEW k \in DOMAIN specs
  PROVE  AfterEntering(EnterSpec(m, tb, specs[k]), tb, specs, N)
<1> DEFINE spec == specs[k]
           r == EnterSpec(m, tb, spec)
<1>1. /\ spec.op \in AlterOps /\ (spec.op = "addColumn" => spec.pos.tp \in Places)
      /\ NamesEntered(spec) \subseteq N
  BY DEF AlterPremise
<1>2. SchemaShape(m) /\ KnownTables(m) = KnownTables(schema) /\ m.current = schema.current
  BY DEF AfterEntering, Reads, SameTables, KnownTables
<1>3. tb \in KnownTables(m) /\ tb # Nil /\ m.current \in KnownTables(m)
  BY <1>2 DEF AlterPremise
<1>4. IsPositioned(spec) \/ RefersTo(spec) => m.current = tb
  BY <1>2 DEF AlterPremise, StaysInTable
<1>5. \A j \in DOMAIN specs : IsPositioned(specs[j]) => specs[j].col \notin NamesEntered(spec)
  BY DEF AlterPremise
<1>6. IsPositioned(spec) => \E j \in DOMAIN specs : IsPositioned(specs[j]) OBVIOUS
<1> HIDE DEF spec
<1>7. /\ Reads(m, r, tb, NamesEntered(spec)) /\ (~IsPositioned(spec) => Settles(m, r, tb))
      /\ r.current = m.current
  BY <1>1, <1>2, <1>3, <1>4, EnterSpecReads
<1> HIDE DEF r
<1>8. Reads(schema, r, tb, N)
  <2>1. Reads(m, r, tb, N) BY <1>1, <1>7, ReadsMoreNames
  <2>2. Reads(schema, m, tb, N) BY DEF AfterEntering
  <2> QED BY <2>1, <2>2, ReadsTransitive
<1>9. Settled(TableOf(r, tb)) \/ \E j \in DOMAIN specs : IsPositioned(specs[j])
  BY <1>6, <1>7 DEF AfterEntering, Settles
<1>10. ASSUME NEW j \in DOMAIN specs, IsPositioned(specs[j])
       PROVE  specs[j].col \notin Known(TableOf(r, tb))
  <2>1. specs[j].col \notin Known(TableOf(m, tb)) BY <1>10 DEF AfterEntering
  <2>2. specs[j].col \notin NamesEntered(spec) BY <1>5, <1>10
  <2>3. Known(TableOf(r, tb)) \subseteq Known(TableOf(m, tb)) \cup NamesEntered(spec)
    BY <1>7 DEF Reads
  <2> QED BY <2>1, <2>2, <2>3
<1>11. AfterEntering(r, tb, specs, N) BY <1>2, <1>7, <1>8, <1>9, <1>10 DEF AfterEntering
<1> QED BY <1>11 DEF r, spec

\* Visiting them: the current table is tb until one refers to another table.
AfterVisiting(m, tb, specs, N, k) ==
  /\ Reads(schema, m, tb, N)
  /\ m.current \in KnownTables(schema)
  /\ (\A j \in 1 .. k : ~RefersTo(specs[j])) => m.current = tb
  /\ Settled(TableOf(m, tb)) \/ Awaits(m, tb, specs, k)

\* A positioned column is the only definition.
LEMMA OnlyDefinition ==
  ASSUME NEW tb, NEW specs, IsSeq(specs), StaysInTable(tb, specs),
         NEW j \in DOMAIN specs, IsPositioned(specs[j]), NEW k \in DOMAIN specs, Defines(specs[k])
  PROVE  k = j
<1> DEFINE D == {i \in DOMAIN specs : Defines(specs[i])}
<1>1. IsFiniteSet(D)
  <2>1. Len(specs) \in Nat /\ DOMAIN specs = 1 .. Len(specs) BY SeqIs
  <2>2. 1 \in Int /\ Len(specs) \in Int BY <2>1
  <2>3. IsFiniteSet(1 .. Len(specs)) BY <2>2, FS_Interval
  <2>4. D \subseteq 1 .. Len(specs) BY <2>1
  <2> HIDE DEF D
  <2> QED BY <2>3, <2>4, FS_Subset
<1>2. Cardinality(D) = 1 BY DEF StaysInTable
<1>3. j \in D /\ k \in D BY DEF IsPositioned, Defines
<1> HIDE DEF D
<1>4. \E x : D = {x} BY <1>1, <1>2, FS_Singleton
<1> QED BY <1>3, <1>4

LEMMA VisitOneMore ==
  ASSUME NEW tb, NEW specs, NEW N, AlterPremise(tb, specs, N),
         NEW m, NEW i \in Nat, NEW k \in DOMAIN specs, k = i + 1, AfterVisiting(m, tb, specs, N, i)
  PROVE  AfterVisiting(VisitSpec(m, specs[k]), tb, specs, N, k)
<1> DEFINE spec == specs[k]
           r == VisitSpec(m, spec)
<1>1. Len(specs) \in Nat /\ DOMAIN specs = 1 .. Len(specs) BY SeqIs DEF AlterPremise
<1>2. /\ spec.op \in AlterOps /\ NamesVisited(spec) \subseteq N
      /\ RefersTo(spec) => spec.ref \in KnownTables(schema)
  BY DEF AlterPremise
<1>3. SchemaShape(m) /\ KnownTables(m) = KnownTables(schema)
  BY DEF AfterVisiting, Reads, SameTables, KnownTables
<1>4. tb \in KnownTables(m) /\ m.current # Nil /\ m.current \in KnownTables(m)
  BY <1>3 DEF AlterPremise, AfterVisiting
<1>5. Defines(spec) => m.current = tb
  <2> SUFFICES ASSUME Defines(spec) PROVE \A j \in 1 .. i : ~RefersTo(specs[j])
    BY DEF AfterVisiting
  <2>1. ASSUME NEW j \in 1 .. i, RefersTo(specs[j]) PROVE FALSE
    <3>1. j \in DOMAIN specs /\ ~(k < j) BY <1>1, <2>1
    <3>2. k \in {d \in DOMAIN specs : Defines(specs[d])} OBVIOUS
    <3>3. \A d \in {d \in DOMAIN specs : Defines(specs[d])} : d < j
      BY <2>1, <3>1 DEF AlterPremise, StaysInTable
    <3> QED BY <3>1, <3>2, <3>3
  <2> QED BY <2>1
<1>6. ASSUME NEW j \in DOMAIN specs, IsPositioned(specs[j]), j # k PROVE ~Defines(spec)
  BY <1>6, OnlyDefinition DEF AlterPremise
<1>7. IsPositioned(spec) => Defines(spec) BY DEF IsPositioned, Defines
<1> HIDE DEF spec
<1>8. /\ Reads(m, r, tb, NamesVisited(spec)) /\ Settles(m, r, tb)
      /\ r.current = IF RefersTo(spec) THEN spec.ref ELSE m.current
      /\ Defines(spec) /\ spec.col \notin Known(TableOf(m, tb)) => Settled(TableOf(r, tb))
  BY <1>2, <1>3, <1>4, <1>5, VisitSpecReads
<1> HIDE DEF r
<1>9. Reads(schema, r, tb, N)
  <2>1. Reads(m, r, tb, N) BY <1>2, <1>8, ReadsMoreNames
  <2>2. Reads(schema, m, tb, N) BY DEF AfterVisiting
  <2> QED BY <2>1, <2>2, ReadsTransitive
<1>10. r.current \in KnownTables(schema) BY <1>2, <1>8 DEF AfterVisiting
<1>11. (\A j \in 1 .. k : ~RefersTo(specs[j])) => r.current = tb
  <2> SUFFICES ASSUME \A j \in 1 .. k : ~RefersTo(specs[j]) PROVE r.current = tb OBVIOUS
  <2>1. k \in 1 .. k /\ \A j \in 1 .. i : j \in 1 .. k OBVIOUS
  <2>2. ~RefersTo(spec) BY <2>1 DEF spec
  <2> QED BY <1>8, <2>1, <2>2 DEF AfterVisiting
<1>12. Settled(TableOf(r, tb)) \/ Awaits(r, tb, specs, k)
  <2>1. CASE Settled(TableOf(m, tb)) BY <1>8, <2>1 DEF Settles
  <2>2. CASE Awaits(m, tb, specs, i)
    <3>1. PICK j \in DOMAIN specs :
            j > i /\ IsPositioned(specs[j]) /\ specs[j].col \notin Known(TableOf(m, tb))
      BY <2>2 DEF Awaits
    <3>2. CASE j = k BY <1>7, <1>8, <3>1, <3>2 DEF spec
    <3>3. CASE j # k
      <4>1. ~Defines(spec) BY <1>6, <3>1, <3>3
      <4>2. NamesVisited(spec) = {} BY <4>1 DEF NamesVisited, Defines
      <4>3. specs[j].col \notin Known(TableOf(r, tb)) BY <1>8, <3>1, <4>2 DEF Reads
      <4>4. j > k BY <1>1, <3>1, <3>3
      <4> QED BY <3>1, <4>3, <4>4 DEF Awaits
    <3> QED BY <3>2, <3>3
  <2> QED BY <2>1, <2>2 DEF AfterVisiting
<1>13. AfterVisiting(r, tb, specs, N, k) BY <1>9, <1>10, <1>11, <1>12 DEF AfterVisiting
<1> QED BY <1>13 DEF r, spec

\* The schema once the first k specifications have been entered, and visited.
SchemaEntered(tb, specs, k) == EnteredTo(schema, tb, specs, k)
SchemaVisited(tb, specs, k) ==
  VisitedTo(Using(SchemaEntered(tb, specs, Len(specs)), tb), specs, k)
ReadsInOrder(tb, specs, N) ==
  /\ SchemaEntered(tb, specs, 0) = schema
  /\ SchemaVisited(tb, specs, 0) = Using(SchemaEntered(tb, specs, Len(specs)), tb)
  /\ ReadAlter(schema, tb, specs) = SchemaVisited(tb, specs, Len(specs))
  /\ \A k \in 1 .. Len(specs) :
       /\ SchemaEntered(tb, specs, k) = EnterSpec(SchemaEntered(tb, specs, k - 1), tb, specs[k])
       /\ SchemaVisited(tb, specs, k) = VisitSpec(SchemaVisited(tb, specs, k - 1), specs[k])
  /\ \A k \in 0 .. Len(specs) :
       /\ AfterEntering(SchemaEntered(tb, specs, k), tb, specs, N)
       /\ AfterVisiting(SchemaVisited(tb, specs, k), tb, specs, N, k)

LEMMA AlterReadsInOrder ==
  ASSUME NEW tb, NEW specs, NEW N, AlterPremise(tb, specs, N)
  PROVE  ReadsInOrder(tb, specs, N)
<1> DEFINE n == Len(specs)
           E(k) == EnteredTo(schema, tb, specs, k)
           e == Using(E(n), tb)
           V(k) == VisitedTo(e, specs, k)
<1>0. /\ \A k : SchemaEntered(tb, specs, k) = E(k)
      /\ \A k : SchemaVisited(tb, specs, k) = V(k)
  BY DEF SchemaEntered, SchemaVisited
<1>1. n \in Nat /\ DOMAIN specs = 1 .. n /\ IsSeq(specs) BY SeqIs DEF AlterPremise
<1>2. /\ E(0) = schema
      /\ \A k \in 1 .. n : E(k) = EnterSpec(E(k - 1), tb, specs[k])
      /\ ReadAlter(schema, tb, specs) = FoldLeft(VisitSpec, e, specs)
  <2>1. EntersInSteps(schema, tb, specs) BY <1>1, EnteredSteps
  <2>2. ReadAlter(schema, tb, specs) = FoldLeft(VisitSpec, e, specs)
    BY <2>1 DEF ReadAlter, EntersInSteps
  <2> QED BY <2>1, <2>2 DEF EntersInSteps
<1>3. V(0) = e /\ (\A k \in 1 .. n : V(k) = VisitSpec(V(k - 1), specs[k]))
      /\ FoldLeft(VisitSpec, e, specs) = V(n)
  <2> HIDE DEF e
  <2>1. VisitsInSteps(e, specs) BY <1>1, VisitedSteps
  <2> QED BY <2>1 DEF VisitsInSteps
<1>14. e = Using(E(n), tb) OBVIOUS
<1> HIDE DEF E, n
<1>4. \A k \in 0 .. n : AfterEntering(E(k), tb, specs, N)
  <2> DEFINE T == {k \in Nat : k <= n => AfterEntering(E(k), tb, specs, N)}
  <2>1. 0 \in T
    <3>1. Reads(schema, schema, tb, N) BY ReadsNothing DEF AlterPremise
    <3>2. AfterEntering(schema, tb, specs, N) BY <3>1 DEF AfterEntering, AlterPremise
    <3> QED BY <1>2, <3>2
  <2>2. ASSUME NEW k \in Nat, k \in T PROVE k + 1 \in T
    <3> SUFFICES ASSUME k + 1 <= n PROVE AfterEntering(E(k + 1), tb, specs, N) OBVIOUS
    <3> DEFINE q == E(k)
               j == k + 1
    <3>1. AfterEntering(q, tb, specs, N) BY <1>1, <2>2
    <3>2. j \in 1 .. n /\ j - 1 = k BY <1>1
    <3>3. E(j) = EnterSpec(q, tb, specs[j]) BY <1>2, <3>2
    <3> HIDE DEF q, j
    <3>4. AfterEntering(EnterSpec(q, tb, specs[j]), tb, specs, N)
      BY <1>1, <3>1, <3>2, EnterOneMore
    <3> QED BY <3>3, <3>4 DEF j
  <2> HIDE DEF T
  <2>3. \A k \in Nat : k \in T BY <2>1, <2>2, Entering!EveryNatural
  <2> QED BY <1>1, <2>3 DEF T
<1>5. AfterVisiting(e, tb, specs, N, 0)
  <2> DEFINE q == E(n)
  <2>1. AfterEntering(q, tb, specs, N) BY <1>1, <1>4
  <2> HIDE DEF q
  <2>2. Reads(schema, q, tb, N) /\ SchemaShape(q) BY <2>1 DEF AfterEntering, Reads, SameTables
  <2>3. e = Using(q, tb) BY DEF q
  <2> HIDE DEF e
  <2>4. Touches(q, e, tb, N, {}) /\ e.current = tb BY <2>2, <2>3, UsingTouches
  <2>5. Reads(q, e, tb, N) BY <2>2, <2>4, TouchesReads
  <2>6. Reads(schema, e, tb, N) BY <2>2, <2>5, ReadsTransitive
  <2>7. Settled(TableOf(e, tb)) \/ Awaits(e, tb, specs, 0)
    <3>1. TableOf(e, tb) = TableOf(q, tb) BY <2>2, <2>3 DEF Using, TableOf, SchemaShape
    <3>2. \A k \in DOMAIN specs : k > 0 BY <1>1
    <3> QED BY <2>1, <3>1, <3>2 DEF AfterEntering, Awaits
  <2> QED BY <2>4, <2>6, <2>7 DEF AfterVisiting, AlterPremise
<1> HIDE DEF e, V
<1>6. \A k \in 0 .. n : AfterVisiting(V(k), tb, specs, N, k)
  <2> DEFINE T == {k \in Nat : k <= n => AfterVisiting(V(k), tb, specs, N, k)}
  <2>1. 0 \in T BY <1>3, <1>5
  <2>2. ASSUME NEW k \in Nat, k \in T PROVE k + 1 \in T
    <3> SUFFICES ASSUME k + 1 <= n PROVE AfterVisiting(V(k + 1), tb, specs, N, k + 1) OBVIOUS
    <3> DEFINE q == V(k)
               j == k + 1
    <3>1. AfterVisiting(q, tb, specs, N, k) BY <1>1, <2>2
    <3>2. j \in 1 .. n /\ j - 1 = k /\ j = k + 1 BY <1>1
    <3>3. V(j) = VisitSpec(q, specs[j]) BY <1>3, <3>2
    <3> HIDE DEF q, j
    <3>4. AfterVisiting(VisitSpec(q, specs[j]), tb, specs, N, j)
      BY <1>1, <3>1, <3>2, VisitOneMore
    <3> QED BY <3>3, <3>4 DEF j
  <2> HIDE DEF T
  <2>3. \A k \in Nat : k \in T BY <2>1, <2>2, Entering!EveryNatural
  <2> QED BY <1>1, <2>3 DEF T
<1> QED BY <1>0, <1>2, <1>3, <1>4, <1>6, <1>14 DEF ReadsInOrder, n

\* So all of it is read into table tb, and no position waits after it.
LEMMA ReadAlterReads ==
  ASSUME NEW tb, NEW specs, NEW N, AlterPremise(tb, specs, N)
  PROVE  /\ Reads(schema, ReadAlter(schema, tb, specs), tb, N)
         /\ Settled(TableOf(ReadAlter(schema, tb, specs), tb))
<1> DEFINE n == Len(specs)
           r == ReadAlter(schema, tb, specs)
<1>1. n \in Nat /\ DOMAIN specs = 1 .. n /\ n \in 0 .. n BY SeqIs DEF AlterPremise
<1>2. ReadsInOrder(tb, specs, N) BY AlterReadsInOrder
<1>3. AfterVisiting(r, tb, specs, N, n) BY <1>1, <1>2 DEF ReadsInOrder
<1>4. ~Awaits(r, tb, specs, n) BY <1>1 DEF Awaits
<1> QED BY <1>3, <1>4 DEF AfterVisiting

----------------------------------------------------------------------------
(* CREATE TABLE.                                                              *)

\* r is m with a table n that is new or replaces the one of its name.
Gains(m, r, n) ==
  /\ SchemaShape(r)
  /\ KnownTables(r) = KnownTables(m) \cup {n}
  /\ \A k \in KnownTables(m) \ {n} : TableOf(r, k) = TableOf(m, k)
  /\ \A i \in DOMAIN r.tables.items :
       i # r.tables.id[n] => i \in DOMAIN m.tables.items /\ r.tables.items[i] = m.tables.items[i]

LEMMA AddTableGains ==
  ASSUME NEW m, SchemaShape(m), NEW t, TableShape(t)
  PROVE  /\ Gains(m, AddTable(m, t), t.name)
         /\ TableOf(AddTable(m, t), t.name) = t
         /\ AddTable(m, t).current = m.current
<1> DEFINE n == t.name
           l == PutItem(m.tables, t)
           r == AddTable(m, t)
<1>1. r = [tables |-> l, current |-> m.current] BY DEF AddTable, SchemaShape
<1>2. Len(m.tables.items) \in Nat /\ DOMAIN m.tables.items = 1 .. Len(m.tables.items)
  BY SeqIs DEF SchemaShape
<1>3. \A k \in KnownTables(m) :
        m.tables.id[k] \in DOMAIN m.tables.items /\ m.tables.items[m.tables.id[k]].name = k
  BY KnownTable
<1>4. CASE n \in KnownTables(m)
  <2> DEFINE i == m.tables.id[n]
  <2>1. i \in DOMAIN m.tables.items /\ IdOf(m.tables, n) = i /\ i # 0 BY <1>2, <1>3, <1>4, KnownTable
  <2> DEFINE items == [m.tables.items EXCEPT ![i] = t]
  <2>2. l = [items |-> items, id |-> m.tables.id] BY <2>1 DEF PutItem, SetItem
  <2>3. IsSeq(items) /\ DOMAIN items = DOMAIN m.tables.items /\ Len(items) = Len(m.tables.items)
    BY SetSeq DEF SchemaShape
  <2>4. items[i] = t /\ \A j \in DOMAIN m.tables.items : j # i => items[j] = m.tables.items[j]
    BY <2>1
  <2> HIDE DEF items, i, l
  <2>5. r.tables.items = items /\ r.tables.id = m.tables.id /\ r.current = m.current
    BY <1>1, <2>2
  <2>6. r \in [tables : {r.tables}, current : {r.current}]
        /\ r.tables \in [items : {r.tables.items}, id : {r.tables.id}]
    BY <1>1, <2>2
  <2> HIDE DEF r
  <2>7. ASSUME NEW k \in KnownTables(m)
        PROVE  m.tables.id[k] \in 1 .. Len(items) /\ items[m.tables.id[k]].name = k
    <3>1. CASE m.tables.id[k] = i BY <1>2, <1>3, <1>4, <2>1, <2>3, <2>4, <3>1 DEF i
    <3>2. CASE m.tables.id[k] # i BY <1>2, <1>3, <2>3, <2>4, <3>2
    <3> QED BY <3>1, <3>2
  <2>8. Coherent(r.tables) BY <2>5, <2>7 DEF Coherent, KnownTables
  <2>9. \A j \in DOMAIN items : TableShape(items[j]) BY <2>3, <2>4 DEF SchemaShape
  <2>10. SchemaShape(r) BY <2>3, <2>5, <2>6, <2>8, <2>9 DEF SchemaShape
  <2>11. KnownTables(r) = KnownTables(m) \cup {n} BY <1>4, <2>5 DEF KnownTables
  <2>12. TableOf(r, n) = t BY <2>1, <2>4, <2>5 DEF TableOf, IdOf
  <2>13. ASSUME NEW k \in KnownTables(m) \ {n} PROVE TableOf(r, k) = TableOf(m, k)
    <3>1. m.tables.id[k] # i BY <1>3, <1>4 DEF i
    <3>2. TableOf(m, k) = m.tables.items[m.tables.id[k]] BY KnownTable
    <3>3. TableOf(r, k) = items[m.tables.id[k]] BY <2>5, <2>10, <2>11, KnownTable
    <3> QED BY <1>3, <2>4, <3>1, <3>2, <3>3
  <2>14. Gains(m, r, n) BY <2>3, <2>4, <2>5, <2>10, <2>11, <2>12, <2>13 DEF Gains, i
  <2> QED BY <2>5, <2>12, <2>14 DEF r
<1>5. CASE n \notin KnownTables(m)
  <2> DEFINE items == Append(m.tables.items, t)
             i == Len(m.tables.items) + 1
  <2>1. IdOf(m.tables, n) = 0 BY <1>5 DEF IdOf, KnownTables
  <2>2. l = [items |-> items, id |-> Point(m.tables, n, i)] BY <2>1 DEF PutItem, AppendItem
  <2>3. IsSeq(items) /\ Len(items) = i BY AppendSeq DEF SchemaShape
  <2>4. items[i] = t /\ \A j \in DOMAIN m.tables.items : items[j] = m.tables.items[j]
    BY <1>2
  <2>5. i \in Nat /\ DOMAIN items = 1 .. i BY <1>2, <2>3, SeqIs
  <2> HIDE DEF items, l
  <2>6. r.tables.items = items /\ r.tables.id = Point(m.tables, n, i) /\ r.current = m.current
    BY <1>1, <2>2
  <2>7. r \in [tables : {r.tables}, current : {r.current}]
        /\ r.tables \in [items : {r.tables.items}, id : {r.tables.id}]
    BY <1>1, <2>2
  <2> HIDE DEF r
  <2>8. KnownTables(r) = KnownTables(m) \cup {n} BY <2>6 DEF KnownTables, Point
  <2>9. /\ r.tables.id[n] = i
        /\ \A k \in KnownTables(m) : r.tables.id[k] = m.tables.id[k]
    BY <1>5, <2>6 DEF KnownTables, Point
  <2>10. ASSUME NEW k \in KnownTables(r)
         PROVE  r.tables.id[k] \in 1 .. Len(items) /\ items[r.tables.id[k]].name = k
    <3>1. CASE k = n BY <1>2, <2>3, <2>4, <2>9, <3>1
    <3>2. CASE k # n
      <4> DEFINE j == m.tables.id[k]
      <4>1. k \in KnownTables(m) BY <2>8, <3>2
      <4>2. r.tables.id[k] = j BY <2>9, <4>1
      <4>3. j \in DOMAIN m.tables.items /\ m.tables.items[j].name = k BY <1>3, <4>1
      <4>4. j \in 1 .. Len(items) BY <1>2, <2>3, <4>3
      <4>5. items[j].name = k BY <2>4, <4>3
      <4> QED BY <4>2, <4>4, <4>5
    <3> QED BY <3>1, <3>2
  <2>11. Coherent(r.tables) BY <2>6, <2>10 DEF Coherent, KnownTables
  <2>12. \A j \in DOMAIN items : TableShape(items[j])
    <3>1. \A j \in DOMAIN items : j = i \/ j \in DOMAIN m.tables.items BY <1>2, <2>5
    <3> HIDE DEF i
    <3> QED BY <2>4, <3>1 DEF SchemaShape
  <2>13. SchemaShape(r) BY <2>3, <2>6, <2>7, <2>11, <2>12 DEF SchemaShape
  <2>14. TableOf(r, n) = t
    <3>1. n \in KnownTables(r) BY <2>8
    <3>2. TableOf(r, n) = r.tables.items[r.tables.id[n]] BY <2>13, <3>1, KnownTable
    <3> QED BY <2>4, <2>6, <2>9, <3>2
  <2>15. ASSUME NEW k \in KnownTables(m) \ {n} PROVE TableOf(r, k) = TableOf(m, k)
    <3>1. k \in KnownTables(r) BY <2>8
    <3>2. TableOf(r, k) = r.tables.items[r.tables.id[k]] BY <2>13, <3>1, KnownTable
    <3>3. TableOf(m, k) = m.tables.items[m.tables.id[k]] BY KnownTable
    <3> QED BY <1>3, <2>4, <2>6, <2>9, <3>2, <3>3
  <2>16. \A j \in DOMAIN items : j = i \/ j \in DOMAIN m.tables.items BY <1>2, <2>5
  <2> HIDE DEF i
  <2>17. Gains(m, r, n) BY <2>4, <2>6, <2>8, <2>9, <2>13, <2>15, <2>16 DEF Gains
  <2> QED BY <2>6, <2>14, <2>17 DEF r
<1> QED BY <1>4, <1>5

\* Its indexes are read into the table before the schema knows it, its columns after.
IndexFold(p, t, idx) == AddIndex(t, idx)
KeepsTable(p, t) == Keeps(p, t, {})
Indexing == INSTANCE Folding WITH Op <- IndexFold, Holds <- KeepsTable

LEMMA IndexesRead ==
  ASSUME NEW t, TableShape(t), NEW idxs, IsSeq(idxs)
  PROVE  Keeps(t, FoldLeft(AddIndex, t, idxs), {})
<1> DEFINE S == {idxs[k] : k \in DOMAIN idxs}
<1>1. idxs \in Seq(S) BY DEF IsSeq
<1> HIDE DEF S
<1>2. KeepsTable(t, t) BY DEF KeepsTable, Keeps, Becomes
<1>3. Indexing!Kept(t, idxs)
  <2>1. ASSUME NEW q, Keeps(t, q, {}), NEW idx PROVE Keeps(t, AddIndex(q, idx), {})
    <3>1. Keeps(q, AddIndex(q, idx), {}) BY <2>1, IndexMethodsBecome DEF Keeps, Becomes
    <3> QED BY <2>1, <3>1 DEF Keeps, Becomes
  <2> QED BY <2>1 DEF Indexing!Kept, KeepsTable, IndexFold
<1>4. KeepsTable(t, Indexing!Fold(t, t, idxs)) BY <1>1, <1>2, <1>3, Indexing!FoldKeeps
<1>5. Indexing!Fold(t, t, idxs) = FoldLeft(AddIndex, t, idxs)
  BY DEF Indexing!Fold, IndexFold, FoldLeft,
         Indexing!MapThenFoldSet, MapThenFoldSet, Indexing!GreatestIn, Max
<1> QED BY <1>4, <1>5 DEF KeepsTable

ColumnFold(p, m, col) == SchemaAddColumn(m, Nil, col)
Defining == INSTANCE Folding WITH Op <- ColumnFold, Holds <- IsSchema

LEMMA ColumnsRead ==
  ASSUME NEW m, SchemaShape(m), m.current \in KnownTables(m), m.current # Nil,
         NEW cols, IsSeq(cols), NEW N, \A k \in DOMAIN cols : cols[k].name \in N
  PROVE  /\ Touches(m, FoldLeft(LAMBDA s, c : SchemaAddColumn(s, Nil, c), m, cols), m.current, N, {})
         /\ FoldLeft(LAMBDA s, c : SchemaAddColumn(s, Nil, c), m, cols).current = m.current
<1> DEFINE S == {cols[k] : k \in DOMAIN cols}
           n == Len(cols)
           tb == m.current
           F(k) == Defining!FoldTo(0, m, cols, k)
<1>1. cols \in Seq(S) BY DEF IsSeq
<1>2. n \in Nat /\ DOMAIN cols = 1 .. n BY SeqIs
<1> HIDE DEF S
<1>3. F(0) = m BY <1>1, Defining!FoldNone
<1>4. \A k \in 1 .. n : F(k) = SchemaAddColumn(F(k - 1), Nil, cols[k])
  <2>1. \A k \in 1 .. n : F(k) = ColumnFold(0, F(k - 1), cols[k]) BY <1>1, Defining!FoldNext
  <2> QED BY <2>1 DEF ColumnFold
<1>5. FoldLeft(LAMBDA s, c : SchemaAddColumn(s, Nil, c), m, cols) = F(n)
  <2>1. Defining!Fold(0, m, cols) = F(n) BY <1>1, Defining!FoldAll
  <2>2. Defining!Fold(0, m, cols) = FoldLeft(LAMBDA s, c : SchemaAddColumn(s, Nil, c), m, cols)
    BY DEF Defining!Fold, ColumnFold, FoldLeft,
           Defining!MapThenFoldSet, MapThenFoldSet, Defining!GreatestIn, Max
  <2> QED BY <2>1, <2>2
<1> HIDE DEF F, n
<1> DEFINE T == {k \in Nat : k <= n => Touches(m, F(k), tb, N, {}) /\ F(k).current = tb}
<1>6. 0 \in T BY <1>3, NothingTouches
<1>7. ASSUME NEW k \in Nat, k \in T PROVE k + 1 \in T
  <2> SUFFICES ASSUME k + 1 <= n
               PROVE  Touches(m, F(k + 1), tb, N, {}) /\ F(k + 1).current = tb
    OBVIOUS
  <2> DEFINE q == F(k)
             col == cols[k + 1]
             t == TableOf(q, tb)
             u == AddColumn(t, col)
  <2>1. Touches(m, q, tb, N, {}) /\ q.current = tb BY <1>2, <1>7
  <2>2. k + 1 \in 1 .. n /\ k + 1 - 1 = k BY <1>2
  <2>3. F(k + 1) = SchemaAddColumn(q, Nil, col) BY <1>4, <2>2
  <2>4. col.name \in N BY <1>2, <2>2
  <2> HIDE DEF q, col, T
  <2>5. SchemaShape(q) /\ tb \in KnownTables(q) BY <2>1 DEF Touches, SameTables, KnownTables
  <2>6. Ensured(q, tb) = q /\ TableShape(t) BY <2>5, EnsuredKnown, KnownTable
  <2>7. Named(q, Nil) = tb BY <2>1 DEF Named
  <2>8. SchemaAddColumn(q, Nil, col) = SetTable(q, tb, u) BY <2>6, <2>7 DEF SchemaAddColumn
  <2> HIDE DEF t
  <2>9. Becomes(t, u, {col.name}) BY <2>6, AddColumnBecomes
  <2>10. Becomes(t, u, N) BY <2>4, <2>9 DEF Becomes
  <2> HIDE DEF u, tb
  <2>11. Touches(q, SetTable(q, tb, u), tb, N, {}) /\ SetTable(q, tb, u).current = q.current
    BY <2>5, <2>10, BecomesTouches DEF t
  <2>12. Touches(m, SetTable(q, tb, u), tb, N, {}) BY <2>1, <2>11, TouchesTransitive
  <2> QED BY <2>1, <2>3, <2>8, <2>11, <2>12
<1> HIDE DEF T
<1>8. \A k \in Nat : k \in T BY <1>6, <1>7, Entering!EveryNatural
<1>9. Touches(m, F(n), tb, N, {}) /\ F(n).current = tb BY <1>2, <1>8 DEF T
<1> QED BY <1>5, <1>9

\* r is m with a new table tb, which is the current one and knows the names of N.
AreNamed(cols, N) == \A k \in DOMAIN cols : cols[k].name \in N
GainsNew(m, r, tb, N) ==
  /\ Gains(m, r, tb)
  /\ r.current = tb
  /\ TableOf(r, tb).action = "add"
  /\ Known(TableOf(r, tb)) \subseteq N
  /\ TableOf(r, tb).pos = NoPosition

LEMMA ReadCreateTableGains ==
  ASSUME NEW m, SchemaShape(m), NEW tb, tb # Nil, NEW cols, IsSeq(cols), NEW idxs, IsSeq(idxs),
         NEW N, AreNamed(cols, N), NEW r, r = ReadCreateTable(m, tb, cols, idxs)
  PROVE  GainsNew(m, r, tb, N)
<1> DEFINE t == FoldLeft(AddIndex, NewTable(tb), idxs)
           u == Using(m, tb)
           a == AddTable(u, t)
<1>1. r = FoldLeft(LAMBDA s, c : SchemaAddColumn(s, Nil, c), a, cols) BY DEF ReadCreateTable
<1>2. /\ TableShape(NewTable(tb)) /\ Known(NewTable(tb)) = {}
      /\ NewTable(tb).name = tb /\ NewTable(tb).action = "add" /\ NewTable(tb).pos = NoPosition
  BY NewTableShape DEF NewTable, NewTableWithAction
<1>3. Keeps(NewTable(tb), t, {}) BY <1>2, IndexesRead
<1> HIDE DEF t
<1>4. /\ TableShape(t) /\ Known(t) = {} /\ t.name = tb /\ t.action = "add" /\ t.pos = NoPosition
  BY <1>2, <1>3 DEF Keeps, Becomes
<1>5. SchemaShape(u) /\ u.current = tb /\ u.tables = m.tables
  BY UsingTouches DEF Touches, SameTables, Using, SchemaShape
<1> HIDE DEF u
<1>6. Gains(u, a, tb) /\ TableOf(a, tb) = t /\ a.current = tb BY <1>4, <1>5, AddTableGains
<1>7. Gains(m, a, tb) BY <1>5, <1>6 DEF Gains, KnownTables, TableOf
<1> HIDE DEF a
<1>8. SchemaShape(a) /\ tb \in KnownTables(a) BY <1>7 DEF Gains
<1>9. Touches(a, r, tb, N, {}) /\ r.current = tb
  <2> DEFINE f == FoldLeft(LAMBDA s, c : SchemaAddColumn(s, Nil, c), a, cols)
  <2>1. a.current \in KnownTables(a) /\ a.current # Nil BY <1>6, <1>8
  <2>2. Touches(a, f, a.current, N, {}) /\ f.current = a.current BY <1>8, <2>1, ColumnsRead DEF AreNamed
  <2>3. f = r BY <1>1
  <2> HIDE DEF f
  <2> QED BY <1>6, <2>2, <2>3
<1>10. SchemaShape(r) /\ r.tables.id = a.tables.id /\ KnownTables(r) = KnownTables(a)
       /\ DOMAIN r.tables.items = DOMAIN a.tables.items
  BY <1>9 DEF Touches, SameTables, KnownTables
<1>11. /\ \A k \in KnownTables(a) : TableOf(a, k) = a.tables.items[a.tables.id[k]]
       /\ \A k \in KnownTables(a) : TableOf(r, k) = r.tables.items[a.tables.id[k]]
       /\ \A k \in KnownTables(a) : a.tables.id[k] \in DOMAIN a.tables.items
       /\ \A k \in KnownTables(a) : a.tables.items[a.tables.id[k]].name = k
  BY <1>8, <1>10, KnownTable
<1>12. \A i \in DOMAIN a.tables.items : i # a.tables.id[tb] => r.tables.items[i] = a.tables.items[i]
  BY <1>9 DEF Touches
<1>13. ASSUME NEW k \in KnownTables(m) \ {tb} PROVE TableOf(r, k) = TableOf(m, k)
  <2>1. k \in KnownTables(a) /\ TableOf(a, k) = TableOf(m, k) BY <1>7 DEF Gains
  <2>2. a.tables.id[k] # a.tables.id[tb] BY <1>8, <1>11, <2>1
  <2> QED BY <1>11, <1>12, <2>1, <2>2
<1>14. ASSUME NEW i \in DOMAIN r.tables.items, i # r.tables.id[tb]
       PROVE  i \in DOMAIN m.tables.items /\ r.tables.items[i] = m.tables.items[i]
  <2>1. r.tables.items[i] = a.tables.items[i] BY <1>10, <1>12, <1>14
  <2> QED BY <1>7, <1>10, <1>14, <2>1 DEF Gains
<1>15. Gains(m, r, tb) BY <1>7, <1>10, <1>13, <1>14 DEF Gains
<1>16. TableOf(r, tb).action = "add"
  <2>1. r.tables.items[a.tables.id[tb]].action = a.tables.items[a.tables.id[tb]].action
    BY <1>8, <1>9, <1>11 DEF Touches, SameTables
  <2> QED BY <1>4, <1>6, <1>8, <1>11, <2>1
<1>17. Known(TableOf(r, tb)) \subseteq N /\ TableOf(r, tb).pos = NoPosition
  BY <1>4, <1>6, <1>9 DEF Touches
<1> QED BY <1>9, <1>15, <1>16, <1>17 DEF GainsNew

----------------------------------------------------------------------------
(* DROP TABLE, RENAME TO, and the statements about indexes.                   *)

\* r is m with the tables of gone marked as dropped.
Marks(m, r, gone) ==
  /\ SchemaShape(r)
  /\ r.tables.id = m.tables.id
  /\ DOMAIN r.tables.items = DOMAIN m.tables.items
  /\ \A i \in DOMAIN m.tables.items :
       /\ r.tables.items[i].pos = m.tables.items[i].pos
       /\ r.tables.items[i].action \in {m.tables.items[i].action, "no", "remove"}
  /\ \A n \in KnownTables(m) \ gone : TableOf(r, n) = TableOf(m, n)
  /\ \A n \in KnownTables(m) \cap gone : TableOf(r, n).action \in {"no", "remove"}

LEMMA MarksNothing ==
  ASSUME NEW m, SchemaShape(m)
  PROVE  Marks(m, m, {})
BY DEF Marks

LEMMA RemoveTableMarks ==
  ASSUME NEW m, SchemaShape(m), NEW n \in KnownTables(m), NEW r, r = RemoveTable(m, n)
  PROVE  Marks(m, r, {n})
<1> DEFINE i == m.tables.id[n]
           was == m.tables.items[i]
           now == WithAction(was, RemovedAction(was.action))
           items == [m.tables.items EXCEPT ![i] = now]
<1>1. IdOf(m.tables, n) = i /\ i \in DOMAIN m.tables.items /\ was.name = n /\ i # 0
  BY KnownTable DEF IsKnown
<1>2. r = [tables |-> [items |-> items, id |-> m.tables.id], current |-> m.current]
  BY <1>1 DEF RemoveTable, RemoveItem, SetItem, SchemaShape
<1>3. /\ TableShape(now) /\ now.name = n /\ now.pos = was.pos
      /\ now.action \in {"no", "remove"}
  BY <1>1 DEF SchemaShape, WithAction, RemovedAction, TableShape, IsTable
<1> HIDE DEF now
<1>4. IsSeq(items) /\ Len(items) = Len(m.tables.items) /\ DOMAIN items = DOMAIN m.tables.items
  BY SetSeq DEF SchemaShape
<1>5. items[i] = now /\ \A j \in DOMAIN m.tables.items : j # i => items[j] = m.tables.items[j]
  BY <1>1
<1> HIDE DEF items
<1>6. r.tables.items = items /\ r.tables.id = m.tables.id
      /\ r \in [tables : {r.tables}, current : {r.current}]
      /\ r.tables \in [items : {r.tables.items}, id : {r.tables.id}]
  BY <1>2
<1>7. ASSUME NEW k \in KnownTables(m)
      PROVE  /\ m.tables.id[k] \in 1 .. Len(items) /\ items[m.tables.id[k]].name = k
             /\ k # n => m.tables.id[k] # i
  <2>1. m.tables.id[k] \in DOMAIN m.tables.items /\ m.tables.items[m.tables.id[k]].name = k
    BY KnownTable
  <2>2. DOMAIN m.tables.items = 1 .. Len(m.tables.items) BY SeqIs DEF SchemaShape
  <2>3. m.tables.id[k] = i => k = n BY <1>1, <2>1
  <2> HIDE DEF i, was
  <2>4. CASE m.tables.id[k] = i BY <1>3, <1>4, <1>5, <2>1, <2>2, <2>3, <2>4
  <2>5. CASE m.tables.id[k] # i BY <1>4, <1>5, <2>1, <2>2, <2>3, <2>5
  <2> QED BY <2>4, <2>5
<1>8. Coherent(r.tables) BY <1>6, <1>7 DEF Coherent, KnownTables
<1>9. \A j \in DOMAIN items : TableShape(items[j]) BY <1>3, <1>4, <1>5 DEF SchemaShape
<1>10. SchemaShape(r) BY <1>4, <1>6, <1>8, <1>9 DEF SchemaShape
<1>11. KnownTables(r) = KnownTables(m) BY <1>6 DEF KnownTables
<1>12. ASSUME NEW k \in KnownTables(m)
       PROVE  TableOf(r, k) = items[m.tables.id[k]] /\ TableOf(m, k) = m.tables.items[m.tables.id[k]]
              /\ m.tables.id[k] \in DOMAIN m.tables.items
  BY <1>6, <1>10, <1>11, KnownTable
<1>13. \A k \in KnownTables(m) \ {n} : TableOf(r, k) = TableOf(m, k)
  BY <1>5, <1>7, <1>12
<1>14. TableOf(r, n).action \in {"no", "remove"} BY <1>3, <1>5, <1>12
<1>15. \A j \in DOMAIN m.tables.items :
         /\ items[j].pos = m.tables.items[j].pos
         /\ items[j].action \in {m.tables.items[j].action, "no", "remove"}
  BY <1>3, <1>5
<1> QED BY <1>4, <1>6, <1>10, <1>13, <1>14, <1>15 DEF Marks

LEMMA MarksMore ==
  ASSUME NEW m, NEW q, NEW r, NEW S, NEW n, Marks(m, q, S), Marks(q, r, {n})
  PROVE  Marks(m, r, S \cup {n})
<1>1. KnownTables(q) = KnownTables(m) BY DEF Marks, KnownTables
<1>2. /\ SchemaShape(r) /\ r.tables.id = m.tables.id
      /\ DOMAIN r.tables.items = DOMAIN m.tables.items
  BY DEF Marks
<1>3. \A i \in DOMAIN m.tables.items :
        /\ r.tables.items[i].pos = m.tables.items[i].pos
        /\ r.tables.items[i].action \in {m.tables.items[i].action, "no", "remove"}
  BY DEF Marks
<1>4. \A k \in KnownTables(m) \ (S \cup {n}) : TableOf(r, k) = TableOf(m, k) BY <1>1 DEF Marks
<1>5. ASSUME NEW k \in KnownTables(m) \cap (S \cup {n})
      PROVE  TableOf(r, k).action \in {"no", "remove"}
  <2>1. CASE k = n BY <1>1, <2>1 DEF Marks
  <2>2. CASE k # n
    <3>1. TableOf(r, k) = TableOf(q, k) BY <1>1, <2>2 DEF Marks
    <3>2. TableOf(q, k).action \in {"no", "remove"} BY <2>2 DEF Marks
    <3> QED BY <3>1, <3>2
  <2> QED BY <2>1, <2>2
<1> QED BY <1>2, <1>3, <1>4, <1>5 DEF Marks

DropFold(p, m, tb) == RemoveTable(m, tb)
Removing == INSTANCE Folding WITH Op <- DropFold, Holds <- IsSchema
UseFold(p, m, tb) == Using(m, tb)
Choosing == INSTANCE Folding WITH Op <- UseFold, Holds <- IsSchema

LEMMA TablesRemoved ==
  ASSUME NEW m, SchemaShape(m), NEW tbs, IsSeq(tbs), \A k \in DOMAIN tbs : tbs[k] \in KnownTables(m)
  PROVE  Marks(m, FoldLeft(RemoveTable, m, tbs), {tbs[k] : k \in DOMAIN tbs})
<1> DEFINE S == {tbs[k] : k \in DOMAIN tbs}
           n == Len(tbs)
           F(k) == Removing!FoldTo(0, m, tbs, k)
           gone(k) == {tbs[j] : j \in 1 .. k}
<1>1. tbs \in Seq(S) BY DEF IsSeq
<1>2. n \in Nat /\ DOMAIN tbs = 1 .. n BY SeqIs
<1> HIDE DEF S
<1>3. F(0) = m BY <1>1, Removing!FoldNone
<1>4. \A k \in 1 .. n : F(k) = RemoveTable(F(k - 1), tbs[k])
  <2>1. \A k \in 1 .. n : F(k) = DropFold(0, F(k - 1), tbs[k]) BY <1>1, Removing!FoldNext
  <2> QED BY <2>1 DEF DropFold
<1>5. FoldLeft(RemoveTable, m, tbs) = F(n)
  <2>1. Removing!Fold(0, m, tbs) = F(n) BY <1>1, Removing!FoldAll
  <2>2. Removing!Fold(0, m, tbs) = FoldLeft(RemoveTable, m, tbs)
    BY DEF Removing!Fold, DropFold, FoldLeft,
           Removing!MapThenFoldSet, MapThenFoldSet, Removing!GreatestIn, Max
  <2> QED BY <2>1, <2>2
<1> HIDE DEF F, n
<1> DEFINE T == {k \in Nat : k <= n => Marks(m, F(k), gone(k))}
<1>6. 0 \in T
  <2>1. gone(0) = {} OBVIOUS
  <2> QED BY <1>3, <2>1, MarksNothing
<1>7. ASSUME NEW k \in Nat, k \in T PROVE k + 1 \in T
  <2> SUFFICES ASSUME k + 1 <= n PROVE Marks(m, F(k + 1), gone(k + 1)) OBVIOUS
  <2> DEFINE q == F(k)
             tb == tbs[k + 1]
             r == RemoveTable(q, tb)
             G == gone(k)
  <2>1. Marks(m, q, G) BY <1>2, <1>7
  <2>2. k + 1 \in 1 .. n /\ k + 1 - 1 = k BY <1>2
  <2>3. F(k + 1) = r BY <1>4, <2>2
  <2>4. tb \in KnownTables(m) BY <1>2, <2>2
  <2>5. gone(k + 1) = G \cup {tb}
    <3>1. 1 .. k + 1 = (1 .. k) \cup {k + 1} OBVIOUS
    <3> QED BY <3>1
  <2> HIDE DEF q, tb, T, G, gone
  <2>6. SchemaShape(q) /\ tb \in KnownTables(q) BY <2>1, <2>4 DEF Marks, KnownTables
  <2> HIDE DEF r
  <2>7. Marks(q, r, {tb}) BY <2>6, RemoveTableMarks DEF r
  <2>8. Marks(m, r, G \cup {tb}) BY <2>1, <2>7, MarksMore
  <2> QED BY <2>3, <2>5, <2>8
<1> HIDE DEF T
<1>8. \A k \in Nat : k \in T BY <1>6, <1>7, Entering!EveryNatural
<1>9. Marks(m, F(n), gone(n)) BY <1>2, <1>8 DEF T
<1> QED BY <1>2, <1>5, <1>9

LEMMA LastIsUsed ==
  ASSUME NEW m, SchemaShape(m), NEW tbs, IsSeq(tbs), Len(tbs) # 0
  PROVE  /\ FoldLeft(Using, m, tbs).tables = m.tables
         /\ \E k \in DOMAIN tbs : FoldLeft(Using, m, tbs) = Using(m, tbs[k])
<1> DEFINE S == {tbs[k] : k \in DOMAIN tbs}
           n == Len(tbs)
           F(k) == Choosing!FoldTo(0, m, tbs, k)
           Good(k) == F(k) = IF k = 0 THEN m ELSE Using(m, tbs[k])
<1>1. tbs \in Seq(S) BY DEF IsSeq
<1>2. n \in Nat /\ DOMAIN tbs = 1 .. n BY SeqIs
<1> HIDE DEF S
<1>3. F(0) = m BY <1>1, Choosing!FoldNone
<1>4. \A k \in 1 .. n : F(k) = Using(F(k - 1), tbs[k])
  <2>1. \A k \in 1 .. n : F(k) = UseFold(0, F(k - 1), tbs[k]) BY <1>1, Choosing!FoldNext
  <2> QED BY <2>1 DEF UseFold
<1>5. FoldLeft(Using, m, tbs) = F(n)
  <2>1. Choosing!Fold(0, m, tbs) = F(n) BY <1>1, Choosing!FoldAll
  <2>2. Choosing!Fold(0, m, tbs) = FoldLeft(Using, m, tbs)
    BY DEF Choosing!Fold, UseFold, FoldLeft,
           Choosing!MapThenFoldSet, MapThenFoldSet, Choosing!GreatestIn, Max
  <2> QED BY <2>1, <2>2
<1> HIDE DEF F
<1>6. \A c : Using(m, c) = [tables |-> m.tables, current |-> c] BY DEF Using, SchemaShape
<1>7. \A c, d : Using(Using(m, c), d) = Using(m, d) BY <1>6 DEF Using
<1> DEFINE T == {k \in Nat : k <= n => Good(k)}
<1>8. 0 \in T BY <1>3
<1>9. ASSUME NEW k \in Nat, k \in T PROVE k + 1 \in T
  <2> SUFFICES ASSUME k + 1 <= n PROVE F(k + 1) = Using(m, tbs[k + 1]) OBVIOUS
  <2>1. F(k) = m \/ F(k) = Using(m, tbs[k]) BY <1>2, <1>9
  <2>2. k + 1 \in 1 .. n /\ k + 1 - 1 = k BY <1>2
  <2>3. F(k + 1) = Using(F(k), tbs[k + 1]) BY <1>4, <2>2
  <2> QED BY <1>7, <2>1, <2>3
<1> HIDE DEF T
<1>10. \A k \in Nat : k \in T BY <1>8, <1>9, Entering!EveryNatural
<1>11. F(n) = Using(m, tbs[n]) /\ n \in 1 .. n BY <1>2, <1>10 DEF T
<1>12. F(n).tables = m.tables BY <1>6, <1>11
<1> QED BY <1>2, <1>5, <1>11, <1>12

LEMMA ReadDropTableMarks ==
  ASSUME NEW m, SchemaShape(m), NEW tbs, IsSeq(tbs), Len(tbs) # 0,
         \A k \in DOMAIN tbs : tbs[k] \in KnownTables(m),
         NEW r, r = ReadDropTable(m, tbs)
  PROVE  /\ Marks(m, r, {tbs[k] : k \in DOMAIN tbs})
         /\ r.current \in KnownTables(m)
<1> DEFINE q == FoldLeft(RemoveTable, m, tbs)
           gone == {tbs[k] : k \in DOMAIN tbs}
<1>1. Marks(m, q, gone) BY TablesRemoved
<1>2. r = FoldLeft(Using, q, tbs) BY DEF ReadDropTable
<1> HIDE DEF q, gone
<1>3. SchemaShape(q) BY <1>1 DEF Marks
<1>4. PICK k \in DOMAIN tbs : r = Using(q, tbs[k]) BY <1>2, <1>3, LastIsUsed
<1>5. r.tables = q.tables /\ r.current = tbs[k] BY <1>3, <1>4 DEF Using, SchemaShape
<1>6. SchemaShape(r) BY <1>3, <1>4, UsingTouches DEF Touches, SameTables
<1>7. \A n : TableOf(r, n) = TableOf(q, n) BY <1>5 DEF TableOf
<1>8. Marks(m, r, gone) BY <1>1, <1>5, <1>6, <1>7 DEF Marks
<1> QED BY <1>5, <1>8 DEF gone

\* The columns, indexes and foreign keys of t are those of u.
SameNodes(t, u) == u.cols = t.cols /\ u.idxs = t.idxs /\ u.fks = t.fks

\* r is m with the table old under the name new.
Renames(m, r, old, new) ==
  /\ SchemaShape(r)
  /\ KnownTables(r) = (KnownTables(m) \cup {new}) \ {old}
  /\ r.current = new
  /\ \A k \in KnownTables(r) \ {new} : TableOf(r, k) = TableOf(m, k)
  /\ \A i \in DOMAIN r.tables.items :
       i # r.tables.id[new] => i \in DOMAIN m.tables.items /\ r.tables.items[i] = m.tables.items[i]
  /\ TableOf(r, new).action = "remove"
  /\ TableOf(r, new).pos = TableOf(m, old).pos
  /\ Known(TableOf(r, new)) = Known(TableOf(m, old))
  /\ SameNodes(TableOf(m, old), TableOf(r, new))

LEMMA RenameTableRenames ==
  ASSUME NEW m, SchemaShape(m), NEW old \in KnownTables(m), NEW new, new # old,
         NEW r, r = Using(RenameTable(m, old, new), new)
  PROVE  Renames(m, r, old, new)
<1> DEFINE i == m.tables.id[old]
           was == m.tables.items[i]
           now == Renamed(was, old, new, "remove")
           items == [m.tables.items EXCEPT ![i] = now]
           moved == Point(m.tables, new, i)
           id == [n \in DOMAIN moved \ {old} |-> moved[n]]
<1>1. /\ IdOf(m.tables, old) = i /\ i \in DOMAIN m.tables.items /\ was.name = old /\ i # 0
      /\ TableOf(m, old) = was
  BY KnownTable DEF IsKnown
<1>2. r = [tables |-> [items |-> items, id |-> id], current |-> new]
  BY <1>1 DEF RenameTable, RenameItem, SchemaShape, Using
<1>3. /\ TableShape(now) /\ now.name = new /\ now.pos = was.pos /\ Known(now) = Known(was)
      /\ now.action = "remove" /\ SameNodes(was, now)
  BY <1>1 DEF SchemaShape, Renamed, TableShape, IsTable, Known, SameNodes
<1> HIDE DEF now
<1>4. IsSeq(items) /\ Len(items) = Len(m.tables.items) /\ DOMAIN items = DOMAIN m.tables.items
  BY SetSeq DEF SchemaShape
<1>5. items[i] = now /\ \A j \in DOMAIN m.tables.items : j # i => items[j] = m.tables.items[j]
  BY <1>1
<1>6. /\ DOMAIN id = (KnownTables(m) \cup {new}) \ {old}
      /\ id[new] = i
      /\ \A k \in DOMAIN id : k # new => k \in KnownTables(m) /\ k # old /\ id[k] = m.tables.id[k]
  BY DEF Point, KnownTables
<1> HIDE DEF items, id, moved
<1>7. /\ r.tables.items = items /\ r.tables.id = id /\ r.current = new
      /\ r \in [tables : {r.tables}, current : {r.current}]
      /\ r.tables \in [items : {r.tables.items}, id : {r.tables.id}]
  BY <1>2
<1>8. DOMAIN m.tables.items = 1 .. Len(m.tables.items) BY SeqIs DEF SchemaShape
<1>9. ASSUME NEW k \in DOMAIN id, k # new
      PROVE  /\ id[k] \in DOMAIN m.tables.items /\ id[k] # i
             /\ items[id[k]] = TableOf(m, k) /\ items[id[k]].name = k
  <2>1. k \in KnownTables(m) /\ k # old /\ id[k] = m.tables.id[k] BY <1>6, <1>9
  <2>2. /\ m.tables.id[k] \in DOMAIN m.tables.items
        /\ TableOf(m, k) = m.tables.items[m.tables.id[k]] /\ TableOf(m, k).name = k
    BY <2>1, KnownTable
  <2>3. m.tables.id[k] # i BY <1>1, <2>1, <2>2
  <2> HIDE DEF i
  <2> QED BY <1>5, <2>1, <2>2, <2>3
<1>10. ASSUME NEW k \in DOMAIN id PROVE id[k] \in 1 .. Len(items) /\ items[id[k]].name = k
  <2>1. CASE k = new BY <1>1, <1>3, <1>4, <1>5, <1>6, <1>8, <2>1
  <2>2. CASE k # new BY <1>4, <1>8, <1>9, <2>2
  <2> QED BY <2>1, <2>2
<1>11. Coherent(r.tables) BY <1>7, <1>10 DEF Coherent
<1>12. \A j \in DOMAIN items : TableShape(items[j]) BY <1>3, <1>4, <1>5 DEF SchemaShape
<1>13. SchemaShape(r) BY <1>4, <1>7, <1>11, <1>12 DEF SchemaShape
<1>14. KnownTables(r) = DOMAIN id BY <1>7 DEF KnownTables
<1>15. ASSUME NEW k \in KnownTables(r) \ {new} PROVE TableOf(r, k) = TableOf(m, k)
  <2>1. TableOf(r, k) = items[id[k]] BY <1>7, <1>13, KnownTable
  <2> QED BY <1>9, <1>14, <2>1
<1>16. TableOf(r, new) = now
  <2>1. new \in KnownTables(r) BY <1>6, <1>14
  <2>2. TableOf(r, new) = items[id[new]] BY <1>7, <1>13, <2>1, KnownTable
  <2> QED BY <1>5, <1>6, <2>2
<1> QED BY <1>1, <1>3, <1>4, <1>5, <1>6, <1>7, <1>13, <1>14, <1>15, <1>16 DEF Renames

LEMMA ReadRenameRenames ==
  ASSUME NEW m, SchemaShape(m), NEW old \in KnownTables(m), NEW new, new # old,
         NEW r, r = ReadAlter(m, old, <<[op |-> "renameTable", to |-> new]>>)
  PROVE  Renames(m, r, old, new)
<1> DEFINE spec == [op |-> "renameTable", to |-> new]
           specs == <<spec>>
           e == EnteredTo(m, old, specs, 1)
           u == Using(e, old)
<1>1. IsSeq(specs) /\ Len(specs) = 1 /\ specs[1] = spec
  <2>1. specs \in Seq({spec}) OBVIOUS
  <2> QED BY <2>1, SeqIsSeq
<1>2. spec.op = "renameTable" /\ spec.to = new OBVIOUS
<1> HIDE DEF spec, specs
<1>3. EntersInSteps(m, old, specs) BY <1>1, EnteredSteps
<1>4. e = RenameTable(m, old, new)
  <2>1. 1 \in 1 .. Len(specs) /\ 1 - 1 = 0 BY <1>1
  <2>2. e = EnterSpec(EnteredTo(m, old, specs, 0), old, specs[1])
    BY <2>1, <1>3 DEF EntersInSteps
  <2>3. e = EnterSpec(m, old, spec) BY <1>1, <1>3, <2>2 DEF EntersInSteps
  <2> QED BY <1>2, <2>3 DEF EnterSpec
<1>5. ReadAlter(m, old, specs) = FoldLeft(VisitSpec, u, specs)
  BY <1>1, <1>3 DEF ReadAlter, EntersInSteps
<1> HIDE DEF u
<1>6. VisitsInSteps(u, specs) BY <1>1, VisitedSteps
<1>7. FoldLeft(VisitSpec, u, specs) = Using(u, new)
  <2>1. 1 \in 1 .. Len(specs) /\ 1 - 1 = 0 BY <1>1
  <2>2. VisitedTo(u, specs, 1) = VisitSpec(VisitedTo(u, specs, 0), specs[1])
    BY <2>1, <1>6 DEF VisitsInSteps
  <2>3. FoldLeft(VisitSpec, u, specs) = VisitSpec(u, spec)
    BY <1>1, <1>6, <2>2 DEF VisitsInSteps
  <2> QED BY <1>2, <2>3 DEF VisitSpec
<1>8. r = Using(Using(RenameTable(m, old, new), old), new)
  BY <1>4, <1>5, <1>7 DEF specs, spec, u
<1>9. \A x, c, d : x \in [tables : {x.tables}, current : {x.current}] =>
                     Using(Using(x, c), d) = Using(x, d)
  BY DEF Using
<1>10. RenameTable(m, old, new) = [tables |-> RenameItem(m.tables, old, new, "remove"),
                                   current |-> m.current]
  BY DEF RenameTable, SchemaShape
<1>11. r = Using(RenameTable(m, old, new), new)
  <2> DEFINE x == RenameTable(m, old, new)
  <2>1. x \in [tables : {x.tables}, current : {x.current}] BY <1>10
  <2> HIDE DEF x
  <2> QED BY <1>8, <1>9, <2>1 DEF x
<1> QED BY <1>11, RenameTableRenames

LEMMA ReadIndexTouches ==
  ASSUME NEW m, SchemaShape(m), NEW tb \in KnownTables(m), NEW idx, NEW i
  PROVE  /\ Touches(m, ReadCreateIndex(m, tb, idx), tb, {}, {})
         /\ ReadCreateIndex(m, tb, idx).current = tb
         /\ Touches(m, ReadDropIndex(m, tb, i), tb, {}, {})
         /\ ReadDropIndex(m, tb, i).current = tb
<1> DEFINE t == TableOf(m, tb)
<1>1. Ensured(m, tb) = m /\ TableShape(t) BY EnsuredKnown, KnownTable
<1>2. /\ ReadCreateIndex(m, tb, idx) = Using(SetTable(m, tb, AddIndex(t, idx)), tb)
      /\ ReadDropIndex(m, tb, i) = Using(SetTable(m, tb, RemoveIndex(t, i)), tb)
  BY <1>1 DEF ReadCreateIndex, ReadDropIndex, SchemaAddIndex, SchemaRemoveIndex
<1>3. Becomes(t, AddIndex(t, idx), {}) /\ Becomes(t, RemoveIndex(t, i), {})
  BY <1>1, IndexMethodsBecome DEF Keeps
<1>4. ASSUME NEW u, Becomes(t, u, {})
      PROVE  Touches(m, Using(SetTable(m, tb, u), tb), tb, {}, {})
             /\ Using(SetTable(m, tb, u), tb).current = tb
  <2> DEFINE q == SetTable(m, tb, u)
  <2>1. Touches(m, q, tb, {}, {}) BY <1>4, BecomesTouches
  <2> HIDE DEF q
  <2>2. SchemaShape(q) BY <2>1 DEF Touches, SameTables
  <2>3. Touches(q, Using(q, tb), tb, {}, {}) /\ Using(q, tb).current = tb BY <2>2, UsingTouches
  <2>4. Touches(m, Using(q, tb), tb, {}, {}) BY <2>1, <2>3, TouchesTransitive
  <2> QED BY <2>3, <2>4 DEF q
<1> QED BY <1>2, <1>3, <1>4

----------------------------------------------------------------------------
(* The database.                                                              *)
IsDbColumn(c) == c \in [name : {c.name}, type : {c.type}, opts : {c.opts}]
DbShape(d) ==
  /\ d \in [cols : {d.cols}, idxs : {d.idxs}, fks : {d.fks}]
  /\ IsSeq(d.cols)
  /\ \A k \in DOMAIN d.cols : IsDbColumn(d.cols[k])

LEMMA PartItems ==
  ASSUME NEW s, IsSeq(s), NEW m \in Nat \ {0}, NEW n \in Nat, m <= n + 1, n <= Len(s)
  PROVE  \A k \in DOMAIN SubSeq(s, m, n) : SubSeq(s, m, n)[k] \in {s[i] : i \in DOMAIN s}
<1> DEFINE P == {s[i] : i \in DOMAIN s}
<1>1. s \in Seq(P) BY DEF IsSeq
<1> HIDE DEF P
<1>2. SubSeq(s, m, n) \in Seq(P) BY <1>1
<1>3. \A k \in DOMAIN SubSeq(s, m, n) : SubSeq(s, m, n)[k] \in P BY <1>2
<1> QED BY <1>3 DEF P

LEMMA ConcatItems ==
  ASSUME NEW P, NEW s, NEW t, IsSeq(s), IsSeq(t),
         \A k \in DOMAIN s : s[k] \in P, \A k \in DOMAIN t : t[k] \in P
  PROVE  IsSeq(s \o t) /\ \A k \in DOMAIN (s \o t) : (s \o t)[k] \in P
<1> DEFINE Q == {s[i] : i \in DOMAIN s} \cup {t[i] : i \in DOMAIN t}
           r == s \o t
<1>1. IsSeq(r) /\ \A k \in DOMAIN r : r[k] \in Q BY ConcatSeq
<1>2. Q \subseteq P OBVIOUS
<1> HIDE DEF Q, r
<1>3. IsSeq(r) /\ \A k \in DOMAIN r : r[k] \in P BY <1>1, <1>2
<1> QED BY <1>3 DEF r

LEMMA OneItem ==
  ASSUME NEW P, NEW e \in P
  PROVE  IsSeq(<<e>>) /\ \A k \in DOMAIN <<e>> : <<e>>[k] \in P
<1>1. <<e>> \in Seq(P) OBVIOUS
<1>2. IsSeq(<<e>>) BY <1>1, SeqIsSeq
<1>3. \A k \in DOMAIN <<e>> : <<e>>[k] \in P OBVIOUS
<1> QED BY <1>2, <1>3

\* A list of columns of which all are columns of d but one, or none.
LEMMA ColumnsFrom ==
  ASSUME NEW d, DbShape(d), NEW s, IsSeq(s), NEW N,
         \A k \in DOMAIN s : \/ s[k] \in {d.cols[i] : i \in DOMAIN d.cols}
                             \/ (IsDbColumn(s[k]) /\ s[k].name \in N),
         NEW r, r \in [cols : {s}, idxs : {r.idxs}, fks : {r.fks}]
  PROVE  DbShape(r) /\ ColumnNamesOf(r) \subseteq ColumnNamesOf(d) \cup N
<1>1. r.cols = s /\ r \in [cols : {r.cols}, idxs : {r.idxs}, fks : {r.fks}] OBVIOUS
<1>2. DOMAIN s = 1 .. Len(s) /\ DOMAIN d.cols = 1 .. Len(d.cols) BY SeqIs DEF DbShape
<1>3. \A k \in DOMAIN s : IsDbColumn(s[k]) BY DEF DbShape
<1>4. \A k \in DOMAIN s : s[k].name \in ColumnNamesOf(d) \cup N BY <1>2 DEF ColumnNamesOf
<1> QED BY <1>1, <1>2, <1>3, <1>4 DEF DbShape, ColumnNamesOf

LEMMA PlaceOfColumn ==
  ASSUME NEW d, DbShape(d), NEW n \in ColumnNamesOf(d)
  PROVE  PlaceOf(d, n) \in 1 .. Len(d.cols) /\ d.cols[PlaceOf(d, n)].name = n
BY DEF PlaceOf, ColumnNamesOf

LEMMA AddDbColumnNames ==
  ASSUME NEW d, DbShape(d), NEW stm, stm.op = "addColumn", Legal(d, stm)
  PROVE  /\ DbShape(AddDbColumn(d, stm))
         /\ ColumnNamesOf(AddDbColumn(d, stm)) \subseteq ColumnNamesOf(d) \cup {stm.col}
<1> DEFINE at == CASE stm.pos.tp = "first" -> 1
                   [] stm.pos.tp = "after" -> PlaceOf(d, stm.pos.rel) + 1
                   [] OTHER -> Len(d.cols) + 1
           made == [name |-> stm.col, type |-> stm.type,
                   opts |-> {stm.opts[i] : i \in DOMAIN stm.opts}]
           a == SubSeq(d.cols, 1, at - 1)
           b == <<made>>
           c == SubSeq(d.cols, at, Len(d.cols))
           r == AddDbColumn(d, stm)
           P == {d.cols[i] : i \in DOMAIN d.cols}
<1>1. Len(d.cols) \in Nat /\ IsSeq(d.cols) BY SeqIs DEF DbShape
<1>2. at \in 1 .. Len(d.cols) + 1
  <2>1. stm.pos.tp = "after" => PlaceOf(d, stm.pos.rel) \in 1 .. Len(d.cols)
    <3>1. stm.pos.tp = "after" => stm.pos.rel \in ColumnNamesOf(d) BY DEF Legal, KeyDrops
    <3> QED BY <3>1, PlaceOfColumn
  <2> QED BY <1>1, <2>1
<1>3. r = [d EXCEPT !.cols = a \o b \o c] BY DEF AddDbColumn, DbShape
<1>4. IsDbColumn(made) /\ made.name = stm.col BY DEF IsDbColumn
<1> HIDE DEF at, made
<1>5. IsSeq(a) /\ \A k \in DOMAIN a : a[k] \in P
  <2> DEFINE n == at - 1
  <2>1. n \in Nat /\ 1 <= n + 1 /\ n <= Len(d.cols) /\ 1 \in Nat \ {0} BY <1>1, <1>2
  <2> HIDE DEF n, P
  <2>2. IsSeq(SubSeq(d.cols, 1, n)) BY <1>1, <2>1, PartSeq
  <2>3. \A k \in DOMAIN SubSeq(d.cols, 1, n) : SubSeq(d.cols, 1, n)[k] \in P
    BY <1>1, <2>1, PartItems DEF P
  <2> QED BY <2>2, <2>3 DEF n
<1>6. IsSeq(c) /\ \A k \in DOMAIN c : c[k] \in P
  <2>1. at \in Nat \ {0} /\ at <= Len(d.cols) + 1 /\ Len(d.cols) <= Len(d.cols) BY <1>1, <1>2
  <2> HIDE DEF P
  <2>2. IsSeq(SubSeq(d.cols, at, Len(d.cols))) BY <1>1, <2>1, PartSeq
  <2>3. \A k \in DOMAIN c : c[k] \in P BY <1>1, <2>1, PartItems DEF P
  <2> QED BY <2>2, <2>3
<1> DEFINE R == P \cup {made}
<1>7. IsSeq(b) /\ \A k \in DOMAIN b : b[k] \in R
  <2>1. made \in R OBVIOUS
  <2> HIDE DEF R
  <2> QED BY <2>1, OneItem
<1>8. /\ \A k \in DOMAIN a : a[k] \in R
      /\ \A k \in DOMAIN c : c[k] \in R
  <2> HIDE DEF a, c
  <2> QED BY <1>5, <1>6
<1> HIDE DEF a, b, c, R
<1> DEFINE ab == a \o b
<1>9. IsSeq(ab) /\ \A k \in DOMAIN ab : ab[k] \in R
  BY <1>5, <1>7, <1>8, ConcatItems
<1> HIDE DEF ab
<1> DEFINE s == ab \o c
<1>10. IsSeq(s) /\ \A k \in DOMAIN s : s[k] \in R BY <1>6, <1>9, <1>8, ConcatItems
<1>11. r \in [cols : {s}, idxs : {r.idxs}, fks : {r.fks}] BY <1>3 DEF DbShape, ab
<1> HIDE DEF s, r
<1>12. /\ IsSeq(s)
       /\ \A k \in DOMAIN s : \/ s[k] \in {d.cols[i] : i \in DOMAIN d.cols}
                              \/ (IsDbColumn(s[k]) /\ s[k].name \in {stm.col})
  <2>1. IsSeq(s) /\ \A k \in DOMAIN s : s[k] \in P \/ s[k] = made BY <1>10 DEF R
  <2>2. \A k \in DOMAIN s : s[k] \in P \/ (IsDbColumn(s[k]) /\ s[k].name \in {stm.col})
    BY <1>4, <2>1
  <2> QED BY <2>1, <2>2 DEF P
<1>13. DbShape(r) /\ ColumnNamesOf(r) \subseteq ColumnNamesOf(d) \cup {stm.col}
  BY <1>11, <1>12, ColumnsFrom
<1> QED BY <1>13 DEF r

LEMMA DropDbColumnNames ==
  ASSUME NEW d, DbShape(d), NEW n \in ColumnNamesOf(d)
  PROVE  DbShape(DropDbColumn(d, n)) /\ ColumnNamesOf(DropDbColumn(d, n)) \subseteq ColumnNamesOf(d)
<1> DEFINE at == PlaceOf(d, n)
           lo == at - 1
           hi == at + 1
           a == SubSeq(d.cols, 1, lo)
           c == SubSeq(d.cols, hi, Len(d.cols))
           s == a \o c
           r == DropDbColumn(d, n)
           P == {d.cols[i] : i \in DOMAIN d.cols}
<1>1. Len(d.cols) \in Nat /\ IsSeq(d.cols) BY SeqIs DEF DbShape
<1>2. at \in 1 .. Len(d.cols) BY PlaceOfColumn
<1>3. r \in [cols : {s}, idxs : {r.idxs}, fks : {r.fks}] BY DEF DropDbColumn
<1> HIDE DEF at
<1>4. /\ lo \in Nat /\ 1 <= lo + 1 /\ lo <= Len(d.cols) /\ 1 \in Nat \ {0}
      /\ hi \in Nat \ {0} /\ hi <= Len(d.cols) + 1 /\ Len(d.cols) <= Len(d.cols)
  BY <1>1, <1>2
<1> HIDE DEF lo, hi, P
<1>5. IsSeq(a) /\ IsSeq(c) BY <1>1, <1>4, PartSeq
<1>6. (\A k \in DOMAIN a : a[k] \in P) /\ (\A k \in DOMAIN c : c[k] \in P)
  BY <1>1, <1>4, PartItems DEF P
<1> HIDE DEF a, c
<1>7. IsSeq(s) /\ \A k \in DOMAIN s : s[k] \in P BY <1>5, <1>6, ConcatItems
<1> HIDE DEF s, r
<1>8. DbShape(r) /\ ColumnNamesOf(r) \subseteq ColumnNamesOf(d) \cup {}
  BY <1>3, <1>7, ColumnsFrom DEF P
<1> QED BY <1>8 DEF r

LEMMA SetDbColumnNames ==
  ASSUME NEW d, DbShape(d), NEW n \in ColumnNamesOf(d), NEW col, IsDbColumn(col)
  PROVE  /\ DbShape(SetDbColumn(d, n, col))
         /\ ColumnNamesOf(SetDbColumn(d, n, col)) \subseteq ColumnNamesOf(d) \cup {col.name}
<1> DEFINE at == PlaceOf(d, n)
           s == [d.cols EXCEPT ![at] = col]
           r == SetDbColumn(d, n, col)
           P == {d.cols[i] : i \in DOMAIN d.cols}
<1>1. r \in [cols : {s}, idxs : {r.idxs}, fks : {r.fks}] BY DEF SetDbColumn, DbShape
<1>2. IsSeq(s) BY SetSeq DEF DbShape
<1>3. \A k \in DOMAIN s : s[k] \in P \/ s[k] = col OBVIOUS
<1> HIDE DEF s, r
<1>4. \A k \in DOMAIN s : \/ s[k] \in {d.cols[i] : i \in DOMAIN d.cols}
                          \/ (IsDbColumn(s[k]) /\ s[k].name \in {col.name})
  BY <1>3 DEF P
<1>5. DbShape(r) /\ ColumnNamesOf(r) \subseteq ColumnNamesOf(d) \cup {col.name}
  BY <1>1, <1>2, <1>4, ColumnsFrom
<1> QED BY <1>5 DEF r

\* A statement gives a table no names but those it says.
LEMMA ExecNames ==
  ASSUME NEW d, DbShape(d), NEW stm, stm.op \in AlterOps \cup {"createIndex", "dropIndex"},
         Legal(d, stm), NEW r, r = Exec(d, stm)
  PROVE  DbShape(r) /\ ColumnNamesOf(r) \subseteq ColumnNamesOf(d) \cup NamesGiven(stm)
<1>1. CASE stm.op = "addColumn"
  <2>1. r = AddDbColumn(d, stm) /\ NamesGiven(stm) = {stm.col} BY <1>1 DEF Exec, KeyDrops, NamesGiven
  <2> QED BY <1>1, <2>1, AddDbColumnNames
<1>2. CASE stm.op = "dropColumn"
  <2>1. r = DropDbColumn(d, stm.col) /\ stm.col \in ColumnNamesOf(d) BY <1>2 DEF Exec, KeyDrops, Legal
  <2> QED BY <2>1, DropDbColumnNames
<1>3. CASE stm.op = "renameColumn"
  <2> DEFINE col == [d.cols[PlaceOf(d, stm.col)] EXCEPT !.name = stm.to]
  <2>1. /\ r = SetDbColumn(d, stm.col, col) /\ stm.col \in ColumnNamesOf(d)
        /\ NamesGiven(stm) = {stm.to}
    BY <1>3 DEF Exec, KeyDrops, RenameDbColumn, Legal, NamesGiven
  <2>2. PlaceOf(d, stm.col) \in DOMAIN d.cols BY <2>1, PlaceOfColumn, SeqIs DEF DbShape
  <2>3. IsDbColumn(d.cols[PlaceOf(d, stm.col)]) BY <2>2 DEF DbShape
  <2>4. IsDbColumn(col) /\ col.name = stm.to BY <2>3 DEF IsDbColumn
  <2> HIDE DEF col
  <2> QED BY <2>1, <2>4, SetDbColumnNames
<1>4. CASE stm.op = "modifyColumn"
  <2> DEFINE col == [name |-> stm.col, type |-> stm.type,
                     opts |-> {stm.opts[i] : i \in DOMAIN stm.opts}
                       \cup {o \in d.cols[PlaceOf(d, stm.col)].opts : o.tp = "primary"}]
  <2>1. r = SetDbColumn(d, stm.col, col) /\ stm.col \in ColumnNamesOf(d)
    BY <1>4 DEF Exec, KeyDrops, ModifyDbColumn, Legal
  <2>2. IsDbColumn(col) /\ col.name = stm.col BY DEF IsDbColumn
  <2> HIDE DEF col
  <2>3. DbShape(r) /\ ColumnNamesOf(r) \subseteq ColumnNamesOf(d) \cup {stm.col}
    BY <2>1, <2>2, SetDbColumnNames
  <2> QED BY <2>1, <2>3
<1>5. CASE stm.op \in {"createIndex", "dropIndex", "renameIndex", "addForeignKey"} \cup KeyDrops
  <2>1. r.cols = d.cols /\ r \in [cols : {d.cols}, idxs : {r.idxs}, fks : {r.fks}]
    BY <1>5 DEF Exec, KeyDrops, DbShape
  <2>2. DbShape(r) BY <2>1 DEF DbShape
  <2> QED BY <2>1, <2>2 DEF ColumnNamesOf
<1> QED BY <1>1, <1>2, <1>3, <1>4, <1>5 DEF AlterOps, KeyDrops

\* And so does an ALTER TABLE.
ExecFold(p, d, stm) == Exec(d, stm)
IsOfDb(p, d) == DbShape(d)
Executing == INSTANCE Folding WITH Op <- ExecFold, Holds <- IsOfDb
ExecutedTo(d, specs, k) == FoldLeft(Exec, d, SubSeq(specs, 1, k))

\* The names that the first specifications give.
GivenTo(specs, k) == UNION {NamesGiven(specs[j]) : j \in 1 .. k}

LegalInOrder(d, specs) ==
  \A k \in DOMAIN specs : Legal(FoldLeft(Exec, d, SubSeq(specs, 1, k - 1)), specs[k])

\* What has become of table d.
NamesUpTo(d, r, N) == DbShape(r) /\ ColumnNamesOf(r) \subseteq ColumnNamesOf(d) \cup N

ExecutesInSteps(d, specs) ==
  /\ ExecutedTo(d, specs, 0) = d
  /\ \A k \in 1 .. Len(specs) : ExecutedTo(d, specs, k) = Exec(ExecutedTo(d, specs, k - 1), specs[k])
  /\ FoldLeft(Exec, d, specs) = ExecutedTo(d, specs, Len(specs))

LEMMA ExecutedSteps ==
  ASSUME NEW d, NEW specs, IsSeq(specs) PROVE ExecutesInSteps(d, specs)
<1> DEFINE S == {specs[k] : k \in DOMAIN specs}
           n == Len(specs)
           F(k) == ExecutedTo(d, specs, k)
<1>1. specs \in Seq(S) BY DEF IsSeq
<1> HIDE DEF S
<1>2. \A k : Executing!FoldTo(0, d, specs, k) = F(k)
  BY DEF ExecutedTo, Executing!FoldTo, Executing!Fold, ExecFold, FoldLeft,
         Executing!MapThenFoldSet, MapThenFoldSet, Executing!GreatestIn, Max
<1>3. F(0) = d
  <2>1. Executing!FoldTo(0, d, specs, 0) = d BY <1>1, Executing!FoldNone
  <2> QED BY <1>2, <2>1
<1>4. \A k \in 1 .. n : F(k) = Exec(F(k - 1), specs[k])
  <2>1. \A k \in 1 .. n : Executing!FoldTo(0, d, specs, k)
                             = ExecFold(0, Executing!FoldTo(0, d, specs, k - 1), specs[k])
    BY <1>1, Executing!FoldNext
  <2> QED BY <1>2, <2>1 DEF ExecFold
<1>5. FoldLeft(Exec, d, specs) = F(n)
  <2>1. Executing!Fold(0, d, specs) = Executing!FoldTo(0, d, specs, n) BY <1>1, Executing!FoldAll
  <2>2. Executing!Fold(0, d, specs) = FoldLeft(Exec, d, specs)
    BY DEF Executing!Fold, ExecFold, FoldLeft,
           Executing!MapThenFoldSet, MapThenFoldSet, Executing!GreatestIn, Max
  <2> QED BY <1>2, <2>1, <2>2
<1> QED BY <1>3, <1>4, <1>5 DEF ExecutesInSteps

LEMMA AlterNames ==
  ASSUME NEW d, DbShape(d), NEW specs, IsSeq(specs), LegalInOrder(d, specs),
         \A k \in DOMAIN specs : specs[k].op \in AlterOps
  PROVE  /\ \A k \in 0 .. Len(specs) : NamesUpTo(d, ExecutedTo(d, specs, k), GivenTo(specs, k))
         /\ FoldLeft(Exec, d, specs) = ExecutedTo(d, specs, Len(specs))
<1> DEFINE n == Len(specs)
           F(k) == ExecutedTo(d, specs, k)
<1>2. n \in Nat /\ DOMAIN specs = 1 .. n BY SeqIs
<1>3. ExecutesInSteps(d, specs) BY ExecutedSteps
<1>4. F(0) = d BY <1>3 DEF ExecutesInSteps
<1>5. \A k \in 1 .. n : F(k) = Exec(F(k - 1), specs[k]) BY <1>3 DEF ExecutesInSteps
<1>6. FoldLeft(Exec, d, specs) = F(n) BY <1>3 DEF ExecutesInSteps
<1>7. \A k \in 1 .. n : Legal(F(k - 1), specs[k]) BY <1>2 DEF LegalInOrder, ExecutedTo
<1> HIDE DEF F, n
<1> DEFINE T == {k \in Nat : k <= n => NamesUpTo(d, F(k), GivenTo(specs, k))}
<1>8. 0 \in T BY <1>4 DEF NamesUpTo
<1>9. ASSUME NEW k \in Nat, k \in T PROVE k + 1 \in T
  <2> SUFFICES ASSUME k + 1 <= n PROVE NamesUpTo(d, F(k + 1), GivenTo(specs, k + 1)) OBVIOUS
  <2> DEFINE q == F(k)
             stm == specs[k + 1]
             r == F(k + 1)
  <2>1. NamesUpTo(d, q, GivenTo(specs, k)) BY <1>2, <1>9
  <2>2. k + 1 \in 1 .. n /\ k + 1 - 1 = k BY <1>2
  <2>3. r = Exec(q, stm) /\ Legal(q, stm) BY <1>5, <1>7, <2>2
  <2>4. stm.op \in AlterOps BY <1>2, <2>2
  <2>5. GivenTo(specs, k + 1) = GivenTo(specs, k) \cup NamesGiven(stm)
    <3>1. 1 .. k + 1 = (1 .. k) \cup {k + 1} OBVIOUS
    <3> QED BY <3>1 DEF GivenTo
  <2> HIDE DEF q, stm, r, T
  <2>6. DbShape(r) /\ ColumnNamesOf(r) \subseteq ColumnNamesOf(q) \cup NamesGiven(stm)
    BY <2>1, <2>3, <2>4, ExecNames DEF NamesUpTo
  <2>7. NamesUpTo(d, r, GivenTo(specs, k) \cup NamesGiven(stm)) BY <2>1, <2>6 DEF NamesUpTo
  <2> QED BY <2>5, <2>7 DEF r
<1> HIDE DEF T
<1>10. \A k \in Nat : k \in T BY <1>8, <1>9, Entering!EveryNatural
<1>11. \A k \in 0 .. n : NamesUpTo(d, F(k), GivenTo(specs, k)) BY <1>2, <1>10 DEF T
<1> QED BY <1>6, <1>11 DEF F, n

----------------------------------------------------------------------------
(* The invariants.                                                            *)

\* What always holds: the schema is well formed, it knows every table of the database,
\* and a table it knows beyond those is marked.
Sound(m, d, u) ==
  /\ SchemaShape(m)
  /\ KnownTables(m) \subseteq TableNames
  /\ \A i \in DOMAIN m.tables.items : m.tables.items[i].action \in Actions
  /\ m.current \in KnownTables(m) \/ (m.current = Nil /\ DOMAIN d = {})
  /\ DOMAIN d \subseteq KnownTables(m)
  /\ DOMAIN u = DOMAIN d
  /\ \A tb \in KnownTables(m) \ DOMAIN d : TableOf(m, tb).action \in {"no", "remove"}
SchemaInv == Sound(schema, db, used)

\* What holds as long as no statement strays: no position waits, and a table of the
\* database has had every column name that it has or that the schema knows of it.
Follows(t, d, names) ==
  /\ Known(t) \subseteq names
  /\ DbShape(d)
  /\ ColumnNamesOf(d) \subseteq names
Quiet(m, d, u) ==
  /\ \A i \in DOMAIN m.tables.items : Settled(m.tables.items[i])
  /\ \A tb \in DOMAIN d : Follows(TableOf(m, tb), d[tb], u[tb])
PositionInv == Quiet(schema, db, used)

LEMMA SchemaNil == Nil \notin TableNames
BY MigrationAssumption

LEMMA BoundedIsSeq ==
  ASSUME NEW S, NEW n \in Nat, NEW s \in BoundedSeq(S, n)
  PROVE  IsSeq(s) /\ (\A k \in DOMAIN s : s[k] \in S) /\ (s # <<>> => Len(s) # 0)
<1>1. PICK k \in 0 .. n : s \in [1 .. k -> S] BY DEF BoundedSeq, SeqOf
<1>2. s \in Seq(S) BY <1>1
<1>3. s # <<>> => Len(s) # 0 BY <1>2, EmptySeq
<1> QED BY <1>2, <1>3, SeqIsSeq

LEMMA OtherTable ==
  ASSUME NEW m, SchemaShape(m), NEW n \in KnownTables(m), NEW k \in KnownTables(m), n # k
  PROVE  m.tables.id[n] # m.tables.id[k]
BY KnownTable

\* The tables that a statement leaves alone.
LEMMA SameTablesAre ==
  ASSUME NEW m, SchemaShape(m), NEW r, SameTables(m, r)
  PROVE  /\ SchemaShape(r) /\ KnownTables(r) = KnownTables(m)
         /\ \A k \in KnownTables(m) : TableOf(r, k).action = TableOf(m, k).action
<1>1. SchemaShape(r) /\ KnownTables(r) = KnownTables(m) /\ r.tables.id = m.tables.id
  BY DEF SameTables, KnownTables
<1>2. ASSUME NEW k \in KnownTables(m) PROVE TableOf(r, k).action = TableOf(m, k).action
  <2>1. TableOf(m, k) = m.tables.items[m.tables.id[k]] /\ m.tables.id[k] \in DOMAIN m.tables.items
    BY <1>2, KnownTable
  <2>2. TableOf(r, k) = r.tables.items[r.tables.id[k]] BY <1>1, <1>2, KnownTable
  <2> QED BY <1>1, <2>1, <2>2 DEF SameTables
<1> QED BY <1>1, <1>2

LEMMA TouchesOne ==
  ASSUME NEW m, SchemaShape(m), NEW n \in KnownTables(m), NEW r, NEW N, NEW P,
         Touches(m, r, n, N, P), NEW k \in KnownTables(m), k # n
  PROVE  TableOf(r, k) = TableOf(m, k)
<1>1. SchemaShape(r) /\ KnownTables(r) = KnownTables(m) /\ r.tables.id = m.tables.id
  BY DEF SameTables, KnownTables, Touches
<1>2. TableOf(m, k) = m.tables.items[m.tables.id[k]] /\ m.tables.id[k] \in DOMAIN m.tables.items
  BY KnownTable
<1>3. TableOf(r, k) = r.tables.items[r.tables.id[k]] BY <1>1, KnownTable
<1>4. m.tables.id[n] # m.tables.id[k] BY OtherTable
<1> QED BY <1>1, <1>2, <1>3, <1>4 DEF Touches

----------------------------------------------------------------------------
(* Every step keeps the schema sound.                                         *)

LEMMA SoundSame ==
  ASSUME NEW m, NEW d, NEW u, Sound(m, d, u), NEW r, SameTables(m, r), r.current \in KnownTables(m),
         NEW e, DOMAIN e = DOMAIN d, NEW v, DOMAIN v = DOMAIN u
  PROVE  Sound(r, e, v)
<1>1. SchemaShape(m) BY DEF Sound
<1>2. /\ SchemaShape(r) /\ KnownTables(r) = KnownTables(m)
      /\ \A k \in KnownTables(m) : TableOf(r, k).action = TableOf(m, k).action
  BY <1>1, SameTablesAre
<1>3. \A i \in DOMAIN r.tables.items : r.tables.items[i].action \in Actions
  BY DEF SameTables, Sound
<1> QED BY <1>2, <1>3 DEF Sound

LEMMA InitSound == Init => SchemaInv /\ PositionInv
<1>1. SchemaShape(NewMigration) /\ KnownTables(NewMigration) = {} /\ NewMigration.current = Nil
      /\ NewMigration.tables.items = <<>>
  <2>1. NewMigration.tables = EmptyList /\ NewMigration.current = Nil
        /\ NewMigration \in [tables : {EmptyList}, current : {Nil}]
    BY DEF NewMigration
  <2>2. EmptyList.items = <<>> /\ DOMAIN EmptyList.id = {} BY EmptyListShape DEF EmptyList
  <2>3. IsSeq(EmptyList.items) /\ Coherent(EmptyList)
        /\ EmptyList \in [items : {EmptyList.items}, id : {EmptyList.id}]
    BY EmptyListShape DEF ListShape, EmptyList, Coherent
  <2>4. DOMAIN EmptyList.items = {} BY <2>2
  <2> QED BY <2>1, <2>2, <2>3, <2>4 DEF SchemaShape, KnownTables
<1>2. DOMAIN EmptyFunction = {} BY DEF EmptyFunction
<1>3. DOMAIN NewMigration.tables.items = {} BY <1>1
<1> QED BY <1>1, <1>2, <1>3 DEF Init, SchemaInv, PositionInv, Sound, Quiet

LEMMA CreateTableGains ==
  ASSUME SchemaInv, NEW tb \in TableNames, NEW names \in Creates,
         NEW idxs \in BoundedSeq(IndexNames, 1), NEW n, CreateTable(tb, names, idxs, n)
  PROVE  GainsNew(schema, schema', tb, {names[k] : k \in DOMAIN names})
<1> DEFINE cols == [k \in DOMAIN names |-> Column(names[k], "add", Attr)]
           made == [k \in DOMAIN idxs |-> Index(idxs[k], "add", "none", <<n>>)]
           N == {names[k] : k \in DOMAIN names}
           m == schema
           r == ReadCreateTable(m, tb, cols, made)
<1>1. IsSeq(names) /\ IsSeq(idxs)
  <2>1. IsSeq(names) BY MigrationAssumption
  <2>2. IsSeq(idxs) BY BoundedIsSeq
  <2> QED BY <2>1, <2>2
<1>2. IsSeq(cols) /\ IsSeq(made)
  <2>1. Len(names) \in Nat /\ DOMAIN names = 1 .. Len(names) /\ Len(idxs) \in Nat
        /\ DOMAIN idxs = 1 .. Len(idxs)
    BY <1>1, SeqIs
  <2>2. cols = [k \in 1 .. Len(names) |-> cols[k]] BY <2>1
  <2>3. made = [k \in 1 .. Len(idxs) |-> made[k]] BY <2>1
  <2> HIDE DEF cols, made
  <2> QED BY <2>1, <2>2, <2>3, FunctionIsSeq
<1>3. \A k \in DOMAIN cols : cols[k].name \in N BY DEF Column
<1>4. schema' = r BY DEF CreateTable
<1>5. SchemaShape(m) /\ tb # Nil BY SchemaNil DEF SchemaInv, Sound
<1> HIDE DEF cols, made, N, m, r
<1>6. GainsNew(m, r, tb, N)
  <2>1. SchemaShape(m) /\ tb # Nil /\ IsSeq(cols) /\ IsSeq(made) BY <1>2, <1>5
  <2>2. r = ReadCreateTable(m, tb, cols, made) BY DEF r
  <2>3. AreNamed(cols, N) BY <1>3 DEF AreNamed
  <2> QED BY <2>1, <2>2, <2>3, ReadCreateTableGains
<1> QED BY <1>4, <1>6 DEF m, N

LEMMA CreateTableSound ==
  ASSUME SchemaInv, NEW tb \in TableNames, NEW names \in Creates,
         NEW idxs \in BoundedSeq(IndexNames, 1), NEW n, CreateTable(tb, names, idxs, n)
  PROVE  /\ SchemaInv'
         /\ PositionInv => PositionInv'
<1> DEFINE N == {names[k] : k \in DOMAIN names}
           t == NewDbTable(names, idxs, n, "none")
           m == schema
           r == schema'
<1>1. IsSeq(names) BY MigrationAssumption
<1>2. schema' = r /\ db' = With(db, tb, t) /\ used' = With(used, tb, N) BY DEF CreateTable
<1>3. DbShape(t) /\ ColumnNamesOf(t) \subseteq N
  <2>1. /\ t.cols = [k \in DOMAIN names |-> [name |-> names[k], type |-> Type, opts |-> {}]]
        /\ t \in [cols : {t.cols}, idxs : {t.idxs}, fks : {t.fks}]
    BY DEF NewDbTable
  <2>2. Len(names) \in Nat /\ DOMAIN names = 1 .. Len(names) BY <1>1, SeqIs
  <2> DEFINE c == t.cols
  <2>3. c = [k \in 1 .. Len(names) |-> c[k]] BY <2>1, <2>2
  <2>4. \A k \in 1 .. Len(names) : c[k] = [name |-> names[k], type |-> Type, opts |-> {}]
    BY <2>1, <2>2
  <2> HIDE DEF c
  <2>5. IsSeq(c) /\ Len(c) = Len(names) /\ DOMAIN c = 1 .. Len(names) BY <2>2, <2>3, FunctionIsSeq
  <2>6. \A k \in DOMAIN c : IsDbColumn(c[k]) BY <2>4, <2>5 DEF IsDbColumn
  <2>7. DbShape(t) BY <2>1, <2>5, <2>6 DEF DbShape, c
  <2>8. \A k \in 1 .. Len(c) : c[k].name = names[k] BY <2>4, <2>5
  <2>9. \A k \in 1 .. Len(c) : c[k].name \in N BY <2>2, <2>5, <2>8
  <2>10. ColumnNamesOf(t) \subseteq N BY <2>9 DEF ColumnNamesOf, c
  <2> QED BY <2>7, <2>10
<1>4. GainsNew(m, r, tb, N) BY CreateTableGains
<1> HIDE DEF N, t, m, r
<1>5. /\ Gains(m, r, tb)
      /\ r.current = tb
      /\ TableOf(r, tb).action = "add"
      /\ Known(TableOf(r, tb)) \subseteq N
      /\ TableOf(r, tb).pos = NoPosition
  BY <1>4 DEF GainsNew
<1>6. SchemaShape(r) /\ tb \in KnownTables(r) /\ KnownTables(r) = KnownTables(m) \cup {tb}
  BY <1>5 DEF Gains
<1>7. DOMAIN db' = DOMAIN db \cup {tb} /\ DOMAIN used' = DOMAIN used \cup {tb} BY <1>2 DEF With
<1>8. TableOf(r, tb) = r.tables.items[r.tables.id[tb]] BY <1>6, KnownTable
<1>9. Sound(r, db', used')
  <2>1. Sound(m, db, used) BY DEF SchemaInv, m
  <2>2. KnownTables(r) \subseteq TableNames BY <1>6, <2>1 DEF Sound
  <2>3. \A i \in DOMAIN r.tables.items : r.tables.items[i].action \in Actions
    <3>1. \A i \in DOMAIN r.tables.items : i # r.tables.id[tb] =>
            i \in DOMAIN m.tables.items /\ r.tables.items[i] = m.tables.items[i]
      BY <1>5 DEF Gains
    <3>2. "add" \in Actions BY DEF Actions
    <3> QED BY <1>5, <1>8, <2>1, <3>1, <3>2 DEF Sound
  <2>4. ASSUME NEW k \in KnownTables(r) \ DOMAIN db' PROVE TableOf(r, k).action \in {"no", "remove"}
    <3>1. k \in KnownTables(m) \ {tb} /\ k \notin DOMAIN db BY <1>6, <1>7, <2>4
    <3>2. TableOf(r, k) = TableOf(m, k) BY <1>5, <3>1 DEF Gains
    <3> QED BY <2>1, <3>1, <3>2 DEF Sound
  <2>5. DOMAIN db' \subseteq KnownTables(r) /\ DOMAIN used' = DOMAIN db'
    BY <1>6, <1>7, <2>1 DEF Sound
  <2> QED BY <1>5, <1>6, <2>2, <2>3, <2>4, <2>5 DEF Sound
<1>10. ASSUME PositionInv PROVE Quiet(r, db', used')
  <2>1. Quiet(m, db, used) /\ DOMAIN db \subseteq KnownTables(m) /\ DOMAIN used = DOMAIN db
    BY <1>10 DEF PositionInv, SchemaInv, Sound, m
  <2>2. \A i \in DOMAIN r.tables.items : Settled(r.tables.items[i])
    <3>1. \A i \in DOMAIN r.tables.items : i # r.tables.id[tb] =>
            i \in DOMAIN m.tables.items /\ r.tables.items[i] = m.tables.items[i]
      BY <1>5 DEF Gains
    <3>2. Settled(TableOf(r, tb)) BY <1>5 DEF Settled, NoPosition
    <3> QED BY <1>8, <2>1, <3>1, <3>2 DEF Quiet
  <2>3. ASSUME NEW k \in DOMAIN db' PROVE Follows(TableOf(r, k), db'[k], used'[k])
    <3>1. CASE k = tb
      <4>1. db'[k] = t /\ used'[k] = N BY <1>2, <3>1 DEF With
      <4> QED BY <1>3, <1>5, <3>1, <4>1 DEF Follows
    <3>2. CASE k # tb
      <4>1. k \in DOMAIN db /\ k \in KnownTables(m) \ {tb} BY <1>7, <2>1, <2>3, <3>2
      <4>2. db'[k] = db[k] /\ used'[k] = used[k] BY <1>2, <2>1, <3>2, <4>1 DEF With
      <4>3. TableOf(r, k) = TableOf(m, k) BY <1>5, <4>1 DEF Gains
      <4> QED BY <2>1, <4>1, <4>2, <4>3 DEF Quiet
    <3> QED BY <3>1, <3>2
  <2> QED BY <2>2, <2>3 DEF Quiet
<1> QED BY <1>2, <1>9, <1>10 DEF SchemaInv, PositionInv, r

LEMMA DropTablesSound ==
  ASSUME SchemaInv, NEW tbs \in BoundedSeq(TableNames, 2), tbs # <<>>, DropTables(tbs)
  PROVE  /\ SchemaInv'
         /\ PositionInv => PositionInv'
<1> DEFINE gone == {tbs[k] : k \in DOMAIN tbs}
           m == schema
           r == ReadDropTable(m, tbs)
<1>1. Sound(m, db, used) /\ SchemaShape(m) BY DEF SchemaInv, Sound
<1>2. IsSeq(tbs) /\ Len(tbs) # 0 BY BoundedIsSeq
<1>3. gone \subseteq DOMAIN db /\ schema' = r /\ db' = Without(db, gone) /\ used' = Without(used, gone)
  BY DEF DropTables
<1>4. \A k \in DOMAIN tbs : tbs[k] \in KnownTables(m) BY <1>1, <1>3 DEF Sound
<1>5. r = ReadDropTable(m, tbs) OBVIOUS
<1> HIDE DEF r, m
<1>6. Marks(m, r, gone) /\ r.current \in KnownTables(m) BY <1>1, <1>2, <1>4, <1>5, ReadDropTableMarks
<1> HIDE DEF gone
<1>7. /\ DOMAIN db' = DOMAIN db \ gone /\ \A k \in DOMAIN db' : db'[k] = db[k]
      /\ DOMAIN used' = DOMAIN used \ gone /\ \A k \in DOMAIN used' : used'[k] = used[k]
  BY <1>3 DEF Without
<1>8. SchemaShape(r) /\ KnownTables(r) = KnownTables(m) BY <1>6 DEF Marks, KnownTables
<1>9. Sound(r, db', used')
  <2>1. \A i \in DOMAIN r.tables.items : r.tables.items[i].action \in Actions
    <3>1. "no" \in Actions /\ "remove" \in Actions BY DEF Actions
    <3> QED BY <1>1, <1>6, <3>1 DEF Marks, Sound
  <2>2. ASSUME NEW k \in KnownTables(r) \ DOMAIN db' PROVE TableOf(r, k).action \in {"no", "remove"}
    <3>1. CASE k \in gone BY <1>6, <1>8, <2>2, <3>1 DEF Marks
    <3>2. CASE k \notin gone
      <4>1. TableOf(r, k) = TableOf(m, k) BY <1>6, <1>8, <2>2, <3>2 DEF Marks
      <4> QED BY <1>1, <1>7, <1>8, <2>2, <3>2, <4>1 DEF Sound
    <3> QED BY <3>1, <3>2
  <2>3. DOMAIN db' \subseteq KnownTables(r) /\ DOMAIN used' = DOMAIN db' BY <1>1, <1>7, <1>8 DEF Sound
  <2>4. KnownTables(r) \subseteq TableNames BY <1>1, <1>8 DEF Sound
  <2> QED BY <1>6, <1>8, <2>1, <2>2, <2>3, <2>4 DEF Sound
<1>10. ASSUME PositionInv PROVE Quiet(r, db', used')
  <2>1. Quiet(m, db, used) BY <1>10 DEF PositionInv, m
  <2>2. \A i \in DOMAIN r.tables.items : Settled(r.tables.items[i])
    BY <1>6, <2>1 DEF Marks, Quiet, Settled
  <2>3. ASSUME NEW k \in DOMAIN db' PROVE Follows(TableOf(r, k), db'[k], used'[k])
    <3>1. k \in DOMAIN db /\ k \notin gone /\ k \in DOMAIN used' /\ k \in KnownTables(m)
      BY <1>1, <1>7, <2>3 DEF Sound
    <3>2. TableOf(r, k) = TableOf(m, k) BY <1>6, <3>1 DEF Marks
    <3>3. db'[k] = db[k] /\ used'[k] = used[k] BY <1>7, <2>3, <3>1
    <3> QED BY <2>1, <3>1, <3>2, <3>3 DEF Quiet
  <2> QED BY <2>2, <2>3 DEF Quiet
<1> QED BY <1>3, <1>9, <1>10 DEF SchemaInv, PositionInv

LEMMA RenameToSound ==
  ASSUME SchemaInv, NEW tb \in TableNames, NEW to \in TableNames, RenameTo(tb, to)
  PROVE  /\ SchemaInv'
         /\ PositionInv => PositionInv'
<1> DEFINE m == schema
           r == ReadAlter(m, tb, <<[op |-> "renameTable", to |-> to]>>)
<1>1. Sound(m, db, used) /\ SchemaShape(m) BY DEF SchemaInv, Sound
<1>2. /\ tb \in DOMAIN db /\ to \notin DOMAIN db /\ schema' = r
      /\ db' = Without(With(db, to, db[tb]), {tb})
      /\ used' = Without(With(used, to, used[tb]), {tb})
  BY DEF RenameTo
<1>3. tb \in KnownTables(m) /\ to # tb BY <1>1, <1>2 DEF Sound
<1>4. r = ReadAlter(m, tb, <<[op |-> "renameTable", to |-> to]>>) OBVIOUS
<1> HIDE DEF r, m
<1>5. Renames(m, r, tb, to) BY <1>1, <1>3, <1>4, ReadRenameRenames
<1>6. /\ DOMAIN db' = (DOMAIN db \cup {to}) \ {tb}
      /\ DOMAIN used' = (DOMAIN used \cup {to}) \ {tb}
      /\ db'[to] = db[tb] /\ used'[to] = used[tb]
      /\ \A k \in DOMAIN db \ {tb} : k # to => db'[k] = db[k]
      /\ \A k \in DOMAIN used \ {tb} : k # to => used'[k] = used[k]
  BY <1>2, <1>3 DEF With, Without
<1>7. SchemaShape(r) /\ KnownTables(r) = (KnownTables(m) \cup {to}) \ {tb} BY <1>5 DEF Renames
<1>8. to \in KnownTables(r) /\ TableOf(r, to) = r.tables.items[r.tables.id[to]]
  BY <1>3, <1>7, KnownTable
<1>9. Sound(r, db', used')
  <2>1. \A i \in DOMAIN r.tables.items : r.tables.items[i].action \in Actions
    <3>1. "remove" \in Actions BY DEF Actions
    <3>2. \A i \in DOMAIN r.tables.items : i # r.tables.id[to] =>
            i \in DOMAIN m.tables.items /\ r.tables.items[i] = m.tables.items[i]
      BY <1>5 DEF Renames
    <3>3. TableOf(r, to).action = "remove" BY <1>5 DEF Renames
    <3> QED BY <1>1, <1>8, <3>1, <3>2, <3>3 DEF Sound
  <2>2. ASSUME NEW k \in KnownTables(r) \ DOMAIN db' PROVE TableOf(r, k).action \in {"no", "remove"}
    <3>1. k # to /\ k # tb /\ k \in KnownTables(m) /\ k \notin DOMAIN db BY <1>3, <1>6, <1>7, <2>2
    <3>2. TableOf(r, k) = TableOf(m, k) BY <1>5, <2>2, <3>1 DEF Renames
    <3> QED BY <1>1, <3>1, <3>2 DEF Sound
  <2>3. DOMAIN db' \subseteq KnownTables(r) /\ DOMAIN used' = DOMAIN db' BY <1>1, <1>6, <1>7 DEF Sound
  <2>4. KnownTables(r) \subseteq TableNames BY <1>1, <1>7 DEF Sound
  <2>5. r.current \in KnownTables(r) BY <1>5, <1>8 DEF Renames
  <2> QED BY <1>7, <2>1, <2>2, <2>3, <2>4, <2>5 DEF Sound
<1>10. ASSUME PositionInv PROVE Quiet(r, db', used')
  <2>1. Quiet(m, db, used) BY <1>10 DEF PositionInv, m
  <2>2. \A i \in DOMAIN r.tables.items : Settled(r.tables.items[i])
    <3>1. \A i \in DOMAIN r.tables.items : i # r.tables.id[to] =>
            i \in DOMAIN m.tables.items /\ r.tables.items[i] = m.tables.items[i]
      BY <1>5 DEF Renames
    <3>2. TableOf(r, to).pos = TableOf(m, tb).pos BY <1>5 DEF Renames
    <3>3. Settled(TableOf(m, tb))
      <4>1. TableOf(m, tb) = m.tables.items[m.tables.id[tb]] /\ m.tables.id[tb] \in DOMAIN m.tables.items
        BY <1>1, <1>3, KnownTable
      <4> QED BY <2>1, <4>1 DEF Quiet
    <3>4. Settled(TableOf(r, to)) BY <3>2, <3>3 DEF Settled
    <3> QED BY <1>8, <2>1, <3>1, <3>4 DEF Quiet
  <2>3. ASSUME NEW k \in DOMAIN db' PROVE Follows(TableOf(r, k), db'[k], used'[k])
    <3>1. CASE k = to
      <4>1. Known(TableOf(r, to)) = Known(TableOf(m, tb)) BY <1>5 DEF Renames
      <4>2. Follows(TableOf(m, tb), db[tb], used[tb]) BY <1>2, <2>1 DEF Quiet
      <4> QED BY <1>6, <3>1, <4>1, <4>2 DEF Follows
    <3>2. CASE k # to
      <4>1. k \in DOMAIN db \ {tb} /\ k \in DOMAIN used \ {tb} /\ k \in KnownTables(r) \ {to}
        BY <1>1, <1>6, <1>7, <2>3, <3>2 DEF Sound
      <4>2. TableOf(r, k) = TableOf(m, k) BY <1>5, <4>1 DEF Renames
      <4>3. db'[k] = db[k] /\ used'[k] = used[k] BY <1>6, <3>2, <4>1
      <4> QED BY <2>1, <4>1, <4>2, <4>3 DEF Quiet
    <3> QED BY <3>1, <3>2
  <2> QED BY <2>2, <2>3 DEF Quiet
<1> QED BY <1>2, <1>9, <1>10 DEF SchemaInv, PositionInv

\* e is the database d after a statement of its table tb.
ExecutedIn(d, e, tb, stm) ==
  tb \in DOMAIN d /\ Legal(d[tb], stm) /\ e = [d EXCEPT ![tb] = Exec(@, stm)]

LEMMA TouchedKeeps ==
  ASSUME SchemaInv, NEW tb, NEW stm, stm.op \in {"createIndex", "dropIndex"},
         NEW r, Touches(schema, r, tb, {}, {}), r.current = tb,
         NEW e, ExecutedIn(db, e, tb, stm)
  PROVE  /\ Sound(r, e, used)
         /\ PositionInv => Quiet(r, e, used)
<1> DEFINE m == schema
<1>1. Sound(m, db, used) /\ SchemaShape(m) /\ tb \in KnownTables(m)
      /\ tb \in DOMAIN db /\ Legal(db[tb], stm)
  BY DEF SchemaInv, Sound, ExecutedIn
<1>2. Touches(m, r, tb, {}, {}) OBVIOUS
<1> HIDE DEF m
<1>3. DOMAIN e = DOMAIN db /\ e[tb] = Exec(db[tb], stm) /\ \A k \in DOMAIN db : k # tb => e[k] = db[k]
  BY <1>1 DEF ExecutedIn
<1>4. Sound(r, e, used)
  <2>1. SameTables(m, r) /\ DOMAIN used = DOMAIN used BY <1>2 DEF Touches
  <2> QED BY <1>1, <1>3, <2>1, SoundSame
<1>5. ASSUME PositionInv PROVE Quiet(r, e, used)
  <2>1. Quiet(m, db, used) BY <1>5 DEF PositionInv, m
  <2>2. /\ r.tables.id = m.tables.id /\ DOMAIN r.tables.items = DOMAIN m.tables.items
        /\ SchemaShape(r) /\ KnownTables(r) = KnownTables(m)
    BY <1>2 DEF Touches, SameTables, KnownTables
  <2>3. TableOf(m, tb) = m.tables.items[m.tables.id[tb]] /\ m.tables.id[tb] \in DOMAIN m.tables.items
    BY <1>1, KnownTable
  <2>4. TableOf(r, tb) = r.tables.items[m.tables.id[tb]] BY <1>1, <2>2, KnownTable
  <2>5. \A i \in DOMAIN r.tables.items : Settled(r.tables.items[i])
    <3>1. Settled(TableOf(m, tb)) BY <2>1, <2>3 DEF Quiet
    <3>2. Settled(TableOf(r, tb)) BY <1>2, <3>1 DEF Touches, Settled, NoPosition
    <3> QED BY <1>2, <2>1, <2>2, <2>4, <3>2 DEF Quiet, Touches
  <2>6. ASSUME NEW k \in DOMAIN e PROVE Follows(TableOf(r, k), e[k], used[k])
    <3>1. CASE k = tb
      <4>1. Follows(TableOf(m, tb), db[tb], used[tb]) BY <1>1, <2>1 DEF Quiet
      <4>2. Known(TableOf(r, tb)) \subseteq Known(TableOf(m, tb)) BY <1>2 DEF Touches
      <4> DEFINE d == db[tb]
                 f == Exec(d, stm)
      <4>3. DbShape(d) /\ ColumnNamesOf(d) \subseteq used[tb] /\ Legal(d, stm)
        BY <1>1, <4>1 DEF Follows
      <4>4. f = Exec(d, stm) /\ stm.op \in AlterOps \cup {"createIndex", "dropIndex"} OBVIOUS
      <4>5. NamesGiven(stm) = {} BY DEF NamesGiven
      <4> HIDE DEF d, f
      <4>6. DbShape(f) /\ ColumnNamesOf(f) \subseteq ColumnNamesOf(d) \cup NamesGiven(stm)
        BY <4>3, <4>4, ExecNames
      <4>7. e[tb] = f BY <1>3 DEF f, d
      <4>8. ColumnNamesOf(f) \subseteq used[tb] BY <4>3, <4>5, <4>6
      <4> QED BY <3>1, <4>1, <4>2, <4>6, <4>7, <4>8 DEF Follows
    <3>2. CASE k # tb
      <4>1. k \in DOMAIN db /\ k \in KnownTables(m) BY <1>1, <1>3, <2>6 DEF Sound
      <4>2. TableOf(r, k) = TableOf(m, k) BY <1>1, <1>2, <3>2, <4>1, TouchesOne
      <4>3. e[k] = db[k] BY <1>3, <3>2, <4>1
      <4> QED BY <2>1, <4>1, <4>2, <4>3 DEF Quiet
    <3> QED BY <3>1, <3>2
  <2> QED BY <2>5, <2>6 DEF Quiet
<1> QED BY <1>4, <1>5

LEMMA CreateIndexSound ==
  ASSUME SchemaInv, NEW tb \in TableNames, NEW i, NEW n, CreateIndex(tb, i, n)
  PROVE  /\ SchemaInv'
         /\ PositionInv => PositionInv'
<1> DEFINE stm == [op |-> "createIndex", idx |-> i, typ |-> "none", columns |-> <<n>>]
           idx == Index(i, "add", "none", <<n>>)
           r == schema'
           e == db'
<1>1. /\ tb \in DOMAIN db /\ Legal(db[tb], stm) /\ r = ReadCreateIndex(schema, tb, idx)
      /\ e = [db EXCEPT ![tb] = Exec(@, stm)] /\ used' = used
  BY DEF CreateIndex
<1>2. SchemaShape(schema) /\ tb \in KnownTables(schema) BY <1>1 DEF SchemaInv, Sound
<1>3. stm.op \in {"createIndex", "dropIndex"} OBVIOUS
<1> HIDE DEF stm, idx, r, e
<1>4. Touches(schema, r, tb, {}, {}) /\ r.current = tb BY <1>1, <1>2, ReadIndexTouches
<1>5. ExecutedIn(db, e, tb, stm) BY <1>1 DEF ExecutedIn
<1>6. Sound(r, e, used) /\ (PositionInv => Quiet(r, e, used)) BY <1>3, <1>4, <1>5, TouchedKeeps
<1> QED BY <1>1, <1>6 DEF SchemaInv, PositionInv, r, e

LEMMA DropIndexSound ==
  ASSUME SchemaInv, NEW tb \in TableNames, NEW i, DropIndex(tb, i)
  PROVE  /\ SchemaInv'
         /\ PositionInv => PositionInv'
<1> DEFINE stm == [op |-> "dropIndex", idx |-> i]
           r == schema'
           e == db'
<1>1. /\ tb \in DOMAIN db /\ Legal(db[tb], stm) /\ r = ReadDropIndex(schema, tb, i)
      /\ e = [db EXCEPT ![tb] = Exec(@, stm)] /\ used' = used
  BY DEF DropIndex
<1>2. SchemaShape(schema) /\ tb \in KnownTables(schema) BY <1>1 DEF SchemaInv, Sound
<1>3. stm.op \in {"createIndex", "dropIndex"} OBVIOUS
<1> HIDE DEF stm, r, e
<1>4. Touches(schema, r, tb, {}, {}) /\ r.current = tb BY <1>1, <1>2, ReadIndexTouches
<1>5. ExecutedIn(db, e, tb, stm) BY <1>1 DEF ExecutedIn
<1>6. Sound(r, e, used) /\ (PositionInv => Quiet(r, e, used)) BY <1>3, <1>4, <1>5, TouchedKeeps
<1> QED BY <1>1, <1>6 DEF SchemaInv, PositionInv, r, e

LEMMA AlterTableSound ==
  ASSUME SchemaInv, NEW tb \in TableNames, NEW specs \in Alters, AlterTable(tb, specs)
  PROVE  SchemaInv'
<1> DEFINE m == schema
           r == ReadAlter(m, tb, specs)
<1>1. /\ tb \in DOMAIN db /\ LegalAlter(tb, specs) /\ schema' = r
      /\ DOMAIN db' = DOMAIN db /\ DOMAIN used' = DOMAIN used
  BY DEF AlterTable
<1>2. Sound(m, db, used) /\ SchemaShape(m) /\ tb \in KnownTables(m) /\ Nil \notin KnownTables(m)
      /\ m.current \in KnownTables(m)
  BY <1>1, SchemaNil DEF SchemaInv, Sound
<1>3. IsSeq(specs) /\ \A k \in DOMAIN specs : specs[k].op \in AlterOps BY MigrationAssumption
<1>4. \A k \in DOMAIN specs : specs[k].op = "addForeignKey" => specs[k].ref \in KnownTables(m)
  BY <1>1, <1>2 DEF LegalAlter, Sound
<1> HIDE DEF m
<1>5. SameTables(m, r) /\ r.current \in KnownTables(m) BY <1>2, <1>3, <1>4, ReadAlterKeepsTables
<1> DEFINE e == db'
           v == used'
<1> HIDE DEF r, e, v
<1>6. DOMAIN e = DOMAIN db /\ DOMAIN v = DOMAIN used BY <1>1 DEF e, v
<1>7. Sound(r, e, v) BY <1>2, <1>5, <1>6, SoundSame
<1> QED BY <1>1, <1>7 DEF SchemaInv, e, v

----------------------------------------------------------------------------
(* Without strays no position waits.                                          *)

\* The columns that an ALTER TABLE drops or redefines are columns of the table, or
\* earlier specifications have named them so.
Mentions(d, specs) ==
  \A k \in DOMAIN specs :
    specs[k].op \in {"dropColumn", "modifyColumn"} =>
      specs[k].col \in ColumnNamesOf(d) \cup GivenTo(specs, k - 1)

\* All of them are in order.
AreAlters(specs) ==
  /\ IsSeq(specs)
  /\ \A k \in DOMAIN specs : specs[k].op \in AlterOps

LEMMA AlterMentions ==
  ASSUME NEW d, DbShape(d), NEW specs, AreAlters(specs), LegalInOrder(d, specs)
  PROVE  /\ Mentions(d, specs)
         /\ NamesUpTo(d, FoldLeft(Exec, d, specs), NewNames(specs))
<1>1. IsSeq(specs) /\ (\A k \in DOMAIN specs : specs[k].op \in AlterOps) BY DEF AreAlters
<1>2. \A k \in 0 .. Len(specs) : NamesUpTo(d, ExecutedTo(d, specs, k), GivenTo(specs, k))
  BY <1>1, AlterNames
<1>3. FoldLeft(Exec, d, specs) = ExecutedTo(d, specs, Len(specs)) BY <1>1, AlterNames
<1>4. Len(specs) \in Nat /\ DOMAIN specs = 1 .. Len(specs) BY <1>1, SeqIs
<1>5. Mentions(d, specs)
  <2>1. ASSUME NEW k \in DOMAIN specs, specs[k].op \in {"dropColumn", "modifyColumn"}
        PROVE  specs[k].col \in ColumnNamesOf(d) \cup GivenTo(specs, k - 1)
    <3>1. Legal(ExecutedTo(d, specs, k - 1), specs[k]) BY DEF LegalInOrder, ExecutedTo
    <3>2. specs[k].col \in ColumnNamesOf(ExecutedTo(d, specs, k - 1)) BY <2>1, <3>1 DEF Legal, KeyDrops
    <3>3. k - 1 \in 0 .. Len(specs) BY <1>4
    <3>4. NamesUpTo(d, ExecutedTo(d, specs, k - 1), GivenTo(specs, k - 1)) BY <1>2, <3>3
    <3> QED BY <3>2, <3>4 DEF NamesUpTo
  <2> QED BY <2>1 DEF Mentions
<1>6. NamesUpTo(d, FoldLeft(Exec, d, specs), NewNames(specs))
  <2>1. Len(specs) \in 0 .. Len(specs) BY <1>4
  <2>2. NamesUpTo(d, ExecutedTo(d, specs, Len(specs)), GivenTo(specs, Len(specs))) BY <1>2, <2>1
  <2>3. GivenTo(specs, Len(specs)) = NewNames(specs) BY <1>4 DEF GivenTo, NewNames
  <2> QED BY <1>3, <2>2, <2>3
<1> QED BY <1>5, <1>6

\* No column is defined twice, and so a column that is added is mentioned by no other
\* specification.
DefinedOnce(specs) ==
  \A j, k \in DOMAIN specs :
    Defines(specs[j]) /\ Defines(specs[k]) /\ specs[j].col = specs[k].col => j = k

LEMMA AddedIsNew ==
  ASSUME NEW tb, NEW d, NEW specs, AreAlters(specs), StaysInTable(tb, specs), NamesAreNew(tb, specs),
         DefinedOnce(specs), ColumnNamesOf(d) \subseteq used[tb], Mentions(d, specs),
         NEW k \in DOMAIN specs, specs[k].op = "addColumn"
  PROVE  /\ specs[k].col \notin used[tb]
         /\ \A j \in DOMAIN specs : /\ specs[k].col \notin NamesEntered(specs[j])
                                    /\ j # k => specs[k].col \notin NamesVisited(specs[j])
<1>1. DOMAIN specs = 1 .. Len(specs) /\ Len(specs) \in Nat /\ IsSeq(specs) BY SeqIs DEF AreAlters
<1>2. Defines(specs[k]) BY DEF Defines
<1>3. NamesGiven(specs[k]) = {specs[k].col} /\ specs[k].col \notin used[tb]
  <2>1. NamesGiven(specs[k]) = {specs[k].col} BY <1>2 DEF NamesGiven
  <2>2. specs[k].col \in NewNames(specs) BY <2>1 DEF NewNames
  <2> QED BY <2>1, <2>2 DEF NamesAreNew
<1>4. \A i \in DOMAIN specs : i # k => specs[k].col \notin NamesGiven(specs[i])
  BY <1>3 DEF NamesAreNew
<1>5. ASSUME NEW j \in DOMAIN specs, Defines(specs[j]), j # k PROVE specs[j].col # specs[k].col
  BY <1>2, <1>5 DEF DefinedOnce
<1>6. ASSUME NEW j \in DOMAIN specs PROVE specs[k].col \notin NamesEntered(specs[j])
  <2>1. CASE specs[j].op = "renameColumn"
    <3>1. NamesEntered(specs[j]) = NamesGiven(specs[j]) /\ j # k
      BY <1>2, <2>1 DEF NamesEntered, NamesGiven
    <3> QED BY <1>4, <3>1
  <2>2. CASE specs[j].op = "modifyColumn"
    <3>1. Defines(specs[j]) /\ NamesEntered(specs[j]) = {specs[j].col} /\ j # k
      BY <2>2 DEF Defines, NamesEntered
    <3> QED BY <1>5, <3>1
  <2>3. CASE specs[j].op = "dropColumn"
    <3>1. NamesEntered(specs[j]) = {specs[j].col} BY <2>3 DEF NamesEntered
    <3>2. j # k /\ ~Defines(specs[j]) /\ ~RefersTo(specs[j]) BY <1>2, <2>3 DEF Defines, RefersTo
    <3>3. ~(j > k)
      <4>1. \A i \in k + 1 .. Len(specs) : Defines(specs[i]) \/ RefersTo(specs[i])
        BY <1>2 DEF StaysInTable
      <4> QED BY <1>1, <3>2, <4>1
    <3>4. j < k BY <1>1, <3>2, <3>3
    <3>5. specs[j].col \in used[tb] \cup GivenTo(specs, j - 1) BY <2>3 DEF Mentions
    <3>6. specs[k].col \notin GivenTo(specs, j - 1) BY <1>1, <1>4, <3>4 DEF GivenTo
    <3> QED BY <1>3, <3>1, <3>5, <3>6
  <2>4. CASE specs[j].op \notin {"dropColumn", "modifyColumn", "renameColumn"}
    BY <2>4 DEF NamesEntered
  <2> QED BY <2>1, <2>2, <2>3, <2>4
<1>7. ASSUME NEW j \in DOMAIN specs, j # k PROVE specs[k].col \notin NamesVisited(specs[j])
  BY <1>5, <1>7 DEF NamesVisited, Defines
<1> QED BY <1>3, <1>6, <1>7

LEMMA AlterPremiseHolds ==
  ASSUME SchemaInv, PositionInv, ~Strays, NEW tb \in TableNames, NEW specs \in Alters,
         AlterTable(tb, specs)
  PROVE  AlterPremise(tb, specs, used[tb] \cup NewNames(specs))
<1> DEFINE N == used[tb] \cup NewNames(specs)
<1>1. /\ tb \in DOMAIN db /\ LegalAlter(tb, specs) /\ NamesAreNew(tb, specs)
      /\ StaysInTable(tb, specs)
  BY DEF AlterTable
<1>2. /\ SchemaShape(schema) /\ tb \in KnownTables(schema) /\ Nil \notin KnownTables(schema)
      /\ schema.current \in KnownTables(schema)
  BY <1>1, SchemaNil DEF SchemaInv, Sound
<1>3. AreAlters(specs) /\ \A k \in DOMAIN specs : specs[k].op = "addColumn" => specs[k].pos.tp \in Places
  BY MigrationAssumption DEF AreAlters
<1>4. \A k \in DOMAIN specs : RefersTo(specs[k]) => specs[k].ref \in KnownTables(schema)
  BY <1>1 DEF LegalAlter, SchemaInv, Sound, RefersTo
<1>5. Follows(TableOf(schema, tb), db[tb], used[tb]) BY <1>1 DEF PositionInv, Quiet
<1>6. Settled(TableOf(schema, tb))
  <2>1. /\ TableOf(schema, tb) = schema.tables.items[schema.tables.id[tb]]
        /\ schema.tables.id[tb] \in DOMAIN schema.tables.items
    BY <1>2, KnownTable
  <2> QED BY <2>1 DEF PositionInv, Quiet
<1> DEFINE d == db[tb]
<1>7. LegalInOrder(d, specs) BY <1>1 DEF LegalInOrder, LegalAlter
<1>8. DbShape(d) /\ ColumnNamesOf(d) \subseteq used[tb] BY <1>5 DEF Follows
<1> HIDE DEF d
<1>9. Mentions(d, specs) BY <1>3, <1>7, <1>8, AlterMentions
<1>10. \A k \in DOMAIN specs : NamesGiven(specs[k]) \subseteq N BY DEF NewNames
<1>11. \A k \in DOMAIN specs : specs[k].op \in {"dropColumn", "modifyColumn"} => specs[k].col \in N
  <2>1. ASSUME NEW k \in DOMAIN specs PROVE GivenTo(specs, k - 1) \subseteq NewNames(specs)
    <3>1. DOMAIN specs = 1 .. Len(specs) /\ Len(specs) \in Nat BY <1>3, SeqIs DEF AreAlters
    <3>2. 1 .. k - 1 \subseteq DOMAIN specs BY <3>1
    <3> QED BY <3>2 DEF GivenTo, NewNames
  <2> QED BY <1>8, <1>9, <2>1 DEF Mentions
<1>12. ASSUME NEW k \in DOMAIN specs
       PROVE  NamesEntered(specs[k]) \subseteq N /\ NamesVisited(specs[k]) \subseteq N
  <2> HIDE DEF N
  <2>1. CASE specs[k].op \in {"dropColumn", "modifyColumn"}
    BY <1>11, <2>1 DEF NamesEntered, NamesVisited
  <2>2. CASE specs[k].op \in {"addColumn", "renameColumn"}
    BY <1>10, <2>2 DEF NamesEntered, NamesVisited, NamesGiven
  <2>3. CASE specs[k].op \notin {"dropColumn", "modifyColumn", "addColumn", "renameColumn"}
    BY <2>3 DEF NamesEntered, NamesVisited
  <2> QED BY <2>1, <2>2, <2>3
<1>13. ASSUME NEW k \in DOMAIN specs, IsPositioned(specs[k])
       PROVE  /\ specs[k].col \notin Known(TableOf(schema, tb))
              /\ \A j \in DOMAIN specs : specs[k].col \notin NamesEntered(specs[j])
  <2>1. NamesGiven(specs[k]) = {specs[k].col} BY <1>13 DEF IsPositioned, NamesGiven
  <2>2. specs[k].col \notin used[tb] BY <1>1, <2>1 DEF NamesAreNew, NewNames
  <2>3. specs[k].col \notin Known(TableOf(schema, tb)) BY <1>5, <2>2 DEF Follows
  <2>4. \A j \in DOMAIN specs : specs[k].col \notin NamesEntered(specs[j])
    <3>1. specs[k].op = "addColumn" BY <1>13 DEF IsPositioned
    <3>2. DefinedOnce(specs) BY <1>1 DEF LegalAlter, DefinedOnce
    <3> QED BY <1>1, <1>3, <1>8, <1>9, <3>1, <3>2, AddedIsNew
  <2> QED BY <2>3, <2>4
<1> HIDE DEF N
<1>14. AlterPremise(tb, specs, N)
  BY <1>1, <1>2, <1>3, <1>4, <1>6, <1>12, <1>13 DEF AlterPremise, AreAlters
<1> QED BY <1>14 DEF N

LEMMA AlterTableReads ==
  ASSUME SchemaInv, PositionInv, ~Strays, NEW tb \in TableNames, NEW specs \in Alters,
         AlterTable(tb, specs)
  PROVE  Reads(schema, schema', tb, used[tb] \cup NewNames(specs)) /\ Settled(TableOf(schema', tb))
<1> DEFINE N == used[tb] \cup NewNames(specs)
           r == ReadAlter(schema, tb, specs)
<1>1. AlterPremise(tb, specs, N) BY AlterPremiseHolds
<1>2. schema' = r BY DEF AlterTable
<1> HIDE DEF N
<1>3. Reads(schema, r, tb, N) /\ Settled(TableOf(r, tb)) BY <1>1, ReadAlterReads
<1> QED BY <1>2, <1>3 DEF N

\* The other tables.
LEMMA ReadsOthers ==
  ASSUME NEW m, SchemaShape(m), NEW tb \in KnownTables(m), NEW r, NEW N, Reads(m, r, tb, N),
         NEW k \in KnownTables(m), k # tb
  PROVE  SameButPosition(TableOf(m, k), TableOf(r, k))
<1>1. SchemaShape(r) /\ KnownTables(r) = KnownTables(m) /\ r.tables.id = m.tables.id
  BY DEF Reads, SameTables, KnownTables
<1>2. TableOf(m, k) = m.tables.items[m.tables.id[k]] /\ m.tables.id[k] \in DOMAIN m.tables.items
  BY KnownTable
<1>3. TableOf(r, k) = r.tables.items[m.tables.id[k]] BY <1>1, KnownTable
<1>4. m.tables.id[k] # m.tables.id[tb] BY OtherTable
<1> QED BY <1>2, <1>3, <1>4 DEF Reads

LEMMA AlterTableQuiet ==
  ASSUME SchemaInv, PositionInv, ~Strays, NEW tb \in TableNames, NEW specs \in Alters,
         AlterTable(tb, specs)
  PROVE  PositionInv'
<1> DEFINE m == schema
           r == ReadAlter(m, tb, specs)
           N == used[tb] \cup NewNames(specs)
           d == db[tb]
           e == FoldLeft(Exec, d, specs)
<1>1. /\ tb \in DOMAIN db /\ schema' = r /\ LegalAlter(tb, specs)
      /\ db' = [db EXCEPT ![tb] = e] /\ used' = [used EXCEPT ![tb] = N]
  BY DEF AlterTable
<1>2. Sound(m, db, used) /\ Quiet(m, db, used) /\ SchemaShape(m) /\ tb \in KnownTables(m)
      /\ tb \in DOMAIN used
  BY <1>1 DEF SchemaInv, PositionInv, Sound
<1>3. /\ DOMAIN db' = DOMAIN db /\ db'[tb] = e /\ used'[tb] = N
      /\ \A k \in DOMAIN db : k # tb => db'[k] = db[k]
      /\ \A k \in DOMAIN db : k # tb => used'[k] = used[k]
  BY <1>1, <1>2 DEF Sound
<1>4. Reads(m, r, tb, N) /\ Settled(TableOf(r, tb)) BY <1>1, AlterTableReads
<1>5. Follows(TableOf(m, tb), d, used[tb]) BY <1>1, <1>2 DEF Quiet
<1>6. NamesUpTo(d, e, NewNames(specs))
  <2>1. AreAlters(specs) BY MigrationAssumption DEF AreAlters
  <2>2. LegalInOrder(d, specs) BY <1>1 DEF LegalInOrder, LegalAlter
  <2>3. DbShape(d) BY <1>5 DEF Follows
  <2> HIDE DEF d
  <2> QED BY <2>1, <2>2, <2>3, AlterMentions
<1> HIDE DEF m, r, d, e
<1>7. /\ r.tables.id = m.tables.id /\ DOMAIN r.tables.items = DOMAIN m.tables.items
      /\ SchemaShape(r) /\ KnownTables(r) = KnownTables(m)
  BY <1>4 DEF Reads, SameTables, KnownTables
<1>8. \A k \in KnownTables(m) :
        /\ TableOf(m, k) = m.tables.items[m.tables.id[k]] /\ m.tables.id[k] \in DOMAIN m.tables.items
        /\ TableOf(r, k) = r.tables.items[m.tables.id[k]]
        /\ TableShape(TableOf(m, k)) /\ TableShape(TableOf(r, k))
  BY <1>2, <1>7, KnownTable
<1>9. \A i \in DOMAIN r.tables.items : Settled(r.tables.items[i])
  BY <1>2, <1>4, <1>7, <1>8 DEF Reads, Quiet
<1>10. Follows(TableOf(r, tb), e, N) BY <1>4, <1>5, <1>6 DEF Reads, Follows, NamesUpTo
<1>11. ASSUME NEW k \in DOMAIN db, k # tb PROVE Follows(TableOf(r, k), db[k], used[k])
  <2>1. k \in KnownTables(m) BY <1>2 DEF Sound
  <2>2. TableShape(TableOf(m, k)) /\ TableShape(TableOf(r, k)) BY <1>8, <2>1
  <2>3. SameButPosition(TableOf(m, k), TableOf(r, k)) BY <1>2, <1>4, <1>11, <2>1, ReadsOthers
  <2>4. Known(TableOf(r, k)) = Known(TableOf(m, k))
    <3> DEFINE t == TableOf(m, k)
               u == TableOf(r, k)
    <3> HIDE DEF t, u
    <3>1. TableShape(t) /\ TableShape(u) /\ SameButPosition(t, u) BY <2>2, <2>3 DEF t, u
    <3>2. [t EXCEPT !.pos = NoPosition].cols = t.cols /\ [u EXCEPT !.pos = NoPosition].cols = u.cols
      BY <3>1 DEF TableShape, IsTable
    <3>3. t.cols = u.cols BY <3>1, <3>2 DEF SameButPosition
    <3> QED BY <3>3 DEF Known, t, u
  <2>5. Follows(TableOf(m, k), db[k], used[k]) BY <1>2 DEF Quiet
  <2> QED BY <2>4, <2>5 DEF Follows
<1>12. Quiet(r, db', used')
  <2>1. ASSUME NEW k \in DOMAIN db' PROVE Follows(TableOf(r, k), db'[k], used'[k])
    <3>1. CASE k = tb BY <1>3, <1>10, <3>1
    <3>2. CASE k # tb BY <1>3, <1>11, <2>1, <3>2
    <3> QED BY <3>1, <3>2
  <2> QED BY <1>9, <2>1 DEF Quiet
<1> QED BY <1>1, <1>12 DEF PositionInv

----------------------------------------------------------------------------
(* The theorems.                                                              *)

LEMMA NextKeeps ==
  ASSUME SchemaInv, [Next]_vars
  PROVE  SchemaInv' /\ (~Strays /\ PositionInv => PositionInv')
<1>1. ASSUME NEW tb \in TableNames, NEW names \in Creates, NEW idxs \in BoundedSeq(IndexNames, 1),
             NEW n \in KeyColumns, CreateTable(tb, names, idxs, n)
      PROVE  SchemaInv' /\ (PositionInv => PositionInv')
  BY <1>1, CreateTableSound
<1>2. ASSUME NEW tbs \in BoundedSeq(TableNames, 2), tbs # <<>>, DropTables(tbs)
      PROVE  SchemaInv' /\ (PositionInv => PositionInv')
  BY <1>2, DropTablesSound
<1>3. ASSUME NEW tb \in TableNames, NEW to \in TableNames, RenameTo(tb, to)
      PROVE  SchemaInv' /\ (PositionInv => PositionInv')
  BY <1>3, RenameToSound
<1>4. ASSUME NEW tb \in TableNames, NEW specs \in Alters, AlterTable(tb, specs)
      PROVE  SchemaInv' /\ (~Strays /\ PositionInv => PositionInv')
  <2>1. SchemaInv' BY <1>4, AlterTableSound
  <2>2. ~Strays /\ PositionInv => PositionInv' BY <1>4, AlterTableQuiet
  <2> QED BY <2>1, <2>2
<1>5. ASSUME NEW tb \in TableNames, NEW i \in IndexNames, NEW n \in KeyColumns, CreateIndex(tb, i, n)
      PROVE  SchemaInv' /\ (PositionInv => PositionInv')
  BY <1>5, CreateIndexSound
<1>6. ASSUME NEW tb \in TableNames, NEW i \in IndexNames, DropIndex(tb, i)
      PROVE  SchemaInv' /\ (PositionInv => PositionInv')
  BY <1>6, DropIndexSound
<1>7. CASE UNCHANGED vars
  BY <1>7 DEF vars, SchemaInv, PositionInv
<1> QED BY <1>1, <1>2, <1>3, <1>4, <1>5, <1>6, <1>7 DEF Next

LEMMA AlwaysSound == Spec => []SchemaInv
<1>1. Init => SchemaInv BY InitSound
<1>2. SchemaInv /\ [Next]_vars => SchemaInv' BY NextKeeps
<1> QED BY <1>1, <1>2, PTL DEF Spec

LEMMA AlwaysQuiet == ~Strays => (Spec => [](SchemaInv /\ PositionInv))
<1> SUFFICES ASSUME ~Strays PROVE Spec => [](SchemaInv /\ PositionInv) OBVIOUS
<1>1. Init => SchemaInv /\ PositionInv BY InitSound
<1>2. (SchemaInv /\ PositionInv) /\ [Next]_vars => (SchemaInv /\ PositionInv)' BY NextKeeps
<1> QED BY <1>1, <1>2, PTL DEF Spec

\* The type invariant: whatever statements there are and however many tables, the
\* current table is a table or none, and a name leads to the table of that name.
THEOREM SchemaTyped == Spec => []TypeOK
<1>1. SchemaInv => TypeOK BY DEF SchemaInv, Sound, TypeOK, SchemaShape, KnownTables
<1> QED BY <1>1, AlwaysSound, PTL

\* A table that is gone from the database stays known, and marked: no statement, about it
\* or about another table, makes it an addition again (RemoveTable and RenameTable of
\* element/migration.go, and every method that takes a table by its name).
THEOREM GoneStayMarked == Spec => []GoneTablesAreMarked
<1>1. SchemaInv => GoneTablesAreMarked BY DEF SchemaInv, Sound, GoneTablesAreMarked, KnownTables
<1> QED BY <1>1, AlwaysSound, PTL

\* If every positioned ADD COLUMN is about the current table and the only definition of
\* its ALTER TABLE, the position that Enter leaves at the table is taken by that column
\* before the next statement, whatever else the ALTER TABLE does (SetColumnPosition of
\* element/migration.go, swapOrder of element/table.go).
THEOREM PositionsAreTaken == ~Strays => (Spec => []NoPositionWaits)
<1>1. PositionInv => NoPositionWaits BY DEF PositionInv, Quiet, Settled, NoPositionWaits
<1> QED BY <1>1, AlwaysQuiet, PTL

\* A statement of table tb: all but DROP TABLE and RENAME TO, which are about several.
StatementOf(tb) ==
  \/ \E names \in Creates, idxs \in BoundedSeq(IndexNames, 1), n \in KeyColumns :
       CreateTable(tb, names, idxs, n)
  \/ \E specs \in Alters : AlterTable(tb, specs)
  \/ \E i \in IndexNames, n \in KeyColumns : CreateIndex(tb, i, n)
  \/ \E i \in IndexNames : DropIndex(tb, i)

\* The tables that it leaves alone are what they were, except that a position may have
\* been taken.
OthersKept ==
  \A tb \in TableNames : StatementOf(tb) =>
    \A k \in KnownTables(schema) \ {tb} :
      k \in KnownTables(schema') /\ SameButPosition(TableOf(schema, k), TableOf(schema', k))

LEMMA StatementKeepsOthers ==
  ASSUME SchemaInv, PositionInv, ~Strays PROVE OthersKept
<1> SUFFICES ASSUME NEW tb \in TableNames, StatementOf(tb), NEW k \in KnownTables(schema) \ {tb}
             PROVE  /\ k \in KnownTables(schema')
                    /\ SameButPosition(TableOf(schema, k), TableOf(schema', k))
  BY DEF OthersKept
<1>1. SchemaShape(schema) BY DEF SchemaInv, Sound
<1>2. ASSUME NEW names \in Creates, NEW idxs \in BoundedSeq(IndexNames, 1), NEW n \in KeyColumns,
             CreateTable(tb, names, idxs, n)
      PROVE  k \in KnownTables(schema') /\ TableOf(schema', k) = TableOf(schema, k)
  <2>1. GainsNew(schema, schema', tb, {names[j] : j \in DOMAIN names}) BY <1>2, CreateTableGains
  <2> QED BY <2>1 DEF GainsNew, Gains
<1>3. ASSUME NEW specs \in Alters, AlterTable(tb, specs)
      PROVE  k \in KnownTables(schema') /\ SameButPosition(TableOf(schema, k), TableOf(schema', k))
  <2> DEFINE N == used[tb] \cup NewNames(specs)
             r == schema'
  <2>1. Reads(schema, r, tb, N) BY <1>3, AlterTableReads
  <2>2. tb \in KnownTables(schema) BY <1>3 DEF AlterTable, SchemaInv, Sound
  <2> HIDE DEF N, r
  <2>3. SameButPosition(TableOf(schema, k), TableOf(r, k)) BY <1>1, <2>1, <2>2, ReadsOthers
  <2>4. KnownTables(r) = KnownTables(schema) BY <2>1 DEF Reads, SameTables, KnownTables
  <2> QED BY <2>3, <2>4 DEF r
<1>4. ASSUME NEW r, tb \in DOMAIN db, Touches(schema, r, tb, {}, {})
      PROVE  k \in KnownTables(r) /\ TableOf(r, k) = TableOf(schema, k)
  <2>1. tb \in KnownTables(schema) BY <1>4 DEF SchemaInv, Sound
  <2>2. TableOf(r, k) = TableOf(schema, k) BY <1>1, <1>4, <2>1, TouchesOne
  <2>3. KnownTables(r) = KnownTables(schema) BY <1>4 DEF Touches, SameTables, KnownTables
  <2> QED BY <2>2, <2>3
<1>5. ASSUME NEW i \in IndexNames, NEW n \in KeyColumns, CreateIndex(tb, i, n)
      PROVE  k \in KnownTables(schema') /\ TableOf(schema', k) = TableOf(schema, k)
  <2> DEFINE idx == Index(i, "add", "none", <<n>>)
             r == ReadCreateIndex(schema, tb, idx)
  <2>1. tb \in DOMAIN db /\ schema' = r /\ tb \in KnownTables(schema)
    BY <1>5 DEF CreateIndex, SchemaInv, Sound
  <2> HIDE DEF idx
  <2>2. Touches(schema, r, tb, {}, {}) BY <1>1, <2>1, ReadIndexTouches
  <2> QED BY <1>4, <2>1, <2>2
<1>6. ASSUME NEW i \in IndexNames, DropIndex(tb, i)
      PROVE  k \in KnownTables(schema') /\ TableOf(schema', k) = TableOf(schema, k)
  <2> DEFINE r == ReadDropIndex(schema, tb, i)
  <2>1. tb \in DOMAIN db /\ schema' = r /\ tb \in KnownTables(schema)
    BY <1>6 DEF DropIndex, SchemaInv, Sound
  <2>2. Touches(schema, r, tb, {}, {}) BY <1>1, <2>1, ReadIndexTouches
  <2> QED BY <1>4, <2>1, <2>2
<1>7. \A t : SameButPosition(t, t) BY DEF SameButPosition
<1> QED BY <1>2, <1>3, <1>5, <1>6, <1>7 DEF StatementOf

\* No statement changes another table than its own, but for a position that is taken, as
\* long as none strays: not an ALTER TABLE either, of which the parser files part under
\* the table of the statement before.
THEOREM OthersAreKept == ~Strays => (Spec => [][OthersKept]_vars)
<1> SUFFICES ASSUME ~Strays PROVE Spec => [][OthersKept]_vars OBVIOUS
<1>1. SchemaInv /\ PositionInv => OthersKept BY StatementKeepsOthers
<1>2. Spec => [](SchemaInv /\ PositionInv) BY AlwaysQuiet
<1> QED BY <1>1, <1>2, PTL

=============================================================================
