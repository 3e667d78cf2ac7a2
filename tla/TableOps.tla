------------------------------ MODULE TableOps ------------------------------
(***************************************************************************)
(* The Table of element/table.go as a record and its methods as operators  *)
(* that return the new record.  A table is                                 *)
(*   name, oldName, action                    - its Node                   *)
(*   cols, idxs, fks                          - three named lists          *)
(*   pos                                      - columnPosition             *)
(*   panic                                    - an index or slice went out *)
(*                                              of range: the program died *)
(* A column is [name, oldName, action, attr, prev]; an attribute is        *)
(* [type, opts]: the MySQL type and the sequence of column options, each   *)
(* option a record [tp, val].  An index is [name, oldName, action, typ,    *)
(* columns], a foreign key [name, oldName, action, column, ref].           *)
(***************************************************************************)
EXTENDS NamedList, SequencesExt

CONSTANTS
  NoType,         \* the nil MysqlType
  SpareCapacity   \* whether the slice of columns has capacity beyond its
                  \* length when swapOrder slices one past it: the Go run
                  \* time chooses it when it grows the slice

ASSUME SpareCapacityAssumption == SpareCapacity \in BOOLEAN

\* Positions of an ADD COLUMN: columnPosition is nil, or None, First, After.
NoPosition   == [tp |-> "nil", rel |-> Nil]
PositionNone == [tp |-> "none", rel |-> Nil]
First        == [tp |-> "first", rel |-> Nil]
After(n)     == [tp |-> "after", rel |-> n]

\* Column options that the code singles out by their type.
IsPrimaryKey(option) == option.tp = "primary"
Reference == [tp |-> "reference", val |-> Nil]

NilAttr == [type |-> NoType, opts |-> <<>>]

Column(name, action, attr) ==
  [name |-> name, oldName |-> Nil, action |-> action, attr |-> attr, prev |-> NilAttr]
Index(name, action, typ, columns) ==
  [name |-> name, oldName |-> Nil, action |-> action, typ |-> typ, columns |-> columns]
ForeignKey(name, action, column, ref) ==
  [name |-> name, oldName |-> Nil, action |-> action, column |-> column, ref |-> ref]

NewTableWithAction(name, action) ==
  [name |-> name, oldName |-> Nil, action |-> action,
   cols |-> EmptyList, idxs |-> EmptyList, fks |-> EmptyList,
   pos |-> NoPosition, panic |-> FALSE]

NewTable(name) == NewTableWithAction(name, "add")

----------------------------------------------------------------------------
(* swapOrder: the column at old is copied to position new, then the stale  *)
(* copy is cut out.                                                         *)

\* The slice after the copy.  Slicing to new + 1 reaches past the length when
\* new is one past it.
Copied(items, old, new) ==
  IF new >= Len(items) THEN Append(items, items[old]) ELSE InsertAt(items, new, items[old])

\* Deviation: the last column is no special case.
CutAtOldPlace(grown, old) == RemoveAt(grown, old)

\* What the cut removes when the column moved up the slice: the last node when
\* the column was last, else the node at the old position.
CutAfterMoveUp(grown, old) ==
  IF old = Len(grown) - 1 THEN Front(grown) ELSE RemoveAt(grown, old)

\* What the cut removes when the column moved down: the node before the old one.
CutAfterMoveDown(grown, old) == RemoveAt(grown, old - 1)

\* An index of swapOrder is out of range.
SwapPanics(l, old, new) ==
  \/ new > Len(l.items) + 1
  \/ new = Len(l.items) + 1 /\ ~SpareCapacity
  \/ old < new /\ old = 1

\* Deviation: the other columns' positions in the map stay.
SwapOrderStaleMap(l, name, old, new) ==
  LET grown == Copied(l.items, old, new)
  IN  IF old = new
      THEN l
      ELSE [items |-> IF new < old THEN CutAfterMoveUp(grown, old)
                                   ELSE CutAfterMoveDown(grown, old),
            id    |-> Point(l, name, new)]

SwapOrder(l, name, old, new) ==
  LET grown == Copied(l.items, old, new)
      shift(i) == IF new < old THEN IF new <= i /\ i < old THEN i + 1 ELSE i
                               ELSE IF old < i /\ i <= new THEN i - 1 ELSE i
  IN  IF old = new
      THEN l
      ELSE [items |-> IF new < old THEN CutAfterMoveUp(grown, old)
                                   ELSE CutAfterMoveDown(grown, old),
            id    |-> [n \in DOMAIN l.id \cup {name} |->
                         IF n = name THEN new ELSE shift(l.id[n])]]

\* swapOrder on the columns of table t.
SwapColumns(t, name, old, new) ==
  IF old # new /\ SwapPanics(t.cols, old, new)
  THEN [t EXCEPT !.panic = TRUE]
  ELSE [t EXCEPT !.cols = SwapOrder(@, name, old, new)]

----------------------------------------------------------------------------
(* AddColumn, removeColumn and RenameColumn.                                *)

\* The options after more of them: the first primary-key option before the last
\* place changes places with the last option.
MergeOptions(opts, more) ==
  LET all  == opts \o more
      keys == {i \in 1 .. Len(all) - 1 : IsPrimaryKey(all[i])}
      k    == CHOOSE i \in keys : \A j \in keys : i <= j
  IN  IF keys = {} THEN all
      ELSE [all EXCEPT ![k] = all[Len(all)], ![Len(all)] = all[k]]

\* A column already listed with the action Add is merged with the new one.
MergeColumn(t, id, col) ==
  LET was    == t.cols.items[id]
      merged == [type |-> col.attr.type, opts |-> MergeOptions(was.attr.opts, col.attr.opts)]
  IN  [t EXCEPT !.cols = SetItem(@, id, [was EXCEPT !.attr = merged])]

\* Deviations: AFTER is one place too far; the position stays pending.
PlaceColumnOneFurther(t, name, id) ==
  LET afterId == IdOf(t.cols, t.pos.rel)
      moved   == CASE t.pos.tp = "first" -> SwapColumns(t, name, id, 1)
                   [] t.pos.tp = "after" /\ afterId > 0 -> SwapColumns(t, name, id, afterId + 2)
                   [] OTHER -> t
  IN  [moved EXCEPT !.pos = NoPosition]
PlaceColumnKeepsPending(t, name, id) == t

\* The pending position is applied to the column at id and forgotten.
PlaceColumn(t, name, id) ==
  LET afterId == IdOf(t.cols, t.pos.rel)
      moved   == CASE t.pos.tp = "first" -> SwapColumns(t, name, id, 1)
                   [] t.pos.tp = "after" /\ afterId > 0 -> SwapColumns(t, name, id, afterId + 1)
                   [] OTHER -> t
  IN  [moved EXCEPT !.pos = NoPosition]

\* The map sends name n past the end of the slice: indexing with it panics.
IsStale(l, n) == IdOf(l, n) > Len(l.items)

Panicked(t) == [t EXCEPT !.panic = TRUE]

AddColumn(t, col) ==
  LET id == IdOf(t.cols, col.name)
  IN  IF IsStale(t.cols, col.name) THEN Panicked(t)
      ELSE IF id > 0 /\ t.cols.items[id].action = "add"
      THEN MergeColumn(t, id, col)
      ELSE PlaceColumn([t EXCEPT !.cols = PutItem(@, col)], col.name,
                       IF id = 0 THEN Len(t.cols.items) + 1 ELSE id)

RemoveColumn(t, n) ==
  IF IsStale(t.cols, n) THEN Panicked(t)
  ELSE [t EXCEPT !.cols = RemoveItem(@, n, Column(n, "remove", NilAttr))]

RenameColumn(t, old, new) ==
  IF IsStale(t.cols, old) THEN Panicked(t)
  ELSE [t EXCEPT !.cols = RenameItem(@, old, new, "rename")]

----------------------------------------------------------------------------
(* Indexes and foreign keys.                                                *)

AddIndex(t, idx) == [t EXCEPT !.idxs = PutItem(@, idx)]

RemoveIndex(t, n) ==
  [t EXCEPT !.idxs = RemoveItem(@, n, Index(n, "remove", "none", <<>>))]

RenameIndex(t, old, new) ==
  [t EXCEPT !.idxs = RenameItem(@, old, new, "rename")]

\* The columns of a name, live or not, get a Reference option.
MarkReferenced(l, n) ==
  [items |-> [i \in DOMAIN l.items |->
                IF l.items[i].name = n
                THEN [l.items[i] EXCEPT !.attr.opts = Append(@, Reference)]
                ELSE l.items[i]],
   id    |-> l.id]

AddForeignKey(t, fk) ==
  [t EXCEPT !.fks = PutItem(@, fk), !.cols = MarkReferenced(@, fk.column)]

RemoveForeignKey(t, n) ==
  [t EXCEPT !.fks = RemoveItem(@, n, ForeignKey(n, "remove", Nil, Nil))]

----------------------------------------------------------------------------
(* Arrange: the names sorted by their position in the map, each swapped into  *)
(* place; the map is left as it is.                                           *)

\* Were two names to share a position, one of them would stand for both.
NamesByPosition(l) ==
  [i \in 1 .. Cardinality(DOMAIN l.id) |->
     CHOOSE n \in DOMAIN l.id :
       /\ Cardinality({m \in DOMAIN l.id : l.id[m] < l.id[n]}) < i
       /\ i <= Cardinality({m \in DOMAIN l.id : l.id[m] <= l.id[n]})]

\* Name number i is swapped with the first column that bears it, if any.
Arranged(l) ==
  LET names == NamesByPosition(l)
      place(items, i) ==
        LET bearers == {j \in DOMAIN items : items[j].name = names[i]}
        IN  IF bearers = {} THEN items
            ELSE [items EXCEPT ![i] = items[Min(bearers)], ![Min(bearers)] = items[i]]
  IN  FoldLeftDomain(place, l.items, names)

\* There may be more names than columns.
ArrangePanics(l) ==
  \E i \in DOMAIN NamesByPosition(l) :
    i > Len(l.items) /\ \E j \in DOMAIN l.items : l.items[j].name = NamesByPosition(l)[i]

Arrange(t) ==
  IF ArrangePanics(t.cols) THEN Panicked(t)
  ELSE [t EXCEPT !.cols.items = Arranged(t.cols)]

----------------------------------------------------------------------------
(* What the parser believes the database holds.  These are the nodes that   *)
(* MigrationColumnUp and MigrationIndexUp would write in a CREATE TABLE of   *)
(* the table; a node with the action No or Remove is a dropped one.          *)

LiveItems(list) ==
  LET upTo[n \in Nat] == IF n = 0 THEN <<>>
                         ELSE IF IsLive(list.items[n].action)
                              THEN Append(upTo[n - 1], list.items[n])
                              ELSE upTo[n - 1]
  IN  upTo[Len(list.items)]

OptionsOf(attr) == {attr.opts[i] : i \in DOMAIN attr.opts} \ {Reference}

View(t) ==
  LET cols    == LiveItems(t.cols)
      live(l) == {n \in DOMAIN l.id : IsLive(l.items[l.id[n]].action)}
      node(l, n) == l.items[l.id[n]]
  IN  [cols |-> [i \in 1 .. Len(cols) |->
                   [name |-> cols[i].name, type |-> cols[i].attr.type,
                    opts |-> OptionsOf(cols[i].attr)]],
       idxs |-> [n \in live(t.idxs) |-> [typ |-> node(t.idxs, n).typ,
                                         columns |-> node(t.idxs, n).columns]],
       fks  |-> [n \in live(t.fks) |-> [column |-> node(t.fks, n).column,
                                        ref |-> node(t.fks, n).ref]]]

=============================================================================
