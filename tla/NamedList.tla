----------------------------- MODULE NamedList -----------------------------
(***************************************************************************)
(* The storage pattern every level of the schema tree uses: a slice of     *)
(* nodes and a map from a node's name to its index in the slice            *)
(* (Tables/tableIndexes in element/migration.go, Columns/columnIndexes,    *)
(* Indexes/indexIndexes and ForeignKeys/indexForeignKeys in                *)
(* element/table.go).  A list is a record with the fields                  *)
(*   items - the slice, a sequence of records with name, oldName, action   *)
(*   id    - the map, a function from names to positions in items.         *)
(* Positions are 1-based here and 0-based in the code; 0 stands for the    *)
(* code's -1, "no such name".                                              *)
(***************************************************************************)
EXTENDS Integers, Sequences

\* The empty OldName of a node that was never renamed.
Nil == "nil"

\* Actions (the MigrateAction of element/node.go).
Actions == {"no", "add", "remove", "modify", "revert", "rename"}

\* A list without nodes.
EmptyList == [items |-> <<>>, id |-> [n \in {} |-> 0]]

\* getIndexTable, getIndexColumn, getIndexIndex and getIndexForeignKey.
IdOf(l, n) == IF n \in DOMAIN l.id THEN l.id[n] ELSE 0

\* The map l.id with n pointing to position i.
Point(l, n, i) == [m \in DOMAIN l.id \cup {n} |-> IF m = n THEN i ELSE l.id[m]]

\* Deviation: the name points to the node before the appended one.
AppendItemOneOff(l, item) ==
  [items |-> Append(l.items, item), id |-> Point(l, item.name, Len(l.items))]

\* A node is appended and its name pointed to it.
AppendItem(l, item) ==
  [items |-> Append(l.items, item),
   id    |-> Point(l, item.name, Len(l.items) + 1)]

\* The node at position i is overwritten; the map does not change.
SetItem(l, i, item) == [items |-> [l.items EXCEPT ![i] = item], id |-> l.id]

\* Deviation: a known name is left as it is.
PutItemKeepsKnown(l, item) == IF IdOf(l, item.name) = 0 THEN AppendItem(l, item) ELSE l

\* Append a new name, overwrite a known one.
PutItem(l, item) ==
  IF IdOf(l, item.name) = 0
  THEN AppendItem(l, item)
  ELSE SetItem(l, IdOf(l, item.name), item)

\* Deviation: only an added node can be removed.
RemovedActionOfAdded(action) == IF action = "add" THEN "no" ELSE action

\* What a removal leaves in a node that is known.
RemovedAction(action) == IF action = "add" THEN "no" ELSE "remove"

\* The node with another action, and under another name.
WithAction(item, action) == [item EXCEPT !.action = action]
Renamed(item, old, new, action) ==
  [item EXCEPT !.action = action, !.oldName = old, !.name = new]

\* Removal of a name: an unknown name is appended as the node tombstone, a
\* known one keeps its node with the action that RemovedAction gives.
RemoveItem(l, n, tombstone) ==
  LET i == IdOf(l, n)
  IN  IF i = 0
      THEN AppendItem(l, tombstone)
      ELSE SetItem(l, i, WithAction(l.items[i], RemovedAction(l.items[i].action)))

\* Deviation: the map keeps the old name.
RenameItemKeepsOld(l, old, new, action) ==
  LET i == IdOf(l, old)
  IN  IF i = 0
      THEN l
      ELSE [items |-> [l.items EXCEPT ![i] = Renamed(@, old, new, action)],
            id    |-> Point(l, new, i)]

\* Renaming: an unknown name is ignored; otherwise the node gets the action
\* and both names, the map gets the new name first and loses the old one after
\* (so a rename to the same name loses the entry).
RenameItem(l, old, new, action) ==
  LET i == IdOf(l, old)
      moved == Point(l, new, i)
  IN  IF i = 0
      THEN l
      ELSE [items |-> [l.items EXCEPT ![i] = Renamed(@, old, new, action)],
            id    |-> [m \in DOMAIN moved \ {old} |-> moved[m]]]

----------------------------------------------------------------------------
\* Every name of the map points to a node of the slice that bears it.
Coherent(l) ==
  \A n \in DOMAIN l.id : /\ l.id[n] \in 1 .. Len(l.items)
                         /\ l.items[l.id[n]].name = n

\* A node with one of these actions is in the database after the migrations
\* that were read; one with the action No or Remove was dropped.
IsLive(action) == action \in {"add", "modify", "rename"}

LiveNames(l) ==
  {l.items[i].name : i \in {j \in 1 .. Len(l.items) : IsLive(l.items[j].action)}}

\* Every node the database still holds is the one its name points to.
Reachable(l) ==
  \A i \in 1 .. Len(l.items) :
    IsLive(l.items[i].action) =>
      /\ l.items[i].name \in DOMAIN l.id
      /\ l.id[l.items[i].name] = i

\* l is a list of nodes from Items with names from Names.
IsList(l, Items, Names) ==
  /\ l \in [items : Seq(Items), id : [DOMAIN l.id -> Nat \ {0}]]
  /\ DOMAIN l.id \subseteq Names

=============================================================================
