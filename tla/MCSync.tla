------------------------------- MODULE MCSync -------------------------------
(* Constants for the runs of Sync.tla. *)
EXTENDS Sync

CONSTANTS
  MaxColumns      \* bound on the number of columns of a model

NotNull    == [tp |-> "notnull", val |-> Nil]
Default0   == [tp |-> "default", val |-> "0"]
Comment    == [tp |-> "comment", val |-> "c"]
PrimaryKey == [tp |-> "primary", val |-> Nil]

Bare        == {<<>>}
Definitions == {<<>>, <<NotNull>>, <<NotNull, Default0>>, <<Comment>>, <<PrimaryKey>>}

\* Sequences of at most max columns with distinct names, types from types and
\* options from lists.
ColumnsOf(max, types, lists) ==
  LET orders == {s \in BoundedSeq(ColumnNames, max) : s # <<>> /\ IsInjective(s)}
  IN  UNION {{[i \in DOMAIN s |-> [name |-> s[i], type |-> a[i].type, opts |-> a[i].opts]] :
                a \in [DOMAIN s -> [type : types, opts : lists]]} : s \in orders}

\* Indexes and foreign keys on columns the table has, at most one per name.
OnePerName(S) == \A x, y \in S : x.name = y.name => x = y
IndexesOn(names) ==
  {S \in SUBSET [name : IndexNames, typ : IndexTypes, columns : {<<n>> : n \in names}] :
     OnePerName(S)}
KeysOn(names) ==
  {S \in SUBSET [name : FkNames, column : names, ref : References] : OnePerName(S)}

WithKeys(columns) ==
  UNION {LET names == {cols[i].name : i \in DOMAIN cols}
         IN  [cols : {cols}, idxs : IndexesOn(names), fks : KeysOn(names)] : cols \in columns}
WithoutKeys(columns) == [cols : columns, idxs : {{}}, fks : {{}}]

\* The database and the models vary in one respect besides the names of their
\* columns: in types, with up to MaxColumns columns, or, with up to two, in options
\* or in indexes and foreign keys.
SimpleModels ==
       WithoutKeys(ColumnsOf(MaxColumns, Types, Bare))
  \cup WithoutKeys(ColumnsOf(2, {"int"}, OptionLists))
  \cup WithKeys(ColumnsOf(2, {"int"}, Bare))

VariesIn(respect, tb) ==
  /\ respect # "types"   => Len(tb.cols) <= 2 /\ \A i \in DOMAIN tb.cols : tb.cols[i].type = "int"
  /\ respect # "options" => \A i \in DOMAIN tb.cols : tb.cols[i].opts = {}
  /\ respect # "keys"    => DOMAIN tb.idxs = {} /\ DOMAIN tb.fks = {}

OneRespect ==
  \E respect \in {"types", "options", "keys"} :
    IF phase = "history" THEN VariesIn(respect, db)
    ELSE VariesIn(respect, start) /\ VariesIn(respect, Target)

=============================================================================
