---------------------------- MODULE MCSchemaSync ----------------------------
(* Constants for the runs of SchemaSync.tla. *)
EXTENDS SchemaSync

CONSTANT OwnTables   \* the tables that models describe

OnlyA == {<<"a">>}

LastColumn == [op : {"addColumn"}, col : ColumnNames, type : {Type}, opts : {<<>>},
               pos : {PositionNone}]
Keys       == [op : {"addForeignKey"}, fk : FkNames, col : KeyColumns, ref : OwnTables]
Alters1    == {<<x>> : x \in LastColumn \cup Keys}

\* A table has a second column, an index or a foreign key, and at most one of them.
Definitions(names) ==
  [i \in DOMAIN names |-> [name |-> names[i], type |-> Type, opts |-> <<>>]]
TablesNamed(tb) ==
  LET table(cols, idxs, fks) ==
        [name |-> tb, cols |-> Definitions(cols), idxs |-> idxs, fks |-> fks]
  IN      {table(cols, {}, {}) : cols \in {<<"a">>, <<"a", "b">>}}
     \cup {table(<<"a">>, {[name |-> i, typ |-> "none", columns |-> <<"a">>]}, {}) :
             i \in IndexNames}
     \cup {table(<<"a">>, {}, {[name |-> f, column |-> "a", ref |-> r] : f \in S}) :
             S \in SUBSET FkNames \ {{}}, r \in OwnTables}
SomeModels ==
  UNION {{ms \in [DOMAIN s -> UNION {TablesNamed(tb) : tb \in OwnTables}] :
            \A i \in DOMAIN s : ms[i].name = s[i]} :
         s \in {s \in BoundedSeq(OwnTables, 2) : IsInjective(s)}}

\* Histories of such tables; a version table is created first and left alone.
Extras(d) == Len(d.cols) - 1 + Cardinality(DOMAIN d.idxs) + Cardinality(DOMAIN d.fks)
SmallHistory ==
  phase = "history" =>
    /\ Recreates \/ GoneTables = {}
    /\ \A tb \in DOMAIN db : Extras(db[tb]) <= IF tb \in OwnTables THEN 1 ELSE 0
    /\ \A i \in DOMAIN schema.tables.items :
         schema.tables.items[i].name \notin OwnTables =>
           i = 1 /\ schema.tables.items[i].action = "add"

Symmetry == Permutations(OwnTables)

=============================================================================
