------------------------------ MODULE MCTable ------------------------------
(* Constants for the runs of Table.tla. *)
EXTENDS Table

NotNull == [tp |-> "notnull", val |-> Nil]

Bare == {<<>>}
PlainAndNotNull == {<<>>, <<NotNull>>}

\* Either columns alone, over all names, or two columns with indexes or with
\* foreign keys and an index.
ColumnsOrKeys ==
  \/ table.idxs.items = <<>> /\ table.fks.items = <<>>
  \/ /\ used \subseteq {"a", "b"}
     /\ Len(table.cols.items) <= 2
     /\ \A i \in DOMAIN table.cols.items : Len(table.cols.items[i].attr.opts) <= 1
     /\ Len(table.idxs.items) <= IF table.fks.items = <<>> THEN 3 ELSE 1

Symmetry == Permutations(IndexNames)

=============================================================================
