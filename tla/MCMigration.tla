---------------------------- MODULE MCMigration ----------------------------
(* Constants for the runs of Migration.tla. *)
EXTENDS Migration

OneOrTwo == {<<"a">>, <<"b", "a">>}

\* ADD COLUMN at every place, MODIFY COLUMN, and new foreign keys.
AddsAt(positions) ==
  [op : {"addColumn"}, col : ColumnNames, type : {Type}, opts : {<<>>}, pos : positions]
LastAdds == AddsAt({PositionNone})
Adds     == AddsAt({PositionNone, First} \cup {After(n) : n \in ColumnNames})
Modifies == [op : {"modifyColumn"}, col : ColumnNames, type : {Type}, opts : {<<>>}]
Keys     == [op : {"addForeignKey"}, fk : FkNames, col : KeyColumns, ref : TableNames]

\* ALTER TABLEs of one specification, and some of two.
Singles(S)  == {<<x>> : x \in S}
Pairs(S, T) == {<<x, y>> : x \in S, y \in T}
SomeAlters  ==
       Singles(Adds \cup Modifies \cup Keys)
  \cup Pairs(LastAdds, LastAdds) \cup Pairs(Keys, LastAdds) \cup Pairs(LastAdds, Keys)
ColumnAlters == Singles(Adds)

Symmetry == Permutations(TableNames)

=============================================================================
