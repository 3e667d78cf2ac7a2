------------------------------ MODULE MCBuilder ------------------------------
(* Constants for the runs of Builder.tla. *)
EXTENDS Builder

A == <<"a">>
B == <<"b">>
C == <<"c">>

T(tp)           == [tp |-> tp]
Named1(tp, n)   == [tp |-> tp, name |-> n]
Listed(tp, ns)  == [tp |-> tp, names |-> ns]

\* The tags of a column of name n.
TagsOfColumn(n) ==
  {T("primary_key"), T("index"), T("unique"), T("not_null"), T("null"), T("index_type"),
   Named1("column", C), [tp |-> "previous", name |-> C, previous |-> n],
   Listed("index:", <<<<"i">>>>), Listed("index:", <<n>>), Listed("unique:", <<<<"u">>>>),
   Listed("index:", <<A, B>>), Listed("index_columns", <<A, B>>)}

\* Fields of one name with one tag, with two in either order, or without.
Plain(n, tags) == [name |-> n, tags |-> tags, struct |-> <<>>, object |-> Nil]
TagLists(n) ==
  {<<>>} \cup {<<x>> : x \in TagsOfColumn(n)}
         \cup {p \in {<<x, y>> : x, y \in TagsOfColumn(n)} : p[1].tp # p[2].tp}
FieldsNamed(n) == {Plain(n, tags) : tags \in TagLists(n)}

\* Foreign keys, with the tags in either order.
KeyTags == {<<Named1("foreign_key", A)>>, <<Named1("foreign_key", C), Named1("references", B)>>,
            <<Named1("references", B), Named1("foreign_key", C)>>}
KeyFields1 == {[name |-> <<"user">>, tags |-> tags, struct |-> <<>>, object |-> "user"] :
                 tags \in KeyTags}

\* A struct, embedded with a prefix or without, of one field or of two.
Embedded(fields, tag) ==
  [name |-> <<"base">>, tags |-> <<tag>>, struct |-> fields, object |-> Nil]
EmbeddedTags == {T("embedded"), Named1("embedded_prefix", <<"p">>)}
Inner == {Plain(n, tags) : n \in {A, B, <<"d">>}, tags \in
            {<<>>, <<T("primary_key")>>, <<T("unique")>>, <<Listed("index_columns", <<A, B>>)>>,
             <<[tp |-> "previous", name |-> C, previous |-> A]>>}}
Bases == {Embedded(<<f>>, tag) : f \in Inner, tag \in EmbeddedTags}
   \cup {Embedded(<<Plain(A, <<>>), f>>, tag) : f \in Inner, tag \in EmbeddedTags}
   \cup {Embedded(<<Embedded(<<f>>, tag), Plain(<<"e">>, <<T("index")>>)>>,
                  Named1("embedded_prefix", <<"q">>)) : f \in Inner, tag \in EmbeddedTags}

SmallFields == {Plain(n, tags) : n \in {A, B}, tags \in
                  {<<>>, <<T("primary_key")>>, <<T("unique")>>, <<T("not_null")>>,
                   <<Listed("index_columns", <<A, B>>)>>}}

AllModels ==
       {<<f, Plain(B, tags)>> : f \in FieldsNamed(A),
          tags \in {<<>>} \cup {<<x>> : x \in TagsOfColumn(B)}}
  \cup {<<g, f>> : f \in FieldsNamed(A), g \in SmallFields}
  \cup {<<f, g, k>> : f \in SmallFields, g \in SmallFields, k \in KeyFields1}
  \cup {<<k, f, g>> : f \in SmallFields, g \in SmallFields, k \in KeyFields1}
  \cup {<<b, f>> : f \in SmallFields, b \in Bases}
  \cup {<<f, b, Plain(B, <<>>)>> : f \in SmallFields, b \in Bases}

=============================================================================
