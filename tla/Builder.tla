------------------------------ MODULE Builder ------------------------------
(***************************************************************************)
(* FromObjects (sqlize.go) for one model: AddTable of sqlbuilder/builder.go *)
(* writes the statements of a Go struct from the tags of its fields, and    *)
(* the parser reads them.  A database executes the same statements, because *)
(* they are what the first migration of the model consists of.             *)
(*                                                                         *)
(* A field is [name, tags, struct, object]: its tags in the order they are  *)
(* written, the fields of its type when that is a struct, and the table of  *)
(* its type when that is a model.  A tag is a record whose field tp names   *)
(* it.  A name is a sequence of words, those of a prefix first.             *)
(***************************************************************************)
EXTENDS MigrationOps, DbOps

CONSTANTS
  Models,   \* the structs: sequences of fields
  Table,    \* the name of their table
  Type,
  Quirks    \* what the models contain of what the builder gets wrong (IsRegular)

VARIABLES
  model,
  script,  \* the statements that are still to be executed and read
  schema,  \* the parser's Migration
  db       \* the database's table

vars == <<model, script, schema, db>>

NoKey == [column |-> <<>>, ref |-> Nil, refColumn |-> <<>>]

NewAttrs(name) ==
  [name |-> name, prefix |-> <<>>, isPk |-> FALSE, isUnique |-> FALSE, isNotNull |-> FALSE,
   key |-> NoKey, index |-> <<>>, columns |-> <<>>, isEmbedded |-> FALSE]

GetWhenEmpty(s, s2) == IF s = <<>> THEN s2 ELSE s

\* The name of an index on columns; one column that is not the field's own is a
\* name given to the index.
IndexName(columns, column) ==
  IF Len(columns) = 1 /\ columns[1] # column THEN columns[1]
  ELSE <<"idx">> \o (IF columns = <<>> THEN column ELSE FlattenSeq(columns))

\* Deviation: the columns of an index are the field's own, whatever was said.
UniqueTagTakesOver(at) ==
  [at EXCEPT !.isUnique = TRUE, !.index = GetWhenEmpty(@, IndexName(<<>>, at.name)),
             !.columns = <<at.name>>]

UniqueTag(at) ==
  [at EXCEPT !.isUnique = TRUE, !.index = GetWhenEmpty(@, IndexName(<<>>, at.name)),
             !.columns = GetWhenEmpty(@, <<at.name>>)]

\* Its RefColumn is set only when no tag about the key came before.
ForeignKeyTag(at, field, tag) ==
  LET refColumn == IF at.key = NoKey THEN tag.name ELSE at.key.refColumn
  IN  [at EXCEPT !.key = [column |-> GetWhenEmpty(@.column, refColumn),
                          ref |-> field.object, refColumn |-> refColumn]]

\* Parsing a struct: at is the current field, keyFields are pkFields.
NewParse == [at |-> NewAttrs(<<>>), columns |-> <<>>, history |-> <<>>, indexes |-> <<>>,
             embedColumns |-> <<>>, embedHistory |-> <<>>, embedIndexes |-> <<>>,
             keyFields |-> <<>>]

KeyFields(s, tag) == IF s.at.isPk THEN tag.names ELSE s.keyFields

\* One tag.
ReadTag(prefix, field, s, tag) ==
  LET at == s.at
  IN  CASE tag.tp = "column" -> [s EXCEPT !.at.name = prefix \o tag.name]
        [] tag.tp = "previous" ->
             [s EXCEPT !.at.name = prefix \o tag.previous,
                       !.history = Append(@, [col |-> tag.previous, to |-> tag.name])]
        [] tag.tp = "embedded_prefix" ->
             [s EXCEPT !.at.prefix = tag.name, !.at.isEmbedded = TRUE]
        [] tag.tp = "embedded"    -> [s EXCEPT !.at.isEmbedded = TRUE]
        [] tag.tp = "foreign_key" -> [s EXCEPT !.at = ForeignKeyTag(at, field, tag)]
        [] tag.tp = "references"  -> [s EXCEPT !.at.key.column = tag.name]
        [] tag.tp = "primary_key" -> [s EXCEPT !.at.isPk = TRUE]
        [] tag.tp = "index"       ->
             [s EXCEPT !.at.index = GetWhenEmpty(@, IndexName(<<>>, at.name)),
                       !.at.columns = <<at.name>>]
        [] tag.tp = "unique"      -> [s EXCEPT !.at = UniqueTag(at)]
        [] tag.tp = "index:"      ->
             [s EXCEPT !.at.index = IndexName(tag.names, at.name),
                       !.at.columns = IF Len(tag.names) > 1 THEN tag.names ELSE <<at.name>>]
        [] tag.tp = "unique:"     ->
             [s EXCEPT !.at.isUnique = TRUE, !.at.index = IndexName(tag.names, at.name),
                       !.at.columns = <<at.name>>]
        [] tag.tp = "index_columns" ->
             [s EXCEPT !.keyFields = KeyFields(s, tag),
                       !.at.index = IndexName(tag.names, at.name), !.at.columns = tag.names]
        [] tag.tp = "index_type" ->
             [s EXCEPT !.at.index = GetWhenEmpty(@, IndexName(<<>>, at.name)),
                       !.at.columns = GetWhenEmpty(@, <<at.name>>)]
        [] tag.tp \in {"not_null", "null"} -> [s EXCEPT !.at.isNotNull = TRUE]

\* The statement for a field's index or composite primary key, if any.
IndexStatements(s) ==
  IF s.at.isPk
  THEN IF Len(s.keyFields) > 1 THEN <<[op |-> "addPrimaryKey", columns |-> s.keyFields]>>
       ELSE <<>>
  ELSE IF s.at.index = <<>> THEN <<>>
  ELSE <<[op |-> "createIndex", idx |-> s.at.index, columns |-> s.at.columns,
          typ |-> IF s.at.isUnique THEN "unique" ELSE "none"]>>

\* Two fields of one type give their keys the same name, fk_<type>_<table>.
KeyStatement(at) ==
  [op |-> "addForeignKey", fk |-> <<"fk", at.key.ref, Table>>, col |-> at.key.column,
   ref |-> at.key.ref, refColumn |-> at.key.refColumn]

NotNull    == [tp |-> "notnull", val |-> Nil]
PrimaryKey == [tp |-> "primary", val |-> Nil]

\* Deviation: a column of a composite primary key is one of its own as well.
ColumnOfKeepsKey(s) ==
  [name |-> s.at.name, type |-> Type,
   opts |-> (IF s.at.isNotNull THEN <<NotNull>> ELSE <<>>)
              \o (IF s.at.isPk THEN <<PrimaryKey>> ELSE <<>>)]

ColumnOf(s) ==
  [name |-> s.at.name, type |-> Type,
   opts |-> (IF s.at.isNotNull THEN <<NotNull>> ELSE <<>>)
              \o (IF s.at.isPk /\ Len(s.keyFields) <= 1 THEN <<PrimaryKey>> ELSE <<>>)]

RECURSIVE ParseStruct(_, _)

\* The rest of a field's round of the loop.
EndField(prefix, field, s) ==
  LET indexed  == [s EXCEPT !.indexes = @ \o IndexStatements(s)]
      embedded == ParseStruct(prefix \o s.at.prefix, field.struct)
  IN  IF s.at.key # NoKey THEN [s EXCEPT !.indexes = Append(@, KeyStatement(s.at))]
      ELSE IF field.struct # <<>> /\ s.at.isEmbedded
      THEN [indexed EXCEPT !.embedColumns = @ \o embedded.columns,
                           !.embedHistory = @ \o embedded.history,
                           !.embedIndexes = @ \o embedded.indexes]
      ELSE [indexed EXCEPT !.columns = Append(@, ColumnOf(s))]

ParseField(prefix, s, field) ==
  EndField(prefix, field,
    FoldLeft(LAMBDA r, tag : ReadTag(prefix, field, r, tag),
             [s EXCEPT !.at = NewAttrs(prefix \o field.name)], field.tags))

\* The columns, renames and indexes of a struct, those of embedded ones last.
ParseStruct(prefix, fields) ==
  LET s == FoldLeft(LAMBDA r, field : ParseField(prefix, r, field), NewParse, fields)
  IN  [columns |-> s.columns \o s.embedColumns, history |-> s.history \o s.embedHistory,
       indexes |-> s.indexes \o s.embedIndexes]

\* Deviation: the primary key stays where it is.
KeyFirstNever(columns) == columns

\* The first column with a primary key changes places with the first column.
KeyFirst(columns) ==
  LET keys == {i \in DOMAIN columns : \E k \in DOMAIN columns[i].opts :
                                        IsPrimaryKey(columns[i].opts[k])}
  IN  IF keys = {} THEN columns
      ELSE [columns EXCEPT ![1] = columns[Min(keys)], ![Min(keys)] = columns[1]]

Renames(history) == [k \in DOMAIN history |->
                       [op |-> "renameColumn", col |-> history[k].col, to |-> history[k].to]]

AddTableStatements(fields) ==
  LET parsed == ParseStruct(<<>>, fields)
  IN  <<[op |-> "createTable", columns |-> KeyFirst(parsed.columns)]>>
        \o Renames(parsed.history) \o parsed.indexes

----------------------------------------------------------------------------
(* The database.                                                            *)

HasPrimaryKeyIn(dbt) ==
  \/ <<"primary_key">> \in DOMAIN dbt.idxs
  \/ \E i \in DOMAIN dbt.cols : \E o \in dbt.cols[i].opts : IsPrimaryKey(o)

Accepts(dbt, stm) ==
  CASE stm.op = "createTable" ->
         /\ stm.columns # <<>>
         /\ \A i, j \in DOMAIN stm.columns : stm.columns[i].name = stm.columns[j].name => i = j
    [] stm.op = "addPrimaryKey" ->
         /\ ~HasPrimaryKeyIn(dbt)
         /\ \A k \in DOMAIN stm.columns : stm.columns[k] \in ColumnNamesOf(dbt)
    [] stm.op = "addForeignKey" -> Legal(dbt, stm) /\ stm.refColumn # <<>>
    [] OTHER -> Legal(dbt, stm)

Execute(dbt, stm) ==
  CASE stm.op = "createTable" ->
         [EmptyDbTable EXCEPT !.cols =
            [i \in DOMAIN stm.columns |-> [stm.columns[i] EXCEPT !.opts = {@[k] : k \in DOMAIN @}]]]
    [] stm.op = "addPrimaryKey" ->
         [dbt EXCEPT !.idxs = With(@, <<"primary_key">>, [typ |-> "none", columns |-> stm.columns])]
    [] OTHER -> Exec(dbt, stm)

\* The parser.  A composite primary key is an index of the current table.
ReadStatement(m, stm) ==
  CASE stm.op = "createTable" ->
         ReadCreateTable(m, Table,
           [i \in DOMAIN stm.columns |->
              Column(stm.columns[i].name, "add",
                     [type |-> stm.columns[i].type, opts |-> stm.columns[i].opts])], <<>>)
    [] stm.op = "addPrimaryKey" ->
         Using(SchemaAddIndex(m, m.current, Index(<<"primary_key">>, "add", "none", stm.columns)),
               Table)
    [] stm.op = "createIndex" ->
         ReadCreateIndex(m, Table, Index(stm.idx, "add", stm.typ, stm.columns))
    [] OTHER -> ReadAlter(m, Table, <<stm>>)

----------------------------------------------------------------------------
(* What the tags ask for, as the README lists them: it gives the tags of a    *)
(* field no order.                                                          *)

TagsOf(field)     == {field.tags[k] : k \in DOMAIN field.tags}
Tagged(field, tp) == {tag \in TagsOf(field) : tag.tp = tp}
HasTag(field, tps) == \E tag \in TagsOf(field) : tag.tp \in tps
IsEmbedded(field) == field.struct # <<>> /\ HasTag(field, {"embedded", "embedded_prefix"})
IsKey(field)      == HasTag(field, {"foreign_key"})

\* A struct as its columns, each a field with the prefix of where it is: the
\* fields of the struct first, those of embedded structs after them.
RECURSIVE Flat(_, _)
Flat(prefix, fields) ==
  LET own   == SelectSeq(fields, LAMBDA f : ~IsEmbedded(f))
      embed == SelectSeq(fields, IsEmbedded)
      under(f) == prefix \o (IF Tagged(f, "embedded_prefix") = {} THEN <<>>
                             ELSE (CHOOSE tag \in Tagged(f, "embedded_prefix") : TRUE).name)
  IN  [i \in DOMAIN own |-> [field |-> own[i], prefix |-> prefix]]
        \o FlattenSeq([i \in DOMAIN embed |-> Flat(under(embed[i]), embed[i].struct)])

FlatModel   == Flat(<<>>, model)
FlatColumns == SelectSeq(FlatModel, LAMBDA c : ~IsKey(c.field))

FinalName(c) ==
  LET named == Tagged(c.field, "column") \cup Tagged(c.field, "previous")
  IN  c.prefix \o (IF named = {} THEN c.field.name ELSE (CHOOSE tag \in named : TRUE).name)

\* The columns that a tag names, when it names more than the field's own.
ListedColumns(c) ==
  LET lists == Tagged(c.field, "index_columns")
                 \cup {tag \in Tagged(c.field, "index:") : Len(tag.names) > 1}
  IN  IF lists = {} THEN <<FinalName(c)>>
      ELSE LET names == (CHOOSE tag \in lists : TRUE).names
           IN  [k \in DOMAIN names |-> c.prefix \o names[k]]

IsPkColumn(c)  == HasTag(c.field, {"primary_key"})
IsComposite(c) == IsPkColumn(c) /\ \E tag \in Tagged(c.field, "index_columns") : Len(tag.names) > 1
IsIndexed(c)   == HasTag(c.field, {"index", "unique", "index:", "unique:",
                                   "index_columns", "index_type"})

WantedColumn(c) ==
  [name |-> FinalName(c), type |-> Type,
   opts |-> (IF HasTag(c.field, {"not_null"}) THEN {NotNull} ELSE {})
              \cup (IF IsPkColumn(c) /\ ~IsComposite(c) THEN {PrimaryKey} ELSE {})]

\* The columns in their order: the primary key always first.
WantedColumns ==
  LET isKey(c) == IsPkColumn(c) /\ ~IsComposite(c)
      order == SelectSeq(FlatColumns, isKey) \o SelectSeq(FlatColumns, LAMBDA c : ~isKey(c))
  IN  [i \in DOMAIN order |-> WantedColumn(order[i])]

WantsIndex(c) == IsComposite(c) \/ (IsIndexed(c) /\ ~IsPkColumn(c))

WantedIndex(c) ==
  [typ |-> IF HasTag(c.field, {"unique", "unique:"}) /\ ~IsPkColumn(c) THEN "unique" ELSE "none",
   columns |-> ListedColumns(c)]
WantedIndexes ==
  LET indexed == SelectSeq(FlatColumns, WantsIndex)
  IN  {WantedIndex(indexed[i]) : i \in DOMAIN indexed}

WantedKeys ==
  LET keys == SelectSeq(FlatModel, LAMBDA c : IsKey(c.field))
      columnTag(f) == IF HasTag(f, {"references"}) THEN "references" ELSE "foreign_key"
  IN  {[column |-> (CHOOSE tag \in Tagged(keys[i].field, columnTag(keys[i].field)) : TRUE).name,
        ref    |-> keys[i].field.object] : i \in DOMAIN keys}

----------------------------------------------------------------------------
(* The models that the builder gets right.  Each conjunct names what it gets *)
(* wrong.                                                                   *)

\* The tags of a field that the builder wants in this order.
MustPrecede(tag, other) ==
  \/ tag.tp \in {"column", "previous"}
  \/ tag.tp = "primary_key" /\ other.tp = "index_columns"
  \/ tag.tp = "foreign_key" /\ other.tp = "references"
  \/ tag.tp = "index" /\ other.tp \in {"index:", "index_columns"}

IsRegular ==
  LET flat     == FlatModel
      field(i) == flat[i].field
      columns  == FlatColumns
      ownIndex == {"index", "unique", "index:", "unique:", "index_type"}
  IN  \* index and column names are taken from what the tags before said
      /\ "tagOrder" \in Quirks \/ \A i \in DOMAIN flat :
           \A j, k \in DOMAIN field(i).tags :
             j < k => ~MustPrecede(field(i).tags[k], field(i).tags[j])
      \* the renames are written before the indexes, which use the old names
      /\ "indexedRename" \in Quirks \/ \A i \in DOMAIN flat :
           ~(HasTag(field(i), {"previous"}) /\ HasTag(field(i), ownIndex))
      \* neither a rename nor a list of columns is given the prefix
      /\ "prefix" \in Quirks \/ \A i \in DOMAIN flat :
           flat[i].prefix # <<>> =>
             /\ ~HasTag(field(i), {"previous", "index_columns"})
             /\ \A tag \in Tagged(field(i), "index:") : Len(tag.names) = 1
      \* the columns of a composite key are remembered for the next key
      /\ Cardinality({i \in DOMAIN flat : IsPkColumn(flat[i])}) <= 1
      \* the primary key is swapped into the first place
      /\ "lateKey" \in Quirks \/ \A i \in DOMAIN columns :
           IsPkColumn(columns[i]) => IsComposite(columns[i]) \/ i <= 2
      \* null is read as not_null
      /\ "null" \in Quirks \/ \A i \in DOMAIN flat : ~HasTag(field(i), {"null"})
      \* a foreign key makes its target the current table of what follows
      /\ Cardinality({i \in DOMAIN flat : IsKey(field(i))}) <= 1
      /\ \A i, j \in DOMAIN flat :
           IsKey(field(i)) /\ IsPkColumn(flat[j]) /\ IsComposite(flat[j]) => j < i

\* An index is told by the name it is given or else by its columns.
IndexIdentity(c) ==
  LET given == {tag \in Tagged(c.field, "index:") \cup Tagged(c.field, "unique:") :
                  Len(tag.names) = 1}
  IN  IF given = {} THEN ListedColumns(c) ELSE (CHOOSE tag \in given : TRUE).names

\* What no builder could do: columns or indexes that are not there or there twice.
IsSound ==
  LET columns == FlatColumns
      names   == {FinalName(columns[i]) : i \in DOMAIN columns}
      indexed == SelectSeq(columns, WantsIndex)
  IN  /\ Cardinality(names) = Len(columns)
      /\ Cardinality({IndexIdentity(indexed[i]) : i \in DOMAIN indexed}) = Len(indexed)
      /\ \A key \in WantedKeys : key.column \in names
      /\ \A i \in DOMAIN columns :
           LET c == columns[i]
           IN  /\ \A tag \in Tagged(c.field, "previous") : c.prefix \o tag.previous \notin names
               /\ WantsIndex(c) => \A k \in DOMAIN ListedColumns(c) : ListedColumns(c)[k] \in names
               /\ \A once \in {{"column", "previous"}, {"index:", "unique:", "index_columns"}} :
                    Cardinality({tag \in TagsOf(c.field) : tag.tp \in once}) <= 1

----------------------------------------------------------------------------
Init ==
  /\ model \in Models
  /\ IsSound /\ IsRegular
  /\ script = AddTableStatements(model)
  /\ schema = NewMigration
  /\ db = EmptyDbTable

\* The next statement is executed and read.
NextStatement ==
  /\ script # <<>>
  /\ Accepts(db, Head(script))
  /\ db' = Execute(db, Head(script))
  /\ schema' = ReadStatement(schema, Head(script))
  /\ script' = Tail(script)
  /\ UNCHANGED model

Next == NextStatement

Spec == Init /\ [][Next]_vars

----------------------------------------------------------------------------
\* The statements written for a model run in the order they are written: every
\* index and every key finds its columns, and no index, key or column comes twice.
ModelIsAccepted == script # <<>> => Accepts(db, Head(script))

\* Every field becomes the column its tags say, the primary key first, then the
\* fields of the model, then those of embedded structs.
ColumnsOfModel == script = <<>> => db.cols = WantedColumns

\* The indexes and foreign keys are those the tags ask for, in whatever tags of
\* whichever fields they are mentioned.
IndexesOfModel ==
  script = <<>> =>
    /\ {db.idxs[i] : i \in DOMAIN db.idxs} = WantedIndexes
    /\ {db.fks[f] : f \in DOMAIN db.fks} = WantedKeys

\* The parser reads in the builder's statements the table that they make.
ParserReadsModel == script = <<>> => View(TableOf(schema, Table)) = db

=============================================================================
