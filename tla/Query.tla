------------------------------- MODULE Query -------------------------------
(***************************************************************************)
(* One session, one table, one statement at a time: what a SELECT answers  *)
(* (execute_plan of rustafari-executor), given how INSERT has filled the   *)
(* row store, the index and the columnar chunks. How the steps of several  *)
(* statements interleave is the subject of Engine.                         *)
(***************************************************************************)
EXTENDS Plan

CONSTANT Queries  \* SELECTs on the table

ASSUME QueriesAssumption ==
    Queries \subseteq [where : Conditions, items : Seq(Items), group : Seq(STRING),
                       order : Seq(STRING \X BOOLEAN), limit : Nat, offset : Nat]

VARIABLE last     \* the last statement and, of a SELECT, the reply

vars == <<stored, last>>

NoReply == [kind |-> "none", rows |-> <<>>]

Known(columns) == \A c \in columns : ColumnIndex(c) # 0

ColumnOf(some, c) == [i \in DOMAIN some |-> Field(some[i], c)]

Init == TableInit /\ last = [query |-> NoWhere, reply |-> NoReply]

Alive == last.reply # Panicked

-----------------------------------------------------------------------------
(* The nodes above the filter, on the rows of their input. *)

Project(input, columns) ==
    LET project(r) == Present([i \in DOMAIN columns |-> Field(r, columns[i])])
    IN  Result([i \in DOMAIN input |-> project(input[i])])

(* slice(skip).take(limit) *)
Limit(input, limit, offset) ==
    Result(SubSeq(input, offset + 1,
                  IF offset + limit > Len(input) THEN Len(input) ELSE offset + limit))

(* The columns are looked up in the schema of the table, whatever columns  *)
(* the rows have by now. The sort is stable; it lists the rows in an order *)
(* if there is one, so if no values of a column that cannot be compared    *)
(* stand between others that can.                                          *)
SortsBefore(r, s, columns) ==
    \E i \in DOMAIN columns :
        LET v(j) == At(r, ColumnIndex(columns[j][1]))
            w(j) == At(s, ColumnIndex(columns[j][1]))
        IN  /\ \A j \in 1..i - 1 : ~ Before(v(j), w(j)) /\ ~ Before(w(j), v(j))
            /\ IF columns[i][2] THEN Before(v(i), w(i)) ELSE Before(w(i), v(i))

OrderBy(input, columns) ==
    LET before(i, j) == \/ SortsBefore(input[i], input[j], columns)
                        \/ i < j /\ ~ SortsBefore(input[j], input[i], columns)
        at           == Listed(DOMAIN input, before)
    IN  IF ~ Known({c[1] : c \in ToSet(columns)}) THEN Failed
        ELSE Result([k \in DOMAIN at |-> input[at[k]]])

(* aggregate_over_rows, and aggregate_over_row_slice for a group.          *)
AggregateRows(some, agg) ==
    IF agg.fn = "count_star" THEN IntValue(Len(some))
    ELSE OverRows(agg.fn, ColumnOf(some, agg.name))

AggColumns(aggs) == {a.name : a \in {b \in ToSet(aggs) : b.fn # "count_star"}}

AggregateByRows(input, aggs) ==
    IF ~ Known(AggColumns(aggs)) THEN Failed
    ELSE Result(<<[i \in DOMAIN aggs |-> AggregateRows(input, aggs[i])]>>)

(* aggregate_over_chunks: the rows are those of the chunks, whatever the   *)
(* input of the node is. COUNT( * ) counts them by the table's first column.*)
AggregateByChunks(some, aggs) ==
    Result(<<[i \in DOMAIN aggs |->
        IF aggs[i].fn = "count_star" THEN IntValue(Total(OverSlices(some, Len), "int"))
        ELSE OverChunks(aggs[i].fn, Slices(some, aggs[i].name))]>>)

(* Groups come in the order of the Debug text of their keys: for numbers   *)
(* below ten, by type and then by number.                                  *)
TypeOrder == [float |-> 1, int |-> 2, null |-> 3, string |-> 4]

TextBefore(k, l) ==
    \E i \in DOMAIN l :
        /\ \A j \in 1..i - 1 : At(k, j) = l[j]
        /\ \/ i > Len(k)
           \/ TypeOrder[k[i].type] < TypeOrder[l[i].type]
           \/ k[i].type = l[i].type /\ k[i].n < l[i].n

(* Fault for the runs: only the last column tells groups apart. *)
GroupKeyOfLast(r, columns) == <<Field(r, columns[Len(columns)])>>

GroupKey(r, columns) ==
    Present([i \in DOMAIN columns |-> Field(r, columns[i])])

GroupBy(input, columns, aggs) ==
    LET keys     == Listed({GroupKey(r, columns) : r \in ToSet(input)}, TextBefore)
        group(k) == Those(input, {i \in DOMAIN input : GroupKey(input[i], columns) = k})
    IN  IF ~ Known(ToSet(columns)) \/ (keys # <<>> /\ ~ Known(AggColumns(aggs)))
        THEN Failed
        ELSE Result([i \in DOMAIN keys |->
                 keys[i] \o [j \in DOMAIN aggs |->
                                AggregateRows(group(keys[i]), aggs[j])]])

-----------------------------------------------------------------------------
(* execute_plan: each node on the result of the one below. *)

Apply(node, input, flushed) ==
    IF node.node = "filter" THEN Filter(node.predicate)
    ELSE IF node.node = "aggregate" /\ flushed # <<>>
    THEN AggregateByChunks(flushed, node.aggs)
    ELSE IF input.kind # "rows" THEN input
    ELSE CASE node.node = "aggregate" -> AggregateByRows(input.rows, node.aggs)
           [] node.node = "group"   -> GroupBy(input.rows, node.by, node.aggs)
           [] node.node = "project" -> Project(input.rows, node.columns)
           [] node.node = "order"   -> OrderBy(input.rows, node.columns)
           [] node.node = "limit"   -> Limit(input.rows, node.limit, node.offset)

Execute(plan, flushed) ==
    LET result[n \in 0..Len(plan)] ==
            IF n = 0 THEN Result(rows) ELSE Apply(plan[n], result[n - 1], flushed)
    IN  result[Len(plan)]

Aggregates(plan) == \E node \in ToSet(plan) : node.node = "aggregate"

InsertRow(insert) ==
    /\ Alive
    /\ Insert(insert)
    /\ last' = [query |-> insert, reply |-> NoReply]

Select(query) ==
    LET plan == QueryToPlan(query)
    IN  /\ Alive /\ Plannable(query)
        /\ IF Aggregates(plan) THEN Flush ELSE UNCHANGED stored
        /\ last' = [query |-> query, reply |-> Execute(plan, chunks')]

(* Err(Parse): nothing is executed. *)
Refuse ==
    /\ Alive
    /\ \/ \E insert \in Inserts : ~ Insertable(insert)
       \/ \E query \in Queries : ~ Plannable(query)
    /\ last' = [query |-> NoWhere, reply |-> NoReply]
    /\ UNCHANGED stored

Next ==
    \/ \E insert \in Inserts : InsertRow(insert)
    \/ \E query \in Queries : Select(query)
    \/ Refuse

Spec == Init /\ [][Next]_vars

-----------------------------------------------------------------------------
(* What SQL says of a SELECT, from the text of the query and the rows      *)
(* alone.                                                                  *)
Kept(query) == {i \in DOMAIN rows : Satisfies(rows[i], query.where)}

Unaliased(item) == IF item.item = "aliased" THEN item.of ELSE item

(* A row has a NULL in the columns it is too short for. *)
OrNull(v) == IF v = Absent THEN NullValue ELSE v

Output(row, items) ==
    IF items = <<Star>> THEN [c \in DOMAIN Schema |-> OrNull(At(row, c))]
    ELSE [i \in DOMAIN items |-> OrNull(Field(row, Unaliased(items[i]).name))]

(* The row is long enough for what it is asked for. *)
HasAll(row, columns) == \A c \in columns : Field(row, c) # Absent

Gives(row, items) ==
    IF items = <<Star>> THEN DOMAIN row = DOMAIN Schema
    ELSE HasAll(row, {Unaliased(item).name : item \in ToSet(items)})

(* The rows at these places are in the order of ORDER BY.                  *)
InOrder(at, order) ==
    LET key(a, i) == LET n == Numeric(Field(rows[at[a]], order[i][1]))
                     IN  IF order[i][2] THEN n ELSE -n
    IN  \A a, b \in DOMAIN at : a < b =>
            ~ \E i \in DOMAIN order :
                /\ \A j \in 1..i - 1 : key(a, j) = key(b, j)
                /\ key(a, i) > key(b, i)

SqlAnswers(query) ==
    {LET s == SubSeq(at, query.offset + 1, Min({query.offset + query.limit, Len(at)}))
     IN  [k \in DOMAIN s |-> Output(rows[s[k]], query.items)] :
        at \in {a \in SetToSeqs(Kept(query)) : InOrder(a, query.order)}}

Answered == last.reply.kind # "none"

(* An aggregate in SQL, of the rows at some places: NULLs do not count, an *)
(* integer sum stays at the largest integer, and numbers of two types      *)
(* become floats.                                                          *)
SqlAggregate(some, agg) ==
    LET value(i) == Field(rows[i], agg.name)
        valued   == {i \in some : value(i) \notin {NullValue, Absent}}
        halves   == {Numeric(value(i)) : i \in valued}
        total[i \in 0..Len(rows)] ==
            IF i = 0 THEN 0
            ELSE total[i - 1] + (IF i \in valued THEN Numeric(value(i)) ELSE 0)
        number(h) == IF \E i \in valued : value(i).type = "float" THEN FloatValue(h)
                     ELSE IntValue(Min({h \div 2, MaxInt}))
    IN  IF agg.fn = "count_star" THEN IntValue(Cardinality(some))
        ELSE IF agg.fn = "count" THEN IntValue(Cardinality(valued))
        ELSE IF valued = {} THEN NullValue
        ELSE CASE agg.fn = "sum" -> number(total[Len(rows)])
               [] agg.fn = "avg" -> Quotient(total[Len(rows)], Cardinality(valued))
               [] agg.fn = "min" -> number(Min(halves))
               [] agg.fn = "max" -> number(Max(halves))

Plain(query) ==
    query.group = <<>> /\ \A i \in ToSet(query.items) :
                              Unaliased(i).item # "aggregate"

(* A SELECT of columns answers with exactly the rows WHERE describes, in   *)
(* the order of ORDER BY and cut to LIMIT, whether the index, the range    *)
(* of the index or the scan of the row store provides them; if none of     *)
(* them is too short for the columns it is asked for.                      *)
SelectsMatch ==
    /\ Answered /\ Plain(last.query)
    /\ \A i \in Kept(last.query) : Gives(rows[i], last.query.items)
    => last.reply.kind = "rows" /\ last.reply.rows \in SqlAnswers(last.query)

(* A SELECT of aggregates answers with the aggregates of the rows WHERE    *)
(* describes, however the rows are spread over chunks and buffer and       *)
(* whichever of the two ways of computing them is taken.                   *)
AggregatesMatch ==
    Answered /\ last.query.group = <<>> /\ ~ Plain(last.query) =>
        last.reply.rows =
            <<[i \in DOMAIN last.query.items |->
                  SqlAggregate(Kept(last.query), Unaliased(last.query.items[i]))]>>

(* GROUP BY answers with one row for each combination of the grouped       *)
(* columns: in the order of the select list, their values and the          *)
(* aggregates of exactly the rows WHERE describes that have them, whether  *)
(* or not the index provided the rows; if none of them is too short.       *)
GroupsMatch ==
    LET query     == last.query
        kept      == Kept(query)
        value(i, c) == OrNull(Field(rows[i], c))
        alike(i)  == {j \in kept : \A c \in ToSet(query.group) : value(j, c) = value(i, c)}
        answer(i) == [k \in DOMAIN query.items |->
                         LET item == query.items[k]
                         IN  IF item.item = "aggregate" THEN SqlAggregate(alike(i), item)
                             ELSE value(i, item.name)]
    IN  /\ Answered /\ query.group # <<>>
        /\ \A i \in kept : HasAll(rows[i], ToSet(query.group))
        => /\ ToSet(last.reply.rows) = {answer(i) : i \in kept}
           /\ IsInjective(last.reply.rows)

-----------------------------------------------------------------------------
(* What these three need of the statements, besides what WHERE needs.      *)
Unlimited(query) == query.order = <<>> /\ query.limit = NoLimit /\ query.offset = 0

Stored(c) == {Field(InsertToPlan(insert).values, c) : insert \in Insertables}

(* Of SELECTs of columns: plain columns of the table, without aliases, or  *)
(* the star; and the star if there is an ORDER BY, which sorts what the    *)
(* projection left by its place in the table: by columns that have a value *)
(* in every row.                                                           *)
SelectsFit ==
    \A query \in Queries : Plain(query) =>
        /\ \/ query.items = <<Star>>
           \/ /\ query.items # <<>> /\ query.order = <<>>
              /\ \A item \in ToSet(query.items) :
                    item.item = "column" /\ ColumnIndex(item.name) # 0
        /\ \A c \in ToSet(query.order) :
              ColumnIndex(c[1]) # 0 /\ {NullValue, Absent} \cap Stored(c[1]) = {}

(* Of aggregates: the column is there, and it has numbers, if they are not *)
(* just counted.                                                           *)
AggregateFits(agg) ==
    \/ agg.fn = "count_star"
    \/ /\ ColumnIndex(agg.name) # 0
       /\ agg.fn # "count" => \A v \in Stored(agg.name) : v.type # "string"

(* Of GROUP BY: the select list is the grouped columns, then aggregates.   *)
GroupsFit ==
    \A query \in Queries : query.group # <<>> /\ GroupItemsOK(query) =>
        /\ Unlimited(query) /\ Known(ToSet(query.group))
        /\ query.items = [k \in DOMAIN query.group |-> Column(query.group[k])]
                            \o Chosen(query.items, "aggregate")
        /\ \A item \in ToSet(query.items) :
              item.item = "aggregate" => AggregateFits(item)

(* Without GROUP BY: nothing but aggregates, and no WHERE. No row is kept  *)
(* out of the chunks, no sum of an average saturates, and i64::MAX is in   *)
(* no column whose minimum is asked for.                                   *)
AggregatesFit ==
    /\ \A query \in Queries : query.group = <<>> /\ ~ Plain(query) =>
          /\ Unlimited(query) /\ query.where = NoWhere
          /\ \A item \in ToSet(query.items) :
                /\ item.item = "aggregate" /\ AggregateFits(item)
                /\ \A v \in Stored(item.name) : v.type = "int" =>
                      /\ item.fn = "avg" => MaxRows * v.n <= MaxInt
                      /\ item.fn = "min" => v.n # MaxInt
    /\ NullValue \notin Stored("id")
=============================================================================
