------------------------------ MODULE MCQuery ------------------------------
(* Instances of Query for TLC: a table (id, v), rows and SELECTs. *)
EXTENDS Query

Table == <<"id", "v">>

int(n) == IntValue(n)

Row(literals) == InsertInto(<<>>, [i \in DOMAIN literals |-> Lit(literals[i])])

Typed == {Row(<<int(1), int(1)>>), Row(<<int(1), int(3)>>), Row(<<int(2), NullValue>>),
          InsertInto(<<"id", "v">>, <<Lit(int(2)), Lit(int(1))>>),
          InsertInto(<<"id">>, <<Lit(int(2))>>),
          InsertInto(<<>>, <<Lit(int(1)), Col("id")>>)}

TwoTypes     == {Row(<<int(1), int(1)>>), Row(<<int(1), FloatValue(5)>>)}
AtMax        == {Row(<<int(1), int(MaxInt)>>)}
TooLarge     == {Row(<<int(1), int(MaxInt + 1)>>)}
OtherColumns == {InsertInto(<<"v", "id">>, <<Lit(int(1)), Lit(int(2))>>)}

Base == [where |-> NoWhere, items |-> <<Star>>, group |-> <<>>,
         order |-> <<>>, limit |-> NoLimit, offset |-> 0]

Id(op, n) == Compare(Col("id"), op, Lit(int(n)))
V(op, n)  == Compare(Col("v"), op, Lit(int(n)))

Wheres == {NoWhere, Id("=", 1), Id("!=", 2), Id("<", 2), V(">", 1),
           Compare(Lit(int(2)), "=", Col("id")),
           And(Id(">=", 1), Id("<=", 2)), And(Id("<=", 2), Id(">=", 2)),
           Or(Id("=", 1), V("=", 1)), And(Id("=", 1), V("<=", 1)),
          And(Or(Id("<", 2), Bool(FALSE)), And(V(">=", 1), Id("<=", 2)))}

Aggs == <<CountStar, Agg("count", "v"), Agg("sum", "v"), Agg("avg", "id"),
          Agg("min", "v"), Agg("max", "v")>>

ById   == <<<<"id", TRUE>>>>
Groups == {[Base EXCEPT !.group = <<"id", "v">>, !.where = w,
                        !.items = <<Column("id"), Column("v"), CountStar>>] :
              w \in {NoWhere, And(Id(">=", 1), Id("<=", 2))}}
          \cup {[Base EXCEPT !.group = <<"v">>,
                            !.items = <<Column("v"), Agg("sum", "id"), Agg("max", "id")>>]}

TypedQueries ==
    {[Base EXCEPT !.where = w] : w \in Wheres}
    \cup {[Base EXCEPT !.where = w, !.items = <<Column("v"), Column("id")>>] :
             w \in {NoWhere, Id("=", 2)}}
    \cup {[Base EXCEPT !.order = ById, !.limit = l, !.offset = o] :
             l \in {1, 2, NoLimit}, o \in {0, 1}}
    \cup {[Base EXCEPT !.order = <<<<"id", FALSE>>>>, !.where = And(Id(">=", 1), Id("<=", 2))]}
    \cup {[Base EXCEPT !.items = Aggs]}
    \cup Groups
    \cup {[Base EXCEPT !.where = Compare(Col("id"), "=", Col("v"))],
          [Base EXCEPT !.group = <<"id">>]}

(* Single SELECTs whose replies differ from SQL. *)
AggregateWhere     == {[Base EXCEPT !.items = <<CountStar>>, !.where = Id("=", 1)]}
SumOfTwoTypes      == {[Base EXCEPT !.items = <<Agg("sum", "v")>>]}
MinAtMax           == {[Base EXCEPT !.items = <<Agg("min", "v")>>]}
OtherThanOne       == {[Base EXCEPT !.where = V("!=", 1)]}
LiteralOnTheLeft   == {[Base EXCEPT !.where = Compare(Lit(int(2)), ">", Col("id"))]}
OrderOfProjection  == {[Base EXCEPT !.items = <<Column("v")>>, !.order = <<<<"v", TRUE>>>>]}
AliasedColumn      == {[Base EXCEPT !.items = <<Aliased(Column("id")), Column("v")>>]}
AggregateFirst     == {[Base EXCEPT !.items = <<CountStar, Column("v")>>, !.group = <<"v">>]}
EmptyRange         == {[Base EXCEPT !.where = And(Id(">=", 2), Id("<=", 1))]}

(* The expressions of WHERE: those of the queries, with all inside of them.*)
Compound  == {"and", "or"}
Inside(w) == w \cup UNION {{e.left, e.right} : e \in {f \in w : f.node \in Compound}}

Asked   == Inside(Inside({query.where : query \in Queries}))
Heights == [e \in Asked |-> IF e.node \notin Compound THEN 0
                            ELSE IF {e.left.node, e.right.node} \cap Compound = {} THEN 1 ELSE 2]

(* What statements must be for the properties, here and in their proofs.   *)
ASSUME StatementsFit ==
    /\ ColumnsInOrder /\ LiteralsFit /\ ColumnsTyped /\ ConditionsFit
    /\ Queries = TypedQueries => SelectsFit /\ GroupsFit /\ AggregatesFit
=============================================================================
