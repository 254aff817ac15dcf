-------------------------------- MODULE Plan --------------------------------
(***************************************************************************)
(* The planner of rustafari-sql (plan.rs): from a parsed SELECT to the     *)
(* nodes of a logical plan. A plan of a SELECT is a chain that begins with *)
(* a Scan; here it is the sequence of the nodes above the Scan.            *)
(*                                                                         *)
(* A SELECT is a record with the fields                                    *)
(*   where     an expression, or NoWhere                                   *)
(*   items     the projection: columns, aggregates, aliased items, star    *)
(*   group     the columns of GROUP BY                                     *)
(*   order     columns of ORDER BY with TRUE for ASC                       *)
(*   limit, offset                                                         *)
(***************************************************************************)
EXTENDS Where

NoLimit == 10^6     \* u64::MAX

(* Items. *)
Star          == [item |-> "star"]
Column(c)     == [item |-> "column", name |-> c]
Agg(fn, c)    == [item |-> "aggregate", fn |-> fn, name |-> c]
CountStar     == Agg("count_star", "*")
Aliased(item) == [item |-> "aliased", of |-> item]

Functions == {"count", "sum", "avg", "min", "max", "count_star"}

Bare  == [item : {"column"}, name : STRING]
         \cup [item : {"aggregate"}, fn : Functions, name : STRING]
Items == {Star} \cup Bare \cup [item : {"aliased"}, of : Bare]

ASSUME NoLimitAssumption == MaxRows <= NoLimit

-----------------------------------------------------------------------------
(* query_to_plan *)

Chosen(items, kind) ==
    Those(items, {i \in DOMAIN items : items[i].item = kind})

(* projection_as_aggs_with_group: columns of GROUP BY and aggregates only. *)
GroupItemsOK(query) ==
    \A i \in ToSet(query.items) :
        \/ i.item = "aggregate"
        \/ i.item = "column" /\ i.name \in ToSet(query.group)

(* The node for the projection: GROUP BY, aggregates if there is nothing   *)
(* else, or the plain columns, any other item being left out.              *)
ProjectionNodes(query) ==
    LET aggs    == Chosen(query.items, "aggregate")
        columns == Chosen(query.items, "column")
    IN  IF query.group # <<>>
        THEN <<[node |-> "group", by |-> query.group, aggs |-> aggs]>>
        ELSE IF aggs = query.items
        THEN <<[node |-> "aggregate", aggs |-> aggs]>>
        ELSE IF columns # <<>>
        THEN <<[node |-> "project",
                columns |-> [i \in DOMAIN columns |-> columns[i].name]]>>
        ELSE <<>>

(* The other nodes, each left out when the query does not ask for it.      *)
FilterNodes(query) ==
    IF query.where = NoWhere THEN <<>>
    ELSE <<[node |-> "filter", predicate |-> ExprToFilter[query.where]]>>

OrderNodes(query) ==
    IF query.order = <<>> THEN <<>>
    ELSE <<[node |-> "order", columns |-> query.order]>>

LimitNodes(query) ==
    IF query.limit = NoLimit /\ query.offset = 0 THEN <<>>
    ELSE <<[node |-> "limit", limit |-> query.limit, offset |-> query.offset]>>

(* Otherwise Err(Parse). *)
Plannable(query) ==
    /\ ExprToFilter[query.where] # Refused
    /\ query.group # <<>> => GroupItemsOK(query)

(* The nodes from the Scan outwards. *)
QueryToPlan(query) ==
    FilterNodes(query) \o ProjectionNodes(query)
                       \o OrderNodes(query) \o LimitNodes(query)
=============================================================================
