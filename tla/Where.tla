-------------------------------- MODULE Where --------------------------------
(***************************************************************************)
(* WHERE: what the planner of rustafari-sql makes of it (plan.rs), and the *)
(* two ways in which the executor finds the rows: by evaluating it on each *)
(* row, and by a lookup in the index that stands for it.                   *)
(***************************************************************************)
EXTENDS OneTable

CONSTANTS
    Conditions,  \* expressions of WHERE, those inside of others too
    Depth,       \* how deep each of them is
    MaxDepth     \* recursion limit of the SQL parser

NoWhere           == [node |-> "none"]
Refused           == [node |-> "refused"]   \* Err(Parse)
Col(c)            == [operand |-> "column", name |-> c]
Lit(v)            == [operand |-> "literal", value |-> v]
Compare(l, op, r) == [node |-> "cmp", op |-> op, left |-> l, right |-> r]
And(l, r)         == [node |-> "and", left |-> l, right |-> r]
Or(l, r)          == [node |-> "or", left |-> l, right |-> r]
Bool(b)           == [node |-> "bool", is |-> b]

Ops == {"=", "!=", "<", "<=", ">", ">="}

Clauses == Conditions \ {NoWhere}  \* there is a WHERE

ASSUME ConditionsAssumption ==
    Conditions \subseteq
        {NoWhere} \cup [node : {"bool"}, is : BOOLEAN]
        \cup [node : {"cmp"}, op : Ops, left : Exprs, right : Exprs]
        \cup [node : {"and", "or"}, left : Clauses, right : Clauses]
ASSUME DepthAssumption ==
    /\ MaxDepth \in Nat /\ Depth \in [Conditions -> 0..MaxDepth]
    /\ \A e \in Conditions : e.node \in {"and", "or"} =>
          Depth[e.left] < Depth[e] /\ Depth[e.right] < Depth[e]

-----------------------------------------------------------------------------
Cmp(c, op, v) == [node |-> "cmp", col |-> c, op |-> op, value |-> v]

(* expr_to_filter. A comparison needs a column and a literal; with the     *)
(* literal on the left the operator stays as it is.                        *)
CompareToFilter(e) ==
    LET l == e.left
        r == e.right
    IN  IF l.operand = "column" /\ r.operand = "literal"
        THEN Cmp(l.name, e.op, ValueOf(r.value))
        ELSE IF l.operand = "literal" /\ r.operand = "column" /\ e.op # "!="
        THEN Cmp(r.name, e.op, ValueOf(l.value))
        ELSE Refused

(* One expression, given the filters of its parts.                         *)
FilterOf(e, filter) ==
    IF e.node \in {"bool", "none"} THEN e
    ELSE IF e.node = "cmp" THEN CompareToFilter(e)
    ELSE IF Refused \in {filter[e.left], filter[e.right]} THEN Refused
    ELSE [node |-> e.node, left |-> filter[e.left], right |-> filter[e.right]]

(* Not called without a WHERE: NoWhere stays as it is. *)
ExprToFilter[e \in Conditions] == FilterOf(e, ExprToFilter)

Predicates == {ExprToFilter[e] : e \in Conditions} \ {Refused, NoWhere}

-----------------------------------------------------------------------------
(* eval_predicate *)
PredicateHolds(row, p, holds) ==
    \/ p.node = "bool" /\ p.is
    \/ p.node = "cmp"  /\ Holds(Field(row, p.col), p.op, p.value)
    \/ p.node = "and"  /\ holds[p.left] /\ holds[p.right]
    \/ p.node = "or"   /\ (holds[p.left] \/ holds[p.right])

EvalPredicate(row, predicate) ==
    LET holds[p \in Predicates] == PredicateHolds(row, p, holds)
    IN  holds[predicate]

IsIdCmp(p, op) == p.node = "cmp" /\ p.col = "id" /\ p.op = op

(* Fault for the runs: the other half of an AND is forgotten. *)
IdLookupOfPart(p) ==
    IF p.node = "and" /\ IsIdCmp(p.left, "=") THEN {<<p.left.value, p.left.value>>}
    ELSE IF IsIdCmp(p, "=") THEN {<<p.value, p.value>>} ELSE {}

(* predicate_to_id_lookup: the ends of the range, if p is a lookup.        *)
IdLookup(p) ==
    IF IsIdCmp(p, "=") THEN {<<p.value, p.value>>}
    ELSE IF p.node # "and" THEN {}
    ELSE IF IsIdCmp(p.left, ">=") /\ IsIdCmp(p.right, "<=")
    THEN {<<p.left.value, p.right.value>>}
    ELSE IF IsIdCmp(p.left, "<=") /\ IsIdCmp(p.right, ">=")
    THEN {<<p.right.value, p.left.value>>}
    ELSE {}

ByIndex(p) ==
    LET range == CHOOSE r \in IdLookup(p) : TRUE
    IN  LookUp(range[1], range[2])

Filter(p) ==
    IF indexed /\ IdLookup(p) # {} THEN ByIndex(p)
    ELSE Result(Those(rows, {i \in DOMAIN rows : EvalPredicate(rows[i], p)}))

-----------------------------------------------------------------------------
(* What SQL says of WHERE. Numbers compare as numbers, NULL compares to    *)
(* nothing.                                                                *)
SqlHolds(v, op, w) ==
    /\ {v, w} \cap {NullValue, Absent} = {}
    /\ (v.type = "string") = (w.type = "string")
    /\ Relates(Numeric(v), op, Numeric(w))

Operand(row, o) == IF o.operand = "column" THEN Field(row, o.name) ELSE o.value

ConditionHolds(row, e, true) ==
    \/ e.node = "bool" /\ e.is
    \/ e.node = "cmp"  /\ SqlHolds(Operand(row, e.left), e.op, Operand(row, e.right))
    \/ e.node = "and"  /\ true[e.left] /\ true[e.right]
    \/ e.node = "or"   /\ (true[e.left] \/ true[e.right])

Satisfies(row, condition) ==
    LET true[e \in Clauses] == ConditionHolds(row, e, true)
    IN  condition = NoWhere \/ true[condition]

(* The answer lists these rows, each once and in the order of their ids.   *)
ListsById(answer, found) ==
    \E at \in SetToSeqs(found) :
        /\ \A k, l \in DOMAIN at : k < l => ~ Before(IdOf(at[l]), IdOf(at[k]))
        /\ answer = [k \in DOMAIN at |-> rows[at[k]]]

(* WHERE finds exactly the rows it describes, both ways: a row satisfies   *)
(* the predicate the planner made of it if and only if it satisfies the    *)
(* WHERE as it was written; and where a lookup in the index takes the      *)
(* place of the predicate, which is not evaluated then, the lookup returns *)
(* those rows, each once and in the order of their ids.                    *)
WhereMatches ==
    \A e \in Clauses :
        LET p      == ExprToFilter[e]
            found  == {i \in DOMAIN rows : Satisfies(rows[i], e)}
            answer == Filter(p).rows
        IN  p # Refused =>
              /\ \A i \in DOMAIN rows : EvalPredicate(rows[i], p) <=> i \in found
              /\ indexed /\ IdLookup(p) # {} =>
                    /\ Filter(p) = Result(answer)
                    /\ ListsById(answer, found)

(* What that needs of the statements: a comparison with its column on the  *)
(* left, unless it is an equality; a literal that is not NULL and fits an  *)
(* i64; in the column only values of its type, and no NULL where <> is     *)
(* asked; and no range that ends before it begins.                         *)
FitsColumn(p) ==
    \A insert \in Insertables :
        LET v == Field(InsertToPlan(insert).values, p.col)
        IN  v = Absent \/ v.type = p.value.type \/ (v = NullValue /\ p.op # "!=")

ConditionsFit ==
    \A e \in Conditions :
        LET p == ExprToFilter[e]
        IN  /\ e.node = "cmp" /\ p # Refused =>
                  /\ e.left.operand = "column" \/ e.op = "="
                  /\ Lit(p.value) \in {e.left, e.right} /\ p.value # NullValue
                  /\ FitsColumn(p)
            /\ \A range \in IdLookup(p) :
                  range[1].type = range[2].type /\ range[1].n <= range[2].n
=============================================================================
