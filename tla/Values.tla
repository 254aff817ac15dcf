------------------------------- MODULE Values -------------------------------
(***************************************************************************)
(* Values of rustafari-core and what the executor and the columnar store   *)
(* compute from them: comparison, the sort order of index keys, and the    *)
(* aggregates, which the code computes in two ways, over rows and over     *)
(* column chunks.                                                          *)
(*                                                                         *)
(* A value is a record of a type and a number. A float's number counts     *)
(* halves, so that sums are exact. SQL literals are never negative here:   *)
(* the planner refuses the unary minus (plan.rs:146).                      *)
(***************************************************************************)
EXTENDS Integers, SequencesExt

CONSTANT MaxInt  \* i64::MAX

ASSUME MaxIntAssumption == MaxInt \in Nat \ {0}

IntValue(k)     == [type |-> "int", n |-> k]
FloatValue(h)   == [type |-> "float", n |-> h]
StringValue(k)  == [type |-> "string", n |-> k]
Quotient(h, d)  == [type |-> "quotient", n |-> h, by |-> d]  \* of an AVG
NullValue       == [type |-> "null", n |-> 0]
Absent          == [type |-> "absent", n |-> 0]  \* None: the row is too short

(* expr_to_value: an integer that does not fit in an i64 becomes 0.        *)
ValueOf(literal) ==
    IF literal.type = "int" /\ literal.n > MaxInt THEN IntValue(0) ELSE literal

(* compare: two numbers or strings of one type, anything else is None.     *)
Comparable(v, w) == v.type = w.type /\ v.type \in {"int", "float", "string"}

(* The number itself, in halves, whatever its type. *)
Numeric(v) == IF v.type = "int" THEN 2 * v.n ELSE v.n

Relates(x, op, y) ==
    \/ op \in {"=", ">=", "<="} /\ x = y
    \/ op \in {"!=", ">", ">="} /\ x > y
    \/ op \in {"!=", "<", "<="} /\ x < y

(* eval_predicate of a comparison: = and != also compare the types.        *)
Holds(v, op, w) ==
    /\ v # Absent
    /\ \/ op = "=" /\ v = w
       \/ op = "!=" /\ v # w
       \/ op \notin {"=", "!="} /\ Comparable(v, w) /\ Relates(v.n, op, w.n)

(* compare_vals, for sorting: what cannot be compared is equal.            *)
Before(v, w) ==
    \/ v = Absent /\ w # Absent
    \/ Comparable(v, w) /\ v.n < w.n

(* IndexKey::from_value: a key is the value's bytes without its type. Zero *)
(* has the same bytes as an integer and as a float; the bytes of any other *)
(* float sort after those of an integer below 2^61, and the letters of a   *)
(* short string sort after both.                                           *)
KeyOf(v) ==
    CASE v.type = "int"    -> <<0, v.n>>
      [] v.type = "float"  -> <<IF v.n = 0 THEN 0 ELSE 1, v.n>>
      [] v.type = "string" -> <<2, v.n>>

KeyAtMost(k, l) == k[1] < l[1] \/ (k[1] = l[1] /\ k[2] <= l[2])

-----------------------------------------------------------------------------
(* Lists. *)

(* A set in an order: the k-th element has k - 1 before it.                *)
Listed(S, before(_, _)) ==
    [k \in 1..Cardinality(S) |->
        CHOOSE x \in S : Cardinality({y \in S : before(y, x)}) = k - 1]

Ascending(places) == Listed(places, LAMBDA i, j : i < j)

(* What a sequence has at some of its places, in order: a filter of it.    *)
Those(seq, places) ==
    LET at == Ascending(places) IN [k \in DOMAIN at |-> seq[at[k]]]

(* A column the row is too short for is left out. *)
Present(values) == Those(values, {i \in DOMAIN values : values[i] # Absent})

-----------------------------------------------------------------------------
(* Sums. *)

(* Fault for the runs: i64::wrapping_add. *)
WrappingAdd(m, n) == IF m + n > MaxInt THEN m + n - 2 * (MaxInt + 1) ELSE m + n

SaturatingAdd(m, n) == IF m + n > MaxInt THEN MaxInt ELSE m + n

(* The loop over some values that adds up the numbers of one type.         *)
Accumulated(values, type, add(_, _)) ==
    LET sum[i \in 0..Len(values)] ==
            IF i = 0 THEN 0
            ELSE IF values[i].type = type THEN add(sum[i - 1], values[i].n)
            ELSE sum[i - 1]
    IN  sum[Len(values)]

Saturated(values)   == Accumulated(values, "int", SaturatingAdd)
Total(values, type) == Accumulated(values, type, +)

Numbers(values, type) ==
    {values[i].n : i \in {j \in DOMAIN values : values[j].type = type}}

Count(values, types) == Cardinality({i \in DOMAIN values : values[i].type \in types})

NonNull(values) == Count(values, {"int", "float", "string"})

-----------------------------------------------------------------------------
(* aggregate_over_rows and aggregate_over_row_slice: one aggregate of the  *)
(* values a column has in some rows.                                       *)

Extreme(floats, ints, pick(_)) ==
    IF floats # {} THEN FloatValue(pick(floats))
    ELSE IF ints # {} THEN IntValue(pick(ints)) ELSE NullValue

OverRows(fn, values) ==
    LET ints   == Numbers(values, "int")
        floats == Numbers(values, "float")
        count  == Count(values, {"int", "float"})
    IN  CASE fn = "count" -> IntValue(NonNull(values))
          [] fn = "sum" ->
                IF floats # {}
                THEN FloatValue(Total(values, "float") + 2 * Saturated(values))
                ELSE IF ints # {} THEN IntValue(Saturated(values)) ELSE NullValue
          [] fn = "avg" ->
                IF count = 0 THEN NullValue
                ELSE Quotient(2 * Total(values, "int") + Total(values, "float"), count)
          [] fn = "min" -> Extreme(floats, ints, Min)
          [] fn = "max" -> Extreme(floats, ints, Max)

(* aggregate_over_chunks: the same from the slices of a column, one per    *)
(* chunk. Integers saturate within a slice and again over the slices; a    *)
(* sum with a float in it leaves the integers out; an average divides by   *)
(* every non-null value; i64::MAX is mistaken for "no minimum yet".        *)
OverSlices(slices, of(_)) ==
    [i \in DOMAIN slices |-> IntValue(of(slices[i]))]

OverChunks(fn, slices) ==
    LET ints   == UNION {Numbers(slices[i], "int") : i \in DOMAIN slices}
        floats == UNION {Numbers(slices[i], "float") : i \in DOMAIN slices}
        count  == Total(OverSlices(slices, NonNull), "int")
        sum_i  == Saturated(OverSlices(slices, Saturated))
        sum_f  == Total(OverSlices(slices, LAMBDA s : Total(s, "float")), "int")
    IN  CASE fn = "count" -> IntValue(count)
          [] fn = "sum" ->
                IF floats # {} THEN FloatValue(sum_f)
                ELSE IF ints # {} THEN IntValue(sum_i) ELSE NullValue
          [] fn = "avg" ->
                IF count = 0 THEN NullValue ELSE Quotient(2 * sum_i + sum_f, count)
          [] fn = "min" ->
                IF floats = {} /\ ints # {} /\ Min(ints) = MaxInt THEN NullValue
                ELSE Extreme(floats, ints, Min)
          [] fn = "max" -> Extreme(floats, ints, Max)

-----------------------------------------------------------------------------
(* column_to_arrow: the first value decides the type of the array, and any *)
(* value of another type becomes NULL; if the first is neither a number    *)
(* nor a string, all do.                                                   *)
OfArrowType(v, first) == v.type = first.type /\ Comparable(first, first)

(* Fault for the runs: NULLs are left out of the array. *)
ArrowWithoutNulls(values) ==
    Those(values, {i \in DOMAIN values : OfArrowType(values[i], values[1])})

ColumnToArrow(values) ==
    [i \in DOMAIN values |->
        IF OfArrowType(values[i], values[1]) THEN values[i] ELSE NullValue]
=============================================================================
