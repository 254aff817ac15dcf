----------------------------- MODULE DocFilter -----------------------------
(***************************************************************************)
(* The filters of rustafari-document (filter.rs). A filter in JSON is a    *)
(* sequence of entries: a field with a value, or with an object of         *)
(* operators and values; or $and, $or, $not with filters.                  *)
(***************************************************************************)
EXTENDS Values

CONSTANTS
    Columns,     \* Schema: the names of a row's columns, in order
    Docs,        \* documents, as rows
    Jsons,       \* the JSON filters there are, those inside of others too
    Nesting,     \* how deep each of them is
    MaxNesting   \* recursion limit of the JSON parser

(* Entries in JSON. *)
Field(f, v)     == [key |-> "field", field |-> f, plain |-> TRUE, value |-> v]
FieldOps(f, os) == [key |-> "field", field |-> f, plain |-> FALSE, ops |-> os]
OpIs(o, v)      == [op |-> o, value |-> v]
AndOf(fs)       == [key |-> "$and", subs |-> fs]
OrOf(fs)        == [key |-> "$or", subs |-> fs]
NotOf(f)        == [key |-> "$not", subs |-> <<f>>]
ArrayValue(vs)  == [type |-> "array", items |-> vs]

(* filter_from_json: of an object of operators the first of these counts,  *)
(* and the others are left out.                                            *)
Priority == <<"$eq", "$ne", "$gt", "$gte", "$lt", "$lte", "$in", "$nin">>

Scalars  == [type : {"int", "float", "string"}, n : Int] \cup {NullValue}
Operands == Scalars \cup [type : {"array"}, items : Seq(Scalars)]

Entries ==
    [key : {"field"}, field : STRING, plain : {TRUE}, value : Operands]
    \cup [key : {"field"}, field : STRING, plain : {FALSE},
          ops : SUBSET [op : STRING, value : Operands]]
    \cup [key : {"$and", "$or", "$not"}, subs : Seq(Jsons)]

ASSUME JsonsAssumption ==
    /\ Jsons \subseteq Seq(Entries)
    /\ \A json \in Jsons : \A i \in DOMAIN json :
          json[i].key = "$not" => Len(json[i].subs) = 1
ASSUME NestingAssumption ==
    /\ MaxNesting \in Nat /\ Nesting \in [Jsons -> 0..MaxNesting]
    /\ \A json \in Jsons : \A i \in DOMAIN json :
          json[i].key # "field" =>
              \A j \in DOMAIN json[i].subs : Nesting[json[i].subs[j]] < Nesting[json]

Cmp(f, o, v) == [key |-> "cmp", field |-> f, op |-> o, value |-> v]

FieldFromJson(entry) ==
    IF entry.plain THEN Cmp(entry.field, "$eq", entry.value)
    ELSE LET names == {o.op : o \in entry.ops}
             first == CHOOSE i \in DOMAIN Priority :
                          /\ Priority[i] \in names
                          /\ \A j \in 1..i - 1 : Priority[j] \notin names
             o     == CHOOSE p \in entry.ops : p.op = Priority[first]
         IN  Cmp(entry.field, o.op, o.value)

(* The conditions of a filter. Those of the filters inside $and, $or and   *)
(* $not are spelled out when MatchesFilter comes to them.                  *)
FilterFromJson(json) ==
    [i \in DOMAIN json |->
        IF json[i].key = "field" THEN FieldFromJson(json[i]) ELSE json[i]]

-----------------------------------------------------------------------------
(* cmp_match *)
Symbol == [x \in {"$eq", "$ne", "$gt", "$gte", "$lt", "$lte"} |->
             CASE x = "$eq" -> "=" [] x = "$ne" -> "!=" [] x = "$gt" -> ">"
               [] x = "$gte" -> ">=" [] x = "$lt" -> "<" [] x = "$lte" -> "<="]

CmpMatch(o, v, w) ==
    CASE o = "$in"  -> w.type = "array" /\ v \in ToSet(w.items)
      [] o = "$nin" -> w.type # "array" \/ v \notin ToSet(w.items)
      [] OTHER      -> Holds(v, Symbol[o], w)

(* get_field of DocumentCollection::find *)
GetField(row, f) ==
    LET at == {i \in DOMAIN Columns : Columns[i] = f}
    IN  IF at = {} \/ ~ Max(at) \in DOMAIN row THEN Absent
        ELSE row[Max(at)]

(* The comparison of a field: a missing field matches none.                *)
FieldMatches(c, row) ==
    /\ GetField(row, c.field) # Absent
    /\ CmpMatch(c.op, GetField(row, c.field), c.value)

(* Fault for the runs: the result of a filter inside $not is not negated. *)
ConditionNotNegated(c, row, matching) ==
    \/ c.key = "cmp" /\ FieldMatches(c, row)
    \/ c.key \in {"$and", "$not"} /\ \A j \in DOMAIN c.subs : row \in matching[c.subs[j]]
    \/ c.key = "$or" /\ \E j \in DOMAIN c.subs : row \in matching[c.subs[j]]

(* One condition, given the rows that the filters inside of it match.      *)
ConditionMatches(c, row, matching) ==
    \/ c.key = "cmp" /\ FieldMatches(c, row)
    \/ c.key = "$and" /\ \A j \in DOMAIN c.subs : row \in matching[c.subs[j]]
    \/ c.key = "$or" /\ \E j \in DOMAIN c.subs : row \in matching[c.subs[j]]
    \/ c.key = "$not" /\ row \notin matching[c.subs[1]]

(* parse_filter and then matches_filter: the rows each filter matches.     *)
Matching[json \in Jsons] ==
    {row \in Docs : \A i \in DOMAIN json :
                        ConditionMatches(FilterFromJson(json)[i], row, Matching)}

MatchesFilter(json, row) == row \in Matching[json]

-----------------------------------------------------------------------------
(* What the JSON means in MongoDB, for rows that have the field: every     *)
(* operator of every entry holds. Numbers compare as numbers, an integer   *)
(* with a float too; other values with those of their type.                *)
Kind(v) == IF v.type \in {"int", "float"} THEN "number" ELSE v.type

Same(v, w) ==
    \/ v = w
    \/ Kind(v) = "number" /\ Kind(w) = "number" /\ Numeric(v) = Numeric(w)

OpMeans(o, v, w) ==
    CASE o = "$eq"  -> Same(v, w)
      [] o = "$ne"  -> ~ Same(v, w)
      [] o = "$in"  -> \E i \in DOMAIN w.items : Same(v, w.items[i])
      [] o = "$nin" -> \A i \in DOMAIN w.items : ~ Same(v, w.items[i])
      [] o = "$gt"  -> Kind(v) = Kind(w) /\ Numeric(v) > Numeric(w)
      [] o = "$gte" -> Kind(v) = Kind(w) /\ Numeric(v) >= Numeric(w)
      [] o = "$lt"  -> Kind(v) = Kind(w) /\ Numeric(v) < Numeric(w)
      [] o = "$lte" -> Kind(v) = Kind(w) /\ Numeric(v) <= Numeric(w)

FieldMeans(e, row) ==
    IF e.plain THEN Same(GetField(row, e.field), e.value)
    ELSE \A o \in e.ops : OpMeans(o.op, GetField(row, e.field), o.value)

EntryMeans(e, row, meant) ==
    CASE e.key = "field" -> FieldMeans(e, row)
      [] e.key = "$and" -> \A f \in ToSet(e.subs) : row \in meant[f]
      [] e.key = "$or"  -> \E f \in ToSet(e.subs) : row \in meant[f]
      [] e.key = "$not" -> \A f \in ToSet(e.subs) : row \notin meant[f]

Meant[json \in Jsons] ==
    {row \in Docs : \A e \in ToSet(json) : EntryMeans(e, row, Meant)}

(* What that needs of the JSON: no field has two operators, and operands   *)
(* are of the kind the operator is for.                                    *)
OperandFits(o) ==
    \/ o.op \in {"$eq", "$ne"}
    \/ o.op \in {"$gt", "$gte", "$lt", "$lte"} /\ o.value \in Scalars \ {NullValue}
    \/ o.op \in {"$in", "$nin"} /\ o.value.type = "array"

OneOperatorEach ==
    \A json \in Jsons : \A e \in ToSet(json) :
        e.key = "field" /\ ~ e.plain => \E o \in e.ops : e.ops = {o} /\ OperandFits(o)

(* And rows have the fields the filters ask for.                           *)
FieldsPresent ==
    \A json \in Jsons, row \in Docs : \A e \in ToSet(json) :
        e.key = "field" => GetField(row, e.field) \in Scalars

(* And a field is not an integer where its operand is a float, or the      *)
(* reverse: the code finds no such numbers equal or in order.              *)
OneNumberType(v, w) == {v.type, w.type} # {"int", "float"}

Parts(w) == IF w.type = "array" THEN ToSet(w.items) ELSE {w}

NumbersOfOneType ==
    \A json \in Jsons, row \in Docs : \A e \in ToSet(json) :
        e.key = "field" =>
            \A operand \in IF e.plain THEN {e.value} ELSE {o.value : o \in e.ops} :
                \A w \in Parts(operand) : OneNumberType(GetField(row, e.field), w)
=============================================================================
