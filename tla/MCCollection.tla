---------------------------- MODULE MCCollection ----------------------------
(* Instances of Collection for TLC. *)
EXTENDS Collection, TLC

CONSTANTS a, b

Fields == <<"age", "rate", "name">>

People == {<<IntValue(1), FloatValue(3), StringValue(1)>>,
           <<IntValue(3), NullValue, StringValue(2)>>,
           <<NullValue, FloatValue(1), StringValue(2)>>}

(* Filters on one field: a value itself, or one operator and an operand.   *)
Age(o, k)  == <<FieldOps("age", {OpIs(o, IntValue(k))})>>
AgeFilters == {<<Field("age", IntValue(1))>>, Age("$gt", 1)}

Compare == {"$eq", "$ne", "$gt", "$gte", "$lt", "$lte"}

Listing(f, v)   == {<<FieldOps(f, {OpIs(o, ArrayValue(<<v, NullValue>>))})>> :
                       o \in {"$in", "$nin"}}
Comparing(f, v) == {<<FieldOps(f, {OpIs(o, v)})>> : o \in Compare}

Ages   == {Age(o, k) : o \in Compare, k \in {1, 2}} \cup AgeFilters
          \cup Listing("age", IntValue(1))
Typed  == Comparing("rate", FloatValue(3)) \cup Listing("rate", FloatValue(3))
          \cup Comparing("name", StringValue(2)) \cup Listing("name", StringValue(2))
Simple == Ages \cup Typed

(* And filters with those inside, up to two deep.                          *)
Nested  == {<<NotOf(f)>> : f \in Simple}
           \cup {<<AndOf(<<f, g>>)>> : f, g \in Typed}
           \cup {<<AndOf(<<f, g>>)>> : f, g \in Ages}
           \cup {<<OrOf(<<f, g>>), h[1]>> : f, g \in Ages, h \in AgeFilters}
Samples == Simple \cup Nested
           \cup {<<OrOf(<<f, Age("$lte", 1)>>)>> : f \in Ages}
           \cup {<<NotOf(<<OrOf(<<f, Age("$lte", 1)>>)>>)>> : f \in Ages}

Depth == [json \in Samples |-> IF json \in Simple THEN 0
                               ELSE IF \A e \in ToSet(json) : e.key \notin {"field"} =>
                                          \A f \in ToSet(e.subs) : f \in Simple
                               THEN 1 ELSE 2]

(* What the filters must be for FindMeansFilter, here and in its proof.    *)
ASSUME SamplesAreFit == OneOperatorEach /\ FieldsPresent /\ NumbersOfOneType

ThreadSymmetry == Permutations(Threads)
=============================================================================
