-------------------------- MODULE CollectionProofs --------------------------
(***************************************************************************)
(* For every number of threads, collections and documents, and all filters *)
(* nested as deep as they may be: the counts of delete_many calls add up,  *)
(* none of the rows it found is left, it deletes nothing else, and what it *)
(* finds is what the JSON of its filter describes.                         *)
(***************************************************************************)
EXTENDS Collection, WellFoundedInduction, TLAPS

(* Every variable keeps its type and no two rows share an identifier.      *)
THEOREM TypeCorrect == Spec => []TypeOK
  <1>1. Init => TypeOK
    BY BoundAssumption DEF Init, TypeOK
  <1>2. TypeOK /\ [Next]_vars => TypeOK'
    <2> SUFFICES ASSUME TypeOK, [Next]_vars PROVE TypeOK'
      OBVIOUS
    <2> USE BoundAssumption DEF TypeOK
    <2>1. ASSUME NEW t \in Threads, NEW c \in Tables, NEW doc \in Docs,
                 InsertOne(t, c, doc)
          PROVE  TypeOK'
      BY <2>1 DEF InsertOne, Rows
    <2>2. ASSUME NEW t \in Threads, NEW c \in Tables,
                 NEW f \in Filters \cup {NONE}, FindToDelete(t, c, f)
          PROVE  TypeOK'
      <3>1. {r.id : r \in Find(c, f)} \subseteq 0..MaxRows - 1
        BY DEF Find, Scan, Rows
      <3> QED
        BY <2>2, <3>1 DEF FindToDelete
    <2>3. ASSUME NEW t \in Threads, NEW id \in to_delete[t], DeleteRow(t, id)
          PROVE  TypeOK'
      <3>1. id \in 0..MaxRows - 1
        OBVIOUS
      <3>2. to_delete' \in [Threads -> SUBSET (0..MaxRows - 1)]
        BY <2>3 DEF DeleteRow, NextIs
      <3>3. CASE Delete(t, id)
        <4>1. n' \in [Threads -> Nat] /\ claims' \in [0..MaxRows - 1 -> Nat]
          BY <3>1, <3>3 DEF Delete
        <4>2. data' \subseteq data
          BY <3>3 DEF Delete
        <4> QED
          BY <2>3, <3>2, <4>1, <4>2 DEF DeleteRow, NextIs
      <3>4. CASE UNCHANGED <<data, n, claims>>
        BY <2>3, <3>2, <3>4 DEF DeleteRow, NextIs
      <3> QED
        BY <2>3, <3>3, <3>4 DEF DeleteRow
    <2>4. ASSUME NEW t \in Threads, ReturnCount(t) PROVE TypeOK'
      BY <2>4 DEF ReturnCount
    <2>5. ASSUME NEW c \in Tables, DropTable(c) PROVE TypeOK'
      <3>1. {r.id : r \in Scan(c)} \subseteq 0..MaxRows - 1
        BY DEF Scan, Rows
      <3> QED
        BY <2>5, <3>1 DEF DropTable
    <2>6. CASE UNCHANGED vars
      BY <2>6 DEF vars
    <2> QED
      BY <2>1, <2>2, <2>3, <2>4, <2>5, <2>6 DEF Next
  <1> QED
    BY <1>1, <1>2, PTL DEF Spec

-----------------------------------------------------------------------------
(* The range of a scan is the rows of its table.                           *)
LEMMA ScanIsTable ==
    ASSUME TypeOK, NEW c \in Tables
    PROVE  Scan(c) = {r \in data : r.table = c}
  <1>1. \A r \in data : r.table \in Nat
    BY TablesAssumption DEF TypeOK, Rows
  <1>2. c \in Nat
    BY TablesAssumption
  <1>3. \A r \in data : r.table >= c /\ r.table < c + 1 <=> r.table = c
    BY <1>1, <1>2
  <1> QED
    BY <1>3 DEF Scan

(* A new row has an identifier no call is looking for.                     *)
LEMMA InsertOneKeeps ==
    ASSUME TypeOK, CollectionInvariant, NEW t \in Threads, NEW c \in Tables,
           NEW doc \in Docs, InsertOne(t, c, doc)
    PROVE  CollectionInvariant'
  <1> DEFINE new == [table |-> c, id |-> next_row_id, doc |-> doc]
  <1>1. /\ next_row_id \in 0..MaxRows - 1
        /\ data' = data \cup {new} /\ next_row_id' = next_row_id + 1
        /\ UNCHANGED <<pc, table, filter, to_delete, n, claims, dropped, doomed>>
    BY BoundAssumption DEF InsertOne, TypeOK
  <1>2. FoundRowsMatch'
    BY <1>1 DEF CollectionInvariant, FoundRowsMatch, Matched, TypeOK
  <1>3. DoomedCovered'
    BY <1>1 DEF CollectionInvariant, DoomedCovered, TypeOK
  <1>4. CountedOnce'
    <2>1. \A id \in 0..next_row_id - 1 : Stored(id)' <=> Stored(id)
      BY <1>1 DEF Stored, TypeOK
    <2>2. (\E r \in data' : r.id = next_row_id) /\ claims[next_row_id] = 0
      <3>1. new \in data' /\ new.id = next_row_id
        BY <1>1
      <3>2. next_row_id \in next_row_id..MaxRows - 1
        BY <1>1, BoundAssumption
      <3> QED
        BY <3>1, <3>2 DEF CollectionInvariant
    <2>3. next_row_id \notin dropped
      BY <1>1 DEF CollectionInvariant
    <2> SUFFICES ASSUME NEW i \in 0..next_row_id
                 PROVE  claims[i] = IF Stored(i)' \/ i \in dropped THEN 0 ELSE 1
      BY <1>1 DEF CountedOnce
    <2>4. CASE i = next_row_id
      BY <2>2, <2>3, <2>4 DEF Stored
    <2>5. CASE i # next_row_id
      <3>1. i \in 0..next_row_id - 1
        BY <1>1, <2>5
      <3> QED
        BY <2>1, <3>1 DEF CollectionInvariant, CountedOnce
    <2> QED
      BY <2>4, <2>5
  <1>5. \A s \in Threads : \A r \in doomed'[s] : r.id < next_row_id'
    BY <1>1 DEF CollectionInvariant, TypeOK, Rows
  <1> QED
    BY <1>1, <1>2, <1>3, <1>4, <1>5 DEF CollectionInvariant, TypeOK

(* The identifiers found are those of rows that match, and of all of them. *)
LEMMA FindToDeleteKeeps ==
    ASSUME TypeOK, CollectionInvariant, NEW t \in Threads, NEW c \in Tables,
           NEW f \in Filters \cup {NONE}, FindToDelete(t, c, f)
    PROVE  CollectionInvariant'
  <1> DEFINE found == {r \in data : r.table = c /\ (f = NONE \/ MatchesFilter(f, r.doc))}
  <1>1. found = Find(c, f)
    BY ScanIsTable DEF Find
  <1>2. /\ to_delete' = [to_delete EXCEPT ![t] = {r.id : r \in found}]
        /\ doomed' = [doomed EXCEPT ![t] = found]
        /\ table' = [table EXCEPT ![t] = c]
        /\ filter' = [filter EXCEPT ![t] = f]
        /\ pc' = [pc EXCEPT ![t] = "delete"]
        /\ UNCHANGED <<next_row_id, data, claims, dropped>>
    BY <1>1 DEF FindToDelete
  <1> HIDE DEF found
  <1>3. FoundRowsMatch'
    <2> SUFFICES ASSUME NEW s \in Threads, NEW id \in to_delete'[s]
                 PROVE  /\ id < next_row_id'
                        /\ \A r \in data' : r.id = id => Matched(s, r)'
      BY DEF FoundRowsMatch
    <2>1. CASE s = t
      BY <1>2, <2>1 DEF TypeOK, Matched, found
    <2>2. CASE s # t
      BY <1>2, <2>2 DEF TypeOK, Matched, CollectionInvariant, FoundRowsMatch
    <2> QED
      BY <2>1, <2>2
  <1>4. DoomedCovered'
    BY <1>2 DEF CollectionInvariant, DoomedCovered, TypeOK, found
  <1>5. CountedOnce'
    BY <1>2 DEF CollectionInvariant, CountedOnce, Stored
  <1>6. \A s \in Threads : \A r \in doomed'[s] : r.id < next_row_id'
    BY <1>2 DEF CollectionInvariant, TypeOK, found
  <1> QED
    BY <1>2, <1>3, <1>4, <1>5, <1>6 DEF CollectionInvariant, TypeOK

(* The row a delete finds is the only one with its identifier.             *)
LEMMA RowAtIsIt ==
    ASSUME CollectionInvariant, NEW t \in Threads, NEW id \in to_delete[t]
    PROVE  RowAt(t, id) = {r \in data : r.id = id}
  BY DEF RowAt, CollectionInvariant, FoundRowsMatch, Matched

LEMMA DeleteRowKeeps ==
    ASSUME TypeOK, CollectionInvariant, NEW t \in Threads,
           NEW id \in to_delete[t], DeleteRow(t, id)
    PROVE  CollectionInvariant'
  <1>1. /\ id \in 0..MaxRows - 1 /\ id < next_row_id
        /\ data' = {r \in data : r.id # id}
        /\ to_delete' = [to_delete EXCEPT ![t] = @ \ {id}]
        /\ UNCHANGED <<next_row_id, pc, table, filter, dropped, doomed>>
    BY RowAtIsIt DEF DeleteRow, NextIs, Delete, TypeOK, CollectionInvariant,
                     FoundRowsMatch
  <1>2. \A s \in Threads : to_delete'[s] \subseteq to_delete[s]
    BY <1>1 DEF TypeOK
  <1>3. claims' = [claims EXCEPT ![id] = IF Stored(id) THEN @ + 1 ELSE @]
    <2>1. CASE RowAt(t, id) # {}
      <3>1. Stored(id)
        BY <2>1, RowAtIsIt DEF Stored
      <3> QED
        BY <2>1, <3>1 DEF DeleteRow, Delete
    <2>2. CASE RowAt(t, id) = {}
      <3>1. ~ Stored(id)
        BY <2>2, RowAtIsIt DEF Stored
      <3> QED
        BY <1>1, <2>2, <3>1 DEF DeleteRow, TypeOK
    <2> QED
      BY <2>1, <2>2
  <1>4. FoundRowsMatch'
    BY <1>1, <1>2 DEF CollectionInvariant, FoundRowsMatch, Matched
  <1>5. DoomedCovered'
    BY <1>1 DEF CollectionInvariant, DoomedCovered, TypeOK
  <1>6. CountedOnce'
    <2> SUFFICES ASSUME NEW i \in 0..next_row_id - 1
                 PROVE  claims'[i] = IF Stored(i)' \/ i \in dropped THEN 0 ELSE 1
      BY <1>1 DEF CountedOnce
    <2>1. i \in 0..MaxRows - 1
      BY BoundAssumption DEF TypeOK
    <2>2. CASE i # id
      <3>1. Stored(i)' <=> Stored(i)
        BY <1>1, <2>2 DEF Stored
      <3>2. claims'[i] = claims[i]
        BY <1>3, <2>1, <2>2 DEF TypeOK
      <3> QED
        BY <3>1, <3>2 DEF CollectionInvariant, CountedOnce
    <2>3. CASE i = id
      <3>1. ~ Stored(i)'
        BY <1>1, <2>3 DEF Stored
      <3>2. claims'[i] = IF Stored(i) THEN claims[i] + 1 ELSE claims[i]
        BY <1>3, <2>1, <2>3 DEF TypeOK
      <3>3. Stored(i) => i \notin dropped
        BY DEF Stored, CollectionInvariant
      <3>4. claims[i] = IF Stored(i) \/ i \in dropped THEN 0 ELSE 1
        BY DEF CollectionInvariant, CountedOnce
      <3> QED
        BY <3>1, <3>2, <3>3, <3>4
    <2> QED
      BY <2>2, <2>3
  <1>7. \A i \in next_row_id..MaxRows - 1 : claims'[i] = 0
    BY <1>1, <1>3 DEF CollectionInvariant, TypeOK
  <1>8. \A s \in Threads : pc[s] = "idle" => to_delete'[s] = {}
    BY <1>2 DEF CollectionInvariant
  <1> QED
    BY <1>1, <1>4, <1>5, <1>6, <1>7, <1>8 DEF CollectionInvariant

(* A whole table goes to the dropped rows.                                 *)
LEMMA DropTableKeeps ==
    ASSUME TypeOK, CollectionInvariant, NEW c \in Tables, DropTable(c)
    PROVE  CollectionInvariant'
  <1> DEFINE gone == {r \in data : r.table = c}
  <1>1. /\ data' = data \ gone /\ dropped' = dropped \cup {r.id : r \in gone}
        /\ UNCHANGED <<next_row_id, pc, table, filter, to_delete, n, claims, doomed>>
    BY ScanIsTable DEF DropTable
  <1> HIDE DEF gone
  <1>2. gone \subseteq data
    BY DEF gone
  <1>3. FoundRowsMatch'
    BY <1>1 DEF CollectionInvariant, FoundRowsMatch, Matched
  <1>4. DoomedCovered'
    BY <1>1 DEF CollectionInvariant, DoomedCovered
  <1>5. CountedOnce'
    <2> SUFFICES ASSUME NEW i \in 0..next_row_id - 1
                 PROVE  (Stored(i) \/ i \in dropped) <=> (Stored(i)' \/ i \in dropped')
      BY <1>1 DEF CollectionInvariant, CountedOnce
    <2> QED
      BY <1>1, <1>2 DEF Stored
  <1>6. dropped' \subseteq 0..next_row_id - 1
    <2>1. \A r \in gone : r.id \in 0..next_row_id - 1
      BY <1>2 DEF TypeOK, Rows
    <2> QED
      BY <1>1, <2>1 DEF CollectionInvariant
  <1>7. \A r \in data' : r.id \notin dropped'
    BY <1>1, <1>2 DEF CollectionInvariant, TypeOK
  <1> QED
    BY <1>1, <1>3, <1>4, <1>5, <1>6, <1>7 DEF CollectionInvariant

(* Of all calls of delete_many together: identifiers found name matching   *)
(* rows and cover what is left of those to go, and the counts add up.      *)
THEOREM CollectionCorrect == Spec => []CollectionInvariant
  <1>1. Init => CollectionInvariant
    BY BoundAssumption DEF Init, CollectionInvariant, FoundRowsMatch, DoomedCovered,
                           CountedOnce
  <1>2. TypeOK /\ CollectionInvariant /\ [Next]_vars => CollectionInvariant'
    <2> SUFFICES ASSUME TypeOK, CollectionInvariant, [Next]_vars
                 PROVE  CollectionInvariant'
      OBVIOUS
    <2>1. ASSUME NEW t \in Threads, ReturnCount(t) PROVE CollectionInvariant'
      <3>1. /\ UNCHANGED <<next_row_id, data, table, filter, to_delete, claims,
                           dropped, doomed>>
            /\ to_delete[t] = {} /\ pc' = [pc EXCEPT ![t] = "idle"]
        BY <2>1 DEF ReturnCount
      <3>2. FoundRowsMatch' /\ DoomedCovered' /\ CountedOnce'
        BY <3>1 DEF CollectionInvariant, FoundRowsMatch, DoomedCovered,
                    CountedOnce, Matched, Stored
      <3> QED
        BY <3>1, <3>2 DEF CollectionInvariant, TypeOK
    <2>2. CASE UNCHANGED vars
      BY <2>2 DEF vars, CollectionInvariant, FoundRowsMatch, DoomedCovered,
                  CountedOnce, Matched, Stored
    <2> QED
      BY <2>1, <2>2, InsertOneKeeps, FindToDeleteKeeps, DeleteRowKeeps,
         DropTableKeeps DEF Next
  <1> QED
    BY <1>1, <1>2, TypeCorrect, PTL DEF Spec

(* Every row that is gone was counted by exactly one call, or dropped.     *)
THEOREM CountsAddUp == Spec => []CountedOnce
  <1>1. CollectionInvariant => CountedOnce
    BY DEF CollectionInvariant
  <1> QED
    BY <1>1, CollectionCorrect, PTL

(* When delete_many has returned, none of the rows that matched when it    *)
(* began is left.                                                          *)
THEOREM AllDeleted == Spec => []NoneLeft
  <1>1. CollectionInvariant => NoneLeft
    BY DEF CollectionInvariant, DoomedCovered, NoneLeft
  <1> QED
    BY <1>1, CollectionCorrect, PTL

(* A row leaves a collection by a delete_many whose filter it matches, or  *)
(* with the whole collection.                                              *)
THEOREM NothingElseDeleted == Spec => OnlyMatchingDeleted
  <1> DEFINE A == \A r \in data \ data' :
          \/ \E c \in Tables : r.table = c /\ data' = {s \in data : s.table # c}
          \/ \E t \in Threads : Matched(t, r) /\ n'[t] = n[t] + 1
  <1>1. TypeOK /\ CollectionInvariant /\ [Next]_vars => A
    <2> SUFFICES ASSUME TypeOK, CollectionInvariant, Next, NEW r \in data \ data'
                 PROVE  \/ \E c \in Tables :
                              r.table = c /\ data' = {s \in data : s.table # c}
                        \/ \E t \in Threads : Matched(t, r) /\ n'[t] = n[t] + 1
      BY DEF vars
    <2>1. ASSUME NEW t \in Threads, NEW id \in to_delete[t], DeleteRow(t, id)
          PROVE  Matched(t, r) /\ n'[t] = n[t] + 1
      <3>1. r \in RowAt(t, id) /\ Delete(t, id)
        BY <2>1 DEF DeleteRow, Delete
      <3>2. Matched(t, r)
        BY <3>1 DEF RowAt, CollectionInvariant, FoundRowsMatch
      <3> QED
        BY <3>1, <3>2 DEF Delete, TypeOK
    <2>2. ASSUME NEW c \in Tables, DropTable(c)
          PROVE  r.table = c /\ data' = {s \in data : s.table # c}
      BY <2>2, ScanIsTable DEF DropTable
    <2>3. CASE \E c \in Tables : DropTable(c)
      BY <2>2, <2>3
    <2>4. CASE \E t \in Threads : \E id \in to_delete[t] : DeleteRow(t, id)
      BY <2>1, <2>4
    <2> QED
      BY <2>3, <2>4 DEF Next, InsertOne, FindToDelete, ReturnCount
  <1>2. [A]_vars <=> (A \/ UNCHANGED vars)
    OBVIOUS
  <1> QED
    BY <1>1, TypeCorrect, CollectionCorrect, PTL DEF Spec, OnlyMatchingDeleted
-----------------------------------------------------------------------------
(* A set of numbers that is not empty has a smallest one. *)
LEMMA Smallest ==
    ASSUME NEW S \in SUBSET Nat, S # {}
    PROVE  \E k \in S : \A m \in S : k <= m
  <1> DEFINE R == OpToRel(<, Nat)
  <1>1. IsWellFoundedOn(R, Nat)
    BY NatLessThanWellFounded
  <1>2. PICK k \in S : \A m \in S : ~ (<<m, k>> \in R)
    <2> HIDE DEF R
    <2> QED
      BY <1>1, WFMin
  <1>3. ASSUME NEW m \in S PROVE k <= m
    <2>1. ~ (m < k)
      BY <1>2 DEF OpToRel
    <2> QED
      BY <2>1
  <1> QED
    BY <1>3

(* Verdicts on filters: if the verdict on each is a function of those on    *)
(* filters that are nested less deeply, there are such verdicts.           *)
DependsOnSimpler(Verdict) ==
    \A x \in Jsons : \A f, g \in [Jsons -> SUBSET Docs] :
        (\A y \in Jsons : Nesting[y] < Nesting[x] => f[y] = g[y])
            => Verdict[x][f] = Verdict[x][g]

LEMMA VerdictsExist ==
    ASSUME NEW Verdict \in [Jsons -> [[Jsons -> SUBSET Docs] -> SUBSET Docs]],
           DependsOnSimpler(Verdict)
    PROVE  \E f \in [Jsons -> SUBSET Docs] : \A x \in Jsons : f[x] = Verdict[x][f]
  <1> DEFINE Below(k, f) == \A x \in Jsons : Nesting[x] < k => f[x] = Verdict[x][f]
             Missing     == {k \in 0..MaxNesting + 1 : ~ \E f \in [Jsons -> SUBSET Docs] : Below(k, f)}
  <1>1. ASSUME MaxNesting + 1 \notin Missing
        PROVE  \E f \in [Jsons -> SUBSET Docs] : \A x \in Jsons : f[x] = Verdict[x][f]
    <2>1. \A x \in Jsons : Nesting[x] < MaxNesting + 1
      BY NestingAssumption
    <2> QED
      BY <1>1, <2>1, NestingAssumption
  <1> SUFFICES ASSUME Missing # {} PROVE FALSE
    BY <1>1
  <1>2. PICK k \in Missing : \A m \in Missing : k <= m
    <2>1. Missing \subseteq Nat
      BY NestingAssumption
    <2> HIDE DEF Missing
    <2> QED
      BY <2>1, Smallest
  <1>3. k \in 0..MaxNesting + 1 /\ k \in Nat
    BY NestingAssumption
  <1>4. k # 0
    <2>1. [x \in Jsons |-> {}] \in [Jsons -> SUBSET Docs] /\ Below(0, [x \in Jsons |-> {}])
      BY NestingAssumption
    <2> QED
      BY <2>1
  <1>5. k - 1 \in 0..MaxNesting + 1 /\ k - 1 \notin Missing
    BY <1>2, <1>3, <1>4, NestingAssumption
  <1>6. PICK f \in [Jsons -> SUBSET Docs] : Below(k - 1, f)
    BY <1>5
  <1> DEFINE g == [x \in Jsons |-> Verdict[x][f]]
  <1>7. g \in [Jsons -> SUBSET Docs]
    OBVIOUS
  <1>8. \A y \in Jsons : Nesting[y] < k - 1 => g[y] = f[y]
    BY <1>6, NestingAssumption
  <1>9. ASSUME NEW x \in Jsons, Nesting[x] < k PROVE g[x] = Verdict[x][g]
    <2>1. \A y \in Jsons : Nesting[y] < Nesting[x] => f[y] = g[y]
      <3>1. \A y \in Jsons : Nesting[y] < Nesting[x] => Nesting[y] < k - 1
        BY <1>3, <1>9, NestingAssumption
      <3> QED
        BY <1>8, <3>1
    <2>2. Verdict[x][f] = Verdict[x][g]
      <3> HIDE DEF g
      <3> QED
        BY <1>7, <2>1 DEF DependsOnSimpler
    <2> QED
      BY <2>2
  <1>10. Below(k, g)
    <2> HIDE DEF g
    <2> QED
      BY <1>9
  <1> QED
    BY <1>2, <1>7, <1>10
-----------------------------------------------------------------------------
(* What the filters inside of a filter are. *)
LEMMA PartsAreSimpler ==
    ASSUME NEW json \in Jsons, NEW i \in DOMAIN json
    PROVE  /\ json[i].key \in {"field", "$and", "$or", "$not"}
           /\ json[i].key # "field" =>
                 \A j \in DOMAIN json[i].subs :
                     json[i].subs[j] \in Jsons /\ Nesting[json[i].subs[j]] < Nesting[json]
           /\ json[i].key = "$not" => DOMAIN json[i].subs = {1}
  <1>1. json \in Seq(Entries)
    BY JsonsAssumption
  <1>2. json[i] \in Entries
    BY <1>1
  <1>3. json[i].key \in {"field", "$and", "$or", "$not"}
    BY <1>2 DEF Entries
  <1>4. ASSUME json[i].key # "field" PROVE json[i].subs \in Seq(Jsons)
    BY <1>2, <1>4 DEF Entries
  <1>5. json[i].key = "$not" => Len(json[i].subs) = 1
    BY JsonsAssumption
  <1>6. json[i].key = "$not" => DOMAIN json[i].subs = {1}
    BY <1>4, <1>5
  <1>7. json[i].key # "field" =>
            \A j \in DOMAIN json[i].subs : json[i].subs[j] \in Jsons
    BY <1>4
  <1> QED
    BY <1>3, <1>6, <1>7, NestingAssumption

(* The condition that an entry becomes. *)
LEMMA ConditionOf ==
    ASSUME NEW json \in Jsons, NEW i \in DOMAIN json, NEW row, NEW m
    PROVE  /\ json[i].key = "field" =>
                 (ConditionMatches(FilterFromJson(json)[i], row, m)
                     <=> FieldMatches(FieldFromJson(json[i]), row))
           /\ json[i].key # "field" =>
                 (ConditionMatches(FilterFromJson(json)[i], row, m)
                     <=> ConditionMatches(json[i], row, m))
  <1>1. json[i].key # "field" => FilterFromJson(json)[i] = json[i]
    BY DEF FilterFromJson
  <1>2. json[i].key = "field" =>
            /\ FilterFromJson(json)[i] = FieldFromJson(json[i])
            /\ FieldFromJson(json[i]).key = "cmp"
    BY DEF FilterFromJson, FieldFromJson, Cmp
  <1>3. ASSUME NEW c, c.key = "cmp"
        PROVE  ConditionMatches(c, row, m) <=> FieldMatches(c, row)
    BY <1>3 DEF ConditionMatches
  <1> QED
    BY <1>1, <1>2, <1>3

(* Two accounts of what simpler filters match give the same of a filter.   *)
LEMMA MatchingDepends ==
    ASSUME NEW json \in Jsons, NEW f \in [Jsons -> SUBSET Docs],
           NEW g \in [Jsons -> SUBSET Docs],
           \A other \in Jsons : Nesting[other] < Nesting[json] => f[other] = g[other],
           NEW i \in DOMAIN json, NEW row
    PROVE  /\ ConditionMatches(FilterFromJson(json)[i], row, f)
                 <=> ConditionMatches(FilterFromJson(json)[i], row, g)
           /\ EntryMeans(json[i], row, f) <=> EntryMeans(json[i], row, g)
  <1>1. CASE json[i].key = "field"
    BY <1>1, ConditionOf DEF EntryMeans
  <1>2. CASE json[i].key # "field"
    <2>1. \A j \in DOMAIN json[i].subs : f[json[i].subs[j]] = g[json[i].subs[j]]
      BY <1>2, PartsAreSimpler
    <2>2. ConditionMatches(json[i], row, f) <=> ConditionMatches(json[i], row, g)
      <3>1. json[i].key = "$not" => 1 \in DOMAIN json[i].subs
        BY PartsAreSimpler
      <3> QED
        BY <1>2, <2>1, <3>1 DEF ConditionMatches
    <2>3. EntryMeans(json[i], row, f) <=> EntryMeans(json[i], row, g)
      BY <1>2, <2>1, PartsAreSimpler DEF EntryMeans, ToSet
    <2> QED
      BY <1>2, <2>2, <2>3, ConditionOf
  <1> QED
    BY <1>1, <1>2

(* The recursion of matches_filter comes to an end: the rows that filters  *)
(* match are given by their conditions.                                    *)
LEMMA MatchingExists ==
    \A json \in Jsons :
        Matching[json] = {row \in Docs : \A i \in DOMAIN json :
                              ConditionMatches(FilterFromJson(json)[i], row, Matching)}
  <1> DEFINE Rule(json, f) == {row \in Docs : \A i \in DOMAIN json :
                                   ConditionMatches(FilterFromJson(json)[i], row, f)}
             is(f)   == f = [json \in Jsons |-> Rule(json, f)]
             Verdict == [json \in Jsons |-> [f \in [Jsons -> SUBSET Docs] |-> Rule(json, f)]]
  <1>1. Verdict \in [Jsons -> [[Jsons -> SUBSET Docs] -> SUBSET Docs]]
    OBVIOUS
  <1>2. ASSUME NEW json \in Jsons, NEW f \in [Jsons -> SUBSET Docs],
               NEW g \in [Jsons -> SUBSET Docs],
               \A other \in Jsons : Nesting[other] < Nesting[json] => f[other] = g[other]
        PROVE  Verdict[json][f] = Verdict[json][g]
    <2>1. Rule(json, f) = Rule(json, g)
      BY <1>2, MatchingDepends
    <2> QED
      BY <2>1
  <1>3. PICK f \in [Jsons -> SUBSET Docs] : \A json \in Jsons : f[json] = Verdict[json][f]
    <2> HIDE DEF Verdict
    <2>1. DependsOnSimpler(Verdict)
      BY <1>2 DEF DependsOnSimpler
    <2> QED
      BY <1>1, <2>1, VerdictsExist
  <1>4. is(f)
    <2> HIDE DEF Rule
    <2> QED
      BY <1>3
  <1>5. Matching = CHOOSE h : is(h)
    BY DEF Matching
  <1>6. is(Matching)
    <2> HIDE DEF is
    <2> QED
      BY <1>4, <1>5
  <1> QED
    BY <1>6

(* And so does what JSON filters mean. *)
LEMMA MeaningExists ==
    \A json \in Jsons :
        Meant[json] = {row \in Docs : \A e \in ToSet(json) : EntryMeans(e, row, Meant)}
  <1> DEFINE Rule(json, f) == {row \in Docs : \A e \in ToSet(json) : EntryMeans(e, row, f)}
             is(f)   == f = [json \in Jsons |-> Rule(json, f)]
             Verdict == [json \in Jsons |-> [f \in [Jsons -> SUBSET Docs] |-> Rule(json, f)]]
  <1>1. Verdict \in [Jsons -> [[Jsons -> SUBSET Docs] -> SUBSET Docs]]
    OBVIOUS
  <1>2. ASSUME NEW json \in Jsons, NEW f \in [Jsons -> SUBSET Docs],
               NEW g \in [Jsons -> SUBSET Docs],
               \A other \in Jsons : Nesting[other] < Nesting[json] => f[other] = g[other]
        PROVE  Verdict[json][f] = Verdict[json][g]
    <2>1. Rule(json, f) = Rule(json, g)
      BY <1>2, MatchingDepends DEF ToSet
    <2> QED
      BY <2>1
  <1>3. PICK f \in [Jsons -> SUBSET Docs] : \A json \in Jsons : f[json] = Verdict[json][f]
    <2> HIDE DEF Verdict
    <2>1. DependsOnSimpler(Verdict)
      BY <1>2 DEF DependsOnSimpler
    <2> QED
      BY <1>1, <2>1, VerdictsExist
  <1>4. is(f)
    <2> HIDE DEF Rule
    <2> QED
      BY <1>3
  <1>5. Meant = CHOOSE h : is(h)
    BY DEF Meant
  <1>6. is(Meant)
    <2> HIDE DEF is
    <2> QED
      BY <1>4, <1>5
  <1> QED
    BY <1>6

(* Of an object with one operator, that one is the one that counts.        *)
LEMMA OnlyOperator ==
    ASSUME NEW e, NEW o, ~ e.plain, e.ops = {o},
           o.op \in {"$eq", "$ne", "$gt", "$gte", "$lt", "$lte", "$in", "$nin"}
    PROVE  FieldFromJson(e) = Cmp(e.field, o.op, o.value)
  <1> DEFINE isFirst(i) == /\ Priority[i] \in {p.op : p \in e.ops}
                           /\ \A j \in 1..i - 1 : Priority[j] \notin {p.op : p \in e.ops}
             first == CHOOSE i \in DOMAIN Priority : isFirst(i)
  <1>1. PICK i \in DOMAIN Priority : Priority[i] = o.op
    BY DEF Priority
  <1>2. \A j \in 1..i - 1 : Priority[j] # o.op
    BY <1>1 DEF Priority
  <1>3. isFirst(i)
    BY <1>1, <1>2
  <1>4. first \in DOMAIN Priority /\ isFirst(first)
    <2> HIDE DEF isFirst
    <2> QED
      BY <1>3
  <1>5. Priority[first] = o.op
    BY <1>4
  <1> DEFINE counts == CHOOSE p \in e.ops : p.op = Priority[first]
  <1>6. counts = o
    BY <1>5
  <1>7. FieldFromJson(e) = Cmp(e.field, counts.op, counts.value)
    BY DEF FieldFromJson
  <1> QED
    BY <1>6, <1>7

(* Among numbers of one type, the same number is the same value.           *)
LEMMA SameIsEqual ==
    ASSUME NEW v \in Scalars, NEW w \in Operands, OneNumberType(v, w)
    PROVE  Same(v, w) <=> v = w
  <1>1. v.n \in Int /\ v.type \in {"int", "float", "string", "null"}
    BY DEF Scalars, NullValue
  <1>2. ASSUME Kind(v) = "number", Kind(w) = "number", Numeric(v) = Numeric(w)
        PROVE  v = w
    <2>1. /\ v.type \in {"int", "float"} /\ w.type \in {"int", "float"}
          /\ v.type = w.type
      <3>1. w.type \in {"int", "float", "string", "null", "array"}
        BY DEF Operands, Scalars, NullValue
      <3>2. v.type \in {"int", "float"}
        BY <1>1, <1>2 DEF Kind
      <3>3. w.type \in {"int", "float"}
        BY <1>2, <3>1 DEF Kind
      <3>4. {v.type, w.type} # {"int", "float"}
        BY DEF OneNumberType
      <3> QED
        BY <3>2, <3>3, <3>4
    <2>2. /\ w \in [type : {"int", "float", "string"}, n : Int]
          /\ v \in [type : {"int", "float", "string"}, n : Int]
      BY <2>1 DEF Operands, Scalars, NullValue
    <2>3. v.n = w.n
      BY <1>2, <2>1, <2>2 DEF Numeric
    <2> QED
      BY <2>1, <2>2, <2>3
  <1> QED
    BY <1>2 DEF Same

(* cmp_match is what the operator means, for a value the row has.          *)
LEMMA OperatorMeans ==
    ASSUME NEW v \in Scalars, NEW o, OperandFits(o), o.value \in Operands,
           \A w \in Parts(o.value) : OneNumberType(v, w)
    PROVE  v # Absent /\ (CmpMatch(o.op, v, o.value) <=> OpMeans(o.op, v, o.value))
  <1>1. v # Absent
    BY DEF Scalars, Absent, NullValue
  <1>2. CASE o.op \in {"$eq", "$ne"}
    <2>1. OneNumberType(v, o.value)
      <3>1. CASE o.value.type = "array"
        BY <3>1 DEF OneNumberType
      <3>2. CASE o.value.type # "array"
        BY <3>2 DEF Parts
      <3> QED
        BY <3>1, <3>2
    <2>2. Same(v, o.value) <=> v = o.value
      BY <2>1, SameIsEqual
    <2> QED
      BY <1>1, <1>2, <2>2 DEF CmpMatch, OpMeans, Symbol, Holds
  <1>3. CASE o.op \in {"$in", "$nin"} /\ o.value.type = "array"
    <2>1. o.value.items \in Seq(Scalars)
      BY <1>3 DEF Operands, Scalars, NullValue
    <2>2. ASSUME NEW i \in DOMAIN o.value.items
          PROVE  Same(v, o.value.items[i]) <=> v = o.value.items[i]
      <3>1. o.value.items[i] \in Operands
        BY <2>1 DEF Operands
      <3>2. OneNumberType(v, o.value.items[i])
        BY <1>3 DEF Parts, ToSet
      <3> QED
        BY <3>1, <3>2, SameIsEqual
    <2>3. v \in ToSet(o.value.items)
             <=> \E i \in DOMAIN o.value.items : Same(v, o.value.items[i])
      BY <2>2 DEF ToSet
    <2> QED
      BY <1>1, <1>3, <2>3 DEF CmpMatch, OpMeans
  <1>4. CASE o.op \in {"$gt", "$gte", "$lt", "$lte"} /\ o.value \in Scalars \ {NullValue}
    <2> DEFINE w == o.value
    <2>1. w.type \in {"int", "float", "string"} /\ w.n \in Int
      BY <1>4 DEF Scalars
    <2>2. v.n \in Int /\ v.type \in {"int", "float", "string", "null"}
      BY DEF Scalars, NullValue
    <2>3. Comparable(v, w) <=> v.type = w.type
      BY <2>1 DEF Comparable
    <2>4. CmpMatch(o.op, v, w) <=> Comparable(v, w) /\ Relates(v.n, Symbol[o.op], w.n)
      BY <1>1, <1>4 DEF CmpMatch, Symbol, Holds
    <2>5. OneNumberType(v, w)
      BY <2>1 DEF Parts
    <2> HIDE DEF w
    <2>6. Kind(v) = Kind(w) <=> v.type = w.type
      BY <2>1, <2>2, <2>5 DEF Kind, OneNumberType
    <2>7. v.type = w.type => /\ Numeric(v) > Numeric(w) <=> v.n > w.n
                             /\ Numeric(v) >= Numeric(w) <=> v.n >= w.n
                             /\ Numeric(v) < Numeric(w) <=> v.n < w.n
                             /\ Numeric(v) <= Numeric(w) <=> v.n <= w.n
      BY <2>1, <2>2 DEF Numeric
    <2>8. CASE o.op = "$gt"
      <3>1. CmpMatch(o.op, v, w) <=> Comparable(v, w) /\ v.n > w.n
        BY <2>1, <2>2, <2>4, <2>8 DEF Relates, Symbol
      <3> QED
        BY <1>1, <2>3, <2>6, <2>7, <2>8, <3>1 DEF OpMeans, w
    <2>9. CASE o.op = "$gte"
      <3>1. CmpMatch(o.op, v, w) <=> Comparable(v, w) /\ v.n >= w.n
        BY <2>1, <2>2, <2>4, <2>9 DEF Relates, Symbol
      <3> QED
        BY <1>1, <2>3, <2>6, <2>7, <2>9, <3>1 DEF OpMeans, w
    <2>10. CASE o.op = "$lt"
      <3>1. CmpMatch(o.op, v, w) <=> Comparable(v, w) /\ v.n < w.n
        BY <2>1, <2>2, <2>4, <2>10 DEF Relates, Symbol
      <3> QED
        BY <1>1, <2>3, <2>6, <2>7, <2>10, <3>1 DEF OpMeans, w
    <2>11. CASE o.op = "$lte"
      <3>1. CmpMatch(o.op, v, w) <=> Comparable(v, w) /\ v.n <= w.n
        BY <2>1, <2>2, <2>4, <2>11 DEF Relates, Symbol
      <3> QED
        BY <1>1, <2>3, <2>6, <2>7, <2>11, <3>1 DEF OpMeans, w
    <2> QED
      BY <1>4, <2>8, <2>9, <2>10, <2>11
  <1> QED
    BY <1>2, <1>3, <1>4 DEF OperandFits

(* A comparison of a field is what the entry means. *)
LEMMA FieldCorrect ==
    ASSUME OneOperatorEach, FieldsPresent, NumbersOfOneType,
           NEW json \in Jsons, NEW i \in DOMAIN json,
           json[i].key = "field", NEW row \in Docs
    PROVE  FieldMatches(FieldFromJson(json[i]), row) <=> FieldMeans(json[i], row)
  <1> DEFINE e == json[i]
             v == GetField(row, e.field)
  <1>1. e \in ToSet(json) /\ e \in Entries
    BY JsonsAssumption DEF ToSet
  <1>2. v \in Scalars
    BY <1>1 DEF FieldsPresent
  <1>3. CASE e.plain
    <2>1. FieldFromJson(e) = Cmp(e.field, "$eq", e.value)
      BY <1>3 DEF FieldFromJson
    <2>2. FieldMatches(FieldFromJson(e), row) <=> v # Absent /\ CmpMatch("$eq", v, e.value)
      BY <2>1 DEF FieldMatches, Cmp
    <2>3. e.value \in Operands /\ \A w \in Parts(e.value) : OneNumberType(v, w)
      BY <1>1, <1>3 DEF Entries, NumbersOfOneType
    <2>4. v # Absent /\ (CmpMatch("$eq", v, e.value) <=> OpMeans("$eq", v, e.value))
      <3> HIDE DEF v
      <3> DEFINE o == [op |-> "$eq", value |-> e.value]
      <3>1. o.op = "$eq" /\ o.value = e.value
        OBVIOUS
      <3> HIDE DEF o
      <3>2. OperandFits(o)
        BY <3>1 DEF OperandFits
      <3> QED
        BY <1>2, <2>3, <3>1, <3>2, OperatorMeans
    <2> QED
      BY <1>3, <2>2, <2>4 DEF OpMeans, FieldMeans
  <1>4. CASE ~ e.plain
    <2>1. PICK o \in e.ops : e.ops = {o} /\ OperandFits(o)
      BY <1>1, <1>4 DEF OneOperatorEach
    <2>2. o.op \in {"$eq", "$ne", "$gt", "$gte", "$lt", "$lte", "$in", "$nin"}
      BY <2>1 DEF OperandFits
    <2>3. FieldFromJson(e) = Cmp(e.field, o.op, o.value)
      BY <1>4, <2>1, <2>2, OnlyOperator
    <2>4. FieldMatches(FieldFromJson(e), row) <=> v # Absent /\ CmpMatch(o.op, v, o.value)
      BY <2>3 DEF FieldMatches, Cmp
    <2>5. o.value \in Operands /\ \A w \in Parts(o.value) : OneNumberType(v, w)
      <3>1. e.ops \in SUBSET [op : STRING, value : Operands]
        BY <1>1, <1>4 DEF Entries
      <3>2. o.value \in Operands
        BY <3>1
      <3> QED
        BY <1>1, <1>4, <3>2 DEF NumbersOfOneType
    <2>6. v # Absent /\ (CmpMatch(o.op, v, o.value) <=> OpMeans(o.op, v, o.value))
      BY <1>2, <2>1, <2>5, OperatorMeans
    <2>7. FieldMeans(e, row) <=> OpMeans(o.op, v, o.value)
      BY <1>4, <2>1 DEF FieldMeans
    <2> QED
      BY <2>4, <2>6, <2>7
  <1> QED
    BY <1>3, <1>4

(* Filters match what they mean, however deep they are nested.             *)
LEMMA MatchingIsMeant ==
    ASSUME OneOperatorEach, FieldsPresent, NumbersOfOneType
    PROVE  \A json \in Jsons : Matching[json] = Meant[json]
  <1> DEFINE Wrong == {json \in Jsons : Matching[json] # Meant[json]}
  <1> SUFFICES ASSUME Wrong # {} PROVE FALSE
    OBVIOUS
  <1>1. PICK json \in Wrong : \A other \in Wrong : Nesting[json] <= Nesting[other]
    <2> DEFINE depths == {Nesting[f] : f \in Wrong}
    <2>1. depths \in SUBSET Nat /\ depths # {}
      BY NestingAssumption
    <2>2. PICK k \in depths : \A m \in depths : k <= m
      <3> HIDE DEF depths
      <3> QED
        BY <2>1, Smallest
    <2> QED
      BY <2>2
  <1>2. json \in Jsons
    OBVIOUS
  <1>3. \A other \in Jsons : Nesting[other] < Nesting[json] => Matching[other] = Meant[other]
    BY <1>1, <1>2, NestingAssumption
  <1>4. ASSUME NEW row \in Docs, NEW i \in DOMAIN json
        PROVE  ConditionMatches(FilterFromJson(json)[i], row, Matching)
                   <=> EntryMeans(json[i], row, Meant)
    <2>1. CASE json[i].key = "field"
      BY <1>2, <2>1, ConditionOf, FieldCorrect DEF EntryMeans
    <2>2. CASE json[i].key # "field"
      <3>1. \A j \in DOMAIN json[i].subs :
                Matching[json[i].subs[j]] = Meant[json[i].subs[j]]
        BY <1>2, <1>3, <2>2, PartsAreSimpler
      <3>2. ConditionMatches(json[i], row, Matching) <=> EntryMeans(json[i], row, Meant)
        <4>1. json[i].key \in {"$and", "$or", "$not"}
          BY <1>2, <2>2, PartsAreSimpler
        <4>2. json[i].key = "$not" => DOMAIN json[i].subs = {1}
          BY <1>2, PartsAreSimpler
        <4>3. \A f : f \in ToSet(json[i].subs)
                         <=> \E j \in DOMAIN json[i].subs : f = json[i].subs[j]
          BY DEF ToSet
        <4>4. CASE json[i].key = "$and"
          <5>1. EntryMeans(json[i], row, Meant)
                    <=> \A f \in ToSet(json[i].subs) : row \in Meant[f]
            BY <4>4 DEF EntryMeans
          <5> QED
            BY <3>1, <4>3, <4>4, <5>1 DEF ConditionMatches
        <4>5. CASE json[i].key = "$or"
          <5>1. EntryMeans(json[i], row, Meant)
                    <=> \E f \in ToSet(json[i].subs) : row \in Meant[f]
            BY <4>5 DEF EntryMeans
          <5> QED
            BY <3>1, <4>3, <4>5, <5>1 DEF ConditionMatches
        <4>6. CASE json[i].key = "$not"
          <5>1. EntryMeans(json[i], row, Meant)
                    <=> \A f \in ToSet(json[i].subs) : row \notin Meant[f]
            BY <4>6 DEF EntryMeans
          <5> QED
            BY <3>1, <4>2, <4>3, <4>6, <5>1 DEF ConditionMatches
        <4> QED
          BY <4>1, <4>4, <4>5, <4>6
      <3> QED
        BY <1>2, <2>2, <3>2, ConditionOf
    <2> QED
      BY <2>1, <2>2
  <1>5. \A row \in Docs :
            (\A i \in DOMAIN json : ConditionMatches(FilterFromJson(json)[i], row, Matching))
                <=> (\A e \in ToSet(json) : EntryMeans(e, row, Meant))
    BY <1>4 DEF ToSet
  <1>6. Matching[json] = Meant[json]
    BY <1>2, <1>5, MatchingExists, MeaningExists
  <1> QED
    BY <1>6

(* find and delete_many take the rows the JSON describes: the conversion   *)
(* of a filter and the evaluation of its conditions, nested to any depth,  *)
(* make of each stored document what the JSON says of it. That needs one   *)
(* operator to a field, as filter_from_json leaves the others out,         *)
(* documents that have the fields, as cmp_match never sees a missing one,  *)
(* and no integer compared to a float, as cmp_match calls them different.  *)
THEOREM FindsWhatIsMeant ==
    ASSUME OneOperatorEach, FieldsPresent, NumbersOfOneType
    PROVE  Spec => []FindMeansFilter
  <1>1. TypeOK => FindMeansFilter
    <2>1. Misjudged = {}
      BY MatchingIsMeant DEF Misjudged, MatchesFilter
    <2> QED
      BY <2>1 DEF FindMeansFilter
  <1> QED
    BY <1>1, TypeCorrect, PTL
=============================================================================
