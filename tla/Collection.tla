----------------------------- MODULE Collection -----------------------------
(***************************************************************************)
(* Document collections of rustafari-document (coll.rs): each is a table   *)
(* of a TableStore that collections, threads and the SQL session share.    *)
(* delete_many finds first and deletes afterwards, a lock at a time.       *)
(***************************************************************************)
EXTENDS DocFilter

CONSTANTS
    Threads,
    Tables,           \* TableIds of the collections
    Filters,          \* filters of delete_many, in JSON
    NONE,             \* no filter, no table
    MaxRows           \* bound: insert_one only below this number of rows

ASSUME TablesAssumption  == Tables \subseteq Nat
ASSUME FiltersAssumption == Filters \subseteq Jsons
ASSUME BoundAssumption   == MaxRows \in Nat
ASSUME NoneAssumption    == NONE \notin Filters /\ NONE \notin Tables

Rows == [table : Tables, id : Nat, doc : Docs]

VARIABLES
    next_row_id, data,  \* TableStore
    pc,                 \* of each thread: idle, or in delete_many
    table, filter,      \* its arguments
    to_delete,          \* identifiers find returned and not yet deleted
    n,                  \* rows counted as deleted
    \* History of the run:
    claims,             \* how many calls have counted each row as deleted
    dropped,            \* rows DROP TABLE removed
    doomed              \* what matched when the thread's call began

vars == <<next_row_id, data, pc, table, filter, to_delete, n, claims, dropped, doomed>>

Init ==
    /\ next_row_id = 0 /\ data = {}
    /\ pc = [t \in Threads |-> "idle"]
    /\ table = [t \in Threads |-> NONE]
    /\ filter = [t \in Threads |-> NONE]
    /\ to_delete = [t \in Threads |-> {}]
    /\ n = [t \in Threads |-> 0]
    /\ claims = [id \in 0..MaxRows - 1 |-> 0]
    /\ dropped = {}
    /\ doomed = [t \in Threads |-> {}]

(* Fault for the runs: the range of a scan has no end. *)
ScanToTheEnd(c) == {r \in data : r.table >= c}

(* TableStore::scan *)
Scan(c) == {r \in data : r.table >= c /\ r.table < c + 1}

(* Fault for the runs: the filter is left out. *)
FindUnfiltered(c, f) == Scan(c)

(* find; find_one is its first row. *)
Find(c, f) == {r \in Scan(c) : f = NONE \/ MatchesFilter(f, r.doc)}

-----------------------------------------------------------------------------
(* Fault for the runs: the number of rows serves as the next identifier. *)
InsertAtCount(t, c, doc) ==
    /\ pc[t] = "idle" /\ next_row_id < MaxRows
    /\ data' = data \cup {[table |-> c, id |-> Cardinality(data), doc |-> doc]}
    /\ next_row_id' = next_row_id + 1
    /\ UNCHANGED <<pc, table, filter, to_delete, n, claims, dropped, doomed>>

(* insert_one: the counter and the locked insert in one step. *)
InsertOne(t, c, doc) ==
    /\ pc[t] = "idle" /\ next_row_id < MaxRows
    /\ data' = data \cup {[table |-> c, id |-> next_row_id, doc |-> doc]}
    /\ next_row_id' = next_row_id + 1
    /\ UNCHANGED <<pc, table, filter, to_delete, n, claims, dropped, doomed>>

(* delete_many: the find. *)
FindToDelete(t, c, f) ==
    /\ pc[t] = "idle"
    /\ pc' = [pc EXCEPT ![t] = "delete"]
    /\ table' = [table EXCEPT ![t] = c]
    /\ filter' = [filter EXCEPT ![t] = f]
    /\ to_delete' = [to_delete EXCEPT ![t] = {r.id : r \in Find(c, f)}]
    /\ n' = [n EXCEPT ![t] = 0]
    /\ doomed' = [doomed EXCEPT ![t] =
                     {r \in data : r.table = c /\ (f = NONE \/ MatchesFilter(f, r.doc))}]
    /\ UNCHANGED <<next_row_id, data, claims, dropped>>

(* Its loop, in the order of the scan: TableStore::delete of one row, and  *)
(* n counts it if it was there.                                            *)
NextIs(t, id) ==
    /\ pc[t] = "delete"
    /\ to_delete' = [to_delete EXCEPT ![t] = @ \ {id}]
    /\ \A i \in to_delete[t] : id <= i
    /\ UNCHANGED <<next_row_id, pc, table, filter, dropped, doomed>>

RowAt(t, id) == {r \in data : r.table = table[t] /\ r.id = id}

Delete(t, id) ==
    /\ data' = data \ RowAt(t, id)
    /\ n' = [n EXCEPT ![t] = @ + 1]
    /\ claims' = [claims EXCEPT ![id] = @ + 1]

(* Fault for the runs: a row is counted whether it was there or not. *)
DeleteUnseen(t, id) == NextIs(t, id) /\ Delete(t, id)

DeleteRow(t, id) ==
    /\ NextIs(t, id)
    /\ \/ RowAt(t, id) # {} /\ Delete(t, id)
       \/ RowAt(t, id) = {} /\ UNCHANGED <<data, n, claims>>

(* Fault for the runs: the loop ends with the first row. *)
ReturnEarly(t) ==
    /\ pc[t] = "delete"
    /\ pc' = [pc EXCEPT ![t] = "idle"]
    /\ to_delete' = [to_delete EXCEPT ![t] = {}]
    /\ UNCHANGED <<next_row_id, data, table, filter, n, claims, dropped, doomed>>

ReturnCount(t) ==
    /\ pc[t] = "delete" /\ to_delete[t] = {}
    /\ pc' = [pc EXCEPT ![t] = "idle"]
    /\ UNCHANGED <<next_row_id, data, table, filter, to_delete, n, claims, dropped, doomed>>

(* TableStore::drop_table, called by DROP TABLE of a SQL session. *)
DropTable(c) ==
    /\ dropped' = dropped \cup {r.id : r \in Scan(c)}
    /\ data' = data \ Scan(c)
    /\ UNCHANGED <<next_row_id, pc, table, filter, to_delete, n, claims, doomed>>

Next ==
    \/ \E t \in Threads :
          \/ \E c \in Tables, doc \in Docs : InsertOne(t, c, doc)
          \/ \E c \in Tables, f \in Filters \cup {NONE} : FindToDelete(t, c, f)
          \/ \E id \in to_delete[t] : DeleteRow(t, id)
          \/ ReturnCount(t)
    \/ \E c \in Tables : DropTable(c)

Spec == Init /\ [][Next]_vars

-----------------------------------------------------------------------------
TypeOK ==
    /\ next_row_id \in 0..MaxRows
    /\ data \subseteq Rows
    /\ \A r, s \in data : r.id < next_row_id /\ (r.id = s.id => r = s)
    /\ pc \in [Threads -> {"idle", "delete"}]
    /\ table \in [Threads -> Tables \cup {NONE}]
    /\ filter \in [Threads -> Filters \cup {NONE}]
    /\ to_delete \in [Threads -> SUBSET (0..MaxRows - 1)]
    /\ n \in [Threads -> Nat]
    /\ claims \in [0..MaxRows - 1 -> Nat]
    /\ dropped \subseteq 0..MaxRows - 1
    /\ doomed \in [Threads -> SUBSET Rows]

Matched(t, r) ==
    r.table = table[t] /\ (filter[t] = NONE \/ MatchesFilter(filter[t], r.doc))

Stored(id) == \E r \in data : r.id = id

(* find returns the rows the JSON describes: what the conversion of a      *)
(* filter, nested to any depth, and the evaluation of its conditions make  *)
(* of a stored document is what the JSON says of it.                       *)
Misjudged ==
    {doc \in Docs : \E json \in Jsons : MatchesFilter(json, doc) # (doc \in Meant[json])}

FindMeansFilter == \A r \in data : r.doc \notin Misjudged

(* The counts of all delete_many calls add up: a row that is gone and was  *)
(* not dropped with its table was counted by exactly one of them, also if  *)
(* two of them had found it.                                               *)
CountedOnce ==
    \A id \in 0..next_row_id - 1 :
        claims[id] = IF Stored(id) \/ id \in dropped THEN 0 ELSE 1

(* When delete_many returns, no row that matched when it began is left.    *)
NoneLeft ==
    \A t \in Threads : pc[t] = "idle" => doomed[t] \cap data = {}

(* Only a row of the collection that matches the filter is deleted by it:  *)
(* whatever goes, goes by such a delete or with its whole table.           *)
OnlyMatchingDeleted ==
    [][\A r \in data \ data' :
          \/ \E c \in Tables : r.table = c /\ data' = {s \in data : s.table # c}
          \/ \E t \in Threads : Matched(t, r) /\ n'[t] = n[t] + 1]_vars

-----------------------------------------------------------------------------
(* What makes these inductive: identifiers still to be deleted were given, *)
(* name rows that match, and cover what is left of the rows doomed.        *)
FoundRowsMatch ==
    \A t \in Threads : \A id \in to_delete[t] :
        id < next_row_id /\ (\A r \in data : r.id = id => Matched(t, r))

DoomedCovered ==
    \A t \in Threads : \A r \in doomed[t] \cap data : r.id \in to_delete[t]

CollectionInvariant ==
    /\ FoundRowsMatch /\ DoomedCovered /\ CountedOnce
    /\ dropped \subseteq 0..next_row_id - 1
    /\ \A id \in next_row_id..MaxRows - 1 : claims[id] = 0
    /\ \A r \in data : r.id \notin dropped
    /\ \A t \in Threads : \A r \in doomed[t] : r.id < next_row_id
    /\ \A t \in Threads : pc[t] = "idle" => to_delete[t] = {}
=============================================================================
