------------------------------ MODULE Database ------------------------------
(***************************************************************************)
(* What a session promises the caller who is alone with it: a table is a   *)
(* set of rows and every statement is one step. There are no identifiers   *)
(* of tables, no index, no buffer, no chunks; Solo shows that Engine with  *)
(* one thread implements this.                                             *)
(*                                                                         *)
(* The one thing that is not as simple as it might be is an INSERT that is *)
(* refused: it leaves rows behind, which a scan finds and an aggregate may *)
(* or may not count.                                                       *)
(***************************************************************************)
EXTENDS Integers, Sequences

CONSTANTS
    TableNames,  \* the names a table can have
    Keys,        \* values of the id column a SELECT can ask for
    NULL,        \* the id value an INSERT is refused for; asks for every row
    Batches      \* the id values of the rows of an INSERT, as sequences

VARIABLES
    contents,  \* the rows of the INSERTs that returned Ok, by table name
    leftover,  \* the rows of the INSERTs that were refused
    next,      \* the number of the next row
    reply      \* the rows of the SELECT that has just been answered

vars == <<contents, leftover, next, reply>>

NoReply      == [sent |-> FALSE, rows |-> {}]
Answer(rows) == [sent |-> TRUE, rows |-> rows]

Idle == reply = NoReply

(* A session starts without rows, whatever tables its catalog has. *)
Init ==
    /\ \E named \in SUBSET TableNames : contents = [n \in named |-> {}]
    /\ leftover = contents
    /\ next = 0
    /\ reply = NoReply

(* The first k rows of an INSERT. *)
RowsOf(batch, k) == {[id |-> next + i - 1, key |-> batch[i]] : i \in 1..k}

Asked(rows, key) == {r \in rows : key \in {NULL, r.key}}

-----------------------------------------------------------------------------
(* A new table is empty, also one that takes over the name of another.     *)
Create(n) ==
    /\ Idle
    /\ contents' = [m \in DOMAIN contents \cup {n} |->
                       IF m = n THEN {} ELSE contents[m]]
    /\ leftover' = [m \in DOMAIN contents \cup {n} |->
                       IF m = n THEN {} ELSE leftover[m]]
    /\ UNCHANGED <<next, reply>>

Drop(n) ==
    /\ Idle
    /\ contents' = [m \in DOMAIN contents \ {n} |-> contents[m]]
    /\ leftover' = [m \in DOMAIN contents \ {n} |-> leftover[m]]
    /\ UNCHANGED <<next, reply>>

(* All rows of an INSERT at once. *)
Insert(n) ==
    /\ Idle
    /\ \E batch \in Batches :
          /\ contents' = [contents EXCEPT ![n] = @ \cup RowsOf(batch, Len(batch))]
          /\ next' = next + Len(batch)
    /\ UNCHANGED <<leftover, reply>>

(* A row whose id is NULL stops an INSERT into a table with an index; that *)
(* row and those before it stay.                                           *)
InsertRefused(n) ==
    /\ Idle
    /\ \E batch \in Batches : \E k \in DOMAIN batch :
          /\ batch[k] = NULL
          /\ leftover' = [leftover EXCEPT ![n] = @ \cup RowsOf(batch, k)]
          /\ next' = next + k
    /\ UNCHANGED <<contents, reply>>

(* A SELECT returns every row there is, or every row with the id asked for.*)
Select(n) ==
    /\ Idle
    /\ \E key \in Keys \cup {NULL} :
          reply' = Answer(Asked(contents[n] \cup leftover[n], key))
    /\ UNCHANGED <<contents, leftover, next>>

(* An aggregate is over the rows of all INSERTs that returned Ok.          *)
Aggregate(n) ==
    /\ Idle
    /\ \E extra \in SUBSET leftover[n] : reply' = Answer(contents[n] \cup extra)
    /\ UNCHANGED <<contents, leftover, next>>

Done ==
    /\ ~ Idle
    /\ reply' = NoReply
    /\ UNCHANGED <<contents, leftover, next>>

Next ==
    \/ \E n \in TableNames : Create(n)
    \/ \E n \in DOMAIN contents :
          \/ Drop(n) \/ Insert(n) \/ InsertRefused(n)
          \/ Select(n) \/ Aggregate(n)
    \/ Done

Spec == Init /\ [][Next]_vars
=============================================================================
