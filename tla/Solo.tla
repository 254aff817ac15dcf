-------------------------------- MODULE Solo --------------------------------
(***************************************************************************)
(* A session with one caller, as the shell of rustafari-server has it: how *)
(* the steps of Engine implement the statements of Database.               *)
(*                                                                         *)
(* A statement takes effect at one of its steps: CREATE TABLE with the     *)
(* catalog entry, DROP TABLE when the rows go, INSERT with the push of its *)
(* last row, a SELECT with its last read. The other steps change nothing   *)
(* the caller could tell.                                                  *)
(***************************************************************************)
EXTENDS Engine

Caller == CHOOSE t \in Threads : TRUE

(* The shell: nobody else uses the session. *)
Alone == Threads = {Caller}

(* The rows the running INSERT has stored. *)
Running(t) ==
    pushed[t] \cup
    IF pc[t] \in {"get_index", "index_row", "push_row", "publish_full"}
    THEN {row[t]} ELSE {}

(* DROP TABLE has removed the rows of the table and not yet its name.      *)
Dropping(t) == pc[t] \in {"drop_chunks", "drop_index", "drop_entry"}

(* The names that lead to a table, as long as none is being dropped. *)
Visible ==
    {n \in Namespaces \X Names :
        /\ HasTable(catalog, n[1], n[2])
        /\ ~ (Dropping(Caller) /\ n = target[Caller])}

TableId(n) == GetTable(catalog, n[1], n[2]).id

(* What Database knows of a row. *)
Plain(rows) == {[id |-> r.id, key |-> r.key] : r \in rows}

Committed == [n \in Visible |-> Plain(CommittedOf(TableId(n)))]

Leftover ==
    [n \in Visible |->
        Plain(Of(data \ (committed \cup Running(Caller)), TableId(n)))]

(* The running INSERT has not taken its numbers yet. *)
NextRowId ==
    IF Running(Caller) = {} THEN next_row_id
    ELSE Min({r.id : r \in Running(Caller)})

Replied ==
    IF pc[Caller] = "reply"
    THEN [sent |-> TRUE, rows |-> Plain(got[Caller])]
    ELSE [sent |-> FALSE, rows |-> {}]

Statements ==
    INSTANCE Database WITH
        TableNames <- Namespaces \X Names,
        contents   <- Committed,
        leftover   <- Leftover,
        next       <- NextRowId,
        reply      <- Replied

(* With one caller a session behaves as a set of tables with atomic        *)
(* statements: what happens between the catalog, the row store, the index, *)
(* the buffer and the chunks cannot be seen.                               *)
Atomic == Statements!Spec

-----------------------------------------------------------------------------
(* What makes this inductive, and with it the properties of Engine that    *)
(* hold of one caller only.                                                *)

Inserts(t) ==
    pc[t] \in {"store_row", "get_index", "index_row", "push_row", "publish_full"}

(* A table that is used was given its identifier by the catalog. *)
TablesUsed ==
    /\ \A r \in data \cup committed : r.table < catalog.next_table_id
    /\ \A id \in cleared : id < catalog.next_table_id

(* What a statement looked up is still so: nobody else changes the catalog.*)
MetaCurrent ==
    \A t \in Threads :
        /\ pc[t] # "idle" =>
              /\ meta[t].id \in DOMAIN catalog.tables_by_id
              /\ catalog.tables_by_id[meta[t].id] = meta[t]
        /\ pc[t] \notin {"idle", "register_index"} =>
              /\ target[t] \in Namespaces \X Names
              /\ HasTable(catalog, target[t][1], target[t][2])
              /\ GetTable(catalog, target[t][1], target[t][2]) = meta[t]
        /\ pc[t] = "register_index" =>
              /\ meta[t].schema \in IdSchemas
              /\ \A r \in data \cup committed : r.table # meta[t].id

(* An index belongs to a table of the catalog that has an id column.       *)
IndexesHaveTables ==
    /\ \A id \in index_store :
          /\ id \in DOMAIN catalog.tables_by_id
          /\ catalog.tables_by_id[id].schema \in IdSchemas
    /\ \A t \in Threads : pc[t] = "drop_entry" => meta[t].id \notin index_store

(* The index of a table has its rows, but for the one that is on its way.  *)
RowsIndexed ==
    \A r \in data \cup committed :
        r.table \in index_store /\ r.key \in Keys =>
            \/ r \in index
            \/ \E t \in Threads : pc[t] \in {"get_index", "index_row"} /\ r = row[t]

(* Of a table whose rows are gone there is only what the running DROP      *)
(* TABLE has not come to yet.                                              *)
ClearedGone ==
    \A t \in Threads :
        /\ Dropping(t) => meta[t].id \in cleared
        /\ \A id \in cleared :
              LET at(labels) == pc[t] \in labels /\ id = meta[t].id
              IN  /\ Of(data, id) = {}
                  /\ ~ at({"drop_chunks"}) => Of(chunks, id) = {}
                  /\ ~ at({"drop_chunks", "drop_index"}) => id \notin index_store
                  /\ ~ at({"drop_chunks", "drop_index", "drop_entry"}) =>
                        id \notin DOMAIN catalog.tables_by_id

(* The rows of the running INSERT are the first n of its batch. *)
Stored(t, batch, n) ==
    {[table |-> meta[t].id, id |-> next_row_id - n + i - 1, key |-> batch[i]] :
        i \in 1..n}

RunningRows ==
    \A t \in Threads :
        IF Inserts(t)
        THEN \E batch \in Batches : \E n \in 0..Len(batch) :
                /\ values[t] = SubSeq(batch, n + 1, Len(batch))
                /\ Running(t) = Stored(t, batch, n)
                /\ pc[t] # "store_row" => n # 0 /\ row[t].key = batch[n]
                /\ Running(t) \cap committed = {}
        ELSE pushed[t] = {}

(* How far a read has come. *)
ToRead(t) == {r \in Of(data, meta[t].id) : sought[t] \in {NULL, r.key}}

ReadsOnTrack ==
    \A t \in Threads :
        /\ Reads(t) => expected[t] = {r \in CommittedOf(meta[t].id) :
                                        sought[t] \in {NULL, r.key}}
        /\ pc[t] \in {"publish_flushed", "read_chunks"} =>
              Of(buffer, meta[t].id) = {}
        /\ pc[t] = "read_index" => meta[t].id \in index_store
        /\ pc[t] = "fetch_rows" =>
              ToRead(t) = got[t] \cup {r \in Of(data, meta[t].id) : r.id \in row_ids[t]}
        /\ pc[t] = "reply" =>
              /\ got[t] \subseteq ToRead(t)
              /\ got[t] = ToRead(t) \/ (sought[t] = NULL /\ expected[t] \subseteq got[t])

SoloInvariant ==
    /\ TablesUsed
    /\ MetaCurrent
    /\ IndexesHaveTables
    /\ RowsIndexed
    /\ ClearedGone
    /\ RunningRows
    /\ ReadsOnTrack
=============================================================================
