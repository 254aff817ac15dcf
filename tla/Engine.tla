------------------------------- MODULE Engine -------------------------------
(***************************************************************************)
(* SessionState and execute_plan (rustafari-executor), over the TableStore *)
(* and ColumnarStore of rustafari-storage, the BTreeIndex of               *)
(* rustafari-index and the Catalog of rustafari-core.                      *)
(*                                                                         *)
(* A statement is a sequence of critical sections, each under the lock of  *)
(* one structure; an action is one of them, together with the purely local *)
(* code around it. Threads interleave between critical sections, as the    *)
(* Arc and RwLock fields of SessionState allow; with one thread the module *)
(* describes the shell, which runs one statement after the other.          *)
(***************************************************************************)
EXTENDS Catalog, Sequences

CONSTANTS
    Threads,        \* callers of execute_plan that share a SessionState
    IdSchemas,      \* the schemas with a column named "id"
    Keys,           \* indexable values of the id column
    NULL,           \* an id value IndexKey::from_value refuses
    MISSING,        \* a row too short to have an id value
    Batches,        \* the id values of the rows of an INSERT, as sequences
    ChunkSize,      \* COLUMNAR_CHUNK_SIZE, 100_000 in the code
    StartCatalogs,  \* catalogs a session may start with, empty or loaded
    MaxTables,      \* bound: CREATE TABLE only below this table identifier
    MaxRows         \* bound: INSERT only below this row identifier

ASSUME IdSchemasAssumption == IdSchemas \subseteq Schemas
ASSUME SentinelsAssumption == NULL \notin Keys /\ MISSING \notin Keys \cup {NULL}
ASSUME BatchesAssumption   == Batches \subseteq Seq(Keys \cup {NULL, MISSING})
ASSUME ChunkSizeAssumption == ChunkSize \in Nat \ {0}
ASSUME StartAssumption     == \A cat \in StartCatalogs : CatalogOK(cat)
ASSUME BoundsAssumption    == MaxTables \in Nat /\ MaxRows \in Nat

VARIABLES
    catalog,      \* SessionState.catalog
    next_row_id,  \* TableStore.next_row_id
    data,         \* TableStore.data, a set of rows
    index_store,  \* SessionState.index_store: the tables with an index on id
    index,        \* the entries of all BTreeIndex objects
    buffer,       \* SessionState.columnar_buffer, all tables together
    chunks,       \* ColumnarStore.chunks, all tables together
    pc,           \* what each thread does next
    target,       \* <<namespace, name>> in each thread's statement
    meta,         \* the TableMeta each thread's last catalog lookup returned
    values,       \* rows an INSERT has still to store
    row,          \* the row an INSERT is storing
    pushed,       \* rows an INSERT has stored and pushed
    taken,        \* rows moved out of the buffer and not yet in a chunk
    sought,       \* the id value of a SELECT ... WHERE id = value
    row_ids,      \* row identifiers from the index, still to be fetched
    got,          \* rows a read has collected
    committed,    \* history: rows of the INSERTs that returned Ok
    expected,     \* history: rows of its table committed when a read began
    cleared       \* history: tables whose rows a DROP TABLE has removed

shared  == <<catalog, next_row_id, data, index_store, index, buffer, chunks>>
insert  == <<values, row, pushed>>
read    == <<sought, row_ids, got, expected>>
history == <<committed, cleared>>
vars    == <<shared, pc, target, meta, insert, taken, read, history>>

KeyValues == Keys \cup {NULL, MISSING}

(* Rows carry the table and the RowId they are stored under, which makes   *)
(* two rows of equal values different; of the values only the id matters.  *)
Rows == [table : Nat, id : Nat, key : KeyValues]

Of(rows, table) == {r \in rows : r.table = table}

(* The rows in the chunks of the columnar store. *)
Chunked == UNION {chunk.rows : chunk \in chunks}

NoTable == [id |-> 0, namespace_id |-> 0, name |-> NULL, schema |-> NULL]
NoRow   == [table |-> 0, id |-> 0, key |-> NULL]

Labels == {"idle", "register_index",
           "drop_rows", "drop_chunks", "drop_index", "drop_entry",
           "store_row", "get_index", "index_row", "push_row", "publish_full",
           "flush", "publish_flushed", "read_chunks",
           "find_index", "read_index", "fetch_rows", "scan_again", "scan",
           "reply"}

Init ==
    /\ catalog \in StartCatalogs
    /\ next_row_id = 0
    /\ data = {} /\ index_store = {} /\ index = {}
    /\ buffer = {} /\ chunks = {}
    /\ pc = [t \in Threads |-> "idle"]
    /\ target = [t \in Threads |-> <<NULL, NULL>>]
    /\ meta = [t \in Threads |-> NoTable]
    /\ values = [t \in Threads |-> <<>>]
    /\ row = [t \in Threads |-> NoRow]
    /\ pushed = [t \in Threads |-> {}]
    /\ taken = [t \in Threads |-> {}]
    /\ sought = [t \in Threads |-> NULL]
    /\ row_ids = [t \in Threads |-> {}]
    /\ got = [t \in Threads |-> {}]
    /\ committed = {}
    /\ expected = [t \in Threads |-> {}]
    /\ cleared = {}

Goto(t, label) == pc' = [pc EXCEPT ![t] = label]

(* A statement begins with the catalog lookup that finds its table.        *)
Resolve(t, ns, name) ==
    /\ pc[t] = "idle"
    /\ HasTable(catalog, ns, name)
    /\ target' = [target EXCEPT ![t] = <<ns, name>>]
    /\ meta' = [meta EXCEPT ![t] = GetTable(catalog, ns, name)]

(* A statement ends, with Ok or with Err, and its local values are gone.   *)
Return(t) ==
    /\ Goto(t, "idle")
    /\ target' = [target EXCEPT ![t] = <<NULL, NULL>>]
    /\ meta' = [meta EXCEPT ![t] = NoTable]

(* Any statement on a name the catalog does not have: Err(TableNotFound).  *)
TableNotFound(t) ==
    /\ pc[t] = "idle"
    /\ \E ns \in Namespaces, name \in Names : ~ HasTable(catalog, ns, name)
    /\ UNCHANGED vars

-----------------------------------------------------------------------------
(* CREATE TABLE: first the catalog entry, then, under another lock, the    *)
(* index of a table with an id column.                                     *)

CreateEntry(t) ==
    /\ pc[t] = "idle"
    /\ catalog.next_table_id < MaxTables
    /\ \E ns \in Namespaces, name \in Names, schema \in Schemas :
          LET table == NewTable(catalog, ns, name, schema)
          IN  /\ catalog' = CreateTable(catalog, ns, name, schema)
              /\ IF schema \in IdSchemas
                 THEN /\ meta' = [meta EXCEPT ![t] = table]
                      /\ Goto(t, "register_index")
                 ELSE UNCHANGED <<meta, pc>>
    /\ UNCHANGED <<next_row_id, data, index_store, index, buffer, chunks,
                   target, insert, taken, read, history>>

RegisterIndex(t) ==
    /\ pc[t] = "register_index"
    /\ index_store' = index_store \cup {meta[t].id}
    /\ Return(t)
    /\ UNCHANGED <<catalog, next_row_id, data, index, buffer, chunks,
                   insert, taken, read, history>>

-----------------------------------------------------------------------------
(* DROP TABLE: the storage of the table the name had at the lookup, then   *)
(* the catalog entry of the table the name has at the end.                 *)

BeginDrop(t) ==
    /\ \E ns \in Namespaces, name \in Names : Resolve(t, ns, name)
    /\ Goto(t, "drop_rows")
    /\ UNCHANGED <<shared, insert, taken, read, history>>

(* Fault for the runs: the range of keys to remove has no upper end. *)
DropRowsToTheEnd(t) ==
    /\ pc[t] = "drop_rows"
    /\ data' = {r \in data : r.table < meta[t].id}
    /\ cleared' = cleared \cup {meta[t].id}
    /\ Goto(t, "drop_chunks")
    /\ UNCHANGED <<catalog, next_row_id, index_store, index, buffer, chunks,
                   target, meta, insert, taken, read, committed>>

DropRows(t) ==
    /\ pc[t] = "drop_rows"
    /\ data' = data \ Of(data, meta[t].id)
    /\ cleared' = cleared \cup {meta[t].id}
    /\ Goto(t, "drop_chunks")
    /\ UNCHANGED <<catalog, next_row_id, index_store, index, buffer, chunks,
                   target, meta, insert, taken, read, committed>>

(* Faults for the runs: no chunk is removed, or every table's chunks are.  *)
DropChunksForgotten(t) ==
    /\ pc[t] = "drop_chunks"
    /\ Goto(t, "drop_index")
    /\ UNCHANGED <<shared, target, meta, insert, taken, read, history>>

DropAllChunks(t) ==
    /\ pc[t] = "drop_chunks"
    /\ chunks' = {}
    /\ Goto(t, "drop_index")
    /\ UNCHANGED <<catalog, next_row_id, data, index_store, index, buffer,
                   target, meta, insert, taken, read, history>>

DropChunks(t) ==
    /\ pc[t] = "drop_chunks"
    /\ chunks' = chunks \ Of(chunks, meta[t].id)
    /\ Goto(t, "drop_index")
    /\ UNCHANGED <<catalog, next_row_id, data, index_store, index, buffer,
                   target, meta, insert, taken, read, history>>

(* The index object lives on while a thread that looked it up holds its    *)
(* Arc, so the entries stay; nobody can look the index up any more.        *)
DropIndex(t) ==
    /\ pc[t] = "drop_index"
    /\ index_store' = index_store \ {meta[t].id}
    /\ Goto(t, "drop_entry")
    /\ UNCHANGED <<catalog, next_row_id, data, index, buffer, chunks,
                   target, meta, insert, taken, read, history>>

(* Fault for the runs: every table of that name goes, older ones too. *)
DropEveryEntry(t) ==
    /\ pc[t] = "drop_entry"
    /\ catalog' = [DropTable(catalog, target[t][1], target[t][2]) EXCEPT
                      !.tables_by_id = Restrict(@,
                          {id \in DOMAIN @ : @[id].name # target[t][2]})]
    /\ Return(t)
    /\ UNCHANGED <<next_row_id, data, index_store, index, buffer, chunks,
                   insert, taken, read, history>>

DropEntry(t) ==
    /\ pc[t] = "drop_entry"
    /\ catalog' = DropTable(catalog, target[t][1], target[t][2])
    /\ Return(t)
    /\ UNCHANGED <<next_row_id, data, index_store, index, buffer, chunks,
                   insert, taken, read, history>>

-----------------------------------------------------------------------------
(* INSERT: for each row the row store, then the index, then the columnar   *)
(* buffer; the row that fills the buffer takes it all out, and the taken   *)
(* rows become a chunk after the buffer's lock is released.                *)

(* Row identifiers already promised to the rows other INSERTs still hold. *)
PendingRows == MapThenSumSet(LAMBDA t : Len(values[t]), Threads)

BeginInsert(t) ==
    /\ \E ns \in Namespaces, name \in Names : Resolve(t, ns, name)
    /\ \E batch \in Batches :
          /\ batch # <<>>
          /\ next_row_id + PendingRows + Len(batch) <= MaxRows
          /\ values' = [values EXCEPT ![t] = batch]
    /\ Goto(t, "store_row")
    /\ UNCHANGED <<shared, row, pushed, taken, read, history>>

(* TableStore::insert: the counter's fetch_add and the locked insert make  *)
(* one step, since the identifier is used nowhere before the insert.       *)
StoreRow(t) ==
    /\ pc[t] = "store_row"
    /\ LET r == [table |-> meta[t].id, id |-> next_row_id,
                 key |-> Head(values[t])]
       IN  /\ row' = [row EXCEPT ![t] = r]
           /\ data' = data \cup {r}
    /\ next_row_id' = next_row_id + 1
    /\ values' = [values EXCEPT ![t] = Tail(@)]
    /\ Goto(t, "get_index")
    /\ UNCHANGED <<catalog, index_store, index, buffer, chunks,
                   target, meta, pushed, taken, read, history>>

(* Fault for the runs: only the first row of an INSERT is indexed. *)
GetIndexOnce(t) ==
    /\ pc[t] = "get_index"
    /\ IF /\ meta[t].schema \in IdSchemas
          /\ meta[t].id \in index_store
          /\ row[t].key # MISSING
          /\ pushed[t] = {}
       THEN Goto(t, "index_row")
       ELSE Goto(t, "push_row")
    /\ UNCHANGED <<shared, target, meta, insert, taken, read, history>>

(* The row is indexed if its table has an id column and, now, an index,    *)
(* and if the row is long enough to have an id.                            *)
GetIndex(t) ==
    /\ pc[t] = "get_index"
    /\ IF /\ meta[t].schema \in IdSchemas
          /\ meta[t].id \in index_store
          /\ row[t].key # MISSING
       THEN Goto(t, "index_row")
       ELSE Goto(t, "push_row")
    /\ UNCHANGED <<shared, target, meta, insert, taken, read, history>>

IndexRow(t) ==
    /\ pc[t] = "index_row"
    /\ row[t].key # NULL
    /\ index' = index \cup {row[t]}
    /\ Goto(t, "push_row")
    /\ UNCHANGED <<catalog, next_row_id, data, index_store, buffer, chunks,
                   target, meta, insert, taken, read, history>>

ForgetInsert(t) ==
    /\ values' = [values EXCEPT ![t] = <<>>]
    /\ row' = [row EXCEPT ![t] = NoRow]
    /\ pushed' = [pushed EXCEPT ![t] = {}]

(* IndexKey::from_value fails and `?` leaves the statement: the row and    *)
(* those before it stay in the row store.                                  *)
RefuseKey(t) ==
    /\ pc[t] = "index_row"
    /\ row[t].key = NULL
    /\ ForgetInsert(t)
    /\ Return(t)
    /\ UNCHANGED <<shared, taken, read, history>>

(* The row is done: on to the next one, or RowsAffected(count).            *)
NextRow(t) ==
    IF values[t] # <<>>
    THEN /\ pushed' = [pushed EXCEPT ![t] = @ \cup {row[t]}]
         /\ row' = [row EXCEPT ![t] = NoRow]
         /\ Goto(t, "store_row")
         /\ UNCHANGED <<values, target, meta, committed>>
    ELSE /\ committed' = committed \cup pushed[t] \cup {row[t]}
         /\ ForgetInsert(t)
         /\ Return(t)

(* Fault for the runs: the buffer may reach the limit. *)
PushRowUpToLimit(t) ==
    /\ pc[t] = "push_row"
    /\ Cardinality(Of(buffer, meta[t].id)) + 1 <= ChunkSize
    /\ buffer' = buffer \cup {row[t]}
    /\ NextRow(t)
    /\ UNCHANGED <<catalog, next_row_id, data, index_store, index, chunks,
                   taken, read, cleared>>

(* push_columnar_row below the limit *)
PushRow(t) ==
    /\ pc[t] = "push_row"
    /\ Cardinality(Of(buffer, meta[t].id)) + 1 < ChunkSize
    /\ buffer' = buffer \cup {row[t]}
    /\ NextRow(t)
    /\ UNCHANGED <<catalog, next_row_id, data, index_store, index, chunks,
                   taken, read, cleared>>

(* Fault for the runs: the rows are copied, not taken. *)
PushRowAndCopy(t) ==
    /\ pc[t] = "push_row"
    /\ Cardinality(Of(buffer, meta[t].id)) + 1 >= ChunkSize
    /\ taken' = [taken EXCEPT ![t] = Of(buffer, meta[t].id) \cup {row[t]}]
    /\ Goto(t, "publish_full")
    /\ UNCHANGED <<shared, target, meta, insert, read, history>>

(* push_columnar_row at the limit: mem::take, then drop(buf). *)
PushRowAndTake(t) ==
    /\ pc[t] = "push_row"
    /\ Cardinality(Of(buffer, meta[t].id)) + 1 >= ChunkSize
    /\ taken' = [taken EXCEPT ![t] = Of(buffer, meta[t].id) \cup {row[t]}]
    /\ buffer' = buffer \ Of(buffer, meta[t].id)
    /\ Goto(t, "publish_full")
    /\ UNCHANGED <<catalog, next_row_id, data, index_store, index, chunks,
                   target, meta, insert, read, history>>

(* ColumnarStore::insert_chunk; chunk_id is a label nothing reads. *)
InsertChunk(t) ==
    /\ chunks' = chunks \cup {[table |-> meta[t].id, rows |-> taken[t]]}
    /\ taken' = [taken EXCEPT ![t] = {}]

PublishFull(t) ==
    /\ pc[t] = "publish_full"
    /\ InsertChunk(t)
    /\ NextRow(t)
    /\ UNCHANGED <<catalog, next_row_id, data, index_store, index, buffer,
                   read, cleared>>

-----------------------------------------------------------------------------
(* SELECT with an aggregate: flush the buffer, read the chunks, and scan   *)
(* the row store only if there is no chunk.                                *)

CommittedOf(table) == Of(committed, table)

BeginAggregate(t) ==
    /\ \E ns \in Namespaces, name \in Names : Resolve(t, ns, name)
    /\ expected' = [expected EXCEPT ![t] = CommittedOf(meta'[t].id)]
    /\ Goto(t, "flush")
    /\ UNCHANGED <<shared, insert, taken, sought, row_ids, got, history>>

(* Faults for the runs: the aggregate reads without a flush, or without    *)
(* making a chunk of what it took.                                         *)
FlushSkipped(t) ==
    /\ pc[t] = "flush"
    /\ Goto(t, "read_chunks")
    /\ UNCHANGED <<shared, target, meta, insert, taken, read, history>>

FlushUnpublished(t) ==
    /\ pc[t] = "flush"
    /\ LET rows == Of(buffer, meta[t].id)
       IN  /\ taken' = [taken EXCEPT ![t] = rows]
           /\ buffer' = buffer \ rows
           /\ Goto(t, "read_chunks")
    /\ UNCHANGED <<catalog, next_row_id, data, index_store, index, chunks,
                   target, meta, insert, read, history>>

(* flush_columnar_buffer takes what is there and releases the lock. *)
FlushBuffer(t) ==
    /\ pc[t] = "flush"
    /\ LET rows == Of(buffer, meta[t].id)
       IN  /\ taken' = [taken EXCEPT ![t] = rows]
           /\ buffer' = buffer \ rows
           /\ Goto(t, IF rows = {} THEN "read_chunks" ELSE "publish_flushed")
    /\ UNCHANGED <<catalog, next_row_id, data, index_store, index, chunks,
                   target, meta, insert, read, history>>

PublishFlushed(t) ==
    /\ pc[t] = "publish_flushed"
    /\ InsertChunk(t)
    /\ Goto(t, "read_chunks")
    /\ UNCHANGED <<catalog, next_row_id, data, index_store, index, buffer,
                   target, meta, insert, read, history>>

ReadChunks(t) ==
    /\ pc[t] = "read_chunks"
    /\ LET found == Of(chunks, meta[t].id)
       IN  IF found = {}
           THEN Goto(t, "scan_again") /\ UNCHANGED got
           ELSE /\ got' = [got EXCEPT ![t] = UNION {c.rows : c \in found}]
                /\ Goto(t, "reply")
    /\ UNCHANGED <<shared, target, meta, insert, taken, sought, row_ids,
                   expected, history>>

-----------------------------------------------------------------------------
(* SELECT without an aggregate. *)

(* A plan that reaches its Scan with no lookup before. *)
BeginScan(t) ==
    /\ \E ns \in Namespaces, name \in Names : Resolve(t, ns, name)
    /\ expected' = [expected EXCEPT ![t] = CommittedOf(meta'[t].id)]
    /\ Goto(t, "scan")
    /\ UNCHANGED <<shared, insert, taken, sought, row_ids, got, history>>

(* WHERE id = value: a lookup of its own, then the index if there is one.  *)
BeginIdSelect(t) ==
    /\ \E ns \in Namespaces, name \in Names : Resolve(t, ns, name)
    /\ \E key \in Keys :
          /\ sought' = [sought EXCEPT ![t] = key]
          /\ expected' = [expected EXCEPT ![t] =
                {r \in CommittedOf(meta'[t].id) : r.key = key}]
    /\ Goto(t, "find_index")
    /\ UNCHANGED <<shared, insert, taken, row_ids, got, history>>

FindIndex(t) ==
    /\ pc[t] = "find_index"
    /\ Goto(t, IF meta[t].id \in index_store THEN "read_index" ELSE "scan_again")
    /\ UNCHANGED <<shared, target, meta, insert, taken, read, history>>

(* Fault for the runs: a range from the value on, not the value. *)
ReadIndexFrom(t) ==
    /\ pc[t] = "read_index"
    /\ row_ids' = [row_ids EXCEPT ![t] =
          {r.id : r \in {e \in Of(index, meta[t].id) : e.key >= sought[t]}}]
    /\ Goto(t, "fetch_rows")
    /\ UNCHANGED <<shared, target, meta, insert, taken, sought, got, expected,
                   history>>

(* BTreeIndex::get *)
ReadIndex(t) ==
    /\ pc[t] = "read_index"
    /\ row_ids' = [row_ids EXCEPT ![t] =
          {r.id : r \in {e \in Of(index, meta[t].id) : e.key = sought[t]}}]
    /\ Goto(t, "fetch_rows")
    /\ UNCHANGED <<shared, target, meta, insert, taken, sought, got, expected,
                   history>>

(* Fault for the runs: an identifier whose row is gone is tried again. *)
FetchRowAgain(t) ==
    /\ pc[t] = "fetch_rows"
    /\ \E id \in row_ids[t] :
          LET found == {r \in Of(data, meta[t].id) : r.id = id}
          IN  /\ row_ids' = [row_ids EXCEPT ![t] =
                                IF found = {} THEN @ ELSE @ \ {id}]
              /\ got' = [got EXCEPT ![t] = @ \cup found]
    /\ UNCHANGED <<shared, pc, target, meta, insert, taken, sought, expected,
                   history>>

(* TableStore::get for each identifier; one that is gone is skipped, and   *)
(* the predicate is not evaluated again. The order of the identifiers is   *)
(* left open.                                                              *)
FetchRow(t) ==
    /\ pc[t] = "fetch_rows"
    /\ \E id \in row_ids[t] :
          /\ row_ids' = [row_ids EXCEPT ![t] = @ \ {id}]
          /\ got' = [got EXCEPT ![t] =
                @ \cup {r \in Of(data, meta[t].id) : r.id = id}]
    /\ UNCHANGED <<shared, pc, target, meta, insert, taken, sought, expected,
                   history>>

FetchDone(t) ==
    /\ pc[t] = "fetch_rows"
    /\ row_ids[t] = {}
    /\ Goto(t, "reply")
    /\ UNCHANGED <<shared, target, meta, insert, taken, read, history>>

(* A Scan below a Filter or an Aggregate resolves the name once more, and  *)
(* may find another table under it, or none: Err(TableNotFound).           *)
ForgetRead(t) ==
    /\ sought' = [sought EXCEPT ![t] = NULL]
    /\ row_ids' = [row_ids EXCEPT ![t] = {}]
    /\ got' = [got EXCEPT ![t] = {}]
    /\ expected' = [expected EXCEPT ![t] = {}]

ScanAgain(t) ==
    /\ pc[t] = "scan_again"
    /\ IF HasTable(catalog, target[t][1], target[t][2])
       THEN /\ meta' = [meta EXCEPT ![t] =
                          GetTable(catalog, target[t][1], target[t][2])]
            /\ Goto(t, "scan")
            /\ UNCHANGED <<target, read>>
       ELSE Return(t) /\ ForgetRead(t)
    /\ UNCHANGED <<shared, insert, taken, history>>

(* Fault for the runs: the end of the range of a scan belongs to it, which *)
(* is the very first row if that is in the next table.                     *)
ScanWithEnd(t) ==
    /\ pc[t] = "scan"
    /\ got' = [got EXCEPT ![t] =
          {r \in data : /\ sought[t] \in {NULL, r.key}
                        /\ \/ r.table = meta[t].id
                           \/ r.table = meta[t].id + 1 /\ r.id = 0}]
    /\ Goto(t, "reply")
    /\ UNCHANGED <<shared, target, meta, insert, taken, sought, row_ids,
                   expected, history>>

(* TableStore::scan, and the predicate evaluated on every row. *)
Scan(t) ==
    /\ pc[t] = "scan"
    /\ got' = [got EXCEPT ![t] =
          {r \in Of(data, meta[t].id) : sought[t] \in {NULL, r.key}}]
    /\ Goto(t, "reply")
    /\ UNCHANGED <<shared, target, meta, insert, taken, sought, row_ids,
                   expected, history>>

(* ExecutionResult::Rows *)
Reply(t) ==
    /\ pc[t] = "reply"
    /\ Return(t)
    /\ ForgetRead(t)
    /\ UNCHANGED <<shared, insert, taken, history>>

-----------------------------------------------------------------------------
(* The critical sections of a statement that has begun. *)
Step(t) ==
    \/ RegisterIndex(t)
    \/ DropRows(t) \/ DropChunks(t) \/ DropIndex(t) \/ DropEntry(t)
    \/ StoreRow(t) \/ GetIndex(t) \/ IndexRow(t) \/ RefuseKey(t)
    \/ PushRow(t) \/ PushRowAndTake(t) \/ PublishFull(t)
    \/ FlushBuffer(t) \/ PublishFlushed(t) \/ ReadChunks(t)
    \/ FindIndex(t) \/ ReadIndex(t) \/ FetchRow(t) \/ FetchDone(t)
    \/ ScanAgain(t) \/ Scan(t) \/ Reply(t)

(* A caller hands a statement to execute_plan. *)
Begin(t) ==
    \/ TableNotFound(t) \/ CreateEntry(t) \/ BeginDrop(t) \/ BeginInsert(t)
    \/ BeginAggregate(t) \/ BeginScan(t) \/ BeginIdSelect(t)

Next == \E t \in Threads : Begin(t) \/ Step(t)

Spec == Init /\ [][Next]_vars

(* No lock is held from one critical section to the next and no statement  *)
(* waits for another one, so a thread that has begun keeps running. No     *)
(* caller is obliged to send a statement.                                  *)
FairSpec == Spec /\ \A t \in Threads : WF_vars(Step(t))

-----------------------------------------------------------------------------
(* Type invariant. *)
StoresTypeOK ==
    /\ next_row_id \in Nat
    /\ data \subseteq Rows /\ index \subseteq Rows /\ buffer \subseteq Rows
    /\ index_store \subseteq Nat
    /\ chunks \subseteq [table : Nat, rows : SUBSET Rows]
    /\ committed \subseteq Rows
    /\ cleared \subseteq Nat

ControlTypeOK ==
    /\ pc \in [Threads -> Labels]
    /\ target \in [Threads -> (Namespaces \X Names) \cup {<<NULL, NULL>>}]
    /\ meta \in [Threads -> TableMetas \cup {NoTable}]

InsertTypeOK ==
    /\ values \in [Threads -> Seq(KeyValues)]
    /\ \A t \in Threads : pc[t] = "store_row" => values[t] # <<>>
    /\ row \in [Threads -> Rows]
    /\ pushed \in [Threads -> SUBSET Rows]
    /\ taken \in [Threads -> SUBSET Rows]

ReadTypeOK ==
    /\ sought \in [Threads -> Keys \cup {NULL}]
    /\ row_ids \in [Threads -> SUBSET Nat]
    /\ got \in [Threads -> SUBSET Rows]
    /\ expected \in [Threads -> SUBSET Rows]

TypeOK ==
    /\ CatalogOK(catalog)
    /\ StoresTypeOK
    /\ ControlTypeOK
    /\ InsertTypeOK
    /\ ReadTypeOK

Idle == \A t \in Threads : pc[t] = "idle"

(* Rows on their way to the columnar store, or in it. *)
Columnar == buffer \cup Chunked \cup UNION {taken[t] : t \in Threads}

(* No row is counted twice: a row is in the buffer, or in the hands of one *)
(* thread that flushes, or in one chunk, never in two of them, however     *)
(* the two flush paths of executor/src/lib.rs interleave.                  *)
ColumnarExactlyOnce ==
    /\ buffer \cap Chunked = {}
    /\ \A t \in Threads : taken[t] \cap (buffer \cup Chunked) = {}
    /\ \A t, u \in Threads : t # u => taken[t] \cap taken[u] = {}
    /\ \A c, d \in chunks : c # d => c.rows \cap d.rows = {}

Kept(r) == r.table \in cleared \/ r \in data \cap Columnar

(* An INSERT that returned Ok has brought each of its rows to the columnar *)
(* side as well as to the row store; neither loses it before a DROP TABLE  *)
(* of its table.                                                           *)
CommittedRowsKept ==
    \A r \in committed : Kept(r)

(* The columnar side has no row the row store does not have: aggregates    *)
(* and scans count from the same rows.                                     *)
NoPhantomRows ==
    \A r \in Columnar : r.table \in cleared \/ r \in data

(* A chunk is full when a push makes it; push_columnar_row never leaves a  *)
(* full buffer behind, and no chunk is larger than the limit or empty.     *)
BufferBelowLimit ==
    /\ \A r \in buffer : Cardinality(Of(buffer, r.table)) < ChunkSize
    /\ \A c \in chunks : c.rows # {} /\ Cardinality(c.rows) <= ChunkSize

(* What an index leads to is a stored row with that key, until the rows of *)
(* its table are removed: FetchRow may trust the index and does not look   *)
(* at the predicate again.                                                 *)
IndexSound ==
    \A r \in index : r.table \in cleared \/ r \in data

(* A table that has its index has every committed row with an id in it, or *)
(* WHERE id = value would not see the row.                                 *)
IndexComplete ==
    \A r \in committed :
        r.table \in index_store /\ r.key \in Keys => r \in index

(* A read returns every row that was committed before the read began,      *)
(* whichever of the chunks, the index and the row store answers it.        *)
ReadsSeeCommitted ==
    \A t \in Threads : pc[t] = "reply" =>
        \A r \in expected[t] : r.table \in cleared \/ r \in got[t]

(* With several threads it need not, but the rows a scan or an aggregate   *)
(* leaves out are known: those another thread has taken out of the buffer  *)
(* and not yet made a chunk of, or, when the name is looked up again, the  *)
(* rows of the table it led to before.                                     *)
ReadsMissOnlyInFlight ==
    [][\A t \in Threads : \A r \in expected[t] :
          pc[t] \in {"read_chunks", "scan"} /\ pc'[t] = "reply" =>
              \/ r \in got'[t]
              \/ r.table \in cleared
              \/ pc[t] = "read_chunks" /\ \E u \in Threads \ {t} : r \in taken[u]
              \/ pc[t] = "scan" /\ r.table # meta[t].id]_vars

(* A read returns stored rows only, and a SELECT by id only rows with that *)
(* id, though the index path does not evaluate the predicate.              *)
ReadsSound ==
    \A t \in Threads : \A r \in got[t] :
        /\ r \in data \/ r.table \in cleared
        /\ sought[t] \in {NULL, r.key}

(* When no statement runs, a dropped table has left nothing behind in the  *)
(* row store, the columnar store, the indexes and the catalog.             *)
DropLeavesNothing ==
    Idle => \A id \in cleared :
        /\ Of(data, id) = {}
        /\ Of(chunks, id) = {}
        /\ id \notin index_store
        /\ id \notin DOMAIN catalog.tables_by_id

(* INSERT is all or nothing: a stored row belongs to an INSERT that        *)
(* returned Ok or to one that is still running.                            *)
InsertIsAtomic ==
    \A r \in data :
        r \in committed \/ \E t \in Threads : r \in pushed[t] \cup {row[t]}

(* A DROP TABLE removes from the catalog the table whose rows it removed,  *)
(* and that table only.                                                    *)
DropsItsOwnTable ==
    [][\A id \in DOMAIN catalog.tables_by_id :
          id \notin DOMAIN catalog'.tables_by_id => id \in cleared]_vars

(* Every statement returns. *)
StatementsReturn == \A t \in Threads : pc[t] # "idle" ~> pc[t] = "idle"

(* Rows taken out of the buffer are in a chunk in the end, or their table  *)
(* was dropped.                                                            *)
TakenRowsPublished ==
    \A t \in Threads : taken[t] # {} ~> taken[t] = {}

-----------------------------------------------------------------------------
(* What makes the safety invariants above inductive. *)

(* An INSERT has given the row an identifier and has not pushed it yet. *)
Holds(t) == pc[t] \in {"get_index", "index_row", "push_row"}

Publishes(t) == pc[t] \in {"publish_full", "publish_flushed"}

HeldRowIsNew ==
    \A t \in Threads : Holds(t) =>
        /\ row[t].table = meta[t].id
        /\ row[t].id < next_row_id
        /\ row[t] \notin Columnar
        /\ row[t].table \in cleared \/ row[t] \in data
        /\ \A u \in Threads \ {t} : Holds(u) => row[u] # row[t]

ColumnarRowsAreOld == \A r \in Columnar : r.id < next_row_id

TakenRowsAreOwned ==
    \A t \in Threads :
        /\ taken[t] # {} => Publishes(t)
        /\ \A r \in taken[t] : r.table = meta[t].id
        /\ pc[t] = "publish_full" => row[t] \in taken[t]

ChunksAreOfOneTable == \A c \in chunks : \A r \in c.rows : r.table = c.table

PushedRowsKept == \A t \in Threads : \A r \in pushed[t] : Kept(r)

ChunksGoAfterRows ==
    \A t \in Threads : pc[t] = "drop_chunks" => meta[t].id \in cleared

StorageInvariant ==
    /\ HeldRowIsNew
    /\ ColumnarRowsAreOld
    /\ TakenRowsAreOwned
    /\ ChunksAreOfOneTable
    /\ PushedRowsKept
    /\ ChunksGoAfterRows
    /\ ColumnarExactlyOnce
    /\ CommittedRowsKept
    /\ NoPhantomRows
    /\ IndexSound

(* What a thread has taken out of the buffer makes a chunk of legal size.  *)
TakenBelowLimit ==
    \A t \in Threads : Publishes(t) =>
        /\ IsFiniteSet(taken[t]) /\ taken[t] # {}
        /\ Cardinality(taken[t]) <= ChunkSize

BufferInvariant == IsFiniteSet(buffer) /\ BufferBelowLimit /\ TakenBelowLimit

(* Rows a scan or an index can lead to, or will, and rows ever stored.     *)
Numbered == data \cup index \cup {row[t] : t \in {u \in Threads : Holds(u)}}

Used == Numbered \cup committed \cup UNION {pushed[t] : t \in Threads}

(* No two rows have the same identifier, in a table or across tables.      *)
RowIdsUnique ==
    /\ \A r \in Used : r.id < next_row_id
    /\ \A r, s \in Numbered : r.id = s.id => r = s

Aggregates(t) == pc[t] \in {"flush", "publish_flushed", "read_chunks"}

LooksUp(t) == pc[t] \in {"find_index", "read_index", "fetch_rows"}

Reads(t) ==
    Aggregates(t) \/ LooksUp(t) \/ pc[t] \in {"scan_again", "scan", "reply"}

(* What a thread still has to fetch it found in the index; nothing is left *)
(* of one read when the next one begins.                                   *)
LookupIndexed(t) ==
    /\ \A id \in row_ids[t] : \E r \in Of(index, meta[t].id) :
          r.id = id /\ r.key = sought[t]
    /\ pc[t] # "fetch_rows" => row_ids[t] = {}
    /\ Aggregates(t) \/ ~ Reads(t) => sought[t] = NULL
    /\ LooksUp(t) => sought[t] \in Keys
    /\ pc[t] \notin {"fetch_rows", "reply"} => got[t] = {}

LookupsIndexed == \A t \in Threads : LookupIndexed(t)

ReadInvariant == RowIdsUnique /\ LookupsIndexed /\ ReadsSound

(* What a read expects is committed and of the rows it asks for; once it   *)
(* has flushed the buffer, none of that is in the buffer any more.         *)
ReadExpects(t) ==
    /\ expected[t] \subseteq committed
    /\ \A r \in expected[t] : sought[t] \in {NULL, r.key}
    /\ Aggregates(t) => \A r \in expected[t] : r.table = meta[t].id
    /\ pc[t] \in {"publish_flushed", "read_chunks"} =>
          \A r \in expected[t] : r \notin buffer \/ r.table \in cleared

ExpectedFlushed == \A t \in Threads : ReadExpects(t)
=============================================================================
