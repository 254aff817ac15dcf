---------------------------- MODULE EngineProofs ----------------------------
(***************************************************************************)
(* Proofs about Engine, for any number of threads, tables, keys and rows,  *)
(* any size of a chunk and any well-formed catalog to start with; and,     *)
(* from the part on one caller on, about Solo: reads see every committed   *)
(* row, DROP TABLE leaves nothing behind, and the session implements       *)
(* Database.                                                               *)
(***************************************************************************)
EXTENDS Solo, CatalogProofs, FiniteSetTheorems, SequenceTheorems

-----------------------------------------------------------------------------
(* Types. *)

(* The row of a thread that stores none is a row like any other. *)
LEMMA NoRowType == NoRow \in Rows
  BY DEF NoRow, Rows, KeyValues

(* Whatever a thread last looked up has a table identifier. *)
LEMMA MetaIdType == ControlTypeOK => \A t \in Threads : meta[t].id \in Nat
  BY DEF ControlTypeOK, TableMetas, NoTable

(* The row an INSERT stores next. *)
LEMMA NextRowType ==
    ASSUME StoresTypeOK, ControlTypeOK, InsertTypeOK,
           NEW t \in Threads, pc[t] = "store_row"
    PROVE  /\ [table |-> meta[t].id, id |-> next_row_id,
                key |-> Head(values[t])] \in Rows
           /\ Tail(values[t]) \in Seq(KeyValues)
  <1>1. values[t] \in Seq(KeyValues) /\ values[t] # <<>>
    BY DEF InsertTypeOK
  <1>2. Head(values[t]) \in KeyValues /\ Tail(values[t]) \in Seq(KeyValues)
    BY <1>1
  <1> QED
    BY <1>2, MetaIdType DEF Rows, StoresTypeOK

(* The end of a row keeps the types, whatever else the step does. *)
LEMMA NextRowKeepsTypes ==
    ASSUME ControlTypeOK, InsertTypeOK, NEW t \in Threads, NextRow(t),
           taken' \in [Threads -> SUBSET Rows]
    PROVE  InsertTypeOK'
  <1>1. CASE values[t] # <<>>
    <2>1. /\ values' = values /\ pc' = [pc EXCEPT ![t] = "store_row"]
          /\ row' = [row EXCEPT ![t] = NoRow]
          /\ pushed' = [pushed EXCEPT ![t] = @ \cup {row[t]}]
      BY <1>1 DEF NextRow, Goto
    <2>2. pushed[t] \cup {row[t]} \in SUBSET Rows
      BY DEF InsertTypeOK
    <2> QED
      BY <1>1, <2>1, <2>2, NoRowType DEF ControlTypeOK, InsertTypeOK
  <1>2. CASE values[t] = <<>>
    BY <1>2, NoRowType
       DEF NextRow, ForgetInsert, Return, Goto, ControlTypeOK, InsertTypeOK
  <1> QED
    BY <1>1, <1>2

(* A session starts with every variable in its type. *)
LEMMA TypeInit == Init => TypeOK
  BY StartAssumption, NoRowType
     DEF Init, TypeOK, StoresTypeOK, ControlTypeOK, InsertTypeOK, ReadTypeOK,
         KeyValues, Labels

(* Every step of every statement keeps the types. *)
LEMMA TypeNext == TypeOK /\ [Next]_vars => TypeOK'
  <1> SUFFICES ASSUME TypeOK, [Next]_vars PROVE TypeOK'
    OBVIOUS
  <1> USE DEF TypeOK, Goto, shared, insert, read, history
  <1>1. ASSUME NEW t \in Threads, TableNotFound(t) PROVE TypeOK'
    BY <1>1
       DEF TableNotFound, vars, StoresTypeOK, ControlTypeOK, InsertTypeOK,
           ReadTypeOK
  <1>2. ASSUME NEW t \in Threads, CreateEntry(t) PROVE TypeOK'
    <2>1. CatalogOK(catalog')
      BY <1>2, CreateTableOK DEF CreateEntry
    <2>2. ControlTypeOK'
      BY <1>2, CreateTableOK DEF CreateEntry, ControlTypeOK, Labels
    <2>3. InsertTypeOK'
      BY <1>2 DEF CreateEntry, InsertTypeOK, ControlTypeOK
    <2> QED
      BY <2>1, <2>2, <2>3, <1>2 DEF CreateEntry, StoresTypeOK, ReadTypeOK
  <1>3. ASSUME NEW t \in Threads, BeginDrop(t) PROVE TypeOK'
    <2>1. ControlTypeOK'
      BY <1>3, GetTableOK DEF BeginDrop, Resolve, ControlTypeOK, Labels
    <2>2. InsertTypeOK'
      BY <1>3 DEF BeginDrop, Resolve, InsertTypeOK, ControlTypeOK
    <2> QED
      BY <2>1, <2>2, <1>3 DEF BeginDrop, Resolve, StoresTypeOK, ReadTypeOK
  <1>4. ASSUME NEW t \in Threads, BeginInsert(t) PROVE TypeOK'
    <2>1. ControlTypeOK'
      BY <1>4, GetTableOK DEF BeginInsert, Resolve, ControlTypeOK, Labels
    <2>2. InsertTypeOK'
      BY <1>4, BatchesAssumption
         DEF BeginInsert, Resolve, InsertTypeOK, ControlTypeOK, KeyValues
    <2> QED
      BY <2>1, <2>2, <1>4 DEF BeginInsert, Resolve, StoresTypeOK, ReadTypeOK
  <1>5. ASSUME NEW t \in Threads, BeginAggregate(t) PROVE TypeOK'
    <2>1. ControlTypeOK'
      BY <1>5, GetTableOK DEF BeginAggregate, Resolve, ControlTypeOK, Labels
    <2>2. InsertTypeOK'
      BY <1>5 DEF BeginAggregate, Resolve, InsertTypeOK, ControlTypeOK
    <2>3. ReadTypeOK'
      BY <1>5
         DEF BeginAggregate, Resolve, ReadTypeOK, Of, StoresTypeOK,
             CommittedOf
    <2> QED
      BY <2>1, <2>2, <2>3, <1>5 DEF BeginAggregate, Resolve, StoresTypeOK
  <1>6. ASSUME NEW t \in Threads, BeginScan(t) PROVE TypeOK'
    <2>1. ControlTypeOK'
      BY <1>6, GetTableOK DEF BeginScan, Resolve, ControlTypeOK, Labels
    <2>2. InsertTypeOK'
      BY <1>6 DEF BeginScan, Resolve, InsertTypeOK, ControlTypeOK
    <2>3. ReadTypeOK'
      BY <1>6
         DEF BeginScan, Resolve, ReadTypeOK, Of, StoresTypeOK, CommittedOf
    <2> QED
      BY <2>1, <2>2, <2>3, <1>6 DEF BeginScan, Resolve, StoresTypeOK
  <1>7. ASSUME NEW t \in Threads, BeginIdSelect(t) PROVE TypeOK'
    <2>1. ControlTypeOK'
      BY <1>7, GetTableOK DEF BeginIdSelect, Resolve, ControlTypeOK, Labels
    <2>2. InsertTypeOK'
      BY <1>7 DEF BeginIdSelect, Resolve, InsertTypeOK, ControlTypeOK
    <2>3. ReadTypeOK'
      BY <1>7
         DEF BeginIdSelect, Resolve, ReadTypeOK, Of, StoresTypeOK,
             CommittedOf
    <2> QED
      BY <2>1, <2>2, <2>3, <1>7 DEF BeginIdSelect, Resolve, StoresTypeOK
  <1>8. ASSUME NEW t \in Threads, RegisterIndex(t) PROVE TypeOK'
    <2>1. StoresTypeOK'
      BY <1>8, MetaIdType DEF RegisterIndex, Return, StoresTypeOK
    <2>2. ControlTypeOK'
      BY <1>8 DEF RegisterIndex, Return, ControlTypeOK, Labels
    <2>3. InsertTypeOK'
      BY <1>8 DEF RegisterIndex, Return, InsertTypeOK, ControlTypeOK
    <2> QED
      BY <2>1, <2>2, <2>3, <1>8 DEF RegisterIndex, Return, ReadTypeOK
  <1>9. ASSUME NEW t \in Threads, DropRows(t) PROVE TypeOK'
    <2>1. StoresTypeOK'
      BY <1>9, MetaIdType DEF DropRows, StoresTypeOK, Of
    <2>2. ControlTypeOK'
      BY <1>9 DEF DropRows, ControlTypeOK, Labels
    <2>3. InsertTypeOK'
      BY <1>9 DEF DropRows, InsertTypeOK, ControlTypeOK
    <2> QED
      BY <2>1, <2>2, <2>3, <1>9 DEF DropRows, ReadTypeOK
  <1>10. ASSUME NEW t \in Threads, DropChunks(t) PROVE TypeOK'
    <2>1. StoresTypeOK'
      BY <1>10 DEF DropChunks, StoresTypeOK, Of
    <2>2. ControlTypeOK'
      BY <1>10 DEF DropChunks, ControlTypeOK, Labels
    <2>3. InsertTypeOK'
      BY <1>10 DEF DropChunks, InsertTypeOK, ControlTypeOK
    <2> QED
      BY <2>1, <2>2, <2>3, <1>10 DEF DropChunks, ReadTypeOK
  <1>11. ASSUME NEW t \in Threads, DropIndex(t) PROVE TypeOK'
    <2>1. StoresTypeOK'
      BY <1>11, MetaIdType DEF DropIndex, StoresTypeOK
    <2>2. ControlTypeOK'
      BY <1>11 DEF DropIndex, ControlTypeOK, Labels
    <2>3. InsertTypeOK'
      BY <1>11 DEF DropIndex, InsertTypeOK, ControlTypeOK
    <2> QED
      BY <2>1, <2>2, <2>3, <1>11 DEF DropIndex, ReadTypeOK
  <1>12. ASSUME NEW t \in Threads, DropEntry(t) PROVE TypeOK'
    <2>1. CatalogOK(catalog')
      BY <1>12, DropTableOK DEF DropEntry, Return
    <2>2. ControlTypeOK'
      BY <1>12 DEF DropEntry, Return, ControlTypeOK, Labels
    <2>3. InsertTypeOK'
      BY <1>12 DEF DropEntry, Return, InsertTypeOK, ControlTypeOK
    <2> QED
      BY <2>1, <2>2, <2>3, <1>12
         DEF DropEntry, Return, StoresTypeOK, ReadTypeOK
  <1>13. ASSUME NEW t \in Threads, StoreRow(t) PROVE TypeOK'
    <2>1. StoresTypeOK'
      <3>1. pc[t] = "store_row" /\ next_row_id' = next_row_id + 1
        BY <1>13 DEF StoreRow
      <3>2. data' \subseteq Rows
        BY <1>13, <3>1, NextRowType DEF StoreRow, StoresTypeOK
      <3> QED
        BY <1>13, <3>1, <3>2 DEF StoreRow, StoresTypeOK
    <2>2. ControlTypeOK'
      BY <1>13 DEF StoreRow, ControlTypeOK, Labels
    <2>3. InsertTypeOK'
      BY <1>13, NextRowType DEF StoreRow, InsertTypeOK, ControlTypeOK
    <2> QED
      BY <2>1, <2>2, <2>3, <1>13 DEF StoreRow, ReadTypeOK
  <1>14. ASSUME NEW t \in Threads, GetIndex(t) PROVE TypeOK'
    <2>1. ControlTypeOK'
      BY <1>14 DEF GetIndex, ControlTypeOK, Labels
    <2>2. InsertTypeOK'
      BY <1>14 DEF GetIndex, InsertTypeOK, ControlTypeOK
    <2> QED
      BY <2>1, <2>2, <1>14 DEF GetIndex, StoresTypeOK, ReadTypeOK
  <1>15. ASSUME NEW t \in Threads, IndexRow(t) PROVE TypeOK'
    <2>1. StoresTypeOK'
      BY <1>15 DEF IndexRow, StoresTypeOK, InsertTypeOK
    <2>2. ControlTypeOK'
      BY <1>15 DEF IndexRow, ControlTypeOK, Labels
    <2>3. InsertTypeOK'
      BY <1>15 DEF IndexRow, InsertTypeOK, ControlTypeOK
    <2> QED
      BY <2>1, <2>2, <2>3, <1>15 DEF IndexRow, ReadTypeOK
  <1>16. ASSUME NEW t \in Threads, RefuseKey(t) PROVE TypeOK'
    <2>1. ControlTypeOK'
      BY <1>16 DEF RefuseKey, Return, ForgetInsert, ControlTypeOK, Labels
    <2>2. InsertTypeOK'
      BY <1>16, NoRowType
         DEF RefuseKey, Return, ForgetInsert, InsertTypeOK, ControlTypeOK
    <2> QED
      BY <2>1, <2>2, <1>16
         DEF RefuseKey, Return, ForgetInsert, StoresTypeOK, ReadTypeOK
  <1>17. ASSUME NEW t \in Threads, PushRow(t) PROVE TypeOK'
    <2>1. StoresTypeOK'
      BY <1>17
         DEF PushRow, NextRow, ForgetInsert, Return, StoresTypeOK, Of,
             InsertTypeOK
    <2>2. ControlTypeOK'
      BY <1>17
         DEF PushRow, NextRow, ForgetInsert, Return, ControlTypeOK, Labels
    <2>3. InsertTypeOK'
      BY <1>17, NextRowKeepsTypes DEF PushRow, InsertTypeOK
    <2> QED
      BY <2>1, <2>2, <2>3, <1>17
         DEF PushRow, NextRow, ForgetInsert, Return, ReadTypeOK
  <1>18. ASSUME NEW t \in Threads, PushRowAndTake(t) PROVE TypeOK'
    <2>1. StoresTypeOK'
      BY <1>18 DEF PushRowAndTake, StoresTypeOK, Of
    <2>2. ControlTypeOK'
      BY <1>18 DEF PushRowAndTake, ControlTypeOK, Labels
    <2>3. InsertTypeOK'
      BY <1>18
         DEF PushRowAndTake, InsertTypeOK, Of, ControlTypeOK, StoresTypeOK
    <2> QED
      BY <2>1, <2>2, <2>3, <1>18 DEF PushRowAndTake, ReadTypeOK
  <1>19. ASSUME NEW t \in Threads, PublishFull(t) PROVE TypeOK'
    <2>1. StoresTypeOK'
      BY <1>19, MetaIdType
         DEF PublishFull, InsertChunk, NextRow, ForgetInsert, Return,
             StoresTypeOK, InsertTypeOK
    <2>2. ControlTypeOK'
      BY <1>19
         DEF PublishFull, InsertChunk, NextRow, ForgetInsert, Return,
             ControlTypeOK, Labels
    <2>3. InsertTypeOK'
      BY <1>19, NextRowKeepsTypes DEF PublishFull, InsertChunk, InsertTypeOK
    <2> QED
      BY <2>1, <2>2, <2>3, <1>19
         DEF PublishFull, InsertChunk, NextRow, ForgetInsert, Return,
             ReadTypeOK
  <1>20. ASSUME NEW t \in Threads, FlushBuffer(t) PROVE TypeOK'
    <2>1. StoresTypeOK'
      BY <1>20 DEF FlushBuffer, StoresTypeOK, Of
    <2>2. ControlTypeOK'
      BY <1>20 DEF FlushBuffer, ControlTypeOK, Labels
    <2>3. InsertTypeOK'
      BY <1>20
         DEF FlushBuffer, InsertTypeOK, Of, ControlTypeOK, StoresTypeOK
    <2> QED
      BY <2>1, <2>2, <2>3, <1>20 DEF FlushBuffer, ReadTypeOK
  <1>21. ASSUME NEW t \in Threads, PublishFlushed(t) PROVE TypeOK'
    <2>1. StoresTypeOK'
      BY <1>21, MetaIdType
         DEF PublishFlushed, InsertChunk, StoresTypeOK, InsertTypeOK
    <2>2. ControlTypeOK'
      BY <1>21 DEF PublishFlushed, InsertChunk, ControlTypeOK, Labels
    <2>3. InsertTypeOK'
      BY <1>21 DEF PublishFlushed, InsertChunk, InsertTypeOK, ControlTypeOK
    <2> QED
      BY <2>1, <2>2, <2>3, <1>21 DEF PublishFlushed, InsertChunk, ReadTypeOK
  <1>22. ASSUME NEW t \in Threads, ReadChunks(t) PROVE TypeOK'
    <2>1. ControlTypeOK'
      BY <1>22 DEF ReadChunks, ControlTypeOK, Labels
    <2>2. InsertTypeOK'
      BY <1>22 DEF ReadChunks, InsertTypeOK, ControlTypeOK
    <2>3. ReadTypeOK'
      BY <1>22 DEF ReadChunks, ReadTypeOK, Of, StoresTypeOK
    <2> QED
      BY <2>1, <2>2, <2>3, <1>22 DEF ReadChunks, StoresTypeOK
  <1>23. ASSUME NEW t \in Threads, FindIndex(t) PROVE TypeOK'
    <2>1. ControlTypeOK'
      BY <1>23 DEF FindIndex, ControlTypeOK, Labels
    <2>2. InsertTypeOK'
      BY <1>23 DEF FindIndex, InsertTypeOK, ControlTypeOK
    <2> QED
      BY <2>1, <2>2, <1>23 DEF FindIndex, StoresTypeOK, ReadTypeOK
  <1>24. ASSUME NEW t \in Threads, ReadIndex(t) PROVE TypeOK'
    <2>1. ControlTypeOK'
      BY <1>24 DEF ReadIndex, ControlTypeOK, Labels
    <2>2. InsertTypeOK'
      BY <1>24 DEF ReadIndex, InsertTypeOK, ControlTypeOK
    <2>3. ReadTypeOK'
      BY <1>24 DEF ReadIndex, ReadTypeOK, Of, StoresTypeOK, Rows
    <2> QED
      BY <2>1, <2>2, <2>3, <1>24 DEF ReadIndex, StoresTypeOK
  <1>25. ASSUME NEW t \in Threads, FetchRow(t) PROVE TypeOK'
    <2>1. ReadTypeOK'
      BY <1>25 DEF FetchRow, ReadTypeOK, Of, StoresTypeOK
    <2> QED
      BY <2>1, <1>25 DEF FetchRow, StoresTypeOK, ControlTypeOK, InsertTypeOK
  <1>26. ASSUME NEW t \in Threads, FetchDone(t) PROVE TypeOK'
    <2>1. ControlTypeOK'
      BY <1>26 DEF FetchDone, ControlTypeOK, Labels
    <2>2. InsertTypeOK'
      BY <1>26 DEF FetchDone, InsertTypeOK, ControlTypeOK
    <2> QED
      BY <2>1, <2>2, <1>26 DEF FetchDone, StoresTypeOK, ReadTypeOK
  <1>27. ASSUME NEW t \in Threads, ScanAgain(t) PROVE TypeOK'
    <2>1. ControlTypeOK'
      BY <1>27, GetTableOK
         DEF ScanAgain, Return, ForgetRead, ControlTypeOK, Labels
    <2>2. InsertTypeOK'
      BY <1>27
         DEF ScanAgain, Return, ForgetRead, InsertTypeOK, ControlTypeOK
    <2>3. ReadTypeOK'
      BY <1>27 DEF ScanAgain, Return, ForgetRead, ReadTypeOK
    <2> QED
      BY <2>1, <2>2, <2>3, <1>27
         DEF ScanAgain, Return, ForgetRead, StoresTypeOK
  <1>28. ASSUME NEW t \in Threads, Scan(t) PROVE TypeOK'
    <2>1. ControlTypeOK'
      BY <1>28 DEF Scan, ControlTypeOK, Labels
    <2>2. InsertTypeOK'
      BY <1>28 DEF Scan, InsertTypeOK, ControlTypeOK
    <2>3. ReadTypeOK'
      BY <1>28 DEF Scan, ReadTypeOK, Of, StoresTypeOK
    <2> QED
      BY <2>1, <2>2, <2>3, <1>28 DEF Scan, StoresTypeOK
  <1>29. ASSUME NEW t \in Threads, Reply(t) PROVE TypeOK'
    <2>1. ControlTypeOK'
      BY <1>29 DEF Reply, Return, ForgetRead, ControlTypeOK, Labels
    <2>2. InsertTypeOK'
      BY <1>29 DEF Reply, Return, ForgetRead, InsertTypeOK, ControlTypeOK
    <2>3. ReadTypeOK'
      BY <1>29 DEF Reply, Return, ForgetRead, ReadTypeOK
    <2> QED
      BY <2>1, <2>2, <2>3, <1>29 DEF Reply, Return, ForgetRead, StoresTypeOK
  <1>30. CASE UNCHANGED vars
    BY <1>30 DEF vars, StoresTypeOK, ControlTypeOK, InsertTypeOK, ReadTypeOK
  <1> QED
    BY <1>1, <1>2, <1>3, <1>4, <1>5, <1>6, <1>7, <1>8, <1>9, <1>10, <1>11,
       <1>12, <1>13, <1>14, <1>15, <1>16, <1>17, <1>18, <1>19, <1>20, <1>21,
       <1>22, <1>23, <1>24, <1>25, <1>26, <1>27, <1>28, <1>29, <1>30
       DEF Next, Begin, Step

(* Every variable keeps to its type in every reachable state. *)
THEOREM TypeCorrect == Spec => []TypeOK
  BY TypeInit, TypeNext, PTL DEF Spec

-----------------------------------------------------------------------------
(* What storage keeps. *)

(* A session starts with empty stores and nothing under way. *)
LEMMA StorageInit == Init => StorageInvariant
  BY DEF Init, StorageInvariant, HeldRowIsNew, ColumnarRowsAreOld,
         TakenRowsAreOwned, ChunksAreOfOneTable, PushedRowsKept,
         ChunksGoAfterRows, ColumnarExactlyOnce, CommittedRowsKept,
         NoPhantomRows, IndexSound, Columnar, Chunked, Holds

(* A step that leaves the stores and the history alone, starts no critical *)
(* section that the invariant speaks of, and at most forgets rows.         *)
Quiet ==
    /\ UNCHANGED <<next_row_id, data, index, buffer, chunks, taken,
                   committed, cleared>>
    /\ \A u \in Threads :
          /\ Holds(u)' => Holds(u) /\ row'[u] = row[u] /\ meta'[u] = meta[u]
          /\ Publishes(u) \/ Publishes(u)' =>
                pc'[u] = pc[u] /\ row'[u] = row[u] /\ meta'[u] = meta[u]
          /\ pc'[u] = "drop_chunks" =>
                pc[u] = "drop_chunks" /\ meta'[u] = meta[u]
          /\ pushed'[u] \subseteq pushed[u]

(* Such a step keeps the storage invariant. *)
LEMMA QuietStep == StorageInvariant /\ Quiet => StorageInvariant'
  <1> SUFFICES ASSUME StorageInvariant, Quiet PROVE StorageInvariant'
    OBVIOUS
  <1>1. Columnar' = Columnar /\ Chunked' = Chunked
    BY DEF Quiet, Columnar, Chunked
  <1>2. \A r : Kept(r)' <=> Kept(r)
    BY <1>1 DEF Quiet, Kept
  <1>3. HeldRowIsNew' /\ ColumnarRowsAreOld' /\ NoPhantomRows'
    BY <1>1 DEF Quiet, StorageInvariant, HeldRowIsNew, ColumnarRowsAreOld,
                NoPhantomRows
  <1>4. TakenRowsAreOwned'
    BY DEF Quiet, StorageInvariant, TakenRowsAreOwned, Publishes
  <1>5. PushedRowsKept' /\ CommittedRowsKept'
    BY <1>2 DEF Quiet, StorageInvariant, PushedRowsKept, CommittedRowsKept
  <1>6. ColumnarExactlyOnce'
    BY <1>1 DEF Quiet, StorageInvariant, ColumnarExactlyOnce
  <1>7. ChunksAreOfOneTable' /\ ChunksGoAfterRows' /\ IndexSound'
    BY DEF Quiet, StorageInvariant, ChunksAreOfOneTable, ChunksGoAfterRows,
           IndexSound
  <1> QED
    BY <1>3, <1>4, <1>5, <1>6, <1>7 DEF StorageInvariant

(* The end of a row: nothing kept before is lost, and the row is kept.     *)
LEMMA RowDone ==
    ASSUME StorageInvariant, TypeOK, NEW t \in Threads, NextRow(t),
           \A r : Kept(r) => Kept(r)', \A r : r = row[t] => Kept(r)'
    PROVE  PushedRowsKept' /\ CommittedRowsKept'
  <1> USE DEF StorageInvariant, PushedRowsKept, CommittedRowsKept,
              TypeOK, InsertTypeOK
  <1>1. CASE values[t] # <<>>
    <2>1. /\ committed' = committed
          /\ \A u \in Threads : pushed'[u] \subseteq pushed[u] \cup {row[t]}
      BY <1>1 DEF NextRow
    <2> QED
      BY <2>1
  <1>2. CASE values[t] = <<>>
    BY <1>2 DEF NextRow, ForgetInsert
  <1> QED
    BY <1>1, <1>2

(* It leaves the control state of the other threads alone, and its own in  *)
(* none of the sections the invariant speaks of.                           *)
LEMMA RowDoneControl ==
    ASSUME TypeOK, NEW t \in Threads, NextRow(t)
    PROVE  /\ pc'[t] \in {"idle", "store_row"}
           /\ \A u \in Threads \ {t} :
                 pc'[u] = pc[u] /\ meta'[u] = meta[u] /\ row'[u] = row[u]
  BY DEF NextRow, ForgetInsert, Return, Goto, TypeOK, ControlTypeOK, InsertTypeOK

(* The rows a thread had taken become a chunk: none is lost or doubled.    *)
LEMMA ChunkInserted ==
    ASSUME StorageInvariant, TypeOK, NEW t \in Threads, Publishes(t),
           InsertChunk(t), buffer' = buffer
    PROVE  /\ Columnar' = Columnar
           /\ ColumnarExactlyOnce'
           /\ ChunksAreOfOneTable'
           /\ \A u \in Threads : taken'[u] = IF u = t THEN {} ELSE taken[u]
  <1>1. \A u \in Threads : taken'[u] = IF u = t THEN {} ELSE taken[u]
    BY DEF InsertChunk, TypeOK, InsertTypeOK
  <1>2. \A r : r \in Chunked' <=> r \in Chunked \/ r \in taken[t]
    <2> DEFINE chunk == [table |-> meta[t].id, rows |-> taken[t]]
    <2>1. chunks' = chunks \cup {chunk} /\ chunk.rows = taken[t]
      BY DEF InsertChunk
    <2> HIDE DEF chunk
    <2>2. /\ \A r : r \in Chunked' <=> \E c \in chunks' : r \in c.rows
          /\ \A r : r \in Chunked <=> \E c \in chunks : r \in c.rows
      BY DEF Chunked
    <2> QED
      BY <2>1, <2>2
  <1>3. \A r : r \in Columnar' <=> r \in Columnar
    <2>1. \A r : r \in UNION {taken'[u] : u \in Threads} <=>
                   \E u \in Threads \ {t} : r \in taken[u]
      BY <1>1
    <2>2. \A r : r \in UNION {taken[u] : u \in Threads} <=>
                   r \in taken[t] \/ \E u \in Threads \ {t} : r \in taken[u]
      OBVIOUS
    <2> QED
      BY <1>2, <2>1, <2>2 DEF Columnar
  <1>4. ChunksAreOfOneTable'
    BY DEF InsertChunk, StorageInvariant, ChunksAreOfOneTable, TakenRowsAreOwned
  <1>5. ColumnarExactlyOnce'
    <2>1. \A c \in chunks : c.rows \cap taken[t] = {}
      BY DEF StorageInvariant, ColumnarExactlyOnce, Chunked
    <2>2. \A c, d \in chunks' : c # d => c.rows \cap d.rows = {}
      BY <2>1 DEF InsertChunk, StorageInvariant, ColumnarExactlyOnce
    <2>3. buffer' \cap Chunked' = {}
      BY <1>2 DEF StorageInvariant, ColumnarExactlyOnce
    <2>4. \A u \in Threads : taken'[u] \cap (buffer' \cup Chunked') = {}
      BY <1>1, <1>2 DEF StorageInvariant, ColumnarExactlyOnce
    <2>5. \A u, v \in Threads : u # v => taken'[u] \cap taken'[v] = {}
      BY <1>1 DEF StorageInvariant, ColumnarExactlyOnce
    <2> QED
      BY <2>2, <2>3, <2>4, <2>5 DEF ColumnarExactlyOnce
  <1> QED
    BY <1>1, <1>3, <1>4, <1>5

(* Every step keeps the storage invariant. *)
LEMMA StorageNext == TypeOK /\ StorageInvariant /\ [Next]_vars => StorageInvariant'
  <1> SUFFICES ASSUME TypeOK, StorageInvariant, [Next]_vars
               PROVE  StorageInvariant'
    OBVIOUS
  <1> USE DEF Goto, shared, insert, read, history
  <1>1. ASSUME NEW t \in Threads, TableNotFound(t) PROVE Quiet
    BY <1>1
       DEF TableNotFound, vars, Quiet, Holds, Publishes, TypeOK,
           ControlTypeOK, InsertTypeOK
  <1>2. ASSUME NEW t \in Threads, CreateEntry(t) PROVE Quiet
    BY <1>2
       DEF CreateEntry, Quiet, Holds, Publishes, TypeOK, ControlTypeOK,
           InsertTypeOK
  <1>3. ASSUME NEW t \in Threads, BeginDrop(t) PROVE Quiet
    BY <1>3
       DEF BeginDrop, Resolve, Quiet, Holds, Publishes, TypeOK,
           ControlTypeOK, InsertTypeOK
  <1>4. ASSUME NEW t \in Threads, BeginInsert(t) PROVE Quiet
    BY <1>4
       DEF BeginInsert, Resolve, Quiet, Holds, Publishes, TypeOK,
           ControlTypeOK, InsertTypeOK
  <1>5. ASSUME NEW t \in Threads, BeginAggregate(t) PROVE Quiet
    BY <1>5
       DEF BeginAggregate, Resolve, Quiet, Holds, Publishes, TypeOK,
           ControlTypeOK, InsertTypeOK
  <1>6. ASSUME NEW t \in Threads, BeginScan(t) PROVE Quiet
    BY <1>6
       DEF BeginScan, Resolve, Quiet, Holds, Publishes, TypeOK,
           ControlTypeOK, InsertTypeOK
  <1>7. ASSUME NEW t \in Threads, BeginIdSelect(t) PROVE Quiet
    BY <1>7
       DEF BeginIdSelect, Resolve, Quiet, Holds, Publishes, TypeOK,
           ControlTypeOK, InsertTypeOK
  <1>8. ASSUME NEW t \in Threads, RegisterIndex(t) PROVE Quiet
    BY <1>8
       DEF RegisterIndex, Return, Quiet, Holds, Publishes, TypeOK,
           ControlTypeOK, InsertTypeOK
  <1>9. ASSUME NEW t \in Threads, DropIndex(t) PROVE Quiet
    BY <1>9
       DEF DropIndex, Quiet, Holds, Publishes, TypeOK, ControlTypeOK,
           InsertTypeOK
  <1>10. ASSUME NEW t \in Threads, DropEntry(t) PROVE Quiet
    BY <1>10
       DEF DropEntry, Return, Quiet, Holds, Publishes, TypeOK,
           ControlTypeOK, InsertTypeOK
  <1>11. ASSUME NEW t \in Threads, GetIndex(t) PROVE Quiet
    BY <1>11
       DEF GetIndex, Quiet, Holds, Publishes, TypeOK, ControlTypeOK,
           InsertTypeOK
  <1>12. ASSUME NEW t \in Threads, RefuseKey(t) PROVE Quiet
    BY <1>12
       DEF RefuseKey, Return, ForgetInsert, Quiet, Holds, Publishes, TypeOK,
           ControlTypeOK, InsertTypeOK
  <1>13. ASSUME NEW t \in Threads, ReadChunks(t) PROVE Quiet
    BY <1>13
       DEF ReadChunks, Quiet, Holds, Publishes, TypeOK, ControlTypeOK,
           InsertTypeOK
  <1>14. ASSUME NEW t \in Threads, FindIndex(t) PROVE Quiet
    BY <1>14
       DEF FindIndex, Quiet, Holds, Publishes, TypeOK, ControlTypeOK,
           InsertTypeOK
  <1>15. ASSUME NEW t \in Threads, ReadIndex(t) PROVE Quiet
    BY <1>15
       DEF ReadIndex, Quiet, Holds, Publishes, TypeOK, ControlTypeOK,
           InsertTypeOK
  <1>16. ASSUME NEW t \in Threads, FetchRow(t) PROVE Quiet
    BY <1>16
       DEF FetchRow, Quiet, Holds, Publishes, TypeOK, ControlTypeOK,
           InsertTypeOK
  <1>17. ASSUME NEW t \in Threads, FetchDone(t) PROVE Quiet
    BY <1>17
       DEF FetchDone, Quiet, Holds, Publishes, TypeOK, ControlTypeOK,
           InsertTypeOK
  <1>18. ASSUME NEW t \in Threads, ScanAgain(t) PROVE Quiet
    BY <1>18
       DEF ScanAgain, Return, Quiet, Holds, Publishes, TypeOK,
           ControlTypeOK, InsertTypeOK
  <1>19. ASSUME NEW t \in Threads, Scan(t) PROVE Quiet
    BY <1>19
       DEF Scan, Quiet, Holds, Publishes, TypeOK, ControlTypeOK,
           InsertTypeOK
  <1>20. ASSUME NEW t \in Threads, Reply(t) PROVE Quiet
    BY <1>20
       DEF Reply, Return, Quiet, Holds, Publishes, TypeOK, ControlTypeOK,
           InsertTypeOK
  <1>21. ASSUME NEW t \in Threads, DropRows(t) PROVE StorageInvariant'
    <2> USE <1>21 DEF DropRows, Of
    <2>1. Columnar' = Columnar /\ Chunked' = Chunked
      BY DEF Columnar, Chunked
    <2>2. \A r : Kept(r) => Kept(r)'
      BY <2>1 DEF Kept
    <2>3. \A u \in Threads : /\ Holds(u)' => Holds(u)
                             /\ Publishes(u)' <=> Publishes(u)
                             /\ u # t => pc'[u] = pc[u]
      BY DEF Holds, Publishes, TypeOK, ControlTypeOK
    <2>4. HeldRowIsNew' /\ ColumnarRowsAreOld' /\ NoPhantomRows'
      BY <2>1, <2>3 DEF StorageInvariant, HeldRowIsNew, ColumnarRowsAreOld,
                        NoPhantomRows
    <2>5. TakenRowsAreOwned'
      BY <2>3 DEF StorageInvariant, TakenRowsAreOwned, Publishes, TypeOK,
                  ControlTypeOK
    <2>6. ColumnarExactlyOnce' /\ ChunksAreOfOneTable' /\ IndexSound'
      BY <2>1 DEF StorageInvariant, ColumnarExactlyOnce, ChunksAreOfOneTable,
                  IndexSound
    <2>7. PushedRowsKept' /\ CommittedRowsKept' /\ ChunksGoAfterRows'
      BY <2>2, <2>3 DEF StorageInvariant, PushedRowsKept, CommittedRowsKept,
                        ChunksGoAfterRows, TypeOK, ControlTypeOK
    <2> QED
      BY <2>4, <2>5, <2>6, <2>7 DEF StorageInvariant
  <1>22. ASSUME NEW t \in Threads, DropChunks(t) PROVE StorageInvariant'
    <2> USE <1>22 DEF DropChunks, Of
    <2>1. meta[t].id \in cleared
      BY DEF StorageInvariant, ChunksGoAfterRows
    <2>2. Chunked' \subseteq Chunked /\ Columnar' \subseteq Columnar
      BY DEF Columnar, Chunked
    <2>3. \A r \in Columnar \ Columnar' : r.table \in cleared
      BY <2>1 DEF Columnar, Chunked, StorageInvariant, ChunksAreOfOneTable
    <2>4. \A r : Kept(r) => Kept(r)'
      BY <2>3 DEF Kept
    <2>5. \A u \in Threads : /\ Holds(u)' => Holds(u)
                             /\ Publishes(u)' <=> Publishes(u)
                             /\ u # t => pc'[u] = pc[u]
      BY DEF Holds, Publishes, TypeOK, ControlTypeOK
    <2>6. HeldRowIsNew' /\ ColumnarRowsAreOld' /\ NoPhantomRows'
      BY <2>2, <2>5 DEF StorageInvariant, HeldRowIsNew, ColumnarRowsAreOld,
                        NoPhantomRows
    <2>7. TakenRowsAreOwned'
      BY <2>5 DEF StorageInvariant, TakenRowsAreOwned, Publishes, TypeOK,
                  ControlTypeOK
    <2>8. ColumnarExactlyOnce' /\ ChunksAreOfOneTable' /\ IndexSound'
      BY <2>2 DEF StorageInvariant, ColumnarExactlyOnce, ChunksAreOfOneTable,
                  IndexSound
    <2>9. PushedRowsKept' /\ CommittedRowsKept' /\ ChunksGoAfterRows'
      BY <2>4, <2>5 DEF StorageInvariant, PushedRowsKept, CommittedRowsKept,
                        ChunksGoAfterRows, TypeOK, ControlTypeOK
    <2> QED
      BY <2>6, <2>7, <2>8, <2>9 DEF StorageInvariant
  <1>23. ASSUME NEW t \in Threads, StoreRow(t) PROVE StorageInvariant'
    <2> DEFINE new == [table |-> meta[t].id, id |-> next_row_id,
                       key |-> Head(values[t])]
    <2>1. /\ data' = data \cup {new} /\ row' = [row EXCEPT ![t] = new]
          /\ new.table = meta[t].id /\ new.id = next_row_id
          /\ pc[t] = "store_row" /\ pc' = [pc EXCEPT ![t] = "get_index"]
          /\ next_row_id' = next_row_id + 1
      BY <1>23 DEF StoreRow
    <2> HIDE DEF new
    <2> USE <1>23 DEF StoreRow
    <2>2. next_row_id \in Nat
      BY DEF TypeOK, StoresTypeOK
    <2>3. Columnar' = Columnar /\ Chunked' = Chunked
      BY DEF Columnar, Chunked
    <2>4. \A r : Kept(r) => Kept(r)'
      BY <2>1, <2>3 DEF Kept
    <2>5. \A u \in Threads : /\ Holds(u)' <=> u = t \/ Holds(u)
                             /\ Publishes(u)' <=> Publishes(u)
                             /\ u # t => pc'[u] = pc[u] /\ row'[u] = row[u]
      BY <2>1 DEF Holds, Publishes, TypeOK, ControlTypeOK, InsertTypeOK
    <2>6. new \notin Columnar
      BY <2>1, <2>2 DEF StorageInvariant, ColumnarRowsAreOld
    <2>7. row'[t] = new /\ ~ Holds(t)
      BY <2>1 DEF TypeOK, InsertTypeOK, Holds
    <2>8. ColumnarRowsAreOld' /\ NoPhantomRows' /\ IndexSound'
      <3>1. \A r \in Columnar : r.id \in Nat
        BY DEF Columnar, Chunked, TypeOK, StoresTypeOK, InsertTypeOK, Rows
      <3> QED
        BY <2>1, <2>2, <2>3, <3>1
           DEF StorageInvariant, ColumnarRowsAreOld, NoPhantomRows, IndexSound
    <2>9. HeldRowIsNew'
      <3> SUFFICES ASSUME NEW u \in Threads, Holds(u)'
                   PROVE  /\ row'[u].table = meta'[u].id
                          /\ row'[u].id < next_row_id'
                          /\ row'[u] \notin Columnar'
                          /\ row'[u].table \in cleared' \/ row'[u] \in data'
                          /\ \A v \in Threads \ {u} :
                                Holds(v)' => row'[v] # row'[u]
        BY DEF HeldRowIsNew
      <3>1. \A v \in Threads : Holds(v) => /\ row[v].table = meta[v].id
                                           /\ row[v].id < next_row_id
                                           /\ row[v] \notin Columnar
                                           /\ row[v].table \in cleared
                                              \/ row[v] \in data
                                           /\ row[v] # new
        BY <2>1, <2>2 DEF StorageInvariant, HeldRowIsNew
      <3>2. \A v \in Threads : row[v].id \in Nat
        BY DEF TypeOK, InsertTypeOK, Rows
      <3>3. CASE u = t
        BY <2>1, <2>2, <2>3, <2>5, <2>6, <2>7, <3>1, <3>3
      <3>4. CASE u # t
        <4>1. Holds(u) /\ row'[u] = row[u]
          BY <2>5, <3>4
        <4>2. \A v \in Threads \ {u} : Holds(v)' => row'[v] # row'[u]
          BY <2>5, <2>7, <3>1, <4>1 DEF StorageInvariant, HeldRowIsNew
        <4> QED
          BY <2>1, <2>2, <2>3, <3>1, <3>2, <4>1, <4>2
      <3> QED
        BY <3>3, <3>4
    <2>10. TakenRowsAreOwned'
      BY <2>1, <2>5 DEF StorageInvariant, TakenRowsAreOwned, Publishes, TypeOK,
                        ControlTypeOK
    <2>11. ColumnarExactlyOnce' /\ ChunksAreOfOneTable'
      BY <2>3 DEF StorageInvariant, ColumnarExactlyOnce, ChunksAreOfOneTable
    <2>12. PushedRowsKept' /\ CommittedRowsKept' /\ ChunksGoAfterRows'
      BY <2>1, <2>4, <2>5
         DEF StorageInvariant, PushedRowsKept, CommittedRowsKept,
             ChunksGoAfterRows, TypeOK, ControlTypeOK
    <2> QED
      BY <2>8, <2>9, <2>10, <2>11, <2>12 DEF StorageInvariant
  <1>24. ASSUME NEW t \in Threads, IndexRow(t) PROVE StorageInvariant'
    <2> USE <1>24 DEF IndexRow
    <2>1. Columnar' = Columnar /\ Chunked' = Chunked
      BY DEF Columnar, Chunked
    <2>2. \A r : Kept(r) => Kept(r)'
      BY <2>1 DEF Kept
    <2>3. \A u \in Threads : /\ Holds(u)' <=> Holds(u)
                             /\ Publishes(u)' <=> Publishes(u)
                             /\ u # t => pc'[u] = pc[u]
      BY DEF Holds, Publishes, TypeOK, ControlTypeOK
    <2>4. HeldRowIsNew' /\ ColumnarRowsAreOld' /\ NoPhantomRows'
      BY <2>1, <2>3 DEF StorageInvariant, HeldRowIsNew, ColumnarRowsAreOld,
                        NoPhantomRows
    <2>5. IndexSound'
      BY DEF StorageInvariant, HeldRowIsNew, Holds, IndexSound
    <2>6. TakenRowsAreOwned'
      BY <2>3 DEF StorageInvariant, TakenRowsAreOwned, Publishes, TypeOK,
                  ControlTypeOK
    <2>7. ColumnarExactlyOnce' /\ ChunksAreOfOneTable'
      BY <2>1 DEF StorageInvariant, ColumnarExactlyOnce, ChunksAreOfOneTable
    <2>8. PushedRowsKept' /\ CommittedRowsKept' /\ ChunksGoAfterRows'
      BY <2>2, <2>3 DEF StorageInvariant, PushedRowsKept, CommittedRowsKept,
                        ChunksGoAfterRows, TypeOK, ControlTypeOK
    <2> QED
      BY <2>4, <2>5, <2>6, <2>7, <2>8 DEF StorageInvariant
  <1>25. ASSUME NEW t \in Threads, PushRow(t) PROVE StorageInvariant'
    <2> USE <1>25 DEF PushRow
    <2>1. NextRow(t) /\ pc[t] = "push_row" /\ Holds(t) /\ ~ Publishes(t)
      BY DEF Holds, Publishes
    <2>2. Columnar' = Columnar \cup {row[t]} /\ Chunked' = Chunked
      BY DEF Columnar, Chunked
    <2>3. /\ row[t] \notin Columnar
          /\ row[t].table \in cleared \/ row[t] \in data
          /\ row[t].id < next_row_id
      BY <2>1 DEF StorageInvariant, HeldRowIsNew
    <2>4. /\ \A r : Kept(r) => Kept(r)'
          /\ \A r : r = row[t] => Kept(r)'
      BY <2>2, <2>3 DEF Kept
    <2>5. PushedRowsKept' /\ CommittedRowsKept'
      BY <2>1, <2>4, RowDone
    <2>6. \A u \in Threads :
             /\ Holds(u)' => /\ u # t /\ Holds(u)
                             /\ row'[u] = row[u] /\ meta'[u] = meta[u]
             /\ Publishes(u) \/ Publishes(u)' =>
                   /\ pc'[u] = pc[u]
                   /\ row'[u] = row[u] /\ meta'[u] = meta[u]
             /\ pc'[u] = "drop_chunks" =>
                   pc[u] = "drop_chunks" /\ meta'[u] = meta[u]
      BY <2>1, RowDoneControl DEF Holds, Publishes
    <2>7. HeldRowIsNew' /\ ColumnarRowsAreOld' /\ NoPhantomRows'
      BY <2>1, <2>2, <2>3, <2>6
         DEF StorageInvariant, HeldRowIsNew, ColumnarRowsAreOld, NoPhantomRows
    <2>8. TakenRowsAreOwned'
      BY <2>6 DEF StorageInvariant, TakenRowsAreOwned, Publishes
    <2>9. ColumnarExactlyOnce'
      BY <2>2, <2>3
         DEF StorageInvariant, ColumnarExactlyOnce, Columnar
    <2>10. ChunksAreOfOneTable' /\ ChunksGoAfterRows' /\ IndexSound'
      BY <2>6 DEF StorageInvariant, ChunksAreOfOneTable, ChunksGoAfterRows,
                  IndexSound
    <2> QED
      BY <2>5, <2>7, <2>8, <2>9, <2>10 DEF StorageInvariant
  <1>26. ASSUME NEW t \in Threads, PushRowAndTake(t) PROVE StorageInvariant'
    <2> USE <1>26 DEF PushRowAndTake
    <2>1. Holds(t) /\ ~ Publishes(t) /\ taken[t] = {}
      BY DEF Holds, Publishes, StorageInvariant, TakenRowsAreOwned
    <2>2. \A u \in Threads : taken'[u] =
             IF u = t THEN Of(buffer, meta[t].id) \cup {row[t]} ELSE taken[u]
      BY DEF TypeOK, InsertTypeOK
    <2>3. Columnar' = Columnar \cup {row[t]} /\ Chunked' = Chunked
      <3>1. \A r : r \in UNION {taken'[u] : u \in Threads} <=>
                     \/ r \in Of(buffer, meta[t].id) \cup {row[t]}
                     \/ \E u \in Threads \ {t} : r \in taken[u]
        BY <2>2
      <3>2. \A r : r \in UNION {taken[u] : u \in Threads} <=>
                     \E u \in Threads \ {t} : r \in taken[u]
        BY <2>1
      <3>3. \A r : r \in Columnar' <=> r \in Columnar \cup {row[t]}
        BY <3>1, <3>2 DEF Columnar, Chunked, Of
      <3> QED
        BY <3>3 DEF Chunked
    <2>4. /\ row[t] \notin Columnar
          /\ row[t].table \in cleared \/ row[t] \in data
          /\ row[t].id < next_row_id
          /\ row[t].table = meta[t].id
      BY <2>1 DEF StorageInvariant, HeldRowIsNew
    <2>5. \A r : Kept(r) => Kept(r)'
      BY <2>3 DEF Kept
    <2>6. \A u \in Threads : /\ Holds(u)' => Holds(u) /\ u # t
                             /\ Publishes(u)' <=> u = t \/ Publishes(u)
                             /\ u # t => pc'[u] = pc[u]
                             /\ pc'[t] = "publish_full"
      BY DEF Holds, Publishes, TypeOK, ControlTypeOK
    <2>7. HeldRowIsNew' /\ ColumnarRowsAreOld' /\ NoPhantomRows'
      BY <2>1, <2>3, <2>4, <2>6
         DEF StorageInvariant, HeldRowIsNew, ColumnarRowsAreOld, NoPhantomRows
    <2>8. TakenRowsAreOwned'
      <3>1. \A r \in taken'[t] : r.table = meta'[t].id
        <4>1. taken'[t] = Of(buffer, meta[t].id) \cup {row[t]} /\ meta' = meta
          BY <2>2
        <4>2. \A r \in Of(buffer, meta[t].id) : r.table = meta[t].id
          BY DEF Of
        <4> QED
          BY <2>4, <4>1, <4>2
      <3>2. \A u \in Threads : pc'[u] = "publish_full" => row'[u] \in taken'[u]
        BY <2>2, <2>6 DEF StorageInvariant, TakenRowsAreOwned
      <3>3. \A u \in Threads \ {t} : /\ taken'[u] # {} => Publishes(u)'
                                     /\ \A r \in taken'[u] : r.table = meta'[u].id
        BY <2>2, <2>6 DEF StorageInvariant, TakenRowsAreOwned
      <3> QED
        BY <2>6, <3>1, <3>2, <3>3 DEF TakenRowsAreOwned
    <2>9. ColumnarExactlyOnce'
      BY <2>2, <2>3, <2>4
         DEF StorageInvariant, ColumnarExactlyOnce, Columnar, Of
    <2>10. PushedRowsKept' /\ CommittedRowsKept' /\ ChunksGoAfterRows'
      BY <2>5, <2>6 DEF StorageInvariant, PushedRowsKept, CommittedRowsKept,
                        ChunksGoAfterRows
    <2>11. ChunksAreOfOneTable' /\ IndexSound'
      BY DEF StorageInvariant, ChunksAreOfOneTable, IndexSound
    <2> QED
      BY <2>7, <2>8, <2>9, <2>10, <2>11 DEF StorageInvariant
  <1>27. ASSUME NEW t \in Threads, FlushBuffer(t) PROVE StorageInvariant'
    <2> USE <1>27 DEF FlushBuffer
    <2>1. ~ Publishes(t) /\ taken[t] = {}
      BY DEF Publishes, StorageInvariant, TakenRowsAreOwned
    <2>2. \A u \in Threads : taken'[u] =
             IF u = t THEN Of(buffer, meta[t].id) ELSE taken[u]
      BY DEF TypeOK, InsertTypeOK
    <2>3. Columnar' = Columnar /\ Chunked' = Chunked
      <3>1. \A r : r \in UNION {taken'[u] : u \in Threads} <=>
                     \/ r \in Of(buffer, meta[t].id)
                     \/ \E u \in Threads \ {t} : r \in taken[u]
        BY <2>2
      <3>2. \A r : r \in UNION {taken[u] : u \in Threads} <=>
                     \E u \in Threads \ {t} : r \in taken[u]
        BY <2>1
      <3>3. \A r : r \in Columnar' <=> r \in Columnar
        BY <3>1, <3>2 DEF Columnar, Chunked, Of
      <3> QED
        BY <3>3 DEF Chunked
    <2>4. \A r : Kept(r)' <=> Kept(r)
      BY <2>3 DEF Kept
    <2>5. \A u \in Threads : /\ Holds(u)' => Holds(u)
                             /\ u # t => pc'[u] = pc[u]
      BY DEF Holds, TypeOK, ControlTypeOK
    <2>6. pc'[t] = IF Of(buffer, meta[t].id) = {} THEN "read_chunks"
                                                  ELSE "publish_flushed"
      BY DEF TypeOK, ControlTypeOK
    <2>7. HeldRowIsNew' /\ ColumnarRowsAreOld' /\ NoPhantomRows'
      BY <2>3, <2>5 DEF StorageInvariant, HeldRowIsNew, ColumnarRowsAreOld,
                        NoPhantomRows
    <2>8. TakenRowsAreOwned'
      BY <2>2, <2>5, <2>6
         DEF StorageInvariant, TakenRowsAreOwned, Publishes, Of
    <2>9. ColumnarExactlyOnce'
      BY <2>2, <2>3 DEF StorageInvariant, ColumnarExactlyOnce, Of
    <2>10. PushedRowsKept' /\ CommittedRowsKept' /\ ChunksGoAfterRows'
      BY <2>4, <2>5, <2>6
         DEF StorageInvariant, PushedRowsKept, CommittedRowsKept,
             ChunksGoAfterRows
    <2>11. ChunksAreOfOneTable' /\ IndexSound'
      BY DEF StorageInvariant, ChunksAreOfOneTable, IndexSound
    <2> QED
      BY <2>7, <2>8, <2>9, <2>10, <2>11 DEF StorageInvariant
  <1>28. ASSUME NEW t \in Threads, PublishFull(t) PROVE StorageInvariant'
    <2> USE <1>28 DEF PublishFull
    <2>1. /\ NextRow(t) /\ InsertChunk(t)
          /\ pc[t] = "publish_full" /\ Publishes(t) /\ ~ Holds(t)
      BY DEF Holds, Publishes
    <2>2. /\ Columnar' = Columnar /\ ColumnarExactlyOnce' /\ ChunksAreOfOneTable'
          /\ \A u \in Threads : taken'[u] = IF u = t THEN {} ELSE taken[u]
      BY <2>1, ChunkInserted
    <2>3. row[t] \in Columnar /\ (row[t].table \in cleared \/ row[t] \in data)
      BY <2>1 DEF StorageInvariant, TakenRowsAreOwned, NoPhantomRows, Columnar
    <2>4. /\ \A r : Kept(r) => Kept(r)'
          /\ \A r : r = row[t] => Kept(r)'
      BY <2>2, <2>3 DEF Kept
    <2>5. PushedRowsKept' /\ CommittedRowsKept'
      BY <2>1, <2>4, RowDone
    <2>6. \A u \in Threads :
             /\ Holds(u)' => /\ u # t /\ Holds(u)
                             /\ row'[u] = row[u] /\ meta'[u] = meta[u]
             /\ u # t => /\ pc'[u] = pc[u]
                         /\ row'[u] = row[u] /\ meta'[u] = meta[u]
             /\ pc'[t] # "publish_full" /\ pc'[t] # "drop_chunks"
      BY <2>1, RowDoneControl DEF Holds
    <2>7. HeldRowIsNew' /\ ColumnarRowsAreOld' /\ NoPhantomRows'
      BY <2>2, <2>6
         DEF StorageInvariant, HeldRowIsNew, ColumnarRowsAreOld, NoPhantomRows
    <2>8. TakenRowsAreOwned'
      BY <2>2, <2>6 DEF StorageInvariant, TakenRowsAreOwned, Publishes
    <2>9. ChunksGoAfterRows' /\ IndexSound'
      BY <2>6 DEF StorageInvariant, ChunksGoAfterRows, IndexSound
    <2> QED
      BY <2>2, <2>5, <2>7, <2>8, <2>9 DEF StorageInvariant
  <1>29. ASSUME NEW t \in Threads, PublishFlushed(t) PROVE StorageInvariant'
    <2> USE <1>29 DEF PublishFlushed
    <2>1. InsertChunk(t) /\ Publishes(t) /\ ~ Holds(t)
      BY DEF Holds, Publishes
    <2>2. /\ Columnar' = Columnar /\ ColumnarExactlyOnce' /\ ChunksAreOfOneTable'
          /\ \A u \in Threads : taken'[u] = IF u = t THEN {} ELSE taken[u]
      BY <2>1, ChunkInserted
    <2>3. \A r : Kept(r)' <=> Kept(r)
      BY <2>2 DEF Kept
    <2>4. \A u \in Threads : /\ Holds(u)' => Holds(u) /\ u # t
                             /\ u # t => pc'[u] = pc[u]
                             /\ pc'[t] = "read_chunks"
      BY DEF Holds, TypeOK, ControlTypeOK
    <2>5. HeldRowIsNew' /\ ColumnarRowsAreOld' /\ NoPhantomRows'
      BY <2>2, <2>4
         DEF StorageInvariant, HeldRowIsNew, ColumnarRowsAreOld, NoPhantomRows
    <2>6. TakenRowsAreOwned'
      BY <2>2, <2>4 DEF StorageInvariant, TakenRowsAreOwned, Publishes
    <2>7. PushedRowsKept' /\ CommittedRowsKept' /\ ChunksGoAfterRows'
      BY <2>3, <2>4 DEF StorageInvariant, PushedRowsKept, CommittedRowsKept,
                        ChunksGoAfterRows
    <2>8. IndexSound'
      BY DEF StorageInvariant, IndexSound
    <2> QED
      BY <2>2, <2>5, <2>6, <2>7, <2>8 DEF StorageInvariant
  <1>30. CASE UNCHANGED vars
    <2>1. Quiet
      BY <1>30 DEF vars, Quiet, Holds, Publishes
    <2> QED
      BY <2>1, QuietStep
  <1> QED
    BY <1>1, <1>2, <1>3, <1>4, <1>5, <1>6, <1>7, <1>8, <1>9, <1>10, <1>11,
       <1>12, <1>13, <1>14, <1>15, <1>16, <1>17, <1>18, <1>19, <1>20, <1>21,
       <1>22, <1>23, <1>24, <1>25, <1>26, <1>27, <1>28, <1>29, <1>30,
       QuietStep
       DEF Next, Begin, Step

(* Rows reach the columnar side exactly once, whatever the interleaving.   *)
THEOREM StorageCorrect == Spec => []StorageInvariant
  <1>1. TypeOK /\ StorageInvariant /\ [Next]_vars => (TypeOK /\ StorageInvariant)'
    BY TypeNext, StorageNext
  <1> QED
    BY <1>1, TypeInit, StorageInit, PTL DEF Spec

(* No row is ever counted twice: in no reachable state is a row in two of  *)
(* the buffer, the hands of a flushing thread and the chunks.              *)
THEOREM ExactlyOnce == Spec => []ColumnarExactlyOnce
  BY StorageCorrect, PTL DEF StorageInvariant

(* A row of an INSERT that returned Ok stays in the row store and on the   *)
(* columnar side until a DROP TABLE of its table.                          *)
THEOREM CommittedKept == Spec => []CommittedRowsKept
  BY StorageCorrect, PTL DEF StorageInvariant

(* An aggregate never counts a row that a scan could not have returned.    *)
THEOREM NoPhantom == Spec => []NoPhantomRows
  BY StorageCorrect, PTL DEF StorageInvariant

(* An index leads to stored rows with the key it has them under, until the *)
(* rows of the table are dropped.                                          *)
THEOREM IndexesSound == Spec => []IndexSound
  BY StorageCorrect, PTL DEF StorageInvariant

-----------------------------------------------------------------------------
(* How large the buffer and the chunks get. *)

(* A session starts with an empty buffer and no chunk. *)
LEMMA BufferInit == Init => BufferInvariant
  BY FS_EmptySet
     DEF Init, BufferInvariant, BufferBelowLimit, TakenBelowLimit, Publishes

(* A step that adds nothing to the buffer, to the chunks or to what a      *)
(* thread has taken.                                                       *)
AddsNothing ==
    /\ buffer' = buffer /\ chunks' \subseteq chunks
    /\ \A u \in Threads : Publishes(u)' => Publishes(u) /\ taken'[u] = taken[u]

(* The rows of one table in a finite buffer, and one more.                 *)
LEMMA OneRowMore ==
    ASSUME BufferInvariant, NEW table, NEW r
    PROVE  LET rows == Of(buffer, table)
           IN  /\ IsFiniteSet(rows) /\ Cardinality(rows) < ChunkSize
               /\ Cardinality(rows) <= ChunkSize
               /\ IsFiniteSet(rows \cup {r}) /\ Cardinality(rows \cup {r}) <= ChunkSize
               /\ Cardinality(rows) + 1 < ChunkSize => Cardinality(rows \cup {r}) < ChunkSize
  <1> DEFINE rows == Of(buffer, table)
  <1>1. IsFiniteSet(rows)
    BY FS_Subset DEF BufferInvariant, Of
  <1>2. Cardinality(rows) \in Nat /\ Cardinality(rows) < ChunkSize
    <2>1. Cardinality(rows) \in Nat
      BY <1>1, FS_CardinalityType
    <2>2. CASE rows = {}
      BY <2>2, FS_EmptySet, ChunkSizeAssumption
    <2>3. CASE rows # {}
      <3>1. PICK s \in buffer : s.table = table
        BY <2>3 DEF Of
      <3> QED
        BY <2>1, <3>1 DEF BufferInvariant, BufferBelowLimit
    <2> QED
      BY <2>1, <2>2, <2>3
  <1>3. /\ IsFiniteSet(rows \cup {r})
        /\ \/ Cardinality(rows \cup {r}) = Cardinality(rows)
           \/ Cardinality(rows \cup {r}) = Cardinality(rows) + 1
    BY <1>1, FS_AddElement
  <1> HIDE DEF rows
  <1>4. /\ Cardinality(rows) <= ChunkSize
        /\ Cardinality(rows \cup {r}) <= ChunkSize
        /\ Cardinality(rows) + 1 < ChunkSize => Cardinality(rows \cup {r}) < ChunkSize
    BY <1>2, <1>3, ChunkSizeAssumption
  <1> QED
    BY <1>1, <1>2, <1>3, <1>4 DEF rows

(* Every step keeps the buffer and the chunks within their sizes.          *)
LEMMA BufferNext ==
    TypeOK /\ StorageInvariant /\ BufferInvariant /\ [Next]_vars => BufferInvariant'
  <1> SUFFICES ASSUME TypeOK, StorageInvariant, BufferInvariant, [Next]_vars
               PROVE  BufferInvariant'
    OBVIOUS
  <1> USE DEF Goto, shared, insert, read, history
  <1>1. AddsNothing => BufferInvariant'
    BY DEF AddsNothing, BufferInvariant, BufferBelowLimit, TakenBelowLimit
  <1>2. ASSUME NEW t \in Threads, TableNotFound(t) PROVE AddsNothing
    BY <1>2 DEF TableNotFound, vars, AddsNothing, Publishes, TypeOK, ControlTypeOK
  <1>3. ASSUME NEW t \in Threads, CreateEntry(t) PROVE AddsNothing
    BY <1>3 DEF CreateEntry, AddsNothing, Publishes, TypeOK, ControlTypeOK
  <1>4. ASSUME NEW t \in Threads, RegisterIndex(t) PROVE AddsNothing
    BY <1>4 DEF RegisterIndex, Return, AddsNothing, Publishes, TypeOK, ControlTypeOK
  <1>5. ASSUME NEW t \in Threads, BeginDrop(t) PROVE AddsNothing
    BY <1>5 DEF BeginDrop, Resolve, AddsNothing, Publishes, TypeOK, ControlTypeOK
  <1>6. ASSUME NEW t \in Threads, DropRows(t) PROVE AddsNothing
    BY <1>6 DEF DropRows, AddsNothing, Publishes, TypeOK, ControlTypeOK
  <1>7. ASSUME NEW t \in Threads, DropChunks(t) PROVE AddsNothing
    BY <1>7 DEF DropChunks, AddsNothing, Publishes, TypeOK, ControlTypeOK
  <1>8. ASSUME NEW t \in Threads, DropIndex(t) PROVE AddsNothing
    BY <1>8 DEF DropIndex, AddsNothing, Publishes, TypeOK, ControlTypeOK
  <1>9. ASSUME NEW t \in Threads, DropEntry(t) PROVE AddsNothing
    BY <1>9 DEF DropEntry, Return, AddsNothing, Publishes, TypeOK, ControlTypeOK
  <1>10. ASSUME NEW t \in Threads, BeginInsert(t) PROVE AddsNothing
    BY <1>10 DEF BeginInsert, Resolve, AddsNothing, Publishes, TypeOK, ControlTypeOK
  <1>11. ASSUME NEW t \in Threads, StoreRow(t) PROVE AddsNothing
    BY <1>11 DEF StoreRow, AddsNothing, Publishes, TypeOK, ControlTypeOK
  <1>12. ASSUME NEW t \in Threads, GetIndex(t) PROVE AddsNothing
    BY <1>12 DEF GetIndex, AddsNothing, Publishes, TypeOK, ControlTypeOK
  <1>13. ASSUME NEW t \in Threads, IndexRow(t) PROVE AddsNothing
    BY <1>13 DEF IndexRow, AddsNothing, Publishes, TypeOK, ControlTypeOK
  <1>14. ASSUME NEW t \in Threads, RefuseKey(t) PROVE AddsNothing
    BY <1>14 DEF RefuseKey, Return, ForgetInsert, AddsNothing, Publishes, TypeOK, ControlTypeOK
  <1>15. ASSUME NEW t \in Threads, BeginAggregate(t) PROVE AddsNothing
    BY <1>15 DEF BeginAggregate, Resolve, AddsNothing, Publishes, TypeOK, ControlTypeOK
  <1>16. ASSUME NEW t \in Threads, BeginScan(t) PROVE AddsNothing
    BY <1>16 DEF BeginScan, Resolve, AddsNothing, Publishes, TypeOK, ControlTypeOK
  <1>17. ASSUME NEW t \in Threads, BeginIdSelect(t) PROVE AddsNothing
    BY <1>17 DEF BeginIdSelect, Resolve, AddsNothing, Publishes, TypeOK, ControlTypeOK
  <1>18. ASSUME NEW t \in Threads, ReadChunks(t) PROVE AddsNothing
    BY <1>18 DEF ReadChunks, AddsNothing, Publishes, TypeOK, ControlTypeOK
  <1>19. ASSUME NEW t \in Threads, FindIndex(t) PROVE AddsNothing
    BY <1>19 DEF FindIndex, AddsNothing, Publishes, TypeOK, ControlTypeOK
  <1>20. ASSUME NEW t \in Threads, ReadIndex(t) PROVE AddsNothing
    BY <1>20 DEF ReadIndex, AddsNothing, Publishes, TypeOK, ControlTypeOK
  <1>21. ASSUME NEW t \in Threads, FetchRow(t) PROVE AddsNothing
    BY <1>21 DEF FetchRow, AddsNothing, Publishes, TypeOK, ControlTypeOK
  <1>22. ASSUME NEW t \in Threads, FetchDone(t) PROVE AddsNothing
    BY <1>22 DEF FetchDone, AddsNothing, Publishes, TypeOK, ControlTypeOK
  <1>23. ASSUME NEW t \in Threads, ScanAgain(t) PROVE AddsNothing
    BY <1>23 DEF ScanAgain, Return, AddsNothing, Publishes, TypeOK, ControlTypeOK
  <1>24. ASSUME NEW t \in Threads, Scan(t) PROVE AddsNothing
    BY <1>24 DEF Scan, AddsNothing, Publishes, TypeOK, ControlTypeOK
  <1>25. ASSUME NEW t \in Threads, Reply(t) PROVE AddsNothing
    BY <1>25 DEF Reply, Return, AddsNothing, Publishes, TypeOK, ControlTypeOK
  <1>26. ASSUME NEW t \in Threads, PushRow(t) PROVE BufferInvariant'
    <2> USE <1>26 DEF PushRow
    <2>1. NextRow(t) /\ buffer' = buffer \cup {row[t]} /\ row[t].table = meta[t].id
      BY DEF StorageInvariant, HeldRowIsNew, Holds
    <2>2. \A table : Of(buffer', table) = IF table = meta[t].id
                                          THEN Of(buffer, table) \cup {row[t]}
                                          ELSE Of(buffer, table)
      BY <2>1 DEF Of
    <2>3. BufferBelowLimit' /\ IsFiniteSet(buffer')
      <3>1. Cardinality(Of(buffer', meta[t].id)) < ChunkSize
        <4>1. Of(buffer', meta[t].id) = Of(buffer, meta[t].id) \cup {row[t]}
          BY <2>2
        <4>2. Cardinality(Of(buffer, meta[t].id)) + 1 < ChunkSize
          OBVIOUS
        <4> QED
          BY <4>1, <4>2, OneRowMore
      <3>2. \A r \in buffer' : Cardinality(Of(buffer', r.table)) < ChunkSize
        BY <2>1, <2>2, <3>1 DEF BufferInvariant, BufferBelowLimit
      <3> QED
        BY <2>1, <3>2, FS_AddElement DEF BufferInvariant, BufferBelowLimit
    <2>4. TakenBelowLimit'
      <3>1. \A u \in Threads : Publishes(u)' => Publishes(u) /\ taken'[u] = taken[u]
        BY <2>1, RowDoneControl DEF Publishes
      <3> QED
        BY <3>1 DEF BufferInvariant, TakenBelowLimit
    <2> QED
      BY <2>3, <2>4 DEF BufferInvariant
  <1>27. ASSUME NEW t \in Threads, PushRowAndTake(t) PROVE BufferInvariant'
    <2> USE <1>27 DEF PushRowAndTake
    <2>1. /\ buffer' \subseteq buffer
          /\ \A r \in buffer' : Of(buffer', r.table) = Of(buffer, r.table)
      BY DEF Of
    <2>2. BufferBelowLimit' /\ IsFiniteSet(buffer')
      BY <2>1, FS_Subset DEF BufferInvariant, BufferBelowLimit
    <2>3. taken'[t] = Of(buffer, meta[t].id) \cup {row[t]}
      BY DEF TypeOK, InsertTypeOK
    <2>4. /\ IsFiniteSet(taken'[t]) /\ taken'[t] # {}
          /\ Cardinality(taken'[t]) <= ChunkSize
      <3>1. taken'[t] # {}
        BY <2>3
      <3>2. /\ IsFiniteSet(Of(buffer, meta[t].id) \cup {row[t]})
            /\ Cardinality(Of(buffer, meta[t].id) \cup {row[t]}) <= ChunkSize
        BY OneRowMore
      <3> QED
        BY <2>3, <3>1, <3>2
    <2>5. \A u \in Threads \ {t} :
             Publishes(u)' => Publishes(u) /\ taken'[u] = taken[u]
      BY DEF Publishes, TypeOK, ControlTypeOK, InsertTypeOK
    <2> QED
      BY <2>2, <2>4, <2>5 DEF BufferInvariant, TakenBelowLimit
  <1>28. ASSUME NEW t \in Threads, FlushBuffer(t) PROVE BufferInvariant'
    <2> USE <1>28 DEF FlushBuffer
    <2>1. /\ buffer' \subseteq buffer
          /\ \A r \in buffer' : Of(buffer', r.table) = Of(buffer, r.table)
      BY DEF Of
    <2>2. BufferBelowLimit' /\ IsFiniteSet(buffer')
      BY <2>1, FS_Subset DEF BufferInvariant, BufferBelowLimit
    <2>3. /\ taken'[t] = Of(buffer, meta[t].id)
          /\ Publishes(t)' => taken'[t] # {}
      BY DEF TypeOK, ControlTypeOK, InsertTypeOK, Publishes
    <2>4. IsFiniteSet(taken'[t]) /\ Cardinality(taken'[t]) <= ChunkSize
      BY <2>3, OneRowMore
    <2>5. \A u \in Threads \ {t} :
             Publishes(u)' => Publishes(u) /\ taken'[u] = taken[u]
      BY DEF Publishes, TypeOK, ControlTypeOK, InsertTypeOK
    <2> QED
      BY <2>2, <2>3, <2>4, <2>5 DEF BufferInvariant, TakenBelowLimit
  <1>29. ASSUME NEW t \in Threads, PublishFull(t) \/ PublishFlushed(t)
         PROVE  BufferInvariant'
    <2>1. InsertChunk(t) /\ buffer' = buffer /\ Publishes(t)
      BY <1>29 DEF PublishFull, PublishFlushed, Publishes
    <2>2. ~ Publishes(t)' /\ \A u \in Threads \ {t} : pc'[u] = pc[u]
      BY <1>29, RowDoneControl
         DEF PublishFull, PublishFlushed, Publishes, TypeOK, ControlTypeOK
    <2>3. \A u \in Threads : Publishes(u)' => Publishes(u) /\ taken'[u] = taken[u]
      BY <2>1, <2>2 DEF Publishes, InsertChunk, TypeOK, InsertTypeOK
    <2>4. \A c \in chunks' : c.rows # {} /\ Cardinality(c.rows) <= ChunkSize
      BY <2>1
         DEF InsertChunk, BufferInvariant, BufferBelowLimit, TakenBelowLimit
    <2> QED
      BY <2>1, <2>3, <2>4 DEF BufferInvariant, BufferBelowLimit, TakenBelowLimit
  <1>30. UNCHANGED vars => AddsNothing
    BY DEF vars, AddsNothing, Publishes
  <1> QED
    BY <1>1, <1>2, <1>3, <1>4, <1>5, <1>6, <1>7, <1>8, <1>9, <1>10, <1>11,
       <1>12, <1>13, <1>14, <1>15, <1>16, <1>17, <1>18, <1>19, <1>20,
       <1>21, <1>22, <1>23, <1>24, <1>25, <1>26, <1>27, <1>28, <1>29, <1>30
       DEF Next, Begin, Step

(* No table has a full buffer when no statement is pushing a row to it,    *)
(* and no chunk is empty or larger than the limit.                         *)
THEOREM BuffersBelowLimit == Spec => []BufferBelowLimit
  <1>1. /\ TypeOK /\ StorageInvariant /\ BufferInvariant
        /\ [Next]_vars
        => (TypeOK /\ StorageInvariant /\ BufferInvariant)'
    BY TypeNext, StorageNext, BufferNext
  <1>2. BufferInvariant => BufferBelowLimit
    BY DEF BufferInvariant
  <1> QED
    BY <1>1, <1>2, TypeInit, StorageInit, BufferInit, PTL DEF Spec

-----------------------------------------------------------------------------
(* What a SELECT may trust, for any number of threads: a row identifier    *)
(* the index hands out stands for one row, with the value asked for, so    *)
(* the row that is fetched by it need not be compared again.               *)


(* A step that gives no row an identifier. *)
NoNewRow ==
    /\ next_row_id' = next_row_id
    /\ data' \subseteq data
    /\ index' \subseteq Numbered
    /\ \A u \in Threads : Holds(u)' => Holds(u) /\ row'[u] = row[u]
    /\ \A r \in committed' : r \in Used \/ r.id < next_row_id
    /\ \A u \in Threads : \A r \in pushed'[u] : r \in Used \/ r.id < next_row_id

(* Such a step keeps the identifiers apart. *)
LEMMA NoNewRowStep == RowIdsUnique /\ NoNewRow => RowIdsUnique'
  <1> SUFFICES ASSUME RowIdsUnique, NoNewRow PROVE RowIdsUnique'
    OBVIOUS
  <1>1. Numbered' \subseteq Numbered
    <2>1. Numbered \in {Numbered} /\ data \subseteq Numbered
      BY DEF Numbered
    <2>2. \A u \in Threads : Holds(u)' => row'[u] \in Numbered
      BY DEF NoNewRow, Numbered
    <2>3. data' \subseteq Numbered /\ index' \subseteq Numbered
      BY <2>1 DEF NoNewRow
    <2>4. \A r \in Numbered' : r \in data' \/ r \in index'
                               \/ \E u \in Threads : Holds(u)' /\ r = row'[u]
      BY DEF Numbered
    <2> QED
      BY <2>2, <2>3, <2>4
  <1>2. \A r \in Used' : r \in Used \/ r.id < next_row_id
    <2>1. \A r \in Used' : \/ r \in Numbered' \/ r \in committed'
                           \/ \E u \in Threads : r \in pushed'[u]
      BY DEF Used
    <2>2. Numbered \subseteq Used
      BY DEF Used
    <2> QED
      BY <1>1, <2>1, <2>2 DEF NoNewRow
  <1> QED
    BY <1>1, <1>2 DEF RowIdsUnique, NoNewRow

(* Nor does the end of a row, which only joins other rows.                 *)
LEMMA NextRowIsOld ==
    ASSUME TypeOK, RowIdsUnique, NEW t \in Threads, NextRow(t),
           row[t].id < next_row_id
    PROVE  /\ \A r \in committed' : r \in Used \/ r.id < next_row_id
           /\ \A u \in Threads :
                 \A r \in pushed'[u] : r \in Used \/ r.id < next_row_id
           /\ pc'[t] \in {"idle", "store_row"}
           /\ \A u \in Threads \ {t} :
                 pc'[u] = pc[u] /\ meta'[u] = meta[u] /\ row'[u] = row[u]
  <1>1. \A u \in Threads : pushed[u] \subseteq Used
    BY DEF Used
  <1>2. committed \subseteq Used
    BY DEF Used
  <1>3. /\ \A r \in committed' : r \in committed \cup pushed[t] \cup {row[t]}
        /\ \A u \in Threads : \A r \in pushed'[u] :
              r \in pushed[u] \/ r = row[t]
    <2>1. CASE values[t] # <<>>
      BY <2>1 DEF NextRow, TypeOK, InsertTypeOK
    <2>2. CASE values[t] = <<>>
      BY <2>2 DEF NextRow, ForgetInsert, TypeOK, InsertTypeOK
    <2> QED
      BY <2>1, <2>2
  <1> QED
    BY <1>1, <1>2, <1>3, RowDoneControl

(* A step of a statement that is no SELECT. *)
OutsideReads(t) ==
    /\ UNCHANGED <<sought, row_ids, got>>
    /\ index \subseteq index'
    /\ \A r \in data : r \in data' \/ r.table \in cleared'
    /\ cleared \subseteq cleared'
    /\ ~ Reads(t) /\ ~ Reads(t)'
    /\ \A u \in Threads \ {t} : pc'[u] = pc[u] /\ meta'[u] = meta[u]

(* Such a step changes nothing a SELECT relies on. *)
LEMMA OutsideReadsStep ==
    ASSUME LookupsIndexed, ReadsSound, NEW t \in Threads, OutsideReads(t)
    PROVE  LookupsIndexed' /\ ReadsSound'
  <1>1. ReadsSound'
    BY DEF OutsideReads, ReadsSound
  <1>2. LookupIndexed(t)'
    BY DEF LookupsIndexed, LookupIndexed, OutsideReads, Reads, Aggregates, LooksUp
  <1>3. ASSUME NEW u \in Threads \ {t} PROVE LookupIndexed(u)'
    BY DEF LookupsIndexed, LookupIndexed, OutsideReads, Reads, Aggregates, LooksUp, Of
  <1> QED
    BY <1>1, <1>2, <1>3 DEF LookupsIndexed

(* A step of a SELECT: it concerns its own thread only. *)
ReadStep(t) ==
    /\ UNCHANGED <<index, data, cleared>>
    /\ \A u \in Threads \ {t} :
          /\ pc'[u] = pc[u] /\ meta'[u] = meta[u] /\ sought'[u] = sought[u]
          /\ row_ids'[u] = row_ids[u] /\ got'[u] = got[u]

(* So it is enough to look at that thread. *)
LEMMA ReadStepOfOne ==
    ASSUME LookupsIndexed, ReadsSound, NEW t \in Threads, ReadStep(t),
           LookupIndexed(t)',
           \A r \in got'[t] : /\ r \in data \/ r.table \in cleared
                              /\ sought'[t] \in {NULL, r.key}
    PROVE  LookupsIndexed' /\ ReadsSound'
  <1>1. ReadsSound'
    BY DEF ReadStep, ReadsSound
  <1>2. ASSUME NEW u \in Threads \ {t} PROVE LookupIndexed(u)'
    BY DEF LookupsIndexed, LookupIndexed, ReadStep, Reads, Aggregates, LooksUp, Of
  <1> QED
    BY <1>1, <1>2 DEF LookupsIndexed

(* A session starts with no row and no read. *)
LEMMA ReadInit == Init => ReadInvariant
  BY DEF Init, ReadInvariant, RowIdsUnique, Numbered, Used, Holds,
         LookupsIndexed, LookupIndexed, LooksUp, ReadsSound

(* Every step keeps what reads rely on. *)
LEMMA ReadNext ==
    TypeOK /\ StorageInvariant /\ ReadInvariant /\ [Next]_vars => ReadInvariant'
  <1> SUFFICES ASSUME TypeOK, StorageInvariant, ReadInvariant, [Next]_vars
               PROVE  ReadInvariant'
    OBVIOUS
  <1> USE DEF Goto, shared, insert, read, history
  <1>1. ASSUME NEW t \in Threads, TableNotFound(t) PROVE NoNewRow /\ OutsideReads(t)
    BY <1>1
       DEF TableNotFound, vars, NoNewRow, Numbered, Used, Holds, OutsideReads, Reads,
           Aggregates, LooksUp, TypeOK, ControlTypeOK, InsertTypeOK
  <1>2. ASSUME NEW t \in Threads, CreateEntry(t) PROVE NoNewRow /\ OutsideReads(t)
    BY <1>2
       DEF CreateEntry, NoNewRow, Numbered, Used, Holds, OutsideReads, Reads,
           Aggregates, LooksUp, TypeOK, ControlTypeOK, InsertTypeOK
  <1>3. ASSUME NEW t \in Threads, RegisterIndex(t) PROVE NoNewRow /\ OutsideReads(t)
    BY <1>3
       DEF RegisterIndex, Return, NoNewRow, Numbered, Used, Holds, OutsideReads, Reads,
           Aggregates, LooksUp, TypeOK, ControlTypeOK, InsertTypeOK
  <1>4. ASSUME NEW t \in Threads, BeginDrop(t) PROVE NoNewRow /\ OutsideReads(t)
    BY <1>4
       DEF BeginDrop, Resolve, NoNewRow, Numbered, Used, Holds, OutsideReads, Reads,
           Aggregates, LooksUp, TypeOK, ControlTypeOK, InsertTypeOK
  <1>5. ASSUME NEW t \in Threads, DropRows(t) PROVE NoNewRow /\ OutsideReads(t)
    BY <1>5
       DEF DropRows, Of, NoNewRow, Numbered, Used, Holds, OutsideReads, Reads,
           Aggregates, LooksUp, TypeOK, ControlTypeOK, InsertTypeOK
  <1>6. ASSUME NEW t \in Threads, DropChunks(t) PROVE NoNewRow /\ OutsideReads(t)
    BY <1>6
       DEF DropChunks, NoNewRow, Numbered, Used, Holds, OutsideReads, Reads,
           Aggregates, LooksUp, TypeOK, ControlTypeOK, InsertTypeOK
  <1>7. ASSUME NEW t \in Threads, DropIndex(t) PROVE NoNewRow /\ OutsideReads(t)
    BY <1>7
       DEF DropIndex, NoNewRow, Numbered, Used, Holds, OutsideReads, Reads,
           Aggregates, LooksUp, TypeOK, ControlTypeOK, InsertTypeOK
  <1>8. ASSUME NEW t \in Threads, DropEntry(t) PROVE NoNewRow /\ OutsideReads(t)
    BY <1>8
       DEF DropEntry, Return, NoNewRow, Numbered, Used, Holds, OutsideReads, Reads,
           Aggregates, LooksUp, TypeOK, ControlTypeOK, InsertTypeOK
  <1>9. ASSUME NEW t \in Threads, BeginInsert(t) PROVE NoNewRow /\ OutsideReads(t)
    BY <1>9
       DEF BeginInsert, Resolve, NoNewRow, Numbered, Used, Holds, OutsideReads, Reads,
           Aggregates, LooksUp, TypeOK, ControlTypeOK, InsertTypeOK
  <1>10. ASSUME NEW t \in Threads, GetIndex(t) PROVE NoNewRow /\ OutsideReads(t)
    BY <1>10
       DEF GetIndex, NoNewRow, Numbered, Used, Holds, OutsideReads, Reads,
           Aggregates, LooksUp, TypeOK, ControlTypeOK, InsertTypeOK
  <1>11. ASSUME NEW t \in Threads, IndexRow(t) PROVE NoNewRow /\ OutsideReads(t)
    BY <1>11
       DEF IndexRow, NoNewRow, Numbered, Used, Holds, OutsideReads, Reads,
           Aggregates, LooksUp, TypeOK, ControlTypeOK, InsertTypeOK
  <1>12. ASSUME NEW t \in Threads, RefuseKey(t) PROVE NoNewRow /\ OutsideReads(t)
    BY <1>12
       DEF RefuseKey, Return, ForgetInsert, NoNewRow, Numbered, Used, Holds, OutsideReads, Reads,
           Aggregates, LooksUp, TypeOK, ControlTypeOK, InsertTypeOK
  <1>13. ASSUME NEW t \in Threads, PushRow(t) PROVE NoNewRow /\ OutsideReads(t)
    <2>1. NextRow(t) /\ row[t].id < next_row_id
      BY <1>13 DEF PushRow, StorageInvariant, HeldRowIsNew, Holds
    <2> QED
      BY <1>13, <2>1, NextRowIsOld
         DEF PushRow, NoNewRow, Numbered, Holds, OutsideReads, Reads,
             Aggregates, LooksUp, ReadInvariant
  <1>14. ASSUME NEW t \in Threads, PushRowAndTake(t) PROVE NoNewRow /\ OutsideReads(t)
    BY <1>14
       DEF PushRowAndTake, NoNewRow, Numbered, Used, Holds, OutsideReads, Reads,
           Aggregates, LooksUp, TypeOK, ControlTypeOK, InsertTypeOK
  <1>15. ASSUME NEW t \in Threads, PublishFull(t) PROVE NoNewRow /\ OutsideReads(t)
    <2>1. NextRow(t) /\ row[t] \in Columnar
      BY <1>15 DEF PublishFull, StorageInvariant, TakenRowsAreOwned, Columnar
    <2>2. row[t].id < next_row_id
      BY <2>1 DEF StorageInvariant, ColumnarRowsAreOld
    <2> QED
      BY <1>15, <2>1, <2>2, NextRowIsOld
         DEF PublishFull, NoNewRow, Numbered, Holds, OutsideReads, Reads,
             Aggregates, LooksUp, ReadInvariant
  <1>16. ASSUME NEW t \in Threads, BeginAggregate(t)
        PROVE  NoNewRow /\ LookupsIndexed' /\ ReadsSound'
    <2> USE <1>16 DEF BeginAggregate, Resolve
    <2>1. NoNewRow /\ ReadStep(t)
      BY DEF NoNewRow, ReadStep, Numbered, Used, Holds, TypeOK, ControlTypeOK, InsertTypeOK, ReadTypeOK
    <2>2. LookupIndexed(t)'
      BY DEF ReadInvariant, LookupsIndexed, LookupIndexed, Aggregates, LooksUp,
             Reads, TypeOK, ControlTypeOK, InsertTypeOK, ReadTypeOK
    <2>3. \A r \in got'[t] : /\ r \in data \/ r.table \in cleared
                             /\ sought'[t] \in {NULL, r.key}
      BY DEF ReadInvariant, ReadsSound, LookupsIndexed, LookupIndexed, Reads,
             Aggregates, TypeOK, ControlTypeOK, InsertTypeOK, ReadTypeOK
    <2> QED
      BY <2>1, <2>2, <2>3, ReadStepOfOne DEF ReadInvariant
  <1>17. ASSUME NEW t \in Threads, BeginScan(t)
        PROVE  NoNewRow /\ LookupsIndexed' /\ ReadsSound'
    <2> USE <1>17 DEF BeginScan, Resolve
    <2>1. NoNewRow /\ ReadStep(t)
      BY DEF NoNewRow, ReadStep, Numbered, Used, Holds, TypeOK, ControlTypeOK, InsertTypeOK, ReadTypeOK
    <2>2. LookupIndexed(t)'
      BY DEF ReadInvariant, LookupsIndexed, LookupIndexed, Aggregates, LooksUp,
             Reads, TypeOK, ControlTypeOK, InsertTypeOK, ReadTypeOK
    <2>3. \A r \in got'[t] : /\ r \in data \/ r.table \in cleared
                             /\ sought'[t] \in {NULL, r.key}
      BY DEF ReadInvariant, ReadsSound, LookupsIndexed, LookupIndexed, Reads,
             Aggregates, TypeOK, ControlTypeOK, InsertTypeOK, ReadTypeOK
    <2> QED
      BY <2>1, <2>2, <2>3, ReadStepOfOne DEF ReadInvariant
  <1>18. ASSUME NEW t \in Threads, BeginIdSelect(t)
        PROVE  NoNewRow /\ LookupsIndexed' /\ ReadsSound'
    <2> USE <1>18 DEF BeginIdSelect, Resolve
    <2>1. NoNewRow /\ ReadStep(t)
      BY DEF NoNewRow, ReadStep, Numbered, Used, Holds, TypeOK, ControlTypeOK, InsertTypeOK, ReadTypeOK
    <2>2. LookupIndexed(t)'
      BY DEF ReadInvariant, LookupsIndexed, LookupIndexed, Aggregates, LooksUp,
             Reads, TypeOK, ControlTypeOK, InsertTypeOK, ReadTypeOK
    <2>3. \A r \in got'[t] : /\ r \in data \/ r.table \in cleared
                             /\ sought'[t] \in {NULL, r.key}
      BY DEF ReadInvariant, ReadsSound, LookupsIndexed, LookupIndexed, Reads,
             Aggregates, TypeOK, ControlTypeOK, InsertTypeOK, ReadTypeOK
    <2> QED
      BY <2>1, <2>2, <2>3, ReadStepOfOne DEF ReadInvariant
  <1>19. ASSUME NEW t \in Threads, FlushBuffer(t)
        PROVE  NoNewRow /\ LookupsIndexed' /\ ReadsSound'
    <2> USE <1>19 DEF FlushBuffer
    <2>1. NoNewRow /\ ReadStep(t)
      BY DEF NoNewRow, ReadStep, Numbered, Used, Holds, TypeOK, ControlTypeOK, InsertTypeOK, ReadTypeOK
    <2>2. LookupIndexed(t)'
      BY DEF ReadInvariant, LookupsIndexed, LookupIndexed, Aggregates, LooksUp,
             Reads, TypeOK, ControlTypeOK, InsertTypeOK, ReadTypeOK
    <2>3. \A r \in got'[t] : /\ r \in data \/ r.table \in cleared
                             /\ sought'[t] \in {NULL, r.key}
      BY DEF ReadInvariant, ReadsSound, LookupsIndexed, LookupIndexed, Reads,
             Aggregates, TypeOK, ControlTypeOK, InsertTypeOK, ReadTypeOK
    <2> QED
      BY <2>1, <2>2, <2>3, ReadStepOfOne DEF ReadInvariant
  <1>20. ASSUME NEW t \in Threads, PublishFlushed(t)
        PROVE  NoNewRow /\ LookupsIndexed' /\ ReadsSound'
    <2> USE <1>20 DEF PublishFlushed, InsertChunk
    <2>1. NoNewRow /\ ReadStep(t)
      BY DEF NoNewRow, ReadStep, Numbered, Used, Holds, TypeOK, ControlTypeOK, InsertTypeOK, ReadTypeOK
    <2>2. LookupIndexed(t)'
      BY DEF ReadInvariant, LookupsIndexed, LookupIndexed, Aggregates, LooksUp,
             Reads, TypeOK, ControlTypeOK, InsertTypeOK, ReadTypeOK
    <2>3. \A r \in got'[t] : /\ r \in data \/ r.table \in cleared
                             /\ sought'[t] \in {NULL, r.key}
      BY DEF ReadInvariant, ReadsSound, LookupsIndexed, LookupIndexed, Reads,
             Aggregates, TypeOK, ControlTypeOK, InsertTypeOK, ReadTypeOK
    <2> QED
      BY <2>1, <2>2, <2>3, ReadStepOfOne DEF ReadInvariant
  <1>21. ASSUME NEW t \in Threads, ReadChunks(t)
        PROVE  NoNewRow /\ LookupsIndexed' /\ ReadsSound'
    <2> USE <1>21 DEF ReadChunks
    <2>1. NoNewRow /\ ReadStep(t)
      BY DEF NoNewRow, ReadStep, Numbered, Used, Holds, TypeOK, ControlTypeOK, InsertTypeOK, ReadTypeOK
    <2>2. LookupIndexed(t)'
      BY DEF ReadInvariant, LookupsIndexed, LookupIndexed, Aggregates, LooksUp,
             Reads, TypeOK, ControlTypeOK, InsertTypeOK, ReadTypeOK
    <2>3. \A r \in got'[t] : /\ r \in data \/ r.table \in cleared
                             /\ sought'[t] \in {NULL, r.key}
      <3>1. \A r \in got'[t] : r \in Columnar
        BY DEF ReadInvariant, LookupsIndexed, LookupIndexed, ReadTypeOK, TypeOK,
               Of, Columnar, Chunked
      <3>2. sought'[t] = NULL
        BY DEF ReadInvariant, LookupsIndexed, LookupIndexed, Aggregates
      <3> QED
        BY <3>1, <3>2 DEF StorageInvariant, NoPhantomRows
    <2> QED
      BY <2>1, <2>2, <2>3, ReadStepOfOne DEF ReadInvariant
  <1>22. ASSUME NEW t \in Threads, FindIndex(t)
        PROVE  NoNewRow /\ LookupsIndexed' /\ ReadsSound'
    <2> USE <1>22 DEF FindIndex
    <2>1. NoNewRow /\ ReadStep(t)
      BY DEF NoNewRow, ReadStep, Numbered, Used, Holds, TypeOK, ControlTypeOK, InsertTypeOK, ReadTypeOK
    <2>2. LookupIndexed(t)'
      BY DEF ReadInvariant, LookupsIndexed, LookupIndexed, Aggregates, LooksUp,
             Reads, TypeOK, ControlTypeOK, InsertTypeOK, ReadTypeOK
    <2>3. \A r \in got'[t] : /\ r \in data \/ r.table \in cleared
                             /\ sought'[t] \in {NULL, r.key}
      BY DEF ReadInvariant, ReadsSound, LookupsIndexed, LookupIndexed, Reads,
             Aggregates, TypeOK, ControlTypeOK, InsertTypeOK, ReadTypeOK
    <2> QED
      BY <2>1, <2>2, <2>3, ReadStepOfOne DEF ReadInvariant
  <1>23. ASSUME NEW t \in Threads, ReadIndex(t)
        PROVE  NoNewRow /\ LookupsIndexed' /\ ReadsSound'
    <2> USE <1>23 DEF ReadIndex, Of
    <2>1. NoNewRow /\ ReadStep(t)
      BY DEF NoNewRow, ReadStep, Numbered, Used, Holds, TypeOK, ControlTypeOK, InsertTypeOK, ReadTypeOK
    <2>2. LookupIndexed(t)'
      BY DEF ReadInvariant, LookupsIndexed, LookupIndexed, Aggregates, LooksUp,
             Reads, TypeOK, ControlTypeOK, InsertTypeOK, ReadTypeOK
    <2>3. \A r \in got'[t] : /\ r \in data \/ r.table \in cleared
                             /\ sought'[t] \in {NULL, r.key}
      BY DEF ReadInvariant, ReadsSound, LookupsIndexed, LookupIndexed, Reads,
             Aggregates, TypeOK, ControlTypeOK, InsertTypeOK, ReadTypeOK
    <2> QED
      BY <2>1, <2>2, <2>3, ReadStepOfOne DEF ReadInvariant
  <1>24. ASSUME NEW t \in Threads, FetchRow(t)
        PROVE  NoNewRow /\ LookupsIndexed' /\ ReadsSound'
    <2> USE <1>24 DEF FetchRow
    <2>1. NoNewRow /\ ReadStep(t)
      BY DEF NoNewRow, ReadStep, Numbered, Used, Holds, TypeOK, ControlTypeOK, InsertTypeOK, ReadTypeOK
    <2>2. LookupIndexed(t)'
      BY DEF ReadInvariant, LookupsIndexed, LookupIndexed, Aggregates, LooksUp,
             Reads, TypeOK, ControlTypeOK, InsertTypeOK, ReadTypeOK
    <2>3. \A r \in got'[t] : /\ r \in data \/ r.table \in cleared
                             /\ sought'[t] \in {NULL, r.key}
      <3>1. PICK id \in row_ids[t] : got'[t] =
               got[t] \cup {r \in Of(data, meta[t].id) : r.id = id}
        BY DEF TypeOK, ReadTypeOK
      <3>2. PICK e \in Of(index, meta[t].id) : e.id = id /\ e.key = sought[t]
        BY DEF ReadInvariant, LookupsIndexed, LookupIndexed
      <3>3. \A r \in Of(data, meta[t].id) : r.id = id => r \in data /\ r = e
        BY <3>2 DEF Of, Numbered, ReadInvariant, RowIdsUnique
      <3> QED
        BY <3>1, <3>2, <3>3 DEF ReadInvariant, ReadsSound
    <2> QED
      BY <2>1, <2>2, <2>3, ReadStepOfOne DEF ReadInvariant
  <1>25. ASSUME NEW t \in Threads, FetchDone(t)
        PROVE  NoNewRow /\ LookupsIndexed' /\ ReadsSound'
    <2> USE <1>25 DEF FetchDone
    <2>1. NoNewRow /\ ReadStep(t)
      BY DEF NoNewRow, ReadStep, Numbered, Used, Holds, TypeOK, ControlTypeOK, InsertTypeOK, ReadTypeOK
    <2>2. LookupIndexed(t)'
      BY DEF ReadInvariant, LookupsIndexed, LookupIndexed, Aggregates, LooksUp,
             Reads, TypeOK, ControlTypeOK, InsertTypeOK, ReadTypeOK
    <2>3. \A r \in got'[t] : /\ r \in data \/ r.table \in cleared
                             /\ sought'[t] \in {NULL, r.key}
      BY DEF ReadInvariant, ReadsSound, LookupsIndexed, LookupIndexed, Reads,
             Aggregates, TypeOK, ControlTypeOK, InsertTypeOK, ReadTypeOK
    <2> QED
      BY <2>1, <2>2, <2>3, ReadStepOfOne DEF ReadInvariant
  <1>26. ASSUME NEW t \in Threads, ScanAgain(t)
        PROVE  NoNewRow /\ LookupsIndexed' /\ ReadsSound'
    <2> USE <1>26 DEF ScanAgain, Return, ForgetRead
    <2>1. NoNewRow /\ ReadStep(t)
      BY DEF NoNewRow, ReadStep, Numbered, Used, Holds, TypeOK, ControlTypeOK, InsertTypeOK, ReadTypeOK
    <2>2. LookupIndexed(t)'
      <3>1. pc'[t] \in {"scan", "idle"}
        BY DEF TypeOK, ControlTypeOK
      <3>2. row_ids'[t] = {} /\ got'[t] = {} /\ (pc'[t] = "idle" => sought'[t] = NULL)
        BY DEF ReadInvariant, LookupsIndexed, LookupIndexed, TypeOK, ControlTypeOK,
               ReadTypeOK
      <3> QED
        BY <3>1, <3>2 DEF LookupIndexed, Aggregates, LooksUp, Reads
    <2>3. \A r \in got'[t] : /\ r \in data \/ r.table \in cleared
                             /\ sought'[t] \in {NULL, r.key}
      BY DEF ReadInvariant, ReadsSound, LookupsIndexed, LookupIndexed, Reads,
             Aggregates, TypeOK, ControlTypeOK, InsertTypeOK, ReadTypeOK
    <2> QED
      BY <2>1, <2>2, <2>3, ReadStepOfOne DEF ReadInvariant
  <1>27. ASSUME NEW t \in Threads, Scan(t)
        PROVE  NoNewRow /\ LookupsIndexed' /\ ReadsSound'
    <2> USE <1>27 DEF Scan, Of
    <2>1. NoNewRow /\ ReadStep(t)
      BY DEF NoNewRow, ReadStep, Numbered, Used, Holds, TypeOK, ControlTypeOK, InsertTypeOK, ReadTypeOK
    <2>2. LookupIndexed(t)'
      BY DEF ReadInvariant, LookupsIndexed, LookupIndexed, Aggregates, LooksUp,
             Reads, TypeOK, ControlTypeOK, InsertTypeOK, ReadTypeOK
    <2>3. \A r \in got'[t] : /\ r \in data \/ r.table \in cleared
                             /\ sought'[t] \in {NULL, r.key}
      BY DEF ReadInvariant, ReadsSound, LookupsIndexed, LookupIndexed, Reads,
             Aggregates, TypeOK, ControlTypeOK, InsertTypeOK, ReadTypeOK
    <2> QED
      BY <2>1, <2>2, <2>3, ReadStepOfOne DEF ReadInvariant
  <1>28. ASSUME NEW t \in Threads, Reply(t)
        PROVE  NoNewRow /\ LookupsIndexed' /\ ReadsSound'
    <2> USE <1>28 DEF Reply, Return, ForgetRead
    <2>1. NoNewRow /\ ReadStep(t)
      BY DEF NoNewRow, ReadStep, Numbered, Used, Holds, TypeOK, ControlTypeOK, InsertTypeOK, ReadTypeOK
    <2>2. LookupIndexed(t)'
      BY DEF ReadInvariant, LookupsIndexed, LookupIndexed, Aggregates, LooksUp,
             Reads, TypeOK, ControlTypeOK, InsertTypeOK, ReadTypeOK
    <2>3. \A r \in got'[t] : /\ r \in data \/ r.table \in cleared
                             /\ sought'[t] \in {NULL, r.key}
      BY DEF ReadInvariant, ReadsSound, LookupsIndexed, LookupIndexed, Reads,
             Aggregates, TypeOK, ControlTypeOK, InsertTypeOK, ReadTypeOK
    <2> QED
      BY <2>1, <2>2, <2>3, ReadStepOfOne DEF ReadInvariant
  <1>29. ASSUME NEW t \in Threads, StoreRow(t) PROVE ReadInvariant'
    <2> DEFINE new == [table |-> meta[t].id, id |-> next_row_id,
                       key |-> Head(values[t])]
    <2>1. /\ data' = data \cup {new} /\ row' = [row EXCEPT ![t] = new]
          /\ pc' = [pc EXCEPT ![t] = "get_index"]
          /\ new.id = next_row_id /\ next_row_id' = next_row_id + 1
          /\ UNCHANGED <<index, committed, pushed>>
      BY <1>29 DEF StoreRow
    <2> HIDE DEF new
    <2>2. next_row_id \in Nat
      BY DEF TypeOK, StoresTypeOK
    <2>3. \A u \in Threads : Holds(u)' => \/ row'[u] = new
                                          \/ Holds(u) /\ row'[u] = row[u]
      BY <2>1 DEF Holds, TypeOK, ControlTypeOK, InsertTypeOK
    <2>4. \A r \in Numbered' : r = new \/ r \in Numbered
      BY <2>1, <2>3 DEF Numbered
    <2>5. \A r \in Used' : r = new \/ r \in Used
      <3>1. Numbered \subseteq Used
        BY DEF Used
      <3> QED
        BY <2>1, <2>4, <3>1 DEF Used
    <2>6. \A r \in Used : r \in Rows
      BY DEF Used, Numbered, TypeOK, StoresTypeOK, InsertTypeOK
    <2>7. \A r \in Numbered : r \in Rows /\ r.id < next_row_id
      BY <2>6 DEF ReadInvariant, RowIdsUnique, Used
    <2>8. RowIdsUnique'
      <3>1. \A r \in Used' : r.id < next_row_id'
        <4>1. \A r \in Used : r.id \in Nat /\ r.id < next_row_id
          BY <2>6 DEF Rows, ReadInvariant, RowIdsUnique
        <4> QED
          BY <2>1, <2>2, <2>5, <4>1
      <3>2. \A r, s \in Numbered' : r.id = s.id => r = s
        <4>1. \A r \in Numbered : r.id # new.id
          BY <2>1, <2>2, <2>7
        <4> QED
          BY <2>4, <4>1 DEF ReadInvariant, RowIdsUnique
      <3> QED
        BY <3>1, <3>2 DEF RowIdsUnique
    <2>9. OutsideReads(t)
      BY <1>29, <2>1
         DEF StoreRow, OutsideReads, Reads, Aggregates, LooksUp, TypeOK,
             ControlTypeOK
    <2> QED
      BY <2>8, <2>9, OutsideReadsStep DEF ReadInvariant
  <1>30. CASE UNCHANGED vars
    BY <1>30
       DEF vars, ReadInvariant, RowIdsUnique, Numbered, Used, Holds,
           LookupsIndexed, LookupIndexed, Aggregates, LooksUp, Reads, ReadsSound
  <1>31. ASSUME NEW t \in Threads, Begin(t) \/ Step(t) PROVE ReadInvariant'
    <2>1. \/ NoNewRow /\ OutsideReads(t)
          \/ NoNewRow /\ LookupsIndexed' /\ ReadsSound'
          \/ ReadInvariant'
      BY <1>31, <1>1, <1>2, <1>3, <1>4, <1>5, <1>6, <1>7, <1>8, <1>9, <1>10, <1>11,
         <1>12, <1>13, <1>14, <1>15, <1>16, <1>17, <1>18, <1>19, <1>20,
         <1>21, <1>22, <1>23, <1>24, <1>25, <1>26, <1>27, <1>28, <1>29
         DEF Begin, Step
    <2> QED
      BY <2>1, NoNewRowStep, OutsideReadsStep DEF ReadInvariant
  <1> QED
    BY <1>30, <1>31 DEF Next

(* Reads rely on what is so in every reachable state. *)
THEOREM ReadCorrect == Spec => []ReadInvariant
  <1>1. /\ TypeOK /\ StorageInvariant /\ ReadInvariant
        /\ [Next]_vars
        => (TypeOK /\ StorageInvariant /\ ReadInvariant)'
    BY TypeNext, StorageNext, ReadNext
  <1> QED
    BY <1>1, TypeInit, StorageInit, ReadInit, PTL DEF Spec

(* A SELECT returns stored rows only, and one by id only rows with that    *)
(* id, whatever other statements did between its lookup and its fetches.   *)
THEOREM ReadsAreSound == Spec => []ReadsSound
  BY ReadCorrect, PTL DEF ReadInvariant

-----------------------------------------------------------------------------
(* What a read may miss, for any number of threads. *)

(* What is committed stays so, tables once cleared too, and a row that     *)
(* comes into the buffer was nowhere on the columnar side before.          *)
RowsMoveOn ==
    /\ committed \subseteq committed' /\ cleared \subseteq cleared'
    /\ \A r \in buffer' : r \in buffer \/ r \notin Columnar

(* A step of thread t leaves what other threads read alone. *)
OthersReadOn(t) ==
    \A u \in Threads \ {t} :
        /\ pc'[u] = pc[u] /\ meta'[u] = meta[u]
        /\ sought'[u] = sought[u] /\ expected'[u] = expected[u]

(* Then they expect what they expected. *)
LEMMA OthersExpect ==
    ASSUME ExpectedFlushed, CommittedRowsKept, NEW t \in Threads,
           RowsMoveOn, OthersReadOn(t), ReadExpects(t)'
    PROVE  ExpectedFlushed'
  <1>1. ASSUME NEW u \in Threads \ {t} PROVE ReadExpects(u)'
    BY <1>1 DEF ExpectedFlushed, ReadExpects, RowsMoveOn, OthersReadOn,
       CommittedRowsKept, Kept, Aggregates
  <1> QED
    BY <1>1 DEF ExpectedFlushed

(* So does a thread whose step is no part of a read. *)
LEMMA NoReadExpects ==
    ASSUME ExpectedFlushed, RowsMoveOn, NEW t \in Threads, ~ Aggregates(t)',
           sought'[t] = sought[t], expected'[t] = expected[t]
    PROVE  ReadExpects(t)'
  BY DEF ExpectedFlushed, ReadExpects, RowsMoveOn, Aggregates

(* Every step keeps what reads expect. *)
LEMMA ExpectedNext ==
    TypeOK /\ StorageInvariant /\ ReadInvariant /\ ExpectedFlushed /\ [Next]_vars
       => ExpectedFlushed'
  <1> SUFFICES ASSUME TypeOK, StorageInvariant, ReadInvariant, ExpectedFlushed,
                      [Next]_vars
               PROVE  ExpectedFlushed'
    OBVIOUS
  <1> USE DEF Goto, shared, insert, read, history
  <1>1. ASSUME NEW t \in Threads, TableNotFound(t)
        PROVE  RowsMoveOn /\ OthersReadOn(t) /\ ReadExpects(t)'
    <2>2. RowsMoveOn /\ OthersReadOn(t)
      BY <1>1 DEF TableNotFound, vars, RowsMoveOn, OthersReadOn, TypeOK, ControlTypeOK
    <2>3. ~ Aggregates(t)' /\ sought'[t] = sought[t] /\ expected'[t] = expected[t]
      BY <1>1 DEF TableNotFound, vars, Aggregates, TypeOK, ControlTypeOK
    <2> QED
      BY <2>2, <2>3, NoReadExpects
  <1>2. ASSUME NEW t \in Threads, CreateEntry(t)
        PROVE  RowsMoveOn /\ OthersReadOn(t) /\ ReadExpects(t)'
    <2>2. RowsMoveOn /\ OthersReadOn(t)
      BY <1>2 DEF CreateEntry, RowsMoveOn, OthersReadOn, TypeOK, ControlTypeOK
    <2>3. ~ Aggregates(t)' /\ sought'[t] = sought[t] /\ expected'[t] = expected[t]
      BY <1>2 DEF CreateEntry, Aggregates, TypeOK, ControlTypeOK
    <2> QED
      BY <2>2, <2>3, NoReadExpects
  <1>3. ASSUME NEW t \in Threads, RegisterIndex(t)
        PROVE  RowsMoveOn /\ OthersReadOn(t) /\ ReadExpects(t)'
    <2>2. RowsMoveOn /\ OthersReadOn(t)
      BY <1>3 DEF RegisterIndex, Return, RowsMoveOn, OthersReadOn, TypeOK, ControlTypeOK
    <2>3. ~ Aggregates(t)' /\ sought'[t] = sought[t] /\ expected'[t] = expected[t]
      BY <1>3 DEF RegisterIndex, Return, Aggregates, TypeOK, ControlTypeOK
    <2> QED
      BY <2>2, <2>3, NoReadExpects
  <1>4. ASSUME NEW t \in Threads, BeginDrop(t)
        PROVE  RowsMoveOn /\ OthersReadOn(t) /\ ReadExpects(t)'
    <2>2. RowsMoveOn /\ OthersReadOn(t)
      BY <1>4 DEF BeginDrop, Resolve, RowsMoveOn, OthersReadOn, TypeOK, ControlTypeOK
    <2>3. ~ Aggregates(t)' /\ sought'[t] = sought[t] /\ expected'[t] = expected[t]
      BY <1>4 DEF BeginDrop, Resolve, Aggregates, TypeOK, ControlTypeOK
    <2> QED
      BY <2>2, <2>3, NoReadExpects
  <1>5. ASSUME NEW t \in Threads, DropRows(t)
        PROVE  RowsMoveOn /\ OthersReadOn(t) /\ ReadExpects(t)'
    <2>2. RowsMoveOn /\ OthersReadOn(t)
      BY <1>5 DEF DropRows, RowsMoveOn, OthersReadOn, TypeOK, ControlTypeOK
    <2>3. ~ Aggregates(t)' /\ sought'[t] = sought[t] /\ expected'[t] = expected[t]
      BY <1>5 DEF DropRows, Aggregates, TypeOK, ControlTypeOK
    <2> QED
      BY <2>2, <2>3, NoReadExpects
  <1>6. ASSUME NEW t \in Threads, DropChunks(t)
        PROVE  RowsMoveOn /\ OthersReadOn(t) /\ ReadExpects(t)'
    <2>2. RowsMoveOn /\ OthersReadOn(t)
      BY <1>6 DEF DropChunks, RowsMoveOn, OthersReadOn, TypeOK, ControlTypeOK
    <2>3. ~ Aggregates(t)' /\ sought'[t] = sought[t] /\ expected'[t] = expected[t]
      BY <1>6 DEF DropChunks, Aggregates, TypeOK, ControlTypeOK
    <2> QED
      BY <2>2, <2>3, NoReadExpects
  <1>7. ASSUME NEW t \in Threads, DropIndex(t)
        PROVE  RowsMoveOn /\ OthersReadOn(t) /\ ReadExpects(t)'
    <2>2. RowsMoveOn /\ OthersReadOn(t)
      BY <1>7 DEF DropIndex, RowsMoveOn, OthersReadOn, TypeOK, ControlTypeOK
    <2>3. ~ Aggregates(t)' /\ sought'[t] = sought[t] /\ expected'[t] = expected[t]
      BY <1>7 DEF DropIndex, Aggregates, TypeOK, ControlTypeOK
    <2> QED
      BY <2>2, <2>3, NoReadExpects
  <1>8. ASSUME NEW t \in Threads, DropEntry(t)
        PROVE  RowsMoveOn /\ OthersReadOn(t) /\ ReadExpects(t)'
    <2>2. RowsMoveOn /\ OthersReadOn(t)
      BY <1>8 DEF DropEntry, Return, RowsMoveOn, OthersReadOn, TypeOK, ControlTypeOK
    <2>3. ~ Aggregates(t)' /\ sought'[t] = sought[t] /\ expected'[t] = expected[t]
      BY <1>8 DEF DropEntry, Return, Aggregates, TypeOK, ControlTypeOK
    <2> QED
      BY <2>2, <2>3, NoReadExpects
  <1>9. ASSUME NEW t \in Threads, BeginInsert(t)
        PROVE  RowsMoveOn /\ OthersReadOn(t) /\ ReadExpects(t)'
    <2>2. RowsMoveOn /\ OthersReadOn(t)
      BY <1>9 DEF BeginInsert, Resolve, RowsMoveOn, OthersReadOn, TypeOK, ControlTypeOK
    <2>3. ~ Aggregates(t)' /\ sought'[t] = sought[t] /\ expected'[t] = expected[t]
      BY <1>9 DEF BeginInsert, Resolve, Aggregates, TypeOK, ControlTypeOK
    <2> QED
      BY <2>2, <2>3, NoReadExpects
  <1>10. ASSUME NEW t \in Threads, StoreRow(t)
        PROVE  RowsMoveOn /\ OthersReadOn(t) /\ ReadExpects(t)'
    <2>2. RowsMoveOn /\ OthersReadOn(t)
      BY <1>10 DEF StoreRow, RowsMoveOn, OthersReadOn, TypeOK, ControlTypeOK
    <2>3. ~ Aggregates(t)' /\ sought'[t] = sought[t] /\ expected'[t] = expected[t]
      BY <1>10 DEF StoreRow, Aggregates, TypeOK, ControlTypeOK
    <2> QED
      BY <2>2, <2>3, NoReadExpects
  <1>11. ASSUME NEW t \in Threads, GetIndex(t)
        PROVE  RowsMoveOn /\ OthersReadOn(t) /\ ReadExpects(t)'
    <2>2. RowsMoveOn /\ OthersReadOn(t)
      BY <1>11 DEF GetIndex, RowsMoveOn, OthersReadOn, TypeOK, ControlTypeOK
    <2>3. ~ Aggregates(t)' /\ sought'[t] = sought[t] /\ expected'[t] = expected[t]
      BY <1>11 DEF GetIndex, Aggregates, TypeOK, ControlTypeOK
    <2> QED
      BY <2>2, <2>3, NoReadExpects
  <1>12. ASSUME NEW t \in Threads, IndexRow(t)
        PROVE  RowsMoveOn /\ OthersReadOn(t) /\ ReadExpects(t)'
    <2>2. RowsMoveOn /\ OthersReadOn(t)
      BY <1>12 DEF IndexRow, RowsMoveOn, OthersReadOn, TypeOK, ControlTypeOK
    <2>3. ~ Aggregates(t)' /\ sought'[t] = sought[t] /\ expected'[t] = expected[t]
      BY <1>12 DEF IndexRow, Aggregates, TypeOK, ControlTypeOK
    <2> QED
      BY <2>2, <2>3, NoReadExpects
  <1>13. ASSUME NEW t \in Threads, RefuseKey(t)
        PROVE  RowsMoveOn /\ OthersReadOn(t) /\ ReadExpects(t)'
    <2>2. RowsMoveOn /\ OthersReadOn(t)
      BY <1>13 DEF RefuseKey, Return, ForgetInsert, RowsMoveOn, OthersReadOn, TypeOK, ControlTypeOK
    <2>3. ~ Aggregates(t)' /\ sought'[t] = sought[t] /\ expected'[t] = expected[t]
      BY <1>13 DEF RefuseKey, Return, ForgetInsert, Aggregates, TypeOK, ControlTypeOK
    <2> QED
      BY <2>2, <2>3, NoReadExpects
  <1>14. ASSUME NEW t \in Threads, PushRow(t)
        PROVE  RowsMoveOn /\ OthersReadOn(t) /\ ReadExpects(t)'
    <2>1. row[t] \notin Columnar
      BY <1>14 DEF PushRow, Holds, StorageInvariant, HeldRowIsNew
    <2>2. RowsMoveOn /\ OthersReadOn(t)
      BY <1>14, <2>1 DEF PushRow, NextRow, Return, ForgetInsert, RowsMoveOn, OthersReadOn, TypeOK, ControlTypeOK
    <2>3. ~ Aggregates(t)' /\ sought'[t] = sought[t] /\ expected'[t] = expected[t]
      BY <1>14 DEF PushRow, NextRow, Return, ForgetInsert, Aggregates, TypeOK, ControlTypeOK
    <2> QED
      BY <2>2, <2>3, NoReadExpects
  <1>15. ASSUME NEW t \in Threads, PushRowAndTake(t)
        PROVE  RowsMoveOn /\ OthersReadOn(t) /\ ReadExpects(t)'
    <2>2. RowsMoveOn /\ OthersReadOn(t)
      BY <1>15 DEF PushRowAndTake, RowsMoveOn, OthersReadOn, TypeOK, ControlTypeOK
    <2>3. ~ Aggregates(t)' /\ sought'[t] = sought[t] /\ expected'[t] = expected[t]
      BY <1>15 DEF PushRowAndTake, Aggregates, TypeOK, ControlTypeOK
    <2> QED
      BY <2>2, <2>3, NoReadExpects
  <1>16. ASSUME NEW t \in Threads, PublishFull(t)
        PROVE  RowsMoveOn /\ OthersReadOn(t) /\ ReadExpects(t)'
    <2>2. RowsMoveOn /\ OthersReadOn(t)
      BY <1>16 DEF PublishFull, InsertChunk, NextRow, Return, ForgetInsert, RowsMoveOn, OthersReadOn, TypeOK, ControlTypeOK
    <2>3. ~ Aggregates(t)' /\ sought'[t] = sought[t] /\ expected'[t] = expected[t]
      BY <1>16 DEF PublishFull, InsertChunk, NextRow, Return, ForgetInsert, Aggregates, TypeOK, ControlTypeOK
    <2> QED
      BY <2>2, <2>3, NoReadExpects
  <1>17. ASSUME NEW t \in Threads, BeginAggregate(t)
        PROVE  RowsMoveOn /\ OthersReadOn(t) /\ ReadExpects(t)'
    <2>1. RowsMoveOn /\ OthersReadOn(t)
      BY <1>17 DEF BeginAggregate, Resolve, CommittedOf, Of, RowsMoveOn, OthersReadOn, TypeOK, ControlTypeOK, ReadTypeOK
    <2>2. sought[t] = NULL
      BY <1>17 DEF BeginAggregate, Resolve, ReadInvariant, LookupsIndexed, LookupIndexed,
         Reads, Aggregates, LooksUp
    <2> QED
      BY <1>17, <2>1, <2>2, NoReadExpects
         DEF BeginAggregate, Resolve, CommittedOf, Of, ExpectedFlushed, ReadExpects, Aggregates, TypeOK, ControlTypeOK, ReadTypeOK
  <1>18. ASSUME NEW t \in Threads, BeginScan(t)
        PROVE  RowsMoveOn /\ OthersReadOn(t) /\ ReadExpects(t)'
    <2>1. RowsMoveOn /\ OthersReadOn(t)
      BY <1>18 DEF BeginScan, Resolve, CommittedOf, Of, RowsMoveOn, OthersReadOn, TypeOK, ControlTypeOK, ReadTypeOK
    <2>2. sought[t] = NULL
      BY <1>18 DEF BeginScan, Resolve, ReadInvariant, LookupsIndexed, LookupIndexed,
         Reads, Aggregates, LooksUp
    <2> QED
      BY <1>18, <2>1, <2>2, NoReadExpects
         DEF BeginScan, Resolve, CommittedOf, Of, ExpectedFlushed, ReadExpects, Aggregates, TypeOK, ControlTypeOK, ReadTypeOK
  <1>19. ASSUME NEW t \in Threads, BeginIdSelect(t)
        PROVE  RowsMoveOn /\ OthersReadOn(t) /\ ReadExpects(t)'
    <2>1. RowsMoveOn /\ OthersReadOn(t)
      BY <1>19 DEF BeginIdSelect, Resolve, CommittedOf, Of, RowsMoveOn, OthersReadOn, TypeOK, ControlTypeOK, ReadTypeOK
    <2> QED
      BY <1>19, <2>1, NoReadExpects
         DEF BeginIdSelect, Resolve, CommittedOf, Of, ExpectedFlushed, ReadExpects, Aggregates, TypeOK, ControlTypeOK, ReadTypeOK
  <1>20. ASSUME NEW t \in Threads, FlushBuffer(t)
        PROVE  RowsMoveOn /\ OthersReadOn(t) /\ ReadExpects(t)'
    <2>1. RowsMoveOn /\ OthersReadOn(t)
      BY <1>20 DEF FlushBuffer, Of, RowsMoveOn, OthersReadOn, TypeOK, ControlTypeOK, ReadTypeOK
    <2> QED
      BY <1>20, <2>1, NoReadExpects
         DEF FlushBuffer, Of, ExpectedFlushed, ReadExpects, Aggregates, TypeOK, ControlTypeOK, ReadTypeOK
  <1>21. ASSUME NEW t \in Threads, PublishFlushed(t)
        PROVE  RowsMoveOn /\ OthersReadOn(t) /\ ReadExpects(t)'
    <2>1. RowsMoveOn /\ OthersReadOn(t)
      BY <1>21 DEF PublishFlushed, InsertChunk, RowsMoveOn, OthersReadOn, TypeOK, ControlTypeOK, ReadTypeOK
    <2> QED
      BY <1>21, <2>1, NoReadExpects
         DEF PublishFlushed, InsertChunk, ExpectedFlushed, ReadExpects, Aggregates, TypeOK, ControlTypeOK, ReadTypeOK
  <1>22. ASSUME NEW t \in Threads, ReadChunks(t)
        PROVE  RowsMoveOn /\ OthersReadOn(t) /\ ReadExpects(t)'
    <2>1. RowsMoveOn /\ OthersReadOn(t)
      BY <1>22 DEF ReadChunks, RowsMoveOn, OthersReadOn, TypeOK, ControlTypeOK, ReadTypeOK
    <2> QED
      BY <1>22, <2>1, NoReadExpects
         DEF ReadChunks, ExpectedFlushed, ReadExpects, Aggregates, TypeOK, ControlTypeOK, ReadTypeOK
  <1>23. ASSUME NEW t \in Threads, FindIndex(t)
        PROVE  RowsMoveOn /\ OthersReadOn(t) /\ ReadExpects(t)'
    <2>1. RowsMoveOn /\ OthersReadOn(t)
      BY <1>23 DEF FindIndex, RowsMoveOn, OthersReadOn, TypeOK, ControlTypeOK, ReadTypeOK
    <2> QED
      BY <1>23, <2>1, NoReadExpects
         DEF FindIndex, ExpectedFlushed, ReadExpects, Aggregates, TypeOK, ControlTypeOK, ReadTypeOK
  <1>24. ASSUME NEW t \in Threads, ReadIndex(t)
        PROVE  RowsMoveOn /\ OthersReadOn(t) /\ ReadExpects(t)'
    <2>1. RowsMoveOn /\ OthersReadOn(t)
      BY <1>24 DEF ReadIndex, RowsMoveOn, OthersReadOn, TypeOK, ControlTypeOK, ReadTypeOK
    <2> QED
      BY <1>24, <2>1, NoReadExpects
         DEF ReadIndex, ExpectedFlushed, ReadExpects, Aggregates, TypeOK, ControlTypeOK, ReadTypeOK
  <1>25. ASSUME NEW t \in Threads, FetchRow(t)
        PROVE  RowsMoveOn /\ OthersReadOn(t) /\ ReadExpects(t)'
    <2>1. RowsMoveOn /\ OthersReadOn(t)
      BY <1>25 DEF FetchRow, RowsMoveOn, OthersReadOn, TypeOK, ControlTypeOK, ReadTypeOK
    <2> QED
      BY <1>25, <2>1, NoReadExpects
         DEF FetchRow, ExpectedFlushed, ReadExpects, Aggregates, TypeOK, ControlTypeOK, ReadTypeOK
  <1>26. ASSUME NEW t \in Threads, FetchDone(t)
        PROVE  RowsMoveOn /\ OthersReadOn(t) /\ ReadExpects(t)'
    <2>1. RowsMoveOn /\ OthersReadOn(t)
      BY <1>26 DEF FetchDone, RowsMoveOn, OthersReadOn, TypeOK, ControlTypeOK, ReadTypeOK
    <2> QED
      BY <1>26, <2>1, NoReadExpects
         DEF FetchDone, ExpectedFlushed, ReadExpects, Aggregates, TypeOK, ControlTypeOK, ReadTypeOK
  <1>27. ASSUME NEW t \in Threads, ScanAgain(t)
        PROVE  RowsMoveOn /\ OthersReadOn(t) /\ ReadExpects(t)'
    <2>1. RowsMoveOn /\ OthersReadOn(t)
      BY <1>27 DEF ScanAgain, Return, ForgetRead, RowsMoveOn, OthersReadOn, TypeOK, ControlTypeOK, ReadTypeOK
    <2> QED
      BY <1>27, <2>1, NoReadExpects
         DEF ScanAgain, Return, ForgetRead, ExpectedFlushed, ReadExpects, Aggregates, TypeOK, ControlTypeOK, ReadTypeOK
  <1>28. ASSUME NEW t \in Threads, Scan(t)
        PROVE  RowsMoveOn /\ OthersReadOn(t) /\ ReadExpects(t)'
    <2>1. RowsMoveOn /\ OthersReadOn(t)
      BY <1>28 DEF Scan, RowsMoveOn, OthersReadOn, TypeOK, ControlTypeOK, ReadTypeOK
    <2> QED
      BY <1>28, <2>1, NoReadExpects
         DEF Scan, ExpectedFlushed, ReadExpects, Aggregates, TypeOK, ControlTypeOK, ReadTypeOK
  <1>29. ASSUME NEW t \in Threads, Reply(t)
        PROVE  RowsMoveOn /\ OthersReadOn(t) /\ ReadExpects(t)'
    <2>1. RowsMoveOn /\ OthersReadOn(t)
      BY <1>29 DEF Reply, Return, ForgetRead, RowsMoveOn, OthersReadOn, TypeOK, ControlTypeOK, ReadTypeOK
    <2> QED
      BY <1>29, <2>1, NoReadExpects
         DEF Reply, Return, ForgetRead, ExpectedFlushed, ReadExpects, Aggregates, TypeOK, ControlTypeOK, ReadTypeOK
  <1>30. CASE UNCHANGED vars
    BY <1>30 DEF vars, ExpectedFlushed, ReadExpects, Aggregates
  <1>31. ASSUME NEW t \in Threads, Begin(t) \/ Step(t)
        PROVE  RowsMoveOn /\ OthersReadOn(t) /\ ReadExpects(t)'
    BY <1>31, <1>1, <1>2, <1>3, <1>4, <1>5, <1>6, <1>7, <1>8, <1>9, <1>10, <1>11, <1>12, <1>13, <1>14, <1>15, <1>16, <1>17, <1>18, <1>19, <1>20, <1>21, <1>22, <1>23, <1>24, <1>25, <1>26, <1>27, <1>28, <1>29
       DEF Begin, Step
  <1> QED
    BY <1>30, <1>31, OthersExpect DEF Next, StorageInvariant

(* What a thread does between reading and its reply is a step of its own. *)
LEMMA ReadsEndByReading ==
    ASSUME TypeOK, [Next]_vars, NEW t \in Threads,
           pc[t] \in {"read_chunks", "scan"}, pc'[t] = "reply"
    PROVE  ReadChunks(t) \/ Scan(t)
  <1> USE DEF Goto, TypeOK, ControlTypeOK
  <1>1. ~ UNCHANGED vars
    BY DEF vars
  <1>2. PICK u \in Threads : Begin(u) \/ Step(u)
    BY <1>1 DEF Next
  <1>3. ASSUME u # t PROVE pc'[t] = pc[t]
    <2>1. CASE Begin(u)
      BY <1>3, <2>1 DEF Begin, TableNotFound, vars, CreateEntry, BeginDrop, BeginInsert,
         BeginAggregate, BeginScan, BeginIdSelect
    <2>2. CASE StoreRow(u) \/ GetIndex(u) \/ IndexRow(u) \/ RefuseKey(u) \/ PushRow(u)
               \/ PushRowAndTake(u) \/ PublishFull(u) \/ FlushBuffer(u) \/ PublishFlushed(u)
      BY <1>3, <2>2 DEF StoreRow, GetIndex, IndexRow, RefuseKey, PushRow, PushRowAndTake,
         PublishFull, FlushBuffer, PublishFlushed, NextRow, ForgetInsert, Return
    <2>3. CASE RegisterIndex(u) \/ DropRows(u) \/ DropChunks(u) \/ DropIndex(u) \/ DropEntry(u)
      BY <1>3, <2>3 DEF RegisterIndex, DropRows, DropChunks, DropIndex, DropEntry, Return
    <2>4. CASE ReadChunks(u) \/ FindIndex(u) \/ ReadIndex(u) \/ FetchRow(u) \/ FetchDone(u)
               \/ ScanAgain(u) \/ Scan(u) \/ Reply(u)
      BY <1>3, <2>4 DEF ReadChunks, FindIndex, ReadIndex, FetchRow, FetchDone,
         ScanAgain, Scan, Reply, ForgetRead, Return
    <2> QED
      BY <1>2, <2>1, <2>2, <2>3, <2>4 DEF Step
  <1>4. u = t
    BY <1>3
  <1>5. ~ Begin(t)
    BY DEF Begin, TableNotFound, CreateEntry, BeginDrop, BeginInsert,
       BeginAggregate, BeginScan, BeginIdSelect, Resolve
  <1> QED
    BY <1>2, <1>4, <1>5 DEF Step, RegisterIndex, DropRows,
       DropChunks, DropIndex, DropEntry, StoreRow, GetIndex, IndexRow,
       RefuseKey, PushRow, PushRowAndTake, PublishFull, FlushBuffer,
       PublishFlushed, FindIndex, ReadIndex, FetchRow, FetchDone,
       ScanAgain, Reply

(* The rows an aggregate or a scan leaves out are in other threads' hands, *)
(* or of a table that was dropped, or the name has changed its table.      *)
LEMMA MissingIsInFlight ==
    ASSUME TypeOK, StorageInvariant, ExpectedFlushed, [Next]_vars,
           NEW t \in Threads, NEW r \in expected[t],
           pc[t] \in {"read_chunks", "scan"}, pc'[t] = "reply"
    PROVE  \/ r \in got'[t]
           \/ r.table \in cleared
           \/ pc[t] = "read_chunks" /\ \E u \in Threads \ {t} : r \in taken[u]
           \/ pc[t] = "scan" /\ r.table # meta[t].id
  <1>1. r \in committed /\ sought[t] \in {NULL, r.key}
    BY DEF ExpectedFlushed, ReadExpects
  <1>2. r.table \in cleared \/ (r \in data /\ r \in Columnar)
    BY <1>1 DEF StorageInvariant, CommittedRowsKept, Kept
  <1>3. CASE Scan(t)
    BY <1>1, <1>2, <1>3 DEF Scan, Of, Goto, TypeOK, ReadTypeOK
  <1>4. CASE ReadChunks(t)
    <2>1. pc[t] = "read_chunks" /\ taken[t] = {}
      BY <1>4 DEF ReadChunks, StorageInvariant, TakenRowsAreOwned, Publishes
    <2>2. r.table = meta[t].id /\ (r \notin buffer \/ r.table \in cleared)
      BY <2>1 DEF ExpectedFlushed, ReadExpects, Aggregates
    <2>3. CASE r \in Chunked
      <3>1. PICK c \in chunks : r \in c.rows
        BY <2>3 DEF Chunked
      <3>2. c \in Of(chunks, meta[t].id)
        BY <2>2, <3>1 DEF Of, StorageInvariant, ChunksAreOfOneTable
      <3>3. got'[t] = UNION {d.rows : d \in Of(chunks, meta[t].id)}
        BY <1>4, <3>2 DEF ReadChunks, TypeOK, ReadTypeOK
      <3> QED
        BY <3>1, <3>2, <3>3
    <2>4. CASE r \notin Chunked /\ r.table \notin cleared
      BY <1>2, <2>1, <2>2, <2>4 DEF Columnar
    <2> QED
      BY <2>3, <2>4
  <1> QED
    BY <1>3, <1>4, ReadsEndByReading

(* So an aggregate never counts less than what had been committed before   *)
(* it began, but for rows on their way from the buffer to a chunk.         *)
THEOREM MissedRowsAreInFlight == Spec => ReadsMissOnlyInFlight
  <1>1. Init => ExpectedFlushed
    BY DEF Init, ExpectedFlushed, ReadExpects, Aggregates
  <1>2. /\ TypeOK /\ StorageInvariant /\ ReadInvariant /\ ExpectedFlushed
        /\ [Next]_vars
        => (TypeOK /\ StorageInvariant /\ ReadInvariant /\ ExpectedFlushed)'
    BY TypeNext, StorageNext, ReadNext, ExpectedNext
  <1>3. /\ TypeOK /\ StorageInvariant /\ ExpectedFlushed /\ [Next]_vars
        => [\A t \in Threads : \A r \in expected[t] :
              pc[t] \in {"read_chunks", "scan"} /\ pc'[t] = "reply" =>
                  \/ r \in got'[t]
                  \/ r.table \in cleared
                  \/ pc[t] = "read_chunks" /\ \E u \in Threads \ {t} : r \in taken[u]
                  \/ pc[t] = "scan" /\ r.table # meta[t].id]_vars
    BY MissingIsInFlight
  <1> QED
    BY <1>1, <1>2, <1>3, TypeInit, StorageInit, ReadInit, PTL
       DEF Spec, ReadsMissOnlyInFlight

-----------------------------------------------------------------------------
(* One caller. *)

(* All that is known of a reachable state. *)
Known == Alone /\ TypeOK /\ StorageInvariant /\ ReadInvariant /\ SoloInvariant

(* Which steps write which variable, and where a step goes. *)
Writers(t) ==
    /\ UNCHANGED catalog \/ CreateEntry(t) \/ DropEntry(t)
    /\ UNCHANGED next_row_id \/ StoreRow(t)
    /\ UNCHANGED data \/ DropRows(t) \/ StoreRow(t)
    /\ UNCHANGED index_store \/ RegisterIndex(t) \/ DropIndex(t)
    /\ UNCHANGED index \/ IndexRow(t)
    /\ UNCHANGED chunks \/ DropChunks(t) \/ PublishFull(t) \/ PublishFlushed(t)
    /\ UNCHANGED committed \/ PushRow(t) \/ PublishFull(t)
    /\ UNCHANGED cleared \/ DropRows(t)
    /\ UNCHANGED <<values, row, pushed>> \/ BeginInsert(t) \/ StoreRow(t)
          \/ RefuseKey(t) \/ PushRow(t) \/ PublishFull(t)
    /\ \/ UNCHANGED <<meta, target>>
       \/ pc[t] = "idle"
       \/ pc'[t] = "idle"
       \/ ScanAgain(t)
    /\ pc[t] # "idle" =>
          /\ pc'[t] # "register_index"
          /\ pc[t] = "register_index" => pc'[t] = "idle"

(* Every step is a step of the caller, and writes what it is said to.      *)
LEMMA StepWrites ==
    ASSUME TypeOK, NEW t \in Threads, Begin(t) \/ Step(t) PROVE Writers(t)
  <1> USE DEF Goto, shared, insert, read, history
  <1>1. TableNotFound(t) => Writers(t)
    BY DEF TableNotFound, vars, Writers, TypeOK, ControlTypeOK
  <1>2. CreateEntry(t) => Writers(t)
    BY DEF CreateEntry, Writers, TypeOK, ControlTypeOK
  <1>3. BeginDrop(t) => Writers(t)
    BY DEF BeginDrop, Resolve, Writers, TypeOK, ControlTypeOK
  <1>4. BeginInsert(t) => Writers(t)
    BY DEF BeginInsert, Resolve, Writers, TypeOK, ControlTypeOK
  <1>5. BeginAggregate(t) => Writers(t)
    BY DEF BeginAggregate, Resolve, Writers, TypeOK, ControlTypeOK
  <1>6. BeginScan(t) => Writers(t)
    BY DEF BeginScan, Resolve, Writers, TypeOK, ControlTypeOK
  <1>7. BeginIdSelect(t) => Writers(t)
    BY DEF BeginIdSelect, Resolve, Writers, TypeOK, ControlTypeOK
  <1>8. RegisterIndex(t) => Writers(t)
    BY DEF RegisterIndex, Return, Writers, TypeOK, ControlTypeOK
  <1>9. DropRows(t) => Writers(t)
    BY DEF DropRows, Writers, TypeOK, ControlTypeOK
  <1>10. DropChunks(t) => Writers(t)
    BY DEF DropChunks, Writers, TypeOK, ControlTypeOK
  <1>11. DropIndex(t) => Writers(t)
    BY DEF DropIndex, Writers, TypeOK, ControlTypeOK
  <1>12. DropEntry(t) => Writers(t)
    BY DEF DropEntry, Return, Writers, TypeOK, ControlTypeOK
  <1>13. StoreRow(t) => Writers(t)
    BY DEF StoreRow, Writers, TypeOK, ControlTypeOK
  <1>14. GetIndex(t) => Writers(t)
    BY DEF GetIndex, Writers, TypeOK, ControlTypeOK
  <1>15. IndexRow(t) => Writers(t)
    BY DEF IndexRow, Writers, TypeOK, ControlTypeOK
  <1>16. RefuseKey(t) => Writers(t)
    BY DEF RefuseKey, Return, ForgetInsert, Writers, TypeOK, ControlTypeOK
  <1>17. PushRow(t) => Writers(t)
    BY DEF PushRow, NextRow, Return, ForgetInsert, Writers, TypeOK, ControlTypeOK
  <1>18. PushRowAndTake(t) => Writers(t)
    BY DEF PushRowAndTake, Writers, TypeOK, ControlTypeOK
  <1>19. PublishFull(t) => Writers(t)
    BY DEF PublishFull, InsertChunk, NextRow, Return, ForgetInsert, Writers, TypeOK, ControlTypeOK
  <1>20. FlushBuffer(t) => Writers(t)
    BY DEF FlushBuffer, Writers, TypeOK, ControlTypeOK
  <1>21. PublishFlushed(t) => Writers(t)
    BY DEF PublishFlushed, InsertChunk, Writers, TypeOK, ControlTypeOK
  <1>22. ReadChunks(t) => Writers(t)
    BY DEF ReadChunks, Writers, TypeOK, ControlTypeOK
  <1>23. FindIndex(t) => Writers(t)
    BY DEF FindIndex, Writers, TypeOK, ControlTypeOK
  <1>24. ReadIndex(t) => Writers(t)
    BY DEF ReadIndex, Writers, TypeOK, ControlTypeOK
  <1>25. FetchRow(t) => Writers(t)
    BY DEF FetchRow, Writers, TypeOK, ControlTypeOK
  <1>26. FetchDone(t) => Writers(t)
    BY DEF FetchDone, Writers, TypeOK, ControlTypeOK
  <1>27. ScanAgain(t) => Writers(t)
    BY DEF ScanAgain, Return, ForgetRead, Writers, TypeOK, ControlTypeOK
  <1>28. Scan(t) => Writers(t)
    BY DEF Scan, Writers, TypeOK, ControlTypeOK
  <1>29. Reply(t) => Writers(t)
    BY DEF Reply, Return, ForgetRead, Writers, TypeOK, ControlTypeOK
  <1> QED
    BY <1>1, <1>2, <1>3, <1>4, <1>5, <1>6, <1>7, <1>8, <1>9, <1>10, <1>11,
       <1>12, <1>13, <1>14, <1>15, <1>16, <1>17, <1>18, <1>19, <1>20,
       <1>21, <1>22, <1>23, <1>24, <1>25, <1>26, <1>27, <1>28, <1>29
       DEF Begin, Step

(* A table a statement is about is in the catalog. *)
LEMMA MetaInCatalog ==
    ASSUME Known, NEW t \in Threads, pc[t] # "idle"
    PROVE  /\ meta[t].id \in DOMAIN catalog.tables_by_id
           /\ catalog.tables_by_id[meta[t].id] = meta[t]
           /\ meta[t].id \in Nat /\ meta[t].id < catalog.next_table_id
           /\ Threads = {t} /\ t = Caller
           /\ ~ Dropping(t) => meta[t].id \notin cleared
  <1>1. /\ meta[t].id \in DOMAIN catalog.tables_by_id
        /\ catalog.tables_by_id[meta[t].id] = meta[t]
    BY DEF Known, SoloInvariant, MetaCurrent
  <1>2. meta[t].id \in Nat /\ meta[t].id < catalog.next_table_id
    BY <1>1 DEF Known, TypeOK, CatalogOK, CatalogTypeOK, IdsBelowCounters, IsMap
  <1>3. Threads = {t} /\ t = Caller
    BY DEF Known, Alone
  <1>4. ~ Dropping(t) => meta[t].id \notin cleared
    BY <1>1 DEF Known, SoloInvariant, ClearedGone, Dropping
  <1> QED
    BY <1>1, <1>2, <1>3, <1>4

(* The rows an INSERT has stored so far are in the row store. *)
LEMMA RunningStored ==
    ASSUME Known, NEW t \in Threads, Inserts(t)
    PROVE  /\ Running(t) \subseteq data
           /\ \A r \in Running(t) : r.table = meta[t].id
           /\ Running(t) \cap committed = {}
  <1>1. meta[t].id \notin cleared
    BY MetaInCatalog DEF Inserts, Dropping
  <1>2. \E batch, n : /\ Running(t) = Stored(t, batch, n)
                      /\ Running(t) \cap committed = {}
    BY DEF Known, SoloInvariant, RunningRows
  <1>3. \A r \in Running(t) : r.table = meta[t].id
    BY <1>2 DEF Stored
  <1>4. \A r \in pushed[t] : r.table \in cleared \/ r \in data
    BY DEF Known, StorageInvariant, PushedRowsKept, Kept
  <1>5. pc[t] \in {"get_index", "index_row", "push_row", "publish_full"} =>
           row[t].table \in cleared \/ row[t] \in data
    BY DEF Known, StorageInvariant, HeldRowIsNew, Holds, TakenRowsAreOwned,
           NoPhantomRows, Columnar
  <1>6. Running(t) \subseteq data
    BY <1>1, <1>3, <1>4, <1>5 DEF Running
  <1> QED
    BY <1>2, <1>3, <1>6

(* The end of a row commits the rows of the INSERT or none. *)
LEMMA RowEnds ==
    ASSUME Known, NEW t \in Threads, NextRow(t), pc[t] \in {"push_row", "publish_full"}
    PROVE  /\ committed' = IF values[t] = <<>> THEN committed \cup Running(t)
                                              ELSE committed
           /\ pushed'[t] = IF values[t] = <<>> THEN {} ELSE Running(t)
           /\ pc'[t] = IF values[t] = <<>> THEN "idle" ELSE "store_row"
           /\ values' = values /\ Inserts(t)
           /\ values[t] # <<>> => UNCHANGED <<meta, target>>
  <1>1. Running(t) = pushed[t] \cup {row[t]}
    BY DEF Running
  <1>2. values' = values
    BY DEF NextRow, ForgetInsert, Known, TypeOK, InsertTypeOK
  <1> QED
    BY <1>1, <1>2
       DEF NextRow, ForgetInsert, Return, Goto, Inserts, Known, TypeOK,
           ControlTypeOK, InsertTypeOK

-----------------------------------------------------------------------------
(* The parts of the invariant, one by one. *)

LEMMA TablesUsedNext ==
    ASSUME Known, NEW t \in Threads, Begin(t) \/ Step(t) PROVE TablesUsed'
  <1> USE DEF shared, insert, read, history
  <1>1. Writers(t) /\ TablesUsed /\ catalog.next_table_id \in Nat
    BY StepWrites DEF Known, SoloInvariant, TypeOK, CatalogOK, CatalogTypeOK
  <1>2. /\ \A r \in data \cup committed : r.table \in Nat
        /\ \A id \in cleared : id \in Nat
    BY DEF Known, TypeOK, StoresTypeOK, Rows
  <1>3. CASE CreateEntry(t)
    <2>1. catalog'.next_table_id = catalog.next_table_id + 1
      BY <1>3, CreateTableAdds DEF CreateEntry, Known, TypeOK
    <2> QED
      BY <1>1, <1>2, <1>3, <2>1 DEF CreateEntry, TablesUsed
  <1>4. CASE DropEntry(t)
    <2>1. catalog'.next_table_id = catalog.next_table_id
      BY <1>4, DropTableRemoves DEF DropEntry, Known, TypeOK, SoloInvariant, MetaCurrent
    <2> QED
      BY <1>1, <1>4, <2>1 DEF DropEntry, TablesUsed
  <1>5. CASE DropRows(t)
    BY <1>1, <1>5, MetaInCatalog DEF DropRows, TablesUsed
  <1>6. CASE StoreRow(t)
    BY <1>1, <1>6, MetaInCatalog DEF StoreRow, TablesUsed
  <1>7. CASE PushRow(t) \/ PublishFull(t)
    <2>1. /\ NextRow(t) /\ pc[t] \in {"push_row", "publish_full"}
          /\ UNCHANGED <<catalog, data, cleared>>
      BY <1>7 DEF PushRow, PublishFull
    <2>2. \A r \in Running(t) : r.table = meta[t].id
      BY <2>1, RowEnds, RunningStored
    <2> QED
      BY <1>1, <2>1, <2>2, RowEnds, MetaInCatalog DEF TablesUsed
  <1>8. CASE UNCHANGED <<catalog, data, committed, cleared>>
    BY <1>1, <1>8 DEF TablesUsed
  <1> QED
    BY <1>1, <1>3, <1>4, <1>5, <1>6, <1>7, <1>8 DEF Writers

LEMMA MetaCurrentNext ==
    ASSUME Known, NEW t \in Threads, Begin(t) \/ Step(t) PROVE MetaCurrent'
  <1> USE DEF Goto, shared, insert, read, history
  <1>1. Writers(t) /\ MetaCurrent /\ Threads = {t}
    BY StepWrites DEF Known, SoloInvariant, Alone
  <1>2. pc'[t] = "idle" => MetaCurrent'
    BY <1>1 DEF MetaCurrent
  <1>3. CASE CreateEntry(t)
    <2>1. PICK ns \in Namespaces, name \in Names, schema \in Schemas :
             /\ catalog' = CreateTable(catalog, ns, name, schema)
             /\ IF schema \in IdSchemas
                THEN /\ meta' = [meta EXCEPT ![t] = NewTable(catalog, ns, name, schema)]
                     /\ pc' = [pc EXCEPT ![t] = "register_index"]
                ELSE UNCHANGED <<meta, pc>>
      BY <1>3 DEF CreateEntry
    <2>2. CASE schema \in IdSchemas
      <3> DEFINE table == NewTable(catalog, ns, name, schema)
      <3>1. /\ table.id = catalog.next_table_id /\ table.schema = schema
            /\ table.id \in DOMAIN catalog'.tables_by_id
            /\ catalog'.tables_by_id[table.id] = table
        BY <2>1, CreateTableAdds DEF Known, TypeOK
      <3>2. \A r \in data \cup committed : r.table # catalog.next_table_id
        BY DEF Known, SoloInvariant, TablesUsed, TypeOK, StoresTypeOK, Rows,
               CatalogOK, CatalogTypeOK
      <3>3. meta'[t] = table /\ pc'[t] = "register_index"
        BY <2>1, <2>2 DEF Known, TypeOK, ControlTypeOK
      <3>4. data' = data /\ committed' = committed
        BY <1>3 DEF CreateEntry
      <3> HIDE DEF table
      <3> QED
        BY <1>1, <2>2, <3>1, <3>2, <3>3, <3>4 DEF MetaCurrent
    <2>3. CASE schema \notin IdSchemas
      BY <1>2, <1>3, <2>1, <2>3 DEF CreateEntry
    <2> QED
      BY <2>2, <2>3
  <1>4. CASE \/ BeginDrop(t) \/ BeginInsert(t) \/ BeginAggregate(t)
             \/ BeginScan(t) \/ BeginIdSelect(t)
    <2>1. PICK ns \in Namespaces, name \in Names : Resolve(t, ns, name)
      BY <1>4 DEF BeginDrop, BeginInsert, BeginAggregate, BeginScan, BeginIdSelect
    <2>2. /\ meta'[t] = GetTable(catalog, ns, name)
          /\ target'[t] = <<ns, name>>
          /\ HasTable(catalog, ns, name)
      BY <2>1 DEF Resolve, Known, TypeOK, ControlTypeOK
    <2>3. catalog' = catalog /\ pc'[t] # "register_index"
      BY <1>4 DEF BeginDrop, BeginInsert, BeginAggregate, BeginScan, BeginIdSelect,
                  Known, TypeOK, ControlTypeOK
    <2> QED
      BY <1>1, <2>2, <2>3, GetTableById DEF MetaCurrent, Known, TypeOK
  <1>5. CASE Step(t) /\ pc'[t] # "idle"
    <2>1. pc[t] \notin {"idle", "register_index"} /\ pc'[t] # "register_index"
      <3>1. pc[t] # "idle"
        BY <1>5
           DEF Step, RegisterIndex, DropRows, DropChunks, DropIndex, DropEntry,
               StoreRow, GetIndex, IndexRow, RefuseKey, PushRow, PushRowAndTake,
               PublishFull, FlushBuffer, PublishFlushed, ReadChunks, FindIndex,
               ReadIndex, FetchRow, FetchDone, ScanAgain, Scan, Reply
      <3> QED
        BY <1>1, <1>5, <3>1 DEF Writers
    <2>2. catalog' = catalog
      BY <1>1, <1>5, <2>1
         DEF Writers, CreateEntry, DropEntry, Return, Known, TypeOK, ControlTypeOK
    <2>3. meta'[t] = meta[t] /\ target'[t] = target[t]
      BY <1>1, <1>5, <2>1
         DEF Writers, ScanAgain, Return, MetaCurrent, Known, TypeOK, ControlTypeOK
    <2> QED
      BY <1>1, <2>1, <2>2, <2>3 DEF MetaCurrent
  <1>6. CASE TableNotFound(t)
    BY <1>2, <1>6 DEF TableNotFound, vars
  <1> QED
    BY <1>2, <1>3, <1>4, <1>5, <1>6 DEF Begin

LEMMA IndexesHaveTablesNext ==
    ASSUME Known, NEW t \in Threads, Begin(t) \/ Step(t) PROVE IndexesHaveTables'
  <1> USE DEF Goto, shared, insert, read, history
  <1>1. Writers(t) /\ IndexesHaveTables /\ Threads = {t}
    BY StepWrites DEF Known, SoloInvariant, Alone
  <1>2. CASE CreateEntry(t)
    <2>1. /\ DOMAIN catalog.tables_by_id \subseteq DOMAIN catalog'.tables_by_id
          /\ \A id \in DOMAIN catalog.tables_by_id :
                catalog'.tables_by_id[id] = catalog.tables_by_id[id]
      BY <1>2, CreateTableAdds DEF CreateEntry, Known, TypeOK
    <2>2. index_store' = index_store /\ pc'[t] # "drop_entry"
      BY <1>2 DEF CreateEntry, Known, TypeOK, ControlTypeOK
    <2> QED
      BY <1>1, <2>1, <2>2 DEF IndexesHaveTables
  <1>3. CASE DropEntry(t)
    <2>1. /\ HasTable(catalog, target[t][1], target[t][2])
          /\ GetTable(catalog, target[t][1], target[t][2]) = meta[t]
      BY <1>3 DEF DropEntry, Known, SoloInvariant, MetaCurrent
    <2>2. /\ DOMAIN catalog'.tables_by_id = DOMAIN catalog.tables_by_id \ {meta[t].id}
          /\ \A id \in DOMAIN catalog'.tables_by_id :
                catalog'.tables_by_id[id] = catalog.tables_by_id[id]
      BY <1>3, <2>1, DropTableRemoves DEF DropEntry, Known, TypeOK
    <2>3. /\ index_store' = index_store /\ pc'[t] # "drop_entry"
          /\ meta[t].id \notin index_store
      BY <1>1, <1>3
         DEF DropEntry, Return, IndexesHaveTables, Known, TypeOK, ControlTypeOK
    <2> QED
      BY <1>1, <2>2, <2>3 DEF IndexesHaveTables
  <1>4. CASE RegisterIndex(t)
    <2>1. /\ meta[t].id \in DOMAIN catalog.tables_by_id
          /\ catalog.tables_by_id[meta[t].id].schema \in IdSchemas
      BY <1>4 DEF RegisterIndex, Known, SoloInvariant, MetaCurrent
    <2> QED
      BY <1>1, <1>4, <2>1
         DEF RegisterIndex, Return, IndexesHaveTables, Known, TypeOK, ControlTypeOK
  <1>5. CASE DropIndex(t)
    BY <1>1, <1>5 DEF DropIndex, IndexesHaveTables
  <1>6. CASE UNCHANGED <<catalog, index_store>> /\ ~ DropIndex(t)
    <2>1. pc'[t] # "drop_entry"
      BY <1>6, <1>1
         DEF Begin, Step, TableNotFound, vars, CreateEntry, BeginDrop, BeginInsert,
             BeginAggregate, BeginScan, BeginIdSelect, RegisterIndex, DropRows,
             DropChunks, DropEntry, Return, StoreRow, GetIndex, IndexRow, RefuseKey,
             PushRow, PushRowAndTake, PublishFull, NextRow, FlushBuffer,
             PublishFlushed, ReadChunks, FindIndex, ReadIndex, FetchRow, FetchDone,
             ScanAgain, Scan, Reply, Known, TypeOK, ControlTypeOK
    <2> QED
      BY <1>1, <1>6, <2>1 DEF IndexesHaveTables
  <1> QED
    BY <1>1, <1>2, <1>3, <1>4, <1>5, <1>6 DEF Writers

LEMMA RowsIndexedNext ==
    ASSUME Known, NEW t \in Threads, Begin(t) \/ Step(t) PROVE RowsIndexed'
  <1> USE DEF Goto, shared, insert, read, history
  <1>1. Writers(t) /\ RowsIndexed /\ Threads = {t}
    BY StepWrites DEF Known, SoloInvariant, Alone
  <1>2. CASE RegisterIndex(t)
    <2>1. \A r \in data \cup committed : r.table # meta[t].id
      BY <1>2 DEF RegisterIndex, Known, SoloInvariant, MetaCurrent
    <2> QED
      BY <1>1, <1>2, <2>1 DEF RegisterIndex, RowsIndexed
  <1>3. CASE DropIndex(t)
    BY <1>1, <1>3 DEF DropIndex, RowsIndexed
  <1>4. CASE DropRows(t)
    BY <1>1, <1>4 DEF DropRows, RowsIndexed
  <1>5. CASE StoreRow(t)
    <2>1. row'[t] \in data' /\ data' = data \cup {row'[t]} /\ pc'[t] = "get_index"
      BY <1>5 DEF StoreRow, Known, TypeOK, ControlTypeOK, InsertTypeOK
    <2> QED
      BY <1>1, <1>5, <2>1 DEF StoreRow, RowsIndexed
  <1>6. CASE GetIndex(t)
    <2>1. row[t].table = meta[t].id /\ pc[t] = "get_index"
      BY <1>6 DEF GetIndex, Known, StorageInvariant, HeldRowIsNew, Holds
    <2>2. meta[t].id \in index_store => meta[t].schema \in IdSchemas
      BY <2>1, MetaInCatalog DEF Known, SoloInvariant, IndexesHaveTables
    <2>3. \/ pc'[t] = "index_row"
          \/ meta[t].id \notin index_store
          \/ row[t].key \notin Keys
      BY <1>6, <2>2, SentinelsAssumption
         DEF GetIndex, Known, TypeOK, ControlTypeOK
    <2> QED
      BY <1>1, <1>6, <2>1, <2>3 DEF GetIndex, RowsIndexed
  <1>7. CASE IndexRow(t)
    BY <1>1, <1>7 DEF IndexRow, RowsIndexed
  <1>8. CASE RefuseKey(t)
    BY <1>1, <1>8, SentinelsAssumption DEF RefuseKey, RowsIndexed
  <1>9. CASE PushRow(t) \/ PublishFull(t)
    <2>1. /\ NextRow(t) /\ pc[t] \in {"push_row", "publish_full"}
          /\ UNCHANGED <<data, index_store, index>>
      BY <1>9 DEF PushRow, PublishFull
    <2>2. committed' \subseteq committed \cup data
      BY <2>1, RowEnds, RunningStored
    <2> QED
      BY <1>1, <2>1, <2>2 DEF RowsIndexed
  <1>10. CASE /\ UNCHANGED <<data, committed, index_store, index>>
              /\ pc[t] \notin {"get_index", "index_row"}
    BY <1>1, <1>10 DEF RowsIndexed
  <1>11. /\ pc[t] = "get_index" => GetIndex(t)
         /\ pc[t] = "index_row" => IndexRow(t) \/ RefuseKey(t)
    BY DEF Begin, Step, TableNotFound, vars, CreateEntry, BeginDrop, BeginInsert,
           BeginAggregate, BeginScan, BeginIdSelect, Resolve, RegisterIndex,
           DropRows, DropChunks, DropIndex, DropEntry, StoreRow, GetIndex,
           PushRow, PushRowAndTake, PublishFull, FlushBuffer, PublishFlushed,
           ReadChunks, FindIndex, ReadIndex, FetchRow, FetchDone, ScanAgain, Scan,
           Reply, IndexRow, RefuseKey
  <1> QED
    BY <1>1, <1>2, <1>3, <1>4, <1>5, <1>6, <1>7, <1>8, <1>9, <1>10, <1>11
       DEF Writers

LEMMA ClearedGoneNext ==
    ASSUME Known, NEW t \in Threads, Begin(t) \/ Step(t) PROVE ClearedGone'
  <1> USE DEF Goto, shared, insert, read, history
  <1>1. Writers(t) /\ ClearedGone /\ Threads = {t}
    BY StepWrites DEF Known, SoloInvariant, Alone
  <1> DEFINE At(labels, id) == pc[t] \in labels /\ id = meta[t].id
  <1>2. /\ Dropping(t) => meta[t].id \in cleared
        /\ \A id \in cleared :
              /\ Of(data, id) = {}
              /\ ~ At({"drop_chunks"}, id) => Of(chunks, id) = {}
              /\ ~ At({"drop_chunks", "drop_index"}, id) => id \notin index_store
              /\ ~ At({"drop_chunks", "drop_index", "drop_entry"}, id) =>
                    id \notin DOMAIN catalog.tables_by_id
    BY <1>1 DEF ClearedGone
  <1>3. /\ Dropping(t)' => meta'[t].id \in cleared'
        /\ \A id \in cleared' :
              /\ Of(data', id) = {}
              /\ ~ At({"drop_chunks"}, id)' => Of(chunks', id) = {}
              /\ ~ At({"drop_chunks", "drop_index"}, id)' => id \notin index_store'
              /\ ~ At({"drop_chunks", "drop_index", "drop_entry"}, id)' =>
                    id \notin DOMAIN catalog'.tables_by_id
        => ClearedGone'
    BY <1>1 DEF ClearedGone
  <1>4. CASE CreateEntry(t)
    <2>1. /\ DOMAIN catalog'.tables_by_id =
                DOMAIN catalog.tables_by_id \cup {catalog.next_table_id}
          /\ UNCHANGED <<data, chunks, index_store, cleared>>
          /\ pc[t] = "idle" /\ pc'[t] \in {"idle", "register_index"}
      BY <1>4, CreateTableAdds DEF CreateEntry, Known, TypeOK, ControlTypeOK
    <2>2. catalog.next_table_id \notin cleared
      BY DEF Known, SoloInvariant, TablesUsed, TypeOK, CatalogOK, CatalogTypeOK
    <2> QED
      BY <1>2, <1>3, <2>1, <2>2 DEF Dropping, Of
  <1>5. CASE RegisterIndex(t)
    <2>1. /\ UNCHANGED <<catalog, data, chunks, cleared>>
          /\ index_store' = index_store \cup {meta[t].id}
          /\ pc[t] = "register_index" /\ pc'[t] = "idle"
      BY <1>5 DEF RegisterIndex, Return, Known, TypeOK, ControlTypeOK
    <2>2. meta[t].id \notin cleared
      BY <2>1, MetaInCatalog DEF Dropping
    <2> QED
      BY <1>2, <1>3, <2>1, <2>2 DEF Dropping, Of
  <1>6. CASE DropRows(t)
    <2>1. /\ UNCHANGED <<catalog, chunks, index_store, meta>>
          /\ cleared' = cleared \cup {meta[t].id}
          /\ data' = data \ Of(data, meta[t].id)
          /\ pc[t] = "drop_rows" /\ pc'[t] = "drop_chunks"
      BY <1>6 DEF DropRows, Known, TypeOK, ControlTypeOK
    <2> QED
      BY <1>2, <1>3, <2>1 DEF Dropping, Of
  <1>7. CASE DropChunks(t)
    <2>1. /\ UNCHANGED <<catalog, data, cleared, index_store, meta>>
          /\ chunks' = chunks \ Of(chunks, meta[t].id)
          /\ pc[t] = "drop_chunks" /\ pc'[t] = "drop_index"
      BY <1>7 DEF DropChunks, Known, TypeOK, ControlTypeOK
    <2> QED
      BY <1>2, <1>3, <2>1 DEF Dropping, Of
  <1>8. CASE DropIndex(t)
    <2>1. /\ UNCHANGED <<catalog, data, cleared, chunks, meta>>
          /\ index_store' = index_store \ {meta[t].id}
          /\ pc[t] = "drop_index" /\ pc'[t] = "drop_entry"
      BY <1>8 DEF DropIndex, Known, TypeOK, ControlTypeOK
    <2> QED
      BY <1>2, <1>3, <2>1 DEF Dropping, Of
  <1>9. CASE DropEntry(t)
    <2>1. /\ UNCHANGED <<data, cleared, chunks, index_store>>
          /\ pc[t] = "drop_entry" /\ pc'[t] = "idle"
      BY <1>9 DEF DropEntry, Return, Known, TypeOK, ControlTypeOK
    <2>2. /\ HasTable(catalog, target[t][1], target[t][2])
          /\ GetTable(catalog, target[t][1], target[t][2]) = meta[t]
      BY <2>1 DEF Known, SoloInvariant, MetaCurrent
    <2>3. DOMAIN catalog'.tables_by_id = DOMAIN catalog.tables_by_id \ {meta[t].id}
      BY <1>9, <2>2, DropTableRemoves DEF DropEntry, Known, TypeOK
    <2> QED
      BY <1>2, <1>3, <2>1, <2>3 DEF Dropping, Of
  <1>10. CASE StoreRow(t)
    <2>1. /\ UNCHANGED <<catalog, cleared, chunks, index_store>>
          /\ \A r \in data' : r \in data \/ r.table = meta[t].id
          /\ pc[t] = "store_row" /\ pc'[t] = "get_index"
      BY <1>10 DEF StoreRow, Known, TypeOK, ControlTypeOK
    <2>2. meta[t].id \notin cleared
      BY <2>1, MetaInCatalog DEF Dropping
    <2> QED
      BY <1>2, <1>3, <2>1, <2>2 DEF Dropping, Of
  <1>11. CASE PublishFull(t) \/ PublishFlushed(t)
    <2>1. /\ UNCHANGED <<catalog, cleared, data, index_store>>
          /\ \A c \in chunks' : c \in chunks \/ c.table = meta[t].id
          /\ pc[t] \in {"publish_full", "publish_flushed"}
      BY <1>11 DEF PublishFull, PublishFlushed, InsertChunk
    <2>2. ~ Dropping(t)'
      BY <1>11, RowDoneControl
         DEF PublishFull, PublishFlushed, Dropping, Known, TypeOK, ControlTypeOK
    <2>3. meta[t].id \notin cleared
      BY <2>1, MetaInCatalog DEF Dropping
    <2> QED
      BY <1>2, <1>3, <2>1, <2>2, <2>3 DEF Dropping, Of
  <1>12. CASE /\ UNCHANGED <<data, chunks, index_store, catalog, cleared>>
              /\ ~ Dropping(t) /\ ~ Dropping(t)'
    BY <1>2, <1>3, <1>12 DEF Dropping
  <1>13. \/ DropRows(t) \/ DropChunks(t) \/ DropIndex(t) \/ DropEntry(t)
         \/ ~ Dropping(t) /\ ~ Dropping(t)'
    BY DEF Begin, Step, TableNotFound, vars, CreateEntry, BeginDrop, BeginInsert,
           BeginAggregate, BeginScan, BeginIdSelect, Resolve, RegisterIndex, Return,
           StoreRow, GetIndex, NextRow,
           PushRow, PushRowAndTake, PublishFull, FlushBuffer, PublishFlushed,
           ReadChunks, FindIndex, ReadIndex, FetchRow, FetchDone, ScanAgain, Scan,
           Reply, IndexRow, RefuseKey, Dropping, Known, TypeOK, ControlTypeOK
  <1> QED
    BY <1>1, <1>4, <1>5, <1>6, <1>7, <1>8, <1>9, <1>10, <1>11, <1>12, <1>13
       DEF Writers

(* One step along a sequence that is being worked off. *)
LEMMA OneMoreOf ==
    ASSUME NEW S, NEW s \in Seq(S), NEW n \in 0..Len(s),
           SubSeq(s, n + 1, Len(s)) # <<>>
    PROVE  /\ n + 1 \in 1..Len(s)
           /\ Head(SubSeq(s, n + 1, Len(s))) = s[n + 1]
           /\ Tail(SubSeq(s, n + 1, Len(s))) = SubSeq(s, n + 2, Len(s))
  <1>1. n < Len(s)
    BY SubSeqEmpty
  <1>2. n + 1 \in 1..Len(s) /\ Len(s) \in (n + 1)..Len(s) /\ (n + 1) + 1 = n + 2
    BY <1>1
  <1> QED
    BY <1>2, HeadTailOfSubSeq

(* Once it is worked off, all of it has been stored. *)
LEMMA NothingLeft ==
    ASSUME NEW S, NEW s \in Seq(S), NEW n \in 0..Len(s),
           SubSeq(s, n + 1, Len(s)) = <<>>
    PROVE  n = Len(s)
  <1>1. Len(SubSeq(s, n + 1, Len(s))) = IF n + 1 <= Len(s) THEN Len(s) - n ELSE 0
    OBVIOUS
  <1> QED
    BY <1>1

(* How far an INSERT has come. *)
RunningAt(t, batch, n) ==
    /\ batch \in Batches /\ n \in 0..Len(batch)
    /\ values[t] = SubSeq(batch, n + 1, Len(batch))
    /\ Running(t) = Stored(t, batch, n)
    /\ pc[t] # "store_row" => n # 0 /\ row[t].key = batch[n]
    /\ Running(t) \cap committed = {}

(* A row that is stored is the next one of its INSERT. *)
LEMMA RowStored ==
    ASSUME Known, NEW t \in Threads, StoreRow(t), NEW batch, NEW n,
           RunningAt(t, batch, n)
    PROVE  /\ RunningAt(t, batch, n + 1)'
           /\ Running(t)' = Running(t) \cup {row'[t]}
           /\ Stored(t, batch, n + 1)' = Stored(t, batch, n) \cup {row'[t]}
           /\ pc'[t] = "get_index"
  <1>1. /\ pc[t] = "store_row" /\ pc'[t] = "get_index"
        /\ values'[t] = Tail(values[t])
        /\ row'[t] = [table |-> meta[t].id, id |-> next_row_id, key |-> Head(values[t])]
        /\ UNCHANGED <<pushed, meta, committed>>
        /\ next_row_id' = next_row_id + 1
        /\ values[t] # <<>>
    BY DEF Goto, StoreRow, history, Known, TypeOK, ControlTypeOK, InsertTypeOK
  <1>2. batch \in Seq(KeyValues) /\ Len(batch) \in Nat
    BY BatchesAssumption DEF RunningAt, KeyValues
  <1>3. /\ n + 1 \in 1..Len(batch) /\ Head(values[t]) = batch[n + 1]
        /\ Tail(values[t]) = SubSeq(batch, n + 2, Len(batch))
    BY <1>1, <1>2, OneMoreOf DEF RunningAt
  <1>4. Running(t)' = Running(t) \cup {row'[t]}
    BY <1>1 DEF Running
  <1>5. Stored(t, batch, n + 1)' = Stored(t, batch, n) \cup {row'[t]}
    <2>1. n \in Nat /\ next_row_id \in Nat
      BY <1>2 DEF RunningAt, Known, TypeOK, StoresTypeOK
    <2>2. 1..(n + 1) = 1..n \cup {n + 1} /\ n + 1 \notin 1..n
      BY <2>1
    <2>3. \A i \in 1..(n + 1) : next_row_id' - (n + 1) + i - 1 = next_row_id - n + i - 1
      BY <1>1, <2>1
    <2>4. next_row_id - n + (n + 1) - 1 = next_row_id
      BY <2>1
    <2> DEFINE Later(i) == [table |-> meta[t].id, id |-> next_row_id' - (n + 1) + i - 1,
                            key |-> batch[i]]
               Now(i)   == [table |-> meta[t].id, id |-> next_row_id - n + i - 1,
                            key |-> batch[i]]
    <2>5. \A i \in 1..n : Later(i) = Now(i)
      BY <2>2, <2>3
    <2>6. Later(n + 1) = row'[t]
      BY <1>1, <1>3, <2>3, <2>4, <2>2
    <2> HIDE DEF Later, Now
    <2>7. {Later(i) : i \in 1..(n + 1)} = {Now(i) : i \in 1..n} \cup {row'[t]}
      BY <2>2, <2>5, <2>6
    <2> QED
      BY <1>1, <2>7 DEF Stored, Later, Now
  <1>6. row'[t] \notin committed
    <2>1. row'[t].id = next_row_id /\ next_row_id \in Nat
      BY <1>1 DEF Known, TypeOK, StoresTypeOK
    <2> QED
      BY <2>1 DEF Known, ReadInvariant, RowIdsUnique, Used
  <1>7. row'[t].key = batch[n + 1]
    BY <1>1, <1>3
  <1>8. n + 1 \in 0..Len(batch) /\ n + 1 # 0 /\ (n + 1) + 1 = n + 2
    BY <1>2, <1>3 DEF RunningAt
  <1>9. RunningAt(t, batch, n + 1)'
    BY <1>1, <1>2, <1>3, <1>4, <1>5, <1>6, <1>7, <1>8 DEF RunningAt
  <1> QED
    BY <1>1, <1>4, <1>5, <1>9

LEMMA RunningRowsNext ==
    ASSUME Known, NEW t \in Threads, Begin(t) \/ Step(t) PROVE RunningRows'
  <1> USE DEF Goto, shared, insert, read, history
  <1>1. Writers(t) /\ Threads = {t}
    BY StepWrites DEF Known, Alone
  <1>2. IF Inserts(t) THEN \E batch, n : RunningAt(t, batch, n) ELSE pushed[t] = {}
    BY DEF Known, SoloInvariant, RunningRows, RunningAt
  <1>3. (IF Inserts(t)' THEN \E batch, n : RunningAt(t, batch, n)' ELSE pushed'[t] = {})
        => RunningRows'
    BY <1>1 DEF RunningRows, RunningAt
  <1>4. \A batch \in Batches : batch \in Seq(KeyValues) /\ Len(batch) \in Nat
    BY BatchesAssumption DEF KeyValues
  <1>5. CASE BeginInsert(t)
    <2>1. PICK batch \in Batches : values' = [values EXCEPT ![t] = batch]
      BY <1>5 DEF BeginInsert
    <2>2. pc[t] = "idle" /\ pc'[t] = "store_row" /\ pushed' = pushed /\ values'[t] = batch
      BY <1>5, <2>1
         DEF BeginInsert, Resolve, Known, TypeOK, ControlTypeOK, InsertTypeOK
    <2>3. Running(t)' = {} /\ Stored(t, batch, 0)' = {}
      BY <1>2, <2>2 DEF Running, Stored, Inserts
    <2>4. SubSeq(batch, 1, Len(batch)) = batch
      BY <1>4
    <2>5. RunningAt(t, batch, 0)'
      BY <1>4, <2>2, <2>3, <2>4 DEF RunningAt
    <2> QED
      BY <1>3, <2>2, <2>5 DEF Inserts
  <1>6. CASE StoreRow(t)
    <2>1. PICK batch, n : RunningAt(t, batch, n)
      BY <1>2, <1>6 DEF Inserts, StoreRow
    <2> QED
      BY <1>3, <1>6, <2>1, RowStored DEF Inserts
  <1>7. CASE PushRow(t) \/ PublishFull(t)
    <2>1. /\ NextRow(t) /\ pc[t] \in {"push_row", "publish_full"}
          /\ UNCHANGED next_row_id
      BY <1>7 DEF PushRow, PublishFull
    <2>2. PICK batch, n : RunningAt(t, batch, n)
      BY <1>2, <2>1 DEF Inserts
    <2>3. CASE values[t] = <<>>
      BY <1>3, <2>1, <2>3, RowEnds DEF Inserts
    <2>4. CASE values[t] # <<>>
      <3>1. /\ Running(t)' = Running(t) /\ pc'[t] = "store_row"
            /\ UNCHANGED <<meta, committed, values>>
        BY <2>1, <2>4, RowEnds DEF Running
      <3>2. RunningAt(t, batch, n)'
        BY <2>1, <2>2, <3>1 DEF RunningAt, Stored
      <3> QED
        BY <1>3, <3>1, <3>2 DEF Inserts
    <2> QED
      BY <2>3, <2>4
  <1>8. CASE RefuseKey(t)
    BY <1>3, <1>8
       DEF RefuseKey, ForgetInsert, Return, Inserts, Known, TypeOK, ControlTypeOK,
           InsertTypeOK
  <1>9. CASE GetIndex(t) \/ IndexRow(t) \/ PushRowAndTake(t)
    <2>1. /\ UNCHANGED <<values, row, pushed, meta, committed, next_row_id>>
          /\ pc[t] \in {"get_index", "index_row", "push_row"}
          /\ pc'[t] \in {"index_row", "push_row", "publish_full"}
      BY <1>9 DEF GetIndex, IndexRow, PushRowAndTake, Known, TypeOK, ControlTypeOK
    <2>2. PICK batch, n : RunningAt(t, batch, n)
      BY <1>2, <2>1 DEF Inserts
    <2>3. RunningAt(t, batch, n)'
      BY <2>1, <2>2 DEF RunningAt, Running, Stored
    <2> QED
      BY <1>3, <2>1, <2>3 DEF Inserts
  <1>10. CASE UNCHANGED pushed /\ ~ Inserts(t) /\ ~ Inserts(t)'
    BY <1>2, <1>3, <1>10
  <1>11. \/ BeginInsert(t) \/ StoreRow(t) \/ PushRow(t) \/ PublishFull(t)
         \/ RefuseKey(t) \/ GetIndex(t) \/ IndexRow(t) \/ PushRowAndTake(t)
         \/ ~ Inserts(t) /\ ~ Inserts(t)'
    BY DEF Begin, Step, TableNotFound, vars, CreateEntry, BeginDrop, BeginAggregate,
           BeginScan, BeginIdSelect, Resolve, RegisterIndex, Return, DropRows,
           DropChunks, DropIndex, DropEntry, FlushBuffer, PublishFlushed,
           ReadChunks, FindIndex, ReadIndex, FetchRow, FetchDone, ScanAgain, Scan,
           Reply, Inserts, Known, TypeOK, ControlTypeOK
  <1> QED
    BY <1>1, <1>5, <1>6, <1>7, <1>8, <1>9, <1>10, <1>11 DEF Writers

(* What a read of the chunks finds, after the flush: every committed row   *)
(* of the table, and nothing but its stored rows.                          *)
LEMMA ChunksComplete ==
    ASSUME Known, NEW t \in Threads, pc[t] = "read_chunks"
    PROVE  LET found == UNION {c.rows : c \in Of(chunks, meta[t].id)}
           IN  /\ found \subseteq ToRead(t)
               /\ expected[t] \subseteq found
               /\ sought[t] = NULL
  <1> DEFINE found == UNION {c.rows : c \in Of(chunks, meta[t].id)}
  <1>1. meta[t].id \notin cleared /\ Threads = {t}
    BY MetaInCatalog DEF Dropping
  <1>2. sought[t] = NULL
    BY DEF Known, ReadInvariant, LookupsIndexed, LookupIndexed, Aggregates
  <1>3. ASSUME NEW r \in found PROVE r \in ToRead(t)
    <2>1. r \in Columnar /\ r.table = meta[t].id
      BY <1>3 DEF Of, Columnar, Chunked, Known, StorageInvariant, ChunksAreOfOneTable
    <2> QED
      BY <1>1, <1>2, <2>1 DEF Known, StorageInvariant, NoPhantomRows, ToRead, Of
  <1>4. ASSUME NEW r \in expected[t] PROVE r \in found
    <2>1. r \in committed /\ r.table = meta[t].id
      BY <1>4 DEF Known, SoloInvariant, ReadsOnTrack, Reads, Aggregates, CommittedOf, Of
    <2>2. r \in Columnar
      BY <1>1, <2>1 DEF Known, StorageInvariant, CommittedRowsKept, Kept
    <2>3. r \notin buffer
      BY <2>1 DEF Known, SoloInvariant, ReadsOnTrack, Of
    <2>4. \A u \in Threads : taken[u] = {}
      BY <1>1 DEF Known, StorageInvariant, TakenRowsAreOwned, Publishes
    <2>5. PICK c \in chunks : r \in c.rows
      BY <2>2, <2>3, <2>4 DEF Columnar, Chunked
    <2> QED
      BY <2>1, <2>5 DEF Known, StorageInvariant, ChunksAreOfOneTable, Of
  <1> QED
    BY <1>2, <1>3, <1>4

LEMMA ReadsOnTrackNext ==
    ASSUME Known, NEW t \in Threads, Begin(t) \/ Step(t) PROVE ReadsOnTrack'
  <1> USE DEF Goto, shared, insert, read, history
  <1>1. /\ Threads = {t} /\ ReadsOnTrack /\ LookupIndexed(t) /\ MetaCurrent
        /\ Reads(t) => meta[t].id \notin cleared
    BY MetaInCatalog
       DEF Known, SoloInvariant, ReadInvariant, LookupsIndexed, Alone, Reads,
           Aggregates, LooksUp, Dropping
  <1>2. ~ Reads(t)' => ReadsOnTrack'
    BY <1>1 DEF ReadsOnTrack, Reads, Aggregates, LooksUp
  <1>3. CASE BeginAggregate(t) \/ BeginScan(t)
    <2>1. /\ pc'[t] \in {"flush", "scan"} /\ sought'[t] = NULL
          /\ expected'[t] = CommittedOf(meta'[t].id) /\ committed' = committed
      BY <1>1, <1>3
         DEF BeginAggregate, BeginScan, Resolve, Known, TypeOK, ControlTypeOK,
             ReadTypeOK, LookupIndexed, Aggregates, LooksUp, Reads
    <2> QED
      BY <1>1, <2>1 DEF ReadsOnTrack, CommittedOf, Of
  <1>4. CASE BeginIdSelect(t)
    <2>1. /\ pc'[t] = "find_index" /\ sought'[t] \in Keys
          /\ expected'[t] = {r \in CommittedOf(meta'[t].id) : r.key = sought'[t]}
          /\ committed' = committed
      BY <1>4 DEF BeginIdSelect, Resolve, Known, TypeOK, ControlTypeOK, ReadTypeOK
    <2> QED
      BY <1>1, <2>1, SentinelsAssumption DEF ReadsOnTrack, CommittedOf, Of
  <1>5. CASE FlushBuffer(t) \/ PublishFlushed(t)
    <2>1. /\ UNCHANGED <<meta, sought, expected, committed>> /\ Reads(t)
          /\ pc'[t] \in {"read_chunks", "publish_flushed"}
          /\ Of(buffer', meta[t].id) = {}
      BY <1>1, <1>5
         DEF FlushBuffer, PublishFlushed, Known, TypeOK, ControlTypeOK, Of, Reads,
             Aggregates, ReadsOnTrack
    <2> QED
      BY <1>1, <2>1 DEF ReadsOnTrack, CommittedOf
  <1>6. CASE ReadChunks(t)
    <2>1. /\ UNCHANGED <<meta, sought, expected, committed, data>> /\ Reads(t)
          /\ pc[t] = "read_chunks" /\ pc'[t] \in {"scan_again", "reply"}
          /\ pc'[t] = "reply" =>
                got'[t] = UNION {c.rows : c \in Of(chunks, meta[t].id)}
      BY <1>6
         DEF ReadChunks, Known, TypeOK, ControlTypeOK, ReadTypeOK, Reads, Aggregates
    <2>2. pc'[t] = "reply" => /\ got'[t] \subseteq ToRead(t)
                              /\ sought[t] = NULL /\ expected[t] \subseteq got'[t]
      BY <2>1, ChunksComplete
    <2> QED
      BY <1>1, <2>1, <2>2 DEF ReadsOnTrack, CommittedOf, ToRead
  <1>7. CASE FindIndex(t)
    <2>1. /\ UNCHANGED <<meta, sought, expected, committed, index_store>> /\ Reads(t)
          /\ pc'[t] \in {"read_index", "scan_again"}
          /\ pc'[t] = "read_index" => meta[t].id \in index_store
      BY <1>7 DEF FindIndex, Known, TypeOK, ControlTypeOK, Reads, LooksUp
    <2> QED
      BY <1>1, <2>1 DEF ReadsOnTrack, CommittedOf
  <1>8. CASE ReadIndex(t)
    <2>1. /\ UNCHANGED <<meta, sought, expected, committed, data, got>> /\ Reads(t)
          /\ pc[t] = "read_index" /\ pc'[t] = "fetch_rows"
          /\ row_ids'[t] = {r.id : r \in {e \in Of(index, meta[t].id) :
                                             e.key = sought[t]}}
      BY <1>8
         DEF ReadIndex, Known, TypeOK, ControlTypeOK, ReadTypeOK, Reads, LooksUp
    <2>2. got[t] = {} /\ sought[t] \in Keys
      BY <1>1, <2>1 DEF LookupIndexed, LooksUp
    <2>3. ASSUME NEW r \in Of(data, meta[t].id)
          PROVE  r.id \in row_ids'[t] <=> r.key = sought[t]
      <3>1. ASSUME r.key = sought[t] PROVE r.id \in row_ids'[t]
        <4>1. r \in index
          BY <1>1, <2>1, <2>2, <3>1
             DEF Known, SoloInvariant, RowsIndexed, ReadsOnTrack, Of
        <4> QED
          BY <2>1, <3>1, <4>1 DEF Of
      <3>2. ASSUME r.id \in row_ids'[t] PROVE r.key = sought[t]
        <4>1. PICK e \in Of(index, meta[t].id) : e.key = sought[t] /\ e.id = r.id
          BY <2>1, <3>2
        <4>2. e = r
          BY <4>1 DEF Known, ReadInvariant, RowIdsUnique, Numbered, Of
        <4> QED
          BY <4>1, <4>2
      <3> QED
        BY <3>1, <3>2
    <2>4. ToRead(t) = {r \in Of(data, meta[t].id) : r.id \in row_ids'[t]}
      BY <2>2, <2>3, SentinelsAssumption DEF ToRead
    <2> QED
      BY <1>1, <2>1, <2>2, <2>4 DEF ReadsOnTrack, CommittedOf, ToRead
  <1>9. CASE FetchRow(t)
    <2>1. /\ UNCHANGED <<pc, meta, sought, expected, committed, data>> /\ Reads(t)
          /\ pc[t] = "fetch_rows"
      BY <1>9 DEF FetchRow, Reads, LooksUp
    <2>2. PICK id \in row_ids[t] :
             /\ row_ids'[t] = row_ids[t] \ {id}
             /\ got'[t] = got[t] \cup {r \in Of(data, meta[t].id) : r.id = id}
      BY <1>9 DEF FetchRow, Known, TypeOK, ReadTypeOK
    <2>3. ToRead(t) = got[t] \cup {r \in Of(data, meta[t].id) : r.id \in row_ids[t]}
      BY <1>1, <2>1 DEF ReadsOnTrack
    <2>4. ToRead(t) = got'[t] \cup {r \in Of(data, meta[t].id) : r.id \in row_ids'[t]}
      BY <2>2, <2>3
    <2> QED
      BY <1>1, <2>1, <2>4 DEF ReadsOnTrack, CommittedOf, ToRead
  <1>10. CASE FetchDone(t) \/ Scan(t)
    <2>1. /\ UNCHANGED <<meta, sought, expected, committed, data>> /\ Reads(t)
          /\ pc'[t] = "reply" /\ got'[t] = ToRead(t)
      BY <1>1, <1>10
         DEF FetchDone, Scan, ReadsOnTrack, ToRead, Known, TypeOK, ControlTypeOK,
             ReadTypeOK, Reads, LooksUp
    <2> QED
      BY <1>1, <2>1 DEF ReadsOnTrack, CommittedOf, ToRead
  <1>11. CASE ScanAgain(t)
    <2>1. /\ UNCHANGED <<sought, expected, committed>> /\ Reads(t)
          /\ pc'[t] = "scan" /\ meta'[t] = meta[t]
      BY <1>1, <1>11
         DEF ScanAgain, MetaCurrent, Known, TypeOK, ControlTypeOK, Reads
    <2> QED
      BY <1>1, <2>1 DEF ReadsOnTrack, CommittedOf
  <1>12. \/ BeginAggregate(t) \/ BeginScan(t) \/ BeginIdSelect(t) \/ FlushBuffer(t)
         \/ PublishFlushed(t) \/ ReadChunks(t) \/ FindIndex(t) \/ ReadIndex(t)
         \/ FetchRow(t) \/ FetchDone(t) \/ Scan(t) \/ ScanAgain(t) \/ ~ Reads(t)'
    BY DEF Begin, Step, TableNotFound, vars, CreateEntry, BeginDrop, BeginInsert,
           RegisterIndex, Return, DropRows, DropChunks, DropIndex, DropEntry,
           StoreRow, GetIndex, IndexRow, RefuseKey, PushRow, PushRowAndTake,
           PublishFull, NextRow, Reply, Reads, Aggregates, LooksUp, Known, TypeOK,
           ControlTypeOK
  <1> QED
    BY <1>2, <1>3, <1>4, <1>5, <1>6, <1>7, <1>8, <1>9, <1>10, <1>11, <1>12

(* A session starts with no row and no statement. *)
LEMMA SoloInit == Init => SoloInvariant
  BY DEF Init, SoloInvariant, TablesUsed, MetaCurrent, IndexesHaveTables,
         RowsIndexed, ClearedGone, Dropping, RunningRows, Inserts, ReadsOnTrack,
         Reads, Aggregates, LooksUp

(* Every step of the one caller keeps what is known. *)
LEMMA KnownNext == Known /\ [Next]_vars => Known'
  <1> SUFFICES ASSUME Known, [Next]_vars PROVE Known'
    OBVIOUS
  <1>1. TypeOK' /\ StorageInvariant' /\ ReadInvariant' /\ Alone'
    BY TypeNext, StorageNext, ReadNext DEF Known, Alone, Caller
  <1>2. ASSUME NEW t \in Threads, Begin(t) \/ Step(t) PROVE SoloInvariant'
    BY <1>2, TablesUsedNext, MetaCurrentNext, IndexesHaveTablesNext,
       RowsIndexedNext, ClearedGoneNext, RunningRowsNext, ReadsOnTrackNext
       DEF SoloInvariant
  <1>3. CASE UNCHANGED vars
    <2> USE <1>3 DEF vars, shared, insert, read, history
    <2>0. /\ TablesUsed /\ MetaCurrent /\ IndexesHaveTables /\ RowsIndexed
          /\ ClearedGone /\ RunningRows /\ ReadsOnTrack
      BY DEF Known, SoloInvariant
    <2>1. TablesUsed' /\ MetaCurrent' /\ IndexesHaveTables' /\ RowsIndexed'
      BY <2>0 DEF TablesUsed, MetaCurrent, IndexesHaveTables, RowsIndexed
    <2>2. ClearedGone'
      BY <2>0 DEF ClearedGone, Dropping, Of
    <2>3. RunningRows'
      <3>1. \A t \in Threads : /\ Inserts(t)' <=> Inserts(t)
                               /\ Running(t)' = Running(t)
                               /\ \A batch, n : Stored(t, batch, n)' = Stored(t, batch, n)
        BY DEF Inserts, Running, Stored
      <3> QED
        BY <2>0, <3>1 DEF RunningRows
    <2>4. ReadsOnTrack'
      <3>1. \A t \in Threads : (Reads(t)' <=> Reads(t)) /\ ToRead(t)' = ToRead(t)
        BY DEF Reads, Aggregates, LooksUp, ToRead, Of
      <3> QED
        BY <2>0, <3>1 DEF ReadsOnTrack, CommittedOf, Of
    <2> QED
      BY <1>1, <2>1, <2>2, <2>3, <2>4 DEF SoloInvariant, Known
  <1> QED
    BY <1>1, <1>2, <1>3 DEF Known, Next

(* Alone with a session, a caller finds all this in every reachable state. *)
THEOREM SoloCorrect == ASSUME Alone PROVE Spec => []Known
  <1>1. Init => Known
    BY TypeInit, StorageInit, ReadInit, SoloInit DEF Known
  <1> QED
    BY <1>1, KnownNext, PTL DEF Spec

(* Every committed row with an id is in the index of its table.            *)
THEOREM IndexIsComplete == ASSUME Alone PROVE Spec => []IndexComplete
  <1>1. Known => IndexComplete
    <2> SUFFICES ASSUME Known, NEW r \in committed,
                        r.table \in index_store, r.key \in Keys
                 PROVE  r \in index
      BY DEF IndexComplete
    <2>1. \/ r \in index
          \/ \E t \in Threads : pc[t] \in {"get_index", "index_row"} /\ r = row[t]
      BY DEF Known, SoloInvariant, RowsIndexed
    <2>2. ASSUME NEW t \in Threads, pc[t] \in {"get_index", "index_row"}
          PROVE  row[t] \notin committed
      BY <2>2, RunningStored DEF Inserts, Running
    <2> QED
      BY <2>1, <2>2
  <1> QED
    BY <1>1, SoloCorrect, PTL

(* A read sees every row that was committed before it began, whether the   *)
(* chunks, the index or the row store answers it.                          *)
THEOREM ReadsAreComplete == ASSUME Alone PROVE Spec => []ReadsSeeCommitted
  <1>1. Known => ReadsSeeCommitted
    <2> SUFFICES ASSUME Known, NEW t \in Threads, pc[t] = "reply",
                        NEW r \in expected[t]
                 PROVE  r.table \in cleared \/ r \in got[t]
      BY DEF ReadsSeeCommitted
    <2>1. /\ r \in CommittedOf(meta[t].id) /\ sought[t] \in {NULL, r.key}
          /\ got[t] = ToRead(t) \/ expected[t] \subseteq got[t]
      BY DEF Known, SoloInvariant, ReadsOnTrack, Reads
    <2>2. r.table \in cleared \/ r \in data
      BY <2>1 DEF Known, StorageInvariant, CommittedRowsKept, Kept, CommittedOf, Of
    <2> QED
      BY <2>1, <2>2 DEF ToRead, CommittedOf, Of
  <1> QED
    BY <1>1, SoloCorrect, PTL

(* A dropped table leaves no row, no chunk, no index and no metadata.      *)
THEOREM DropIsComplete == ASSUME Alone PROVE Spec => []DropLeavesNothing
  <1>1. Known => DropLeavesNothing
    <2> SUFFICES ASSUME Known, Idle PROVE DropLeavesNothing
      BY DEF DropLeavesNothing
    <2>1. Caller \in Threads /\ pc[Caller] = "idle"
      BY DEF Known, Alone, Idle
    <2> QED
      BY <2>1 DEF Known, SoloInvariant, ClearedGone, DropLeavesNothing
  <1> QED
    BY <1>1, SoloCorrect, PTL

(* DROP TABLE takes out of the catalog the table whose rows it removed.    *)
THEOREM DropsOwnTable == ASSUME Alone PROVE Spec => DropsItsOwnTable
  <1>1. Known /\ [Next]_vars =>
           [\A id \in DOMAIN catalog.tables_by_id :
               id \notin DOMAIN catalog'.tables_by_id => id \in cleared]_vars
    <2> SUFFICES ASSUME Known, NEW t \in Threads, Begin(t) \/ Step(t),
                        NEW id \in DOMAIN catalog.tables_by_id,
                        id \notin DOMAIN catalog'.tables_by_id
                 PROVE  id \in cleared
      BY DEF Next
    <2>1. CASE CreateEntry(t)
      BY <2>1, CreateTableAdds DEF CreateEntry, Known, TypeOK
    <2>2. CASE DropEntry(t)
      <3>1. /\ HasTable(catalog, target[t][1], target[t][2])
            /\ GetTable(catalog, target[t][1], target[t][2]) = meta[t]
            /\ meta[t].id \in cleared
        BY <2>2 DEF DropEntry, Known, SoloInvariant, MetaCurrent, ClearedGone, Dropping
      <3> QED
        BY <2>2, <3>1, DropTableRemoves DEF DropEntry, Known, TypeOK
    <2> QED
      BY <2>1, <2>2, StepWrites DEF Writers, Known
  <1> QED
    BY <1>1, SoloCorrect, PTL DEF Spec, DropsItsOwnTable

-----------------------------------------------------------------------------
(* The refinement: each step of Engine is one step of Database, at the     *)
(* tables the names stand for, or none.                                    *)

(* No INSERT is running: every row has been numbered. *)
LEMMA NothingRuns ==
    ASSUME Known, ~ Inserts(Caller)
    PROVE  Running(Caller) = {} /\ NextRowId = next_row_id
  <1>1. pushed[Caller] = {}
    BY DEF Known, Alone, SoloInvariant, RunningRows
  <1>2. Running(Caller) = {}
    BY <1>1 DEF Running, Inserts
  <1> QED
    BY <1>2 DEF NextRowId

(* The least of a run of numbers is the first. *)
LEMMA LeastOfRun ==
    ASSUME NEW a \in Nat, NEW n \in Nat \ {0}
    PROVE  Min({a + i - 1 : i \in 1..n}) = a
  <1> DEFINE S == {a + i - 1 : i \in 1..n}
  <1>1. a \in S /\ \A x \in S : a <= x
    <2>1. 1 \in 1..n /\ a + 1 - 1 = a
      OBVIOUS
    <2> QED
      BY <2>1
  <1>2. \A x \in S : x \in Int
    OBVIOUS
  <1> HIDE DEF S
  <1>3. \A x \in S : (\A y \in S : x <= y) => x = a
    BY <1>1, <1>2
  <1>4. Min(S) = CHOOSE x \in S : \A y \in S : x <= y
    BY DEF Min
  <1> QED
    BY <1>1, <1>3, <1>4 DEF S

(* A running INSERT has numbered its rows from NextRowId on. *)
LEMMA RunningNumbers ==
    ASSUME Known, NEW batch, NEW n, RunningAt(Caller, batch, n), Inserts(Caller)
    PROVE  /\ NextRowId = next_row_id - n
           /\ NextRowId \in Nat
           /\ Plain(Running(Caller)) =
                 {[id |-> NextRowId + i - 1, key |-> batch[i]] : i \in 1..n}
  <1>1. batch \in Batches /\ Len(batch) \in Nat /\ n \in Nat /\ next_row_id \in Nat
    BY BatchesAssumption DEF RunningAt, Known, TypeOK, StoresTypeOK
  <1>2. Running(Caller) = Stored(Caller, batch, n)
    BY DEF RunningAt
  <1> DEFINE base == next_row_id - n
             Row(i) == [table |-> meta[Caller].id, id |-> base + i - 1,
                        key |-> batch[i]]
  <1>3. Running(Caller) = {Row(i) : i \in 1..n}
    BY <1>2 DEF Stored
  <1>4. \A i : Row(i).id = base + i - 1 /\ Row(i).key = batch[i]
    OBVIOUS
  <1>5. base \in Int
    BY <1>1
  <1> HIDE DEF Row, base
  <1>6. {r.id : r \in Running(Caller)} = {base + i - 1 : i \in 1..n}
    BY <1>3, <1>4
  <1>7. Plain(Running(Caller)) = {[id |-> base + i - 1, key |-> batch[i]] : i \in 1..n}
    BY <1>3, <1>4 DEF Plain
  <1>8. NextRowId = base /\ base \in Nat
    <2>1. CASE n = 0
      <3>1. Running(Caller) = {}
        BY <1>3, <2>1
      <3> QED
        BY <1>1, <2>1, <3>1 DEF NextRowId, base
    <2>2. CASE n # 0
      <3>1. Row(1) \in Running(Caller)
        BY <1>1, <1>3, <2>2
      <3>2. Row(1).id \in Nat
        <4>1. Running(Caller) \subseteq data
          BY RunningStored DEF Known, Alone
        <4> QED
          BY <3>1, <4>1 DEF Known, TypeOK, StoresTypeOK, Rows
      <3>3. base \in Nat
        BY <1>4, <1>5, <3>2
      <3>4. NextRowId = Min({base + i - 1 : i \in 1..n})
        BY <1>6, <3>1 DEF NextRowId
      <3> QED
        BY <1>1, <2>2, <3>3, <3>4, LeastOfRun
    <2> QED
      BY <2>1, <2>2
  <1> QED
    BY <1>7, <1>8 DEF base

-----------------------------------------------------------------------------
(* Steps Database does not see. *)

Silent ==
    /\ UNCHANGED <<catalog, committed, data, next_row_id>>
    /\ Running(Caller)' = Running(Caller)
    /\ Dropping(Caller)' <=> Dropping(Caller)
    /\ Dropping(Caller) => target'[Caller] = target[Caller]
    /\ pc[Caller] # "reply" /\ pc'[Caller] # "reply"

LEMMA SilentStep == Silent => UNCHANGED Statements!vars
  <1> SUFFICES ASSUME Silent PROVE UNCHANGED Statements!vars
    OBVIOUS
  <1>0. Caller' = Caller
    BY DEF Caller
  <1>1. Visible' = Visible
    BY <1>0 DEF Silent, Visible
  <1>2. \A n : TableId(n)' = TableId(n)
    BY DEF Silent, TableId
  <1>3. Committed' = Committed
    BY <1>1, <1>2 DEF Silent, Committed, CommittedOf, Of, Plain
  <1>4. Leftover' = Leftover
    BY <1>0, <1>1, <1>2 DEF Silent, Leftover, Of, Plain
  <1>5. NextRowId' = NextRowId
    BY <1>0 DEF Silent, NextRowId
  <1>6. Replied' = Replied
    BY <1>0 DEF Silent, Replied
  <1> QED
    BY <1>3, <1>4, <1>5, <1>6 DEF Statements!vars

(* A session starts as a set of empty tables. *)
LEMMA AtomicInit == ASSUME Alone, Init PROVE Statements!Init
  <1>1. /\ committed = {} /\ data = {} /\ next_row_id = 0
        /\ pc[Caller] = "idle" /\ pushed[Caller] = {}
    BY DEF Alone, Init
  <1>2. Committed = [n \in Visible |-> {}]
    BY <1>1 DEF Committed, CommittedOf, Of, Plain
  <1>3. Leftover = [n \in Visible |-> {}]
    BY <1>1 DEF Leftover, Of, Plain
  <1>4. NextRowId = 0
    BY <1>1 DEF NextRowId, Running
  <1>5. Replied = [sent |-> FALSE, rows |-> {}]
    BY <1>1 DEF Replied
  <1>6. Visible \in SUBSET (Namespaces \X Names)
    BY DEF Visible
  <1> QED
    BY <1>2, <1>3, <1>4, <1>5, <1>6 DEF Statements!Init, Statements!NoReply

-----------------------------------------------------------------------------
(* The tables of Database are those the visible names stand for. *)

(* A statement is about a visible name, unless it is dropping it. *)
LEMMA TargetVisible ==
    ASSUME Known, NEW t \in Threads, pc[t] \notin {"idle", "register_index"}
    PROVE  /\ ~ Dropping(t) => target[t] \in Visible
           /\ TableId(target[t]) = meta[t].id
           /\ HasTable(catalog, target[t][1], target[t][2])
           /\ GetTable(catalog, target[t][1], target[t][2]) = meta[t]
           /\ target[t] \in Namespaces \X Names
  BY MetaInCatalog DEF Known, SoloInvariant, MetaCurrent, Visible, TableId

(* Two names never stand for one table. *)
LEMMA VisibleDiffer ==
    ASSUME Known, NEW m \in Namespaces \X Names, NEW n \in Namespaces \X Names,
           HasTable(catalog, m[1], m[2]), HasTable(catalog, n[1], n[2]),
           TableId(m) = TableId(n)
    PROVE  m = n
  <1>1. m[1] = n[1] /\ m[2] = n[2]
    BY NamesDiffer DEF Known, TypeOK, TableId
  <1> QED
    BY <1>1

(* Every row that was committed and not dropped is in the row store. *)
LEMMA CommittedStored ==
    ASSUME Known, NEW t \in Threads, pc[t] # "idle", ~ Dropping(t)
    PROVE  CommittedOf(meta[t].id) \subseteq Of(data, meta[t].id)
  BY MetaInCatalog
     DEF Known, StorageInvariant, CommittedRowsKept, Kept, CommittedOf, Of

LEMMA PlainUnion ==
    ASSUME NEW A, NEW B PROVE Plain(A \cup B) = Plain(A) \cup Plain(B)
  <1> DEFINE P(r) == [id |-> r.id, key |-> r.key]
  <1>1. \A S : Plain(S) = {P(r) : r \in S}
    BY DEF Plain
  <1> HIDE DEF P
  <1> QED
    BY <1>1

LEMMA OfUnion ==
    ASSUME NEW A, NEW B, NEW table
    PROVE  Of(A \cup B, table) = Of(A, table) \cup Of(B, table)
  BY DEF Of

-----------------------------------------------------------------------------
(* CREATE TABLE takes effect with the catalog entry. *)

LEMMA CreateIsAtomic ==
    ASSUME Known, NEW t \in Threads, CreateEntry(t) PROVE Statements!Next
  <1> USE DEF Goto, shared, insert, read, history
  <1>1. PICK ns \in Namespaces, name \in Names, schema \in Schemas :
           /\ catalog' = CreateTable(catalog, ns, name, schema)
           /\ IF schema \in IdSchemas
              THEN /\ meta' = [meta EXCEPT ![t] = NewTable(catalog, ns, name, schema)]
                   /\ pc' = [pc EXCEPT ![t] = "register_index"]
              ELSE UNCHANGED <<meta, pc>>
    BY DEF CreateEntry
  <1> DEFINE new == <<ns, name>>
             id  == catalog.next_table_id
  <1>2. /\ t = Caller /\ Caller' = Caller /\ pc[Caller] = "idle"
        /\ pc'[Caller] \in {"idle", "register_index"}
        /\ UNCHANGED <<committed, data, next_row_id, row, pushed>>
    BY <1>1 DEF CreateEntry, Caller, Known, Alone, TypeOK, ControlTypeOK
  <1>3. /\ HasTable(catalog', ns, name) /\ GetTable(catalog', ns, name).id = id
        /\ \A m, n : <<m, n>> # new =>
              /\ HasTable(catalog', m, n) <=> HasTable(catalog, m, n)
              /\ HasTable(catalog, m, n) =>
                    GetTable(catalog', m, n) = GetTable(catalog, m, n)
    BY <1>1, CreateTableAdds DEF Known, TypeOK
  <1>4. new \in Namespaces \X Names /\ new[1] = ns /\ new[2] = name
    OBVIOUS
  <1>5. \A m \in Namespaces \X Names : m # new => <<m[1], m[2]>> # new
    OBVIOUS
  <1>6. ~ Dropping(Caller) /\ ~ Dropping(Caller)'
    BY <1>2 DEF Dropping
  <1> HIDE DEF new
  <1>7. Visible' = Visible \cup {new}
    BY <1>2, <1>3, <1>4, <1>5, <1>6 DEF Visible
  <1>8. TableId(new)' = id /\ \A m \in Visible : m # new => TableId(m)' = TableId(m)
    BY <1>3, <1>4, <1>5 DEF TableId, Visible
  <1>9. Of(committed, id) = {} /\ Of(data, id) = {}
    <2>1. id \in Nat
      BY DEF Known, TypeOK, CatalogOK, CatalogTypeOK
    <2> QED
      BY <2>1 DEF Known, SoloInvariant, TablesUsed, Of, TypeOK, StoresTypeOK, Rows
  <1>10. Running(Caller)' = Running(Caller) /\ Running(Caller) = {}
    <2>1. Running(Caller) = {}
      BY <1>2, NothingRuns DEF Inserts
    <2> QED
      BY <1>2, <2>1 DEF Running
  <1> HIDE DEF id
  <1>11. Committed' = [m \in Visible \cup {new} |->
                          IF m = new THEN {} ELSE Committed[m]]
    BY <1>2, <1>7, <1>8, <1>9 DEF Committed, CommittedOf, Plain, Of
  <1>12. Leftover' = [m \in Visible \cup {new} |->
                         IF m = new THEN {} ELSE Leftover[m]]
    BY <1>2, <1>7, <1>8, <1>9, <1>10 DEF Leftover, Plain, Of
  <1>13. UNCHANGED <<NextRowId, Replied>> /\ Statements!Idle
    BY <1>2, <1>10
       DEF NextRowId, Replied, Statements!Idle, Statements!NoReply
  <1>14. DOMAIN Committed = Visible /\ DOMAIN Leftover = Visible
    BY DEF Committed, Leftover
  <1>15. Statements!Create(new)
    BY <1>11, <1>12, <1>13, <1>14 DEF Statements!Create
  <1> QED
    BY <1>4, <1>15 DEF Statements!Next

(* DROP TABLE takes effect when the rows go. *)
LEMMA DropIsAtomic ==
    ASSUME Known, NEW t \in Threads, DropRows(t) PROVE Statements!Next
  <1> USE DEF Goto, shared, insert, read, history
  <1> DEFINE old == target[t]
  <1>1. /\ t = Caller /\ Caller' = Caller /\ pc[Caller] = "drop_rows"
        /\ pc'[Caller] = "drop_chunks"
        /\ data' = data \ Of(data, meta[t].id)
        /\ UNCHANGED <<catalog, target, committed, next_row_id, row, pushed>>
    BY DEF DropRows, Caller, Known, Alone, TypeOK, ControlTypeOK
  <1>2. ~ Dropping(Caller) /\ Dropping(Caller)'
    BY <1>1 DEF Dropping
  <1>3. /\ old \in Visible /\ TableId(old) = meta[t].id
        /\ HasTable(catalog, old[1], old[2]) /\ old \in Namespaces \X Names
    BY <1>1, <1>2, TargetVisible
  <1>4. Visible' = Visible \ {old}
    BY <1>1, <1>2 DEF Visible
  <1>5. \A m : TableId(m)' = TableId(m)
    BY <1>1 DEF TableId
  <1>6. \A m \in Visible \ {old} : TableId(m) # meta[t].id
    BY <1>3, VisibleDiffer DEF Visible
  <1>7. Running(Caller)' = {} /\ Running(Caller) = {}
    <2>1. Running(Caller) = {}
      BY <1>1, NothingRuns DEF Inserts
    <2> QED
      BY <1>1, <2>1 DEF Running
  <1> HIDE DEF old
  <1>8. Committed' = [m \in Visible \ {old} |-> Committed[m]]
    BY <1>1, <1>4, <1>5 DEF Committed, CommittedOf, Of, Plain
  <1>9. Leftover' = [m \in Visible \ {old} |-> Leftover[m]]
    <2>1. \A m \in Visible \ {old} :
             Of(data' \ committed', TableId(m)') = Of(data \ committed, TableId(m))
      BY <1>1, <1>5, <1>6 DEF Of
    <2> QED
      BY <1>4, <1>7, <2>1 DEF Leftover, Plain
  <1>10. UNCHANGED <<NextRowId, Replied>> /\ Statements!Idle
    BY <1>1, <1>7
       DEF NextRowId, Replied, Statements!Idle, Statements!NoReply
  <1>11. DOMAIN Committed = Visible /\ DOMAIN Leftover = Visible
    BY DEF Committed, Leftover
  <1>12. Statements!Drop(old)
    BY <1>8, <1>9, <1>10, <1>11 DEF Statements!Drop
  <1> QED
    BY <1>3, <1>11, <1>12 DEF Statements!Next, Visible

-----------------------------------------------------------------------------
(* INSERT takes effect when it ends. *)

(* How far the running INSERT is. *)
LEMMA RunningHere ==
    ASSUME Known, NEW t \in Threads, Inserts(t)
    PROVE  \E batch, n : RunningAt(t, batch, n)
  BY DEF Known, SoloInvariant, RunningRows, RunningAt

(* Its rows are of its table, and so of no other one. *)
LEMMA RunningOf ==
    ASSUME Known, NEW t \in Threads, Inserts(t), NEW m \in Visible
    PROVE  Of(Running(t), TableId(m)) = IF m = target[t] THEN Running(t) ELSE {}
  <1>1. TableId(m) = meta[t].id <=> m = target[t]
    BY TargetVisible, VisibleDiffer DEF Inserts, Visible, Dropping
  <1> QED
    BY <1>1, RunningStored DEF Of

LEMMA InsertAtOnce ==
    ASSUME Known, NEW t \in Threads, PushRow(t) \/ PublishFull(t), values[t] = <<>>
    PROVE  Statements!Next
  <1> USE DEF Goto, shared, insert, read, history
  <1> DEFINE into == target[t]
  <1>1. /\ NextRow(t) /\ pc[t] \in {"push_row", "publish_full"}
        /\ UNCHANGED <<catalog, data, next_row_id>>
    BY DEF PushRow, PublishFull
  <1>2. /\ committed' = committed \cup Running(t) /\ pushed'[t] = {}
        /\ pc'[t] = "idle" /\ Inserts(t)
    BY <1>1, RowEnds
  <1>3. t = Caller /\ Caller' = Caller /\ ~ Dropping(Caller) /\ ~ Dropping(Caller)'
    BY <1>1, <1>2 DEF Caller, Known, Alone, Dropping
  <1>4. into \in Visible
    BY <1>1, <1>3, TargetVisible
  <1>5. PICK batch, n : RunningAt(t, batch, n)
    BY <1>2, RunningHere
  <1>6. batch \in Batches /\ batch \in Seq(KeyValues)
    BY <1>5, BatchesAssumption DEF RunningAt, KeyValues
  <1>7. n = Len(batch) /\ n \in Nat /\ next_row_id \in Nat
    <2>1. n = Len(batch)
      BY <1>5, <1>6, NothingLeft DEF RunningAt
    <2> QED
      BY <1>6, <2>1 DEF Known, TypeOK, StoresTypeOK
  <1>8. /\ NextRowId = next_row_id - n
        /\ Plain(Running(t)) = {[id |-> NextRowId + i - 1, key |-> batch[i]] : i \in 1..n}
    BY <1>2, <1>3, <1>5, RunningNumbers
  <1>9. Running(t)' = {} /\ NextRowId' = next_row_id
    <2>1. Running(t)' = {}
      BY <1>2 DEF Running
    <2> QED
      BY <1>1, <1>3, <2>1 DEF NextRowId
  <1>10. Visible' = Visible /\ \A m : TableId(m)' = TableId(m)
    BY <1>1, <1>3 DEF Visible, TableId
  <1> HIDE DEF into
  <1>11. ASSUME NEW m \in Visible
         PROVE  /\ Committed'[m] = IF m = into THEN Committed[m] \cup Plain(Running(t))
                                               ELSE Committed[m]
                /\ Leftover'[m] = Leftover[m]
    <2>1. CommittedOf(TableId(m))' =
             CommittedOf(TableId(m)) \cup IF m = into THEN Running(t) ELSE {}
      <3>1. Of(Running(t), TableId(m)) = IF m = into THEN Running(t) ELSE {}
        BY <1>2, RunningOf DEF into
      <3>2. CommittedOf(TableId(m))' = Of(committed \cup Running(t), TableId(m))
        BY <1>2, <1>10 DEF CommittedOf, Of
      <3> QED
        BY <3>1, <3>2, OfUnion DEF CommittedOf
    <2>2. data' \ (committed' \cup Running(t)') = data \ (committed \cup Running(t))
      BY <1>1, <1>2, <1>9
    <2>3. Committed'[m] = Plain(CommittedOf(TableId(m))') /\ m \in Visible'
      BY <1>10 DEF Committed, CommittedOf, Plain
    <2>4. Plain({}) = {}
      BY DEF Plain
    <2> QED
      BY <1>3, <1>10, <2>1, <2>2, <2>3, <2>4, PlainUnion DEF Committed, Leftover, Plain
  <1>12. Committed' = [Committed EXCEPT ![into] = @ \cup Plain(Running(t))]
    BY <1>10, <1>11 DEF Committed
  <1>13. Leftover' = Leftover
    BY <1>10, <1>11 DEF Leftover
  <1>14. Plain(Running(t)) = Statements!RowsOf(batch, Len(batch))
    BY <1>7, <1>8 DEF Statements!RowsOf
  <1>15. NextRowId' = NextRowId + Len(batch)
    BY <1>7, <1>8, <1>9
  <1>16. Replied' = Replied /\ Statements!Idle
    BY <1>1, <1>2, <1>3 DEF Replied, Statements!Idle, Statements!NoReply
  <1>17. Statements!Insert(into)
    BY <1>6, <1>12, <1>13, <1>14, <1>15, <1>16 DEF Statements!Insert
  <1>18. into \in DOMAIN Committed
    BY <1>4 DEF Committed
  <1> QED
    BY <1>17, <1>18 DEF Statements!Next

(* An INSERT that is refused leaves the rows up to the one without a key.  *)
LEMMA RefusalIsAtomic ==
    ASSUME Known, NEW t \in Threads, RefuseKey(t) PROVE Statements!Next
  <1> USE DEF Goto, shared, insert, read, history
  <1> DEFINE into == target[t]
  <1>1. /\ pc[t] = "index_row" /\ row[t].key = NULL
        /\ pc'[t] = "idle" /\ pushed'[t] = {} /\ Inserts(t)
        /\ UNCHANGED <<catalog, data, next_row_id, committed>>
    BY DEF RefuseKey, Return, ForgetInsert, Inserts, Known, TypeOK, ControlTypeOK,
           InsertTypeOK
  <1>2. t = Caller /\ Caller' = Caller /\ ~ Dropping(Caller) /\ ~ Dropping(Caller)'
    BY <1>1 DEF Caller, Known, Alone, Dropping
  <1>3. into \in Visible
    BY <1>1, <1>2, TargetVisible
  <1>4. PICK batch, n : RunningAt(t, batch, n)
    BY <1>1, RunningHere
  <1>5. batch \in Batches /\ batch \in Seq(KeyValues)
    BY <1>4, BatchesAssumption DEF RunningAt, KeyValues
  <1>6. n \in DOMAIN batch /\ n \in Nat /\ batch[n] = NULL /\ next_row_id \in Nat
    BY <1>1, <1>4, <1>5 DEF RunningAt, Known, TypeOK, StoresTypeOK
  <1>7. /\ NextRowId = next_row_id - n
        /\ Plain(Running(t)) = {[id |-> NextRowId + i - 1, key |-> batch[i]] : i \in 1..n}
    BY <1>1, <1>2, <1>4, RunningNumbers
  <1>8. Running(t)' = {} /\ NextRowId' = next_row_id
    <2>1. Running(t)' = {}
      BY <1>1 DEF Running
    <2> QED
      BY <1>1, <1>2, <2>1 DEF NextRowId
  <1>9. Visible' = Visible /\ \A m : TableId(m)' = TableId(m)
    BY <1>1, <1>2 DEF Visible, TableId
  <1>10. Committed' = Committed
    BY <1>1, <1>9 DEF Committed, CommittedOf, Of, Plain
  <1> DEFINE before == data \ (committed \cup Running(t))
             after  == data' \ (committed' \cup Running(t)')
  <1>11. after = before \cup Running(t)
    BY <1>1, <1>8, RunningStored
  <1>12. /\ Leftover = [m \in Visible |-> Plain(Of(before, TableId(m)))]
         /\ Leftover' = [m \in Visible |-> Plain(Of(after, TableId(m)))]
    BY <1>2, <1>9 DEF Leftover, Of, Plain
  <1> HIDE DEF into, before, after
  <1>13. ASSUME NEW m \in Visible
         PROVE  Leftover'[m] = IF m = into THEN Leftover[m] \cup Plain(Running(t))
                                           ELSE Leftover[m]
    <2>1. Of(after, TableId(m)) =
             Of(before, TableId(m)) \cup IF m = into THEN Running(t) ELSE {}
      <3>1. Of(Running(t), TableId(m)) = IF m = into THEN Running(t) ELSE {}
        BY <1>1, RunningOf DEF into
      <3> QED
        BY <1>11, <3>1, OfUnion
    <2>2. Plain({}) = {}
      BY DEF Plain
    <2> QED
      BY <1>12, <2>1, <2>2, PlainUnion
  <1>14. Leftover' = [Leftover EXCEPT ![into] = @ \cup Plain(Running(t))]
    BY <1>12, <1>13
  <1>15. Plain(Running(t)) = Statements!RowsOf(batch, n)
    BY <1>7 DEF Statements!RowsOf
  <1>16. NextRowId' = NextRowId + n
    BY <1>6, <1>7, <1>8
  <1>17. Replied' = Replied /\ Statements!Idle
    BY <1>1, <1>2 DEF Replied, Statements!Idle, Statements!NoReply
  <1>18. Statements!InsertRefused(into)
    BY <1>5, <1>6, <1>10, <1>14, <1>15, <1>16, <1>17 DEF Statements!InsertRefused
  <1> QED
    BY <1>3, <1>18 DEF Statements!Next, Committed, Visible

(* A row that is stored is part of an INSERT that has not taken effect.    *)
LEMMA StoreIsUnseen ==
    ASSUME Known, NEW t \in Threads, StoreRow(t) PROVE UNCHANGED Statements!vars
  <1> USE DEF Goto, shared, insert, read, history
  <1>1. /\ pc[t] = "store_row" /\ pc'[t] = "get_index" /\ Inserts(t)
        /\ UNCHANGED <<catalog, committed>>
        /\ data' = data \cup {row'[t]} /\ next_row_id' = next_row_id + 1
        /\ row'[t].id = next_row_id
    BY DEF StoreRow, Inserts, Known, TypeOK, ControlTypeOK, InsertTypeOK
  <1>2. t = Caller /\ Caller' = Caller /\ ~ Dropping(Caller) /\ ~ Dropping(Caller)'
    BY <1>1 DEF Caller, Known, Alone, Dropping
  <1>3. PICK batch, n : RunningAt(t, batch, n)
    BY <1>1, RunningHere
  <1>4. /\ Running(t)' = Running(t) \cup {row'[t]}
        /\ Running(t)' = Stored(t, batch, n + 1)'
    BY <1>3, RowStored DEF RunningAt
  <1>5. n \in Nat /\ next_row_id \in Nat
    BY <1>3, BatchesAssumption DEF RunningAt, Known, TypeOK, StoresTypeOK
  <1>6. row'[t] \notin data
    BY <1>1, <1>5 DEF Known, ReadInvariant, RowIdsUnique, Used, Numbered
  <1>7. Visible' = Visible /\ \A m : TableId(m)' = TableId(m)
    BY <1>1, <1>2 DEF Visible, TableId
  <1>8. Committed' = Committed
    BY <1>1, <1>7 DEF Committed, CommittedOf, Of, Plain
  <1>9. data' \ (committed' \cup Running(t)') = data \ (committed \cup Running(t))
    BY <1>1, <1>4, <1>6
  <1>10. Leftover' = Leftover
    BY <1>2, <1>7, <1>9 DEF Leftover, Of, Plain
  <1>11. NextRowId = next_row_id - n /\ NextRowId \in Nat
    BY <1>1, <1>2, <1>3, RunningNumbers
  <1>12. NextRowId' = NextRowId
    <2> DEFINE base == next_row_id - n
    <2>1. base \in Nat /\ n + 1 \in Nat \ {0} /\ next_row_id' - (n + 1) = base
      BY <1>1, <1>5, <1>11
    <2>2. {r.id : r \in Running(t)'} = {base + i - 1 : i \in 1..(n + 1)}
      <3> DEFINE Row(i) == [table |-> meta'[t].id, id |-> base + i - 1, key |-> batch[i]]
      <3>1. Running(t)' = {Row(i) : i \in 1..(n + 1)}
        BY <1>4, <2>1 DEF Stored
      <3>2. \A i : Row(i).id = base + i - 1
        OBVIOUS
      <3> HIDE DEF Row
      <3> QED
        BY <3>1, <3>2
    <2>3. Min({r.id : r \in Running(t)'}) = base
      BY <2>1, <2>2, LeastOfRun
    <2> HIDE DEF base
    <2>4. Running(t)' # {}
      BY <1>4
    <2> QED
      BY <1>2, <1>11, <2>3, <2>4 DEF NextRowId, base
  <1>13. Replied' = Replied
    BY <1>1, <1>2 DEF Replied
  <1> QED
    BY <1>8, <1>10, <1>12, <1>13 DEF Statements!vars

-----------------------------------------------------------------------------
(* A read takes effect when it has its rows. *)

(* The rows a table has for Database are the stored rows of the table.     *)
LEMMA TableContents ==
    ASSUME Known, NEW t \in Threads, Reads(t)
    PROVE  /\ Committed[target[t]] = Plain(CommittedOf(meta[t].id))
           /\ Leftover[target[t]] = Plain(Of(data \ committed, meta[t].id))
           /\ Committed[target[t]] \cup Leftover[target[t]] =
                 Plain(Of(data, meta[t].id))
           /\ target[t] \in DOMAIN Committed
  <1>1. pc[t] \notin {"idle", "register_index"} /\ ~ Dropping(t) /\ ~ Inserts(t)
    BY DEF Reads, Aggregates, LooksUp, Dropping, Inserts
  <1>2. t = Caller
    BY DEF Known, Alone
  <1>3. target[t] \in Visible /\ TableId(target[t]) = meta[t].id
    BY <1>1, TargetVisible
  <1>4. Running(Caller) = {}
    BY <1>1, <1>2, NothingRuns
  <1>5. /\ Committed[target[t]] = Plain(CommittedOf(meta[t].id))
        /\ Leftover[target[t]] = Plain(Of(data \ committed, meta[t].id))
    BY <1>3, <1>4 DEF Committed, Leftover, Plain, Of
  <1>6. CommittedOf(meta[t].id) \cup Of(data \ committed, meta[t].id) =
           Of(data, meta[t].id)
    BY <1>1, CommittedStored DEF CommittedOf, Of
  <1>7. Plain(CommittedOf(meta[t].id)) \cup Plain(Of(data \ committed, meta[t].id)) =
           Plain(Of(data, meta[t].id))
    BY <1>6, PlainUnion
  <1>8. target[t] \in DOMAIN Committed
    BY <1>3 DEF Committed
  <1> QED
    BY <1>5, <1>7, <1>8

(* What else Database keeps does not change in a read. *)
LEMMA ReadKeeps ==
    ASSUME Known, NEW t \in Threads, Reads(t), Reads(t)',
           UNCHANGED <<catalog, data, committed, next_row_id, target, row, pushed>>
    PROVE  UNCHANGED <<Committed, Leftover, NextRowId>>
  <1>1. t = Caller /\ Caller' = Caller
    BY DEF Caller, Known, Alone
  <1>2. ~ Inserts(t) /\ ~ Inserts(t)' /\ ~ Dropping(t) /\ ~ Dropping(t)'
    BY DEF Reads, Aggregates, LooksUp, Dropping, Inserts
  <1>3. Visible' = Visible /\ \A m : TableId(m)' = TableId(m)
    BY <1>1, <1>2 DEF Visible, TableId
  <1>4. Running(Caller)' = Running(Caller)
    BY <1>1, <1>2 DEF Running, Inserts
  <1> QED
    BY <1>3, <1>4 DEF Committed, CommittedOf, Leftover, NextRowId, Of, Plain

LEMMA AggregateAtOnce ==
    ASSUME Known, NEW t \in Threads, ReadChunks(t), pc'[t] = "reply"
    PROVE  Statements!Next
  <1> USE DEF Goto, shared, insert, read, history
  <1> DEFINE of    == target[t]
             found == UNION {c.rows : c \in Of(chunks, meta[t].id)}
  <1>1. /\ t = Caller /\ Caller' = Caller /\ pc[t] = "read_chunks" /\ Reads(t) /\ Reads(t)'
        /\ UNCHANGED <<catalog, data, committed, next_row_id, target, row, pushed>>
        /\ got'[t] = found
    BY DEF ReadChunks, Reads, Aggregates, Caller, Known, Alone, TypeOK,
           ControlTypeOK, ReadTypeOK
  <1>2. /\ found \subseteq ToRead(t) /\ expected[t] \subseteq found
        /\ sought[t] = NULL
    BY <1>1, ChunksComplete
  <1>3. expected[t] = CommittedOf(meta[t].id)
    BY <1>1, <1>2 DEF Known, SoloInvariant, ReadsOnTrack
  <1>4. ToRead(t) = Of(data, meta[t].id)
    BY <1>2 DEF ToRead
  <1> HIDE DEF found, of
  <1>5. /\ found = CommittedOf(meta[t].id) \cup (found \ committed)
        /\ found \ committed \subseteq Of(data \ committed, meta[t].id)
    BY <1>2, <1>3, <1>4 DEF CommittedOf, Of
  <1>6. Plain(found \ committed) \subseteq Plain(Of(data \ committed, meta[t].id))
    BY <1>5 DEF Plain
  <1>7. Plain(found) = Committed[of] \cup Plain(found \ committed)
    BY <1>1, <1>5, PlainUnion, TableContents DEF of
  <1>8. Plain(found \ committed) \in SUBSET Leftover[of]
    BY <1>1, <1>6, TableContents DEF of
  <1>9. /\ Replied' = Statements!Answer(Plain(found))
        /\ Statements!Idle
    BY <1>1 DEF Replied, Plain, Statements!Answer, Statements!Idle, Statements!NoReply
  <1>10. Statements!Aggregate(of)
    BY <1>1, <1>7, <1>8, <1>9, ReadKeeps DEF Statements!Aggregate
  <1> QED
    BY <1>1, <1>10, TableContents, TargetVisible
       DEF Statements!Next, of

LEMMA SelectAtOnce ==
    ASSUME Known, NEW t \in Threads, FetchDone(t) \/ Scan(t) PROVE Statements!Next
  <1> USE DEF Goto, shared, insert, read, history
  <1> DEFINE of == target[t]
  <1>1. /\ t = Caller /\ Caller' = Caller /\ Reads(t) /\ Reads(t)'
        /\ pc[t] # "reply" /\ pc'[t] = "reply"
        /\ UNCHANGED <<catalog, data, committed, next_row_id, target, row, pushed>>
        /\ got'[t] = ToRead(t)
    BY DEF FetchDone, Scan, Reads, LooksUp, Caller, Known, Alone, TypeOK,
           ControlTypeOK, ReadTypeOK, SoloInvariant, ReadsOnTrack, ToRead
  <1>2. sought[t] \in Keys \cup {NULL}
    BY DEF Known, TypeOK, ReadTypeOK
  <1>3. Plain(ToRead(t)) =
           Statements!Asked(Plain(Of(data, meta[t].id)), sought[t])
    BY DEF Plain, ToRead, Statements!Asked
  <1> HIDE DEF of
  <1>4. Plain(ToRead(t)) = Statements!Asked(Committed[of] \cup Leftover[of], sought[t])
    BY <1>1, <1>3, TableContents DEF of
  <1>5. Replied' = Statements!Answer(Plain(ToRead(t))) /\ Statements!Idle
    BY <1>1 DEF Replied, Plain, Statements!Answer, Statements!Idle, Statements!NoReply
  <1>6. Statements!Select(of)
    BY <1>1, <1>2, <1>4, <1>5, ReadKeeps DEF Statements!Select
  <1> QED
    BY <1>1, <1>6, TableContents DEF Statements!Next, of

LEMMA ReplyIsDone ==
    ASSUME Known, NEW t \in Threads, Reply(t) PROVE Statements!Next
  <1> USE DEF Goto, shared, insert, read, history
  <1>1. /\ t = Caller /\ Caller' = Caller /\ pc[t] = "reply" /\ pc'[t] = "idle"
        /\ UNCHANGED <<catalog, data, committed, next_row_id, row, pushed>>
    BY DEF Reply, Return, Caller, Known, Alone, TypeOK, ControlTypeOK
  <1>2. ~ Inserts(t) /\ ~ Inserts(t)' /\ ~ Dropping(t) /\ ~ Dropping(t)'
    BY <1>1 DEF Dropping, Inserts
  <1>3. Visible' = Visible /\ \A m : TableId(m)' = TableId(m)
    BY <1>1, <1>2 DEF Visible, TableId
  <1>4. Running(Caller)' = Running(Caller)
    BY <1>1, <1>2 DEF Running, Inserts
  <1>5. UNCHANGED <<Committed, Leftover, NextRowId>>
    BY <1>1, <1>3, <1>4 DEF Committed, CommittedOf, Leftover, NextRowId, Of, Plain
  <1>6. ~ Statements!Idle /\ Replied' = Statements!NoReply
    BY <1>1 DEF Replied, Statements!Idle, Statements!NoReply
  <1> QED
    BY <1>5, <1>6 DEF Statements!Next, Statements!Done

-----------------------------------------------------------------------------
(* The entry of a table whose rows are gone goes unseen. *)
LEMMA EntryGoesUnseen ==
    ASSUME Known, NEW t \in Threads, DropEntry(t) PROVE UNCHANGED Statements!vars
  <1> USE DEF Goto, shared, insert, read, history
  <1> DEFINE old == target[t]
  <1>1. /\ t = Caller /\ Caller' = Caller /\ pc[t] = "drop_entry" /\ pc'[t] = "idle"
        /\ catalog' = DropTable(catalog, old[1], old[2])
        /\ UNCHANGED <<data, committed, next_row_id, row, pushed>>
    BY DEF DropEntry, Return, Caller, Known, Alone, TypeOK, ControlTypeOK
  <1>2. ~ Inserts(t) /\ ~ Inserts(t)' /\ Dropping(t) /\ ~ Dropping(t)'
    BY <1>1 DEF Dropping, Inserts
  <1>3. HasTable(catalog, old[1], old[2]) /\ old \in Namespaces \X Names
    BY <1>1, TargetVisible
  <1>4. /\ ~ HasTable(catalog', old[1], old[2])
        /\ \A m, n : <<m, n>> # <<old[1], old[2]>> =>
              /\ HasTable(catalog', m, n) <=> HasTable(catalog, m, n)
              /\ HasTable(catalog, m, n) =>
                    GetTable(catalog', m, n) = GetTable(catalog, m, n)
    BY <1>1, <1>3, DropTableRemoves DEF Known, TypeOK
  <1>5. \A m \in Namespaces \X Names : m # old => <<m[1], m[2]>> # <<old[1], old[2]>>
    BY <1>3
  <1> HIDE DEF old
  <1>6. Visible' = Visible
    BY <1>1, <1>2, <1>4, <1>5 DEF Visible, old
  <1>7. \A m \in Visible : TableId(m)' = TableId(m)
    <2>1. \A m \in Visible : m # old
      BY <1>1, <1>2 DEF Visible, old
    <2> QED
      BY <1>4, <1>5, <2>1 DEF TableId, Visible
  <1>8. Running(Caller)' = Running(Caller)
    BY <1>1, <1>2 DEF Running, Inserts
  <1> QED
    BY <1>1, <1>6, <1>7, <1>8
       DEF Committed, CommittedOf, Leftover, NextRowId, Replied, Of, Plain,
           Statements!vars

(* Whatever else a thread does cannot be seen. *)
OtherStep(t) ==
    \/ TableNotFound(t) \/ BeginDrop(t) \/ BeginInsert(t) \/ BeginAggregate(t)
    \/ BeginScan(t) \/ BeginIdSelect(t) \/ RegisterIndex(t) \/ DropChunks(t)
    \/ DropIndex(t) \/ GetIndex(t) \/ IndexRow(t) \/ PushRowAndTake(t)
    \/ (PushRow(t) \/ PublishFull(t)) /\ values[t] # <<>>
    \/ FlushBuffer(t) \/ PublishFlushed(t)
    \/ ReadChunks(t) /\ pc'[t] # "reply"
    \/ FindIndex(t) \/ ReadIndex(t) \/ FetchRow(t) \/ ScanAgain(t)

LEMMA OthersAreSilent ==
    ASSUME Known, NEW t \in Threads, OtherStep(t) PROVE Silent
  <1> USE DEF Goto, shared, insert, read, history, TypeOK, ControlTypeOK
  <1>1. /\ t = Caller /\ TypeOK
        /\ ~ Inserts(t) => pushed[t] = {}
    BY NothingRuns DEF Running, Known, Alone
  <1>2. CASE TableNotFound(t)
    BY <1>1, <1>2 DEF TableNotFound, vars, Silent, Running, Dropping, Caller
  <1>3. CASE \/ BeginDrop(t) \/ BeginInsert(t) \/ BeginAggregate(t)
             \/ BeginScan(t) \/ BeginIdSelect(t)
    BY <1>1, <1>3
       DEF BeginDrop, BeginInsert, BeginAggregate, BeginScan, BeginIdSelect,
           Resolve, Silent, Running, Dropping, Caller
  <1>4. CASE RegisterIndex(t) \/ DropChunks(t) \/ DropIndex(t)
    BY <1>1, <1>4
       DEF RegisterIndex, Return, DropChunks, DropIndex, Silent, Running,
           Dropping, Caller
  <1>5. CASE GetIndex(t) \/ IndexRow(t) \/ PushRowAndTake(t)
    BY <1>1, <1>5
       DEF GetIndex, IndexRow, PushRowAndTake, Silent, Running, Dropping, Caller
  <1>6. CASE (PushRow(t) \/ PublishFull(t)) /\ values[t] # <<>>
    <2>1. /\ NextRow(t) /\ pc[t] \in {"push_row", "publish_full"}
          /\ UNCHANGED <<catalog, data, next_row_id>>
      BY <1>6 DEF PushRow, PublishFull
    <2>2. /\ pushed'[t] = Running(t) /\ pc'[t] = "store_row" /\ committed' = committed
      BY <1>6, <2>1, RowEnds
    <2> QED
      BY <1>1, <2>1, <2>2 DEF Silent, Running, Dropping, Caller
  <1>7. CASE FlushBuffer(t) \/ PublishFlushed(t) \/ (ReadChunks(t) /\ pc'[t] # "reply")
    BY <1>1, <1>7
       DEF FlushBuffer, PublishFlushed, ReadChunks, Silent, Running, Dropping, Caller
  <1>8. CASE FindIndex(t) \/ ReadIndex(t) \/ FetchRow(t)
    BY <1>1, <1>8 DEF FindIndex, ReadIndex, FetchRow, Silent, Running, Dropping, Caller
  <1>9. CASE ScanAgain(t)
    <2>1. HasTable(catalog, target[t][1], target[t][2])
      BY <1>9, TargetVisible DEF ScanAgain
    <2> QED
      BY <1>1, <1>9, <2>1 DEF ScanAgain, Silent, Running, Dropping, Caller
  <1> QED
    BY <1>2, <1>3, <1>4, <1>5, <1>6, <1>7, <1>8, <1>9 DEF OtherStep

LEMMA AtomicNext == Known /\ [Next]_vars => [Statements!Next]_(Statements!vars)
  <1> SUFFICES ASSUME Known, [Next]_vars
               PROVE  [Statements!Next]_(Statements!vars)
    OBVIOUS
  <1>1. CASE UNCHANGED vars
    BY <1>1
       DEF vars, shared, insert, read, history, Visible, TableId, Dropping, Running,
           Committed, CommittedOf, Leftover, NextRowId, Replied, Of, Plain, Caller,
           Statements!vars
  <1>2. ASSUME NEW t \in Threads, Begin(t) \/ Step(t)
        PROVE  Statements!Next \/ UNCHANGED Statements!vars
    <2>1. CASE CreateEntry(t)
      BY <2>1, CreateIsAtomic
    <2>2. CASE DropRows(t)
      BY <2>2, DropIsAtomic
    <2>3. CASE DropEntry(t)
      BY <2>3, EntryGoesUnseen
    <2>4. CASE StoreRow(t)
      BY <2>4, StoreIsUnseen
    <2>5. CASE RefuseKey(t)
      BY <2>5, RefusalIsAtomic
    <2>6. CASE (PushRow(t) \/ PublishFull(t)) /\ values[t] = <<>>
      BY <2>6, InsertAtOnce
    <2>7. CASE ReadChunks(t) /\ pc'[t] = "reply"
      BY <2>7, AggregateAtOnce
    <2>8. CASE FetchDone(t) \/ Scan(t)
      BY <2>8, SelectAtOnce
    <2>9. CASE Reply(t)
      BY <2>9, ReplyIsDone
    <2>10. CASE OtherStep(t)
      BY <2>10, OthersAreSilent, SilentStep
    <2> QED
      BY <1>2, <2>1, <2>2, <2>3, <2>4, <2>5, <2>6, <2>7, <2>8, <2>9, <2>10
         DEF Begin, Step, OtherStep
  <1> QED
    BY <1>1, <1>2 DEF Next

(* With one caller every behaviour of a session, of any tables, rows and   *)
(* size of a chunk, is one of a set of tables with atomic statements.      *)
THEOREM StatementsAreAtomic == ASSUME Alone PROVE Spec => Atomic
  <1>1. Init => Statements!Init
    BY AtomicInit
  <1> QED
    BY <1>1, AtomicNext, SoloCorrect, PTL DEF Spec, Atomic, Statements!Spec
=============================================================================
