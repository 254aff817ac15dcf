------------------------------ MODULE OneTable ------------------------------
(***************************************************************************)
(* How the INSERTs of one session fill a table: the row store, the index   *)
(* on id and the columnar chunks, one statement at a time; and what the    *)
(* session reads back through the index and makes of a chunk. What SELECTs *)
(* answer from them is in Query.                                           *)
(***************************************************************************)
EXTENDS Values

CONSTANTS
    Schema,     \* the names of the table's columns, in order
    Inserts,    \* INSERTs of one row
    ChunkSize,  \* COLUMNAR_CHUNK_SIZE
    MaxRows     \* bound: INSERT only below this number of rows

(* The expressions of an INSERT; NULL is a literal. *)
Literals == [type : {"int", "float", "string"}, n : Nat] \cup {NullValue}

Exprs == [operand : {"literal"}, value : Literals]
         \cup [operand : {"column"}, name : STRING]

ASSUME SchemaAssumption == Schema \in Seq(STRING)
ASSUME InsertsAssumption == Inserts \subseteq [columns : Seq(STRING), exprs : Seq(Exprs)]
ASSUME ChunkSizeAssumption == ChunkSize \in Nat \ {0}
ASSUME MaxRowsAssumption == MaxRows \in Nat

VARIABLES
    indexed,  \* the table has an index on id (not after a restart)
    rows,     \* TableStore.data of the table; a row's position is its RowId
    index,    \* BTreeIndex.map, as pairs of a key and a RowId
    buffer,   \* SessionState.columnar_buffer
    chunks    \* ColumnarStore.chunks, each as the rows it was made of

stored == <<indexed, rows, index, buffer, chunks>>

(* Schema::column_index: of two columns of one name the later one counts.  *)
ColumnIndex(c) ==
    LET at == {i \in DOMAIN Schema : Schema[i] = c}
    IN  IF at = {} THEN 0 ELSE Max(at)

At(row, i)    == IF i \in DOMAIN row THEN row[i] ELSE Absent
Field(row, c) == At(row, ColumnIndex(c))

TableInit ==
    /\ indexed \in BOOLEAN
    /\ rows = <<>> /\ index = {} /\ buffer = <<>> /\ chunks = <<>>

-----------------------------------------------------------------------------
(* INSERT of one row: the columns it names, if any, and an expression for  *)
(* each value.                                                             *)
InsertInto(columns, exprs) == [columns |-> columns, exprs |-> exprs]

(* values_from_ast refuses what is not a literal. *)
Insertable(insert) == \A e \in ToSet(insert.exprs) : e.operand = "literal"

(* Fault for the runs: NULLs are left out of the row. *)
InsertToPlanSkipsNull(insert) ==
    [node |-> "insert", columns |-> insert.columns,
     values |-> LET exprs == insert.exprs
                    at    == {i \in DOMAIN exprs : exprs[i].value # NullValue}
                IN  [k \in DOMAIN Those(exprs, at) |-> Those(exprs, at)[k].value]]

(* The names of the columns go into the plan, and so do the values.        *)
InsertToPlan(insert) ==
    [node |-> "insert", columns |-> insert.columns,
     values |-> [i \in DOMAIN insert.exprs |-> ValueOf(insert.exprs[i].value)]]

(* Fault for the runs: the buffer is emptied one push too late. *)
PushOneMore(row) ==
    IF Len(buffer) + 1 <= ChunkSize
    THEN buffer' = Append(buffer, row) /\ UNCHANGED chunks
    ELSE buffer' = <<>> /\ chunks' = Append(chunks, Append(buffer, row))

(* Fault for the runs: the chunk is made of the buffer before the push. *)
PushAfterChunk(row) ==
    IF Len(buffer) + 1 < ChunkSize
    THEN buffer' = Append(buffer, row) /\ UNCHANGED chunks
    ELSE buffer' = <<>> /\ chunks' = Append(chunks, buffer)

(* push_columnar_row *)
Push(row) ==
    IF Len(buffer) + 1 < ChunkSize
    THEN buffer' = Append(buffer, row) /\ UNCHANGED chunks
    ELSE buffer' = <<>> /\ chunks' = Append(chunks, Append(buffer, row))

(* Store, index, push: whatever columns the plan names, the values are the *)
(* row; a NULL is refused by the index when the row is already stored.     *)
Insert(insert) ==
    LET row == InsertToPlan(insert).values
        id  == Field(row, "id")
    IN  /\ Len(rows) < MaxRows /\ Insertable(insert)
        /\ rows' = Append(rows, row)
        /\ IF ~ indexed \/ id = Absent
           THEN Push(row) /\ UNCHANGED index
           ELSE IF id # NullValue
           THEN Push(row) /\ index' = index \cup {<<KeyOf(id), Len(rows) + 1>>}
           ELSE UNCHANGED <<index, buffer, chunks>>
        /\ UNCHANGED indexed

(* Fault for the runs: what was in the buffer is forgotten. *)
FlushNothing ==
    /\ chunks' = chunks
    /\ buffer' = <<>>
    /\ UNCHANGED <<indexed, rows, index>>

(* flush_columnar_buffer, at the beginning of an aggregate. *)
Flush ==
    /\ chunks' = IF buffer = <<>> THEN chunks ELSE Append(chunks, buffer)
    /\ buffer' = <<>>
    /\ UNCHANGED <<indexed, rows, index>>

TableNext == Flush \/ \E insert \in Inserts : Insert(insert)

TableSpec == TableInit /\ [][TableNext]_stored

-----------------------------------------------------------------------------
(* What is read. *)

Result(answer) == [kind |-> "rows", rows |-> answer]
Failed         == [kind |-> "error", rows |-> <<>>]
Panicked       == [kind |-> "panic", rows |-> <<>>]

(* Fault for the runs: the end of a range is left out. *)
InHalfOpenRange(k, low, high) ==
    KeyAtMost(low, k) /\ (k = low \/ ~ KeyAtMost(high, k))

InRange(k, low, high) == KeyAtMost(low, k) /\ KeyAtMost(k, high)

(* The order of the map: by key, and of one key by identifier. *)
EntryBefore(d, e) == KeyAtMost(d[1], e[1]) /\ (d[1] = e[1] => d[2] < e[2])

InKeyOrder(some) == Listed(some, EntryBefore)

(* BTreeIndex::get and range, and the rows behind the identifiers: in the  *)
(* order of the keys, both ends included. BTreeMap::range panics when the  *)
(* start is above the end.                                                 *)
LookUp(low, high) ==
    IF NullValue \in {low, high} THEN Failed
    ELSE IF ~ KeyAtMost(KeyOf(low), KeyOf(high)) THEN Panicked
    ELSE LET found == {e \in index : InRange(e[1], KeyOf(low), KeyOf(high))}
             order == InKeyOrder(found)
         IN  Result([i \in DOMAIN order |-> rows[order[i][2]]])

(* ColumnarChunk::column, of each of some chunks: a row too short has a    *)
(* NULL in its chunk.                                                      *)
Slices(some, c) ==
    IF ColumnIndex(c) = 0 THEN <<>>
    ELSE [i \in DOMAIN some |->
             [j \in DOMAIN some[i] |->
                 LET v == Field(some[i][j], c)
                 IN  IF v = Absent THEN NullValue ELSE v]]

(* chunk_to_record_batch: the arrays of the columns. *)
RecordBatch(chunk) ==
    [i \in DOMAIN Schema |-> ColumnToArrow(Slices(<<chunk>>, Schema[i])[1])]

-----------------------------------------------------------------------------
Rows == Seq(Literals)

(* Type invariant; no chunk is empty or too large. *)
TypeOK ==
    /\ indexed \in BOOLEAN
    /\ rows \in Seq(Rows) /\ Len(rows) <= MaxRows
    /\ buffer \in Seq(Rows) /\ Len(buffer) < ChunkSize
    /\ chunks \in Seq(Seq(Rows))
    /\ \A i \in DOMAIN chunks : Len(chunks[i]) \in 1..ChunkSize

IdOf(i) == Field(rows[i], "id")

(* The places of the columnar side, in the chunks and then in the buffer.  *)
Parts  == Append(chunks, buffer)
Places == UNION {{i} \X DOMAIN Parts[i] : i \in DOMAIN Parts}

PlaceBefore(p, q) == p[1] < q[1] \/ (p[1] = q[1] /\ p[2] < q[2])

(* Whatever statements came in what order, and however aggregates have cut *)
(* the buffer into chunks: the index has each row that has an id, under    *)
(* its key, and no other entry; and the chunks with the buffer are the     *)
(* rows whose INSERT was not refused, each once, as it is stored and in    *)
(* the order they came in.                                                 *)
IndexExact ==
    index = {<<KeyOf(IdOf(i)), i>> :
                i \in {j \in DOMAIN rows : indexed /\ IdOf(j) \notin {NullValue, Absent}}}

ChunksExact ==
    \E row \in [Places -> DOMAIN rows] :
        /\ {row[p] : p \in Places} = {i \in DOMAIN rows : indexed => IdOf(i) # NullValue}
        /\ \A p, q \in Places : PlaceBefore(p, q) => row[p] < row[q]
        /\ \A p \in Places : Parts[p[1]][p[2]] = rows[row[p]]

CopiesExact == IndexExact /\ ChunksExact

Insertables == {insert \in Inserts : Insertable(insert)}

OfOneType(values) ==
    \A v, w \in values \ {Absent, NullValue} : v.type = w.type

(* The columns an INSERT gives values for: those it names, or all. *)
Given(insert) == IF insert.columns = <<>> THEN Schema ELSE insert.columns

(* The row an INSERT stores has under each column the value that was       *)
(* written for it, and nothing under the others.                           *)
InsertsMatch ==
    [][\A insert \in Inserts : Insert(insert) =>
          LET row   == Last(rows')
              given == Given(insert)
              exprs == insert.exprs
          IN  /\ \A i \in DOMAIN exprs : Field(row, given[i]) = exprs[i].value
              /\ \A c \in ToSet(Schema) \ {given[i] : i \in DOMAIN exprs} :
                    Field(row, c) \in {NullValue, Absent}]_stored

(* A chunk becomes a batch with an array for each column and a place for   *)
(* each row, and the array has the row's value there: of a short row NULL, *)
(* and the others as they are if the first is not NULL.                    *)
BatchesMatch ==
    \A i \in DOMAIN chunks : \A c \in DOMAIN Schema :
        LET chunk == chunks[i]
            array == RecordBatch(chunk)[c]
            has(r) == Field(chunk[r], Schema[c]) \notin {NullValue, Absent}
        IN  /\ DOMAIN array = DOMAIN chunk
            /\ \A r \in DOMAIN chunk :
                  IF has(r) THEN has(1) => array[r] = Field(chunk[r], Schema[c])
                            ELSE array[r] = NullValue

-----------------------------------------------------------------------------
(* What the last two need of the INSERTs: columns are named in their order *)
(* and only once, integers fit an i64, and a column has values of one type.*)
ColumnsInOrder ==
    /\ IsInjective(Schema)
    /\ \A insert \in Inserts :
          /\ IsPrefix(Given(insert), Schema)
          /\ Len(insert.exprs) <= Len(Given(insert))

LiteralsFit ==
    \A insert \in Insertables : \A e \in ToSet(insert.exprs) : ValueOf(e.value) = e.value

ColumnsTyped ==
    \A insert, other \in Insertables :
        LET v == InsertToPlan(insert).values
            w == InsertToPlan(other).values
        IN  \A i \in DOMAIN v \cap DOMAIN w : OfOneType({v[i], w[i]})
=============================================================================
