--------------------------- MODULE OneTableProofs ---------------------------
(***************************************************************************)
(* For every schema, every set of INSERTs and every size of a chunk: the   *)
(* index and the columnar side are exact copies of the row store, rows and *)
(* batches have the values that were written, and every WHERE finds the    *)
(* rows it describes, by its predicate and by the index. A session with    *)
(* SELECTs is a behaviour of the table, so all of this holds of it.        *)
(***************************************************************************)
EXTENDS Query, FiniteSetTheorems, SequenceTheorems, WellFoundedInduction, TLAPS

(* The row of an INSERT has a literal for each expression. *)
LEMMA PlannedRow ==
    ASSUME NEW insert \in Insertables
    PROVE  LET row == InsertToPlan(insert).values
           IN  /\ row \in Rows
               /\ Len(row) = Len(insert.exprs)
               /\ DOMAIN row = 1..Len(row) /\ DOMAIN insert.exprs = 1..Len(row)
               /\ \A i \in 1..Len(row) :
                     /\ insert.exprs[i].value \in Literals
                     /\ row[i] = ValueOf(insert.exprs[i].value)
  <1> DEFINE row == InsertToPlan(insert).values
             exprs == insert.exprs
  <1>1. exprs \in Seq(Exprs)
    BY InsertsAssumption DEF Insertables
  <1>2. \A i \in 1..Len(exprs) : exprs[i] \in Exprs /\ exprs[i].operand = "literal"
    BY <1>1 DEF Insertables, Insertable, ToSet
  <1>3. \A i \in 1..Len(exprs) : exprs[i].value \in Literals
    BY <1>2 DEF Exprs
  <1>4. \A v \in Literals : ValueOf(v) \in Literals
    BY DEF Literals, ValueOf, IntValue, NullValue
  <1>5. row = [i \in 1..Len(exprs) |-> ValueOf(exprs[i].value)]
    BY <1>1 DEF InsertToPlan
  <1>6. row \in Rows /\ Len(row) = Len(exprs)
    BY <1>1, <1>3, <1>4, <1>5 DEF Rows
  <1> QED
    BY <1>1, <1>3, <1>5, <1>6

(* What a step of Insert does with the row, in three cases. *)
LEMMA InsertCases ==
    ASSUME NEW insert, Insert(insert)
    PROVE  LET row == InsertToPlan(insert).values
               id  == Field(row, "id")
           IN  /\ Insertable(insert) /\ Len(rows) < MaxRows
               /\ rows' = Append(rows, row) /\ indexed' = indexed
               /\ \/ (~ indexed \/ id = Absent) /\ Push(row) /\ index' = index
                  \/ /\ indexed /\ id \notin {Absent, NullValue} /\ Push(row)
                     /\ index' = index \cup {<<KeyOf(id), Len(rows) + 1>>}
                  \/ /\ indexed /\ id = NullValue
                     /\ index' = index /\ buffer' = buffer /\ chunks' = chunks
  BY DEF Insert, Absent, NullValue

(* Every variable keeps its type; the buffer has less than a chunk, and a  *)
(* chunk at least a row and no more than it may have.                      *)
THEOREM TypeCorrect == TableSpec => []TypeOK
  <1>1. TableInit => TypeOK
    BY ChunkSizeAssumption, MaxRowsAssumption DEF TableInit, TypeOK
  <1>2. TypeOK /\ [TableNext]_stored => TypeOK'
    <2> SUFFICES ASSUME TypeOK, [TableNext]_stored PROVE TypeOK'
      OBVIOUS
    <2> USE DEF TypeOK
    <2>1. CASE Flush
      <3>1. buffer # <<>> => Len(buffer) \in 1..ChunkSize
        BY ChunkSizeAssumption
      <3> QED
        BY <2>1, <3>1, ChunkSizeAssumption DEF Flush
    <2>2. ASSUME NEW insert \in Inserts, Insert(insert) PROVE TypeOK'
      <3> DEFINE row == InsertToPlan(insert).values
      <3>1. row \in Rows
        BY <2>2, InsertCases, PlannedRow DEF Insertables
      <3>2. rows' \in Seq(Rows) /\ Len(rows') <= MaxRows
        <4>1. rows' = Append(rows, row) /\ Len(rows) < MaxRows
          BY <2>2, InsertCases
        <4> HIDE DEF row
        <4> QED
          BY <3>1, <4>1, MaxRowsAssumption
      <3>3. ASSUME Push(row)
            PROVE  /\ buffer' \in Seq(Rows) /\ Len(buffer') < ChunkSize
                   /\ chunks' \in Seq(Seq(Rows))
                   /\ \A i \in DOMAIN chunks' : Len(chunks'[i]) \in 1..ChunkSize
        <4> HIDE DEF row
        <4>1. CASE Len(buffer) + 1 < ChunkSize
          <5>1. buffer' = Append(buffer, row) /\ chunks' = chunks
            BY <3>3, <4>1 DEF Push
          <5> QED
            BY <3>1, <4>1, <5>1
        <4>2. CASE ~ (Len(buffer) + 1 < ChunkSize)
          <5> DEFINE full == Append(buffer, row)
          <5>1. full \in Seq(Rows) /\ Len(full) \in 1..ChunkSize
            BY <3>1, <4>2, ChunkSizeAssumption
          <5>2. buffer' = <<>> /\ chunks' = Append(chunks, full)
            BY <3>3, <4>2 DEF Push
          <5> HIDE DEF full
          <5> QED
            BY <5>1, <5>2, ChunkSizeAssumption
        <4> QED
          BY <4>1, <4>2
      <3> QED
        BY <2>2, <3>2, <3>3, InsertCases
    <2>3. CASE UNCHANGED stored
      BY <2>3 DEF stored
    <2> QED
      BY <2>1, <2>2, <2>3 DEF TableNext
  <1> QED
    BY <1>1, <1>2, PTL DEF TableSpec

-----------------------------------------------------------------------------
(* The copies. *)

(* The identifier under which the index has a row. *)
LEMMA IdsOfRows ==
    ASSUME TypeOK
    PROVE  /\ DOMAIN rows = 1..Len(rows) /\ Len(rows) \in Nat
           /\ \A i \in DOMAIN rows : rows[i] \in Rows /\ IdOf(i) \in Literals \cup {Absent}
  BY DEF TypeOK, IdOf, Field, At, Rows

(* A new row leaves the others as they are. *)
LEMMA RowAppended ==
    ASSUME TypeOK, NEW row \in Rows, rows' = Append(rows, row), NEW n, n = Len(rows) + 1
    PROVE  /\ DOMAIN rows' = DOMAIN rows \cup {n} /\ n \notin DOMAIN rows
           /\ rows'[n] = row /\ IdOf(n)' = Field(row, "id")
           /\ \A i \in DOMAIN rows : rows'[i] = rows[i] /\ IdOf(i)' = IdOf(i) /\ i < n
  <1>1. rows \in Seq(Rows)
    BY DEF TypeOK
  <1>2. /\ DOMAIN rows' = DOMAIN rows \cup {n} /\ n \notin DOMAIN rows
        /\ rows'[n] = row
        /\ \A i \in DOMAIN rows : rows'[i] = rows[i] /\ i < n
    BY <1>1
  <1>3. /\ IdOf(n)' = Field(rows'[n], "id")
        /\ \A i : IdOf(i)' = Field(rows'[i], "id") /\ IdOf(i) = Field(rows[i], "id")
    BY DEF IdOf, Field, At, ColumnIndex
  <1> QED
    BY <1>2, <1>3

(* The places of any sequence of parts. *)
PlacesOf(parts) == UNION {{i} \X DOMAIN parts[i] : i \in DOMAIN parts}

LEMMA InPlacesOf ==
    ASSUME NEW parts
    PROVE  /\ \A p \in PlacesOf(parts) : p = <<p[1], p[2]>> /\ p[1] \in DOMAIN parts
                                                           /\ p[2] \in DOMAIN parts[p[1]]
           /\ \A i \in DOMAIN parts : \A j \in DOMAIN parts[i] : <<i, j>> \in PlacesOf(parts)
  BY DEF PlacesOf

(* An empty part at the end has no places. *)
LEMMA EmptyPart ==
    ASSUME NEW parts \in Seq(Seq(Rows))
    PROVE  /\ PlacesOf(Append(parts, <<>>)) = PlacesOf(parts)
           /\ \A p \in PlacesOf(parts) : Append(parts, <<>>)[p[1]][p[2]] = parts[p[1]][p[2]]
  <1> DEFINE more == Append(parts, <<>>)
  <1>1. /\ DOMAIN more = DOMAIN parts \cup {Len(parts) + 1}
        /\ \A i \in DOMAIN parts : more[i] = parts[i]
        /\ DOMAIN more[Len(parts) + 1] = {}
    OBVIOUS
  <1> HIDE DEF more
  <1> QED
    BY <1>1 DEF PlacesOf

(* A row at the end of the last part is behind all others. *)
LEMMA LastPartGrows ==
    ASSUME NEW parts \in Seq(Seq(Rows)), NEW part \in Seq(Rows), NEW row \in Rows
    PROVE  LET old == Append(parts, part)
               new == Append(parts, Append(part, row))
               end == <<Len(parts) + 1, Len(part) + 1>>
           IN  /\ PlacesOf(new) = PlacesOf(old) \cup {end}
               /\ end \notin PlacesOf(old)
               /\ new[end[1]][end[2]] = row
               /\ \A p \in PlacesOf(old) : /\ new[p[1]][p[2]] = old[p[1]][p[2]]
                                           /\ PlaceBefore(p, end) /\ ~ PlaceBefore(end, p)
               /\ ~ PlaceBefore(end, end)
  <1> DEFINE old == Append(parts, part)
             longer == Append(part, row)
             new == Append(parts, longer)
             n == Len(parts) + 1
             k == Len(part) + 1
  <1>1. /\ DOMAIN longer = 1..k /\ DOMAIN part = 1..k - 1 /\ longer[k] = row
        /\ k \in Nat /\ k >= 1
        /\ \A j \in 1..k - 1 : longer[j] = part[j]
    OBVIOUS
  <1> HIDE DEF longer
  <1>2. /\ DOMAIN old = 1..n /\ DOMAIN new = 1..n /\ n \in Nat /\ n >= 1
        /\ old[n] = part /\ new[n] = longer
        /\ \A i \in 1..n - 1 : old[i] = parts[i] /\ new[i] = parts[i]
        /\ \A i \in 1..n - 1 : DOMAIN parts[i] \subseteq Nat
    OBVIOUS
  <1> HIDE DEF old, new, n, k
  <1>3. \A p : p \in PlacesOf(old) =>
            /\ p = <<p[1], p[2]>> /\ p[1] \in 1..n /\ p[2] \in DOMAIN old[p[1]]
            /\ p[2] \in Nat /\ (p[1] = n => p[2] \in 1..k - 1)
    <2> SUFFICES ASSUME NEW p \in PlacesOf(old)
                 PROVE  /\ p = <<p[1], p[2]>> /\ p[1] \in 1..n /\ p[2] \in DOMAIN old[p[1]]
                        /\ p[2] \in Nat /\ (p[1] = n => p[2] \in 1..k - 1)
      OBVIOUS
    <2>1. p = <<p[1], p[2]>> /\ p[1] \in 1..n /\ p[2] \in DOMAIN old[p[1]]
      BY <1>2, InPlacesOf
    <2>2. CASE p[1] = n
      BY <1>1, <1>2, <2>1, <2>2
    <2>3. CASE p[1] # n
      <3>1. p[1] \in 1..n - 1
        BY <1>2, <2>1, <2>3
      <3> QED
        BY <1>2, <2>1, <2>3, <3>1
    <2> QED
      BY <2>2, <2>3
  <1>4. ASSUME NEW p \in PlacesOf(old)
        PROVE  /\ new[p[1]][p[2]] = old[p[1]][p[2]]
               /\ PlaceBefore(p, <<n, k>>) /\ ~ PlaceBefore(<<n, k>>, p)
               /\ p \in PlacesOf(new) /\ p # <<n, k>>
    <2>1. CASE p[1] = n
      <3>1. p[2] \in 1..k - 1
        BY <1>3, <2>1
      <3>2. p[2] \in DOMAIN new[n] /\ p = <<n, p[2]>> /\ p[2] # k /\ p[2] < k
        BY <1>1, <1>2, <1>3, <2>1, <3>1
      <3>3. new[n][p[2]] = old[n][p[2]]
        BY <1>1, <1>2, <3>1
      <3>4. <<n, p[2]>> \in PlacesOf(new)
        BY <1>2, <3>2, InPlacesOf
      <3>5. PlaceBefore(p, <<n, k>>) /\ ~ PlaceBefore(<<n, k>>, p)
        BY <1>1, <1>2, <1>3, <2>1, <3>2 DEF PlaceBefore
      <3>6. p # <<n, k>>
        BY <3>2
      <3> QED
        BY <2>1, <3>2, <3>3, <3>4, <3>5, <3>6
    <2>2. CASE p[1] # n
      <3>1. p[1] \in 1..n - 1 /\ p[1] < n
        BY <1>2, <1>3, <2>2
      <3>2. new[p[1]] = old[p[1]]
        BY <1>2, <3>1
      <3>3. <<p[1], p[2]>> \in PlacesOf(new)
        BY <1>2, <1>3, <3>1, <3>2, InPlacesOf
      <3>4. PlaceBefore(p, <<n, k>>) /\ ~ PlaceBefore(<<n, k>>, p)
        BY <1>2, <3>1 DEF PlaceBefore
      <3> QED
        BY <1>3, <2>2, <3>2, <3>3, <3>4
    <2> QED
      BY <2>1, <2>2
  <1>5. ASSUME NEW p \in PlacesOf(new) PROVE p \in PlacesOf(old) \cup {<<n, k>>}
    <2>1. p = <<p[1], p[2]>> /\ p[1] \in 1..n /\ p[2] \in DOMAIN new[p[1]]
      BY <1>2, InPlacesOf
    <2>2. CASE p[1] = n
      <3>1. p[2] \in 1..k
        BY <1>1, <1>2, <2>1, <2>2
      <3>2. p[2] # k => p[2] \in DOMAIN old[n]
        BY <1>1, <1>2, <3>1
      <3> QED
        BY <1>2, <2>1, <2>2, <3>2, InPlacesOf
    <2>3. CASE p[1] # n
      <3>1. p[1] \in 1..n - 1
        BY <1>2, <2>1, <2>3
      <3>2. new[p[1]] = old[p[1]]
        BY <1>2, <3>1
      <3> QED
        BY <1>2, <2>1, <3>2, InPlacesOf
    <2> QED
      BY <2>2, <2>3
  <1>6. <<n, k>> \in PlacesOf(new)
    <2>1. n \in DOMAIN new /\ k \in DOMAIN new[n]
      BY <1>1, <1>2
    <2> QED
      BY <2>1, InPlacesOf
  <1>7. new[n][k] = row /\ ~ PlaceBefore(<<n, k>>, <<n, k>>)
    BY <1>1, <1>2 DEF PlaceBefore
  <1>8. PlacesOf(new) = PlacesOf(old) \cup {<<n, k>>} /\ <<n, k>> \notin PlacesOf(old)
    BY <1>4, <1>5, <1>6
  <1> QED
    BY <1>4, <1>7, <1>8 DEF old, new, longer, n, k

LEMMA PlacesAre == Places = PlacesOf(Parts)
  BY DEF Places, PlacesOf

(* One more row at one more place, behind the others. *)
LEMMA CopyGrows ==
    ASSUME TypeOK, ChunksExact,
           NEW row \in Rows, rows' = Append(rows, row),
           indexed' = indexed, indexed => Field(row, "id") # NullValue,
           NEW end, end \notin Places, Places' = Places \cup {end},
           Parts'[end[1]][end[2]] = row, ~ PlaceBefore(end, end),
           \A p \in Places : /\ Parts'[p[1]][p[2]] = Parts[p[1]][p[2]]
                             /\ PlaceBefore(p, end) /\ ~ PlaceBefore(end, p)
    PROVE  ChunksExact'
  <1> DEFINE accepted == {i \in DOMAIN rows : indexed => IdOf(i) # NullValue}
             n == Len(rows) + 1
  <1>1. PICK at \in [Places -> DOMAIN rows] :
            /\ {at[p] : p \in Places} = accepted
            /\ \A p, q \in Places : PlaceBefore(p, q) => at[p] < at[q]
            /\ \A p \in Places : Parts[p[1]][p[2]] = rows[at[p]]
    BY DEF ChunksExact
  <1>2. PICK m : m = n
    OBVIOUS
  <1>3. /\ DOMAIN rows' = DOMAIN rows \cup {m} /\ m \notin DOMAIN rows
        /\ rows'[m] = row /\ IdOf(m)' = Field(row, "id")
        /\ \A i \in DOMAIN rows : rows'[i] = rows[i] /\ IdOf(i)' = IdOf(i) /\ i < m
    BY <1>2, RowAppended
  <1> DEFINE longer == [p \in Places' |-> IF p \in Places THEN at[p] ELSE m]
  <1>4. longer \in [Places' -> DOMAIN rows']
    BY <1>1, <1>3
  <1>5. {longer[p] : p \in Places'} = accepted \cup {m}
    BY <1>1
  <1>6. {i \in DOMAIN rows' : indexed' => IdOf(i)' # NullValue} = accepted \cup {m}
    BY <1>3
  <1>7. ASSUME NEW p \in Places', NEW q \in Places', PlaceBefore(p, q)
        PROVE  longer[p] < longer[q]
    <2>1. p \in Places
      BY <1>7
    <2>2. CASE q \in Places
      BY <1>1, <1>7, <2>1, <2>2
    <2>3. CASE q \notin Places
      BY <1>1, <1>3, <2>1, <2>3
    <2> QED
      BY <2>2, <2>3
  <1>8. ASSUME NEW p \in Places' PROVE Parts'[p[1]][p[2]] = rows'[longer[p]]
    <2>1. CASE p \in Places
      <3>1. at[p] \in DOMAIN rows /\ longer[p] = at[p]
        BY <1>1, <2>1
      <3> QED
        BY <1>1, <1>3, <2>1, <3>1
    <2>2. CASE p = end
      BY <1>3, <2>2
    <2> QED
      BY <2>1, <2>2
  <1> HIDE DEF longer, accepted
  <1> QED
    BY <1>4, <1>5, <1>6, <1>7, <1>8 DEF ChunksExact

(* A row that is not pushed changes nothing on the columnar side. *)
LEMMA CopyStays ==
    ASSUME TypeOK, ChunksExact, NEW row \in Rows, rows' = Append(rows, row),
           indexed' = indexed, indexed, Field(row, "id") = NullValue,
           UNCHANGED <<buffer, chunks>>
    PROVE  ChunksExact'
  <1> DEFINE accepted == {i \in DOMAIN rows : indexed => IdOf(i) # NullValue}
  <1>1. PICK at \in [Places -> DOMAIN rows] :
            /\ {at[p] : p \in Places} = accepted
            /\ \A p, q \in Places : PlaceBefore(p, q) => at[p] < at[q]
            /\ \A p \in Places : Parts[p[1]][p[2]] = rows[at[p]]
    BY DEF ChunksExact
  <1>2. PICK m : m = Len(rows) + 1
    OBVIOUS
  <1>3. /\ DOMAIN rows' = DOMAIN rows \cup {m} /\ m \notin DOMAIN rows
        /\ rows'[m] = row /\ IdOf(m)' = Field(row, "id")
        /\ \A i \in DOMAIN rows : rows'[i] = rows[i] /\ IdOf(i)' = IdOf(i)
    BY <1>2, RowAppended
  <1>4. Parts' = Parts /\ Places' = Places
    BY DEF Parts, Places
  <1>5. {i \in DOMAIN rows' : indexed' => IdOf(i)' # NullValue} = accepted
    BY <1>3
  <1>6. \A p \in Places : Parts[p[1]][p[2]] = rows'[at[p]]
    BY <1>1, <1>3
  <1>7. at \in [Places -> DOMAIN rows']
    BY <1>1, <1>3
  <1> HIDE DEF accepted
  <1> QED
    BY <1>1, <1>4, <1>5, <1>6, <1>7 DEF ChunksExact

(* A push, whether or not it fills the buffer. *)
LEMMA PushAddsPlace ==
    ASSUME TypeOK, NEW row \in Rows, Push(row)
    PROVE  LET end == <<Len(chunks) + 1, Len(buffer) + 1>>
           IN  /\ end \notin Places /\ Places' = Places \cup {end}
               /\ Parts'[end[1]][end[2]] = row /\ ~ PlaceBefore(end, end)
               /\ \A p \in Places : /\ Parts'[p[1]][p[2]] = Parts[p[1]][p[2]]
                                     /\ PlaceBefore(p, end) /\ ~ PlaceBefore(end, p)
  <1> DEFINE longer == Append(buffer, row)
             new == Append(chunks, longer)
             end == <<Len(chunks) + 1, Len(buffer) + 1>>
  <1>1. chunks \in Seq(Seq(Rows)) /\ buffer \in Seq(Rows)
    BY DEF TypeOK
  <1>2. longer \in Seq(Rows) /\ new \in Seq(Seq(Rows))
    BY <1>1
  <1>3. /\ PlacesOf(new) = Places \cup {end}
        /\ end \notin Places
        /\ new[end[1]][end[2]] = row
        /\ \A p \in Places : /\ new[p[1]][p[2]] = Parts[p[1]][p[2]]
                              /\ PlaceBefore(p, end) /\ ~ PlaceBefore(end, p)
        /\ ~ PlaceBefore(end, end)
    <2>1. Parts = Append(chunks, buffer) /\ Places = PlacesOf(Append(chunks, buffer))
      BY PlacesAre DEF Parts
    <2>2. LET old == Append(chunks, buffer)
          IN  /\ PlacesOf(new) = PlacesOf(old) \cup {end}
              /\ end \notin PlacesOf(old)
              /\ new[end[1]][end[2]] = row
              /\ \A p \in PlacesOf(old) : /\ new[p[1]][p[2]] = old[p[1]][p[2]]
                                          /\ PlaceBefore(p, end) /\ ~ PlaceBefore(end, p)
              /\ ~ PlaceBefore(end, end)
      BY <1>1, LastPartGrows
    <2> QED
      BY <2>1, <2>2
  <1>4. Places' = PlacesOf(new) /\ \A p \in PlacesOf(new) : Parts'[p[1]][p[2]] = new[p[1]][p[2]]
    <2>1. CASE Len(buffer) + 1 < ChunkSize
      <3>1. Parts' = new
        BY <2>1 DEF Push, Parts
      <3>2. Places' = PlacesOf(Parts')
        BY DEF Places, PlacesOf
      <3> QED
        BY <3>1, <3>2
    <2>2. CASE ~ (Len(buffer) + 1 < ChunkSize)
      <3>1. Parts' = Append(new, <<>>)
        BY <2>2 DEF Push, Parts
      <3>2. Places' = PlacesOf(Parts')
        BY DEF Places, PlacesOf
      <3> HIDE DEF new
      <3> QED
        BY <1>2, <3>1, <3>2, EmptyPart
    <2> QED
      BY <2>1, <2>2
  <1> HIDE DEF new, longer, end
  <1>5. Parts'[end[1]][end[2]] = row
    BY <1>3, <1>4
  <1>6. \A p \in Places : Parts'[p[1]][p[2]] = Parts[p[1]][p[2]]
    BY <1>3, <1>4
  <1>7. Places' = Places \cup {end}
    BY <1>3, <1>4
  <1> QED
    BY <1>3, <1>5, <1>6, <1>7 DEF end

(* A flush leaves every row at its place. *)
LEMMA FlushKeepsPlaces ==
    ASSUME TypeOK, Flush
    PROVE  Places' = Places /\ \A p \in Places : Parts'[p[1]][p[2]] = Parts[p[1]][p[2]]
  <1>1. Places' = PlacesOf(Parts')
    BY DEF Places, PlacesOf
  <1>2. CASE buffer = <<>>
    <2>1. Parts' = Parts
      BY <1>2 DEF Flush, Parts
    <2> QED
      BY <1>1, <2>1, PlacesAre
  <1>3. CASE buffer # <<>>
    <2>1. Parts' = Append(Parts, <<>>)
      BY <1>3 DEF Flush, Parts
    <2>2. Parts \in Seq(Seq(Rows))
      BY DEF Parts, TypeOK
    <2> QED
      BY <1>1, <2>1, <2>2, EmptyPart, PlacesAre
  <1> QED
    BY <1>2, <1>3

(* The index and the columnar side are exact copies of the row store, in   *)
(* the sense of CopiesExact, whatever INSERTs and flushes came before.     *)
THEOREM CopiesCorrect == TableSpec => []CopiesExact
  <1>1. TableInit => CopiesExact
    <2> SUFFICES ASSUME TableInit PROVE CopiesExact
      OBVIOUS
    <2>1. IndexExact
      BY DEF TableInit, IndexExact
    <2>2. Parts = <<<<>>>>
      BY DEF TableInit, Parts
    <2>3. Places = {}
      BY <2>2 DEF Places
    <2>4. DOMAIN rows = {}
      BY DEF TableInit
    <2>5. [p \in {} |-> 0] \in [Places -> DOMAIN rows]
      BY <2>3
    <2>6. ChunksExact
      BY <2>3, <2>4, <2>5 DEF ChunksExact
    <2> QED
      BY <2>1, <2>6 DEF CopiesExact
  <1>2. TypeOK /\ CopiesExact /\ [TableNext]_stored => CopiesExact'
    <2> SUFFICES ASSUME TypeOK, CopiesExact, [TableNext]_stored PROVE CopiesExact'
      OBVIOUS
    <2> USE DEF CopiesExact
    <2>1. CASE Flush
      <3>1. IndexExact'
        BY <2>1 DEF Flush, IndexExact, IdOf, Field, At, ColumnIndex
      <3>2. Places' = Places /\ \A p \in Places : Parts'[p[1]][p[2]] = Parts[p[1]][p[2]]
        BY <2>1, FlushKeepsPlaces
      <3>3. rows' = rows /\ indexed' = indexed /\ \A i : IdOf(i)' = IdOf(i)
        BY <2>1 DEF Flush, IdOf, Field, At, ColumnIndex
      <3>4. ChunksExact'
        BY <3>2, <3>3 DEF ChunksExact
      <3> QED
        BY <3>1, <3>4
    <2>2. ASSUME NEW insert \in Inserts, Insert(insert) PROVE CopiesExact'
      <3> DEFINE row == InsertToPlan(insert).values
                 id == Field(row, "id")
      <3>1. row \in Rows
        BY <2>2, InsertCases, PlannedRow DEF Insertables
      <3>2. rows' = Append(rows, row) /\ indexed' = indexed
        BY <2>2, InsertCases
      <3>3. PICK n : n = Len(rows) + 1
        OBVIOUS
      <3>4. \/ (~ indexed \/ id = Absent) /\ Push(row) /\ index' = index
            \/ /\ indexed /\ id \notin {Absent, NullValue} /\ Push(row)
               /\ index' = index \cup {<<KeyOf(id), n>>}
            \/ /\ indexed /\ id = NullValue
               /\ index' = index /\ buffer' = buffer /\ chunks' = chunks
        BY <2>2, <3>3, InsertCases
      <3> HIDE DEF row
      <3>5. /\ DOMAIN rows' = DOMAIN rows \cup {n} /\ n \notin DOMAIN rows
            /\ rows'[n] = row /\ IdOf(n)' = id
            /\ \A i \in DOMAIN rows : rows'[i] = rows[i] /\ IdOf(i)' = IdOf(i)
        BY <3>1, <3>2, <3>3, RowAppended
      <3>6. IndexExact'
        <4> DEFINE has == {j \in DOMAIN rows : indexed /\ IdOf(j) \notin {NullValue, Absent}}
        <4>1. index = {<<KeyOf(IdOf(i)), i>> : i \in has}
          BY DEF IndexExact
        <4>2. {j \in DOMAIN rows' : indexed' /\ IdOf(j)' \notin {NullValue, Absent}}
                = has \cup (IF indexed /\ id \notin {NullValue, Absent} THEN {n} ELSE {})
          BY <3>2, <3>5
        <4>3. IndexExact' <=>
                index' = {<<KeyOf(IdOf(i)'), i>> : i \in
                            {j \in DOMAIN rows' : indexed' /\ IdOf(j)' \notin {NullValue, Absent}}}
          BY DEF IndexExact, KeyOf
        <4>4. index' = index \cup (IF indexed /\ id \notin {NullValue, Absent}
                                   THEN {<<KeyOf(id), n>>} ELSE {})
          BY <3>4 DEF Absent, NullValue
        <4>5. \A i \in has : KeyOf(IdOf(i)') = KeyOf(IdOf(i))
          BY <3>5
        <4> HIDE DEF has, id
        <4> QED
          BY <3>5, <4>1, <4>2, <4>3, <4>4, <4>5
      <3>7. ASSUME Push(row), indexed => id # NullValue PROVE ChunksExact'
        BY <3>1, <3>2, <3>7, PushAddsPlace, CopyGrows
      <3>8. ASSUME indexed, id = NullValue, UNCHANGED <<buffer, chunks>> PROVE ChunksExact'
        BY <3>1, <3>2, <3>8, CopyStays
      <3>9. Absent # NullValue
        BY DEF Absent, NullValue
      <3> QED
        BY <3>4, <3>6, <3>7, <3>8, <3>9
    <2>3. CASE UNCHANGED stored
      <3>1. /\ index' = index /\ rows' = rows /\ indexed' = indexed
            /\ Parts' = Parts /\ Places' = Places /\ \A i : IdOf(i)' = IdOf(i)
        BY <2>3 DEF stored, Places, Parts, IdOf, Field, At, ColumnIndex
      <3>2. IndexExact'
        BY <3>1 DEF IndexExact, KeyOf
      <3>3. ChunksExact'
        BY <3>1 DEF ChunksExact
      <3> QED
        BY <3>2, <3>3
    <2> QED
      BY <2>1, <2>2, <2>3 DEF TableNext
  <1> QED
    BY <1>1, <1>2, TypeCorrect, PTL DEF TableSpec

-----------------------------------------------------------------------------
(* The values written. *)

(* Positions have a last one. *)
LEMMA LastPosition ==
    ASSUME NEW n \in Nat, NEW S \in SUBSET (1..n), S # {}
    PROVE  Max(S) \in S
  <1> DEFINE R == OpToRel(<, Nat)
             Above == {n - i : i \in S}
  <1>1. IsWellFoundedOn(R, Nat)
    BY NatLessThanWellFounded
  <1>2. Above \subseteq Nat /\ Above # {}
    <2>1. \A i \in S : n - i \in Nat
      OBVIOUS
    <2> QED
      BY <2>1
  <1>3. PICK least \in Above : \A y \in Above : ~ (<<y, least>> \in R)
    <2> HIDE DEF R, Above
    <2> QED
      BY <1>1, <1>2, WFMin
  <1>4. PICK top \in S : least = n - top
    BY <1>3
  <1>5. ASSUME NEW i \in S PROVE top >= i
    <2>1. n - i \in Above /\ n - i \in Nat /\ least \in Nat
      BY <1>2, <1>3
    <2>2. ~ (n - i < least)
      BY <1>3, <2>1 DEF OpToRel
    <2>3. n \in Nat /\ i \in Nat /\ top \in Nat
      OBVIOUS
    <2>4. ~ (n - i < n - top)
      BY <1>4, <2>2
    <2> QED
      BY <2>3, <2>4
  <1> QED
    BY <1>4, <1>5 DEF Max

(* Schema::column_index of a column of the schema. *)
LEMMA ColumnsHaveIndexes ==
    ASSUME NEW c \in DOMAIN Schema
    PROVE  /\ ColumnIndex(Schema[c]) \in DOMAIN Schema
           /\ IsInjective(Schema) => ColumnIndex(Schema[c]) = c
  <1> DEFINE at == {i \in DOMAIN Schema : Schema[i] = Schema[c]}
  <1>1. DOMAIN Schema = 1..Len(Schema) /\ Len(Schema) \in Nat
    BY SchemaAssumption
  <1>2. c \in at /\ at \subseteq 1..Len(Schema)
    BY <1>1
  <1>3. Max(at) \in at
    <2> HIDE DEF at
    <2> QED
      BY <1>1, <1>2, LastPosition
  <1>4. ColumnIndex(Schema[c]) = Max(at)
    BY <1>2 DEF ColumnIndex
  <1>5. \A i \in at : i \in DOMAIN Schema /\ Schema[i] = Schema[c]
    OBVIOUS
  <1> HIDE DEF at
  <1>6. ColumnIndex(Schema[c]) \in DOMAIN Schema /\ Schema[ColumnIndex(Schema[c])] = Schema[c]
    BY <1>3, <1>4, <1>5
  <1> QED
    BY <1>6 DEF IsInjective

(* The columns an INSERT names are the first of the schema, in order.      *)
LEMMA GivenColumns ==
    ASSUME ColumnsInOrder, NEW insert \in Inserts, NEW i \in 1..Len(insert.exprs)
    PROVE  i \in DOMAIN Schema /\ Given(insert)[i] = Schema[i]
  <1> DEFINE given == Given(insert)
  <1>1. given \in Seq(STRING) /\ Schema \in Seq(STRING) /\ insert.exprs \in Seq(Exprs)
    BY SchemaAssumption, InsertsAssumption DEF Given
  <1>2. /\ Len(given) <= Len(Schema) /\ Len(insert.exprs) <= Len(given)
        /\ SubSeq(given, 1, Len(given)) = SubSeq(Schema, 1, Len(given))
    BY DEF ColumnsInOrder, IsPrefix
  <1> HIDE DEF given
  <1>3. i \in 1..Len(given) /\ i \in 1..Len(Schema)
    BY <1>1, <1>2
  <1>4. SubSeq(given, 1, Len(given))[i] = given[i] /\ SubSeq(Schema, 1, Len(given))[i] = Schema[i]
    BY <1>1, <1>2, <1>3
  <1> QED
    BY <1>1, <1>2, <1>3, <1>4 DEF given

(* When INSERTs name columns in the order of the schema and integers fit,  *)
(* each value is stored under the column it was written for.               *)
THEOREM WrittenIsStored ==
    ASSUME ColumnsInOrder, LiteralsFit
    PROVE  TableSpec => InsertsMatch
  <1> DEFINE Stores(insert) ==
               LET row   == Last(rows')
                   given == Given(insert)
                   exprs == insert.exprs
               IN  /\ \A i \in DOMAIN exprs : Field(row, given[i]) = exprs[i].value
                   /\ \A c \in ToSet(Schema) \ {given[i] : i \in DOMAIN exprs} :
                         Field(row, c) \in {NullValue, Absent}
  <1>1. ASSUME TypeOK, NEW insert \in Inserts, Insert(insert) PROVE Stores(insert)
    <2> DEFINE row == InsertToPlan(insert).values
               exprs == insert.exprs
    <2>1. insert \in Insertables /\ rows' = Append(rows, row)
      BY <1>1, InsertCases DEF Insertables
    <2>2. /\ row \in Rows /\ DOMAIN row = 1..Len(row)
          /\ DOMAIN exprs = 1..Len(row) /\ Len(row) = Len(exprs)
          /\ \A i \in 1..Len(row) : row[i] = ValueOf(exprs[i].value)
      BY <2>1, PlannedRow
    <2>3. \A i \in 1..Len(row) : row[i] = exprs[i].value
      BY <2>1, <2>2 DEF LiteralsFit, ToSet
    <2>4. Last(rows') = row
      <3> HIDE DEF row
      <3> QED
        BY <1>1, <2>1, <2>2 DEF Last, TypeOK
    <2> HIDE DEF row
    <2>5. \A i \in DOMAIN exprs : i \in DOMAIN Schema /\ Given(insert)[i] = Schema[i]
      BY <2>2, GivenColumns
    <2>6. ASSUME NEW i \in DOMAIN exprs PROVE Field(row, Given(insert)[i]) = exprs[i].value
      <3>1. ColumnIndex(Given(insert)[i]) = i
        BY <2>5, ColumnsHaveIndexes DEF ColumnsInOrder
      <3> QED
        BY <2>2, <2>3, <3>1 DEF Field, At
    <2>7. ASSUME NEW c \in ToSet(Schema) \ {Given(insert)[i] : i \in DOMAIN exprs}
          PROVE  Field(row, c) = Absent
      <3>1. PICK k \in DOMAIN Schema : c = Schema[k]
        BY DEF ToSet
      <3>2. k \notin DOMAIN exprs
        BY <2>5, <2>7, <3>1
      <3>3. ColumnIndex(c) = k
        BY <3>1, ColumnsHaveIndexes DEF ColumnsInOrder
      <3> QED
        BY <2>2, <3>2, <3>3 DEF Field, At
    <2> QED
      BY <2>4, <2>6, <2>7
  <1>2. TypeOK /\ [TableNext]_stored =>
            [\A insert \in Inserts : Insert(insert) => Stores(insert)]_stored
    BY <1>1
  <1> QED
    BY <1>2, TypeCorrect, PTL DEF TableSpec, InsertsMatch

(* Every row is the one some INSERT asked for. *)
RowsWritten == \A i \in DOMAIN rows : \E insert \in Insertables : rows[i] = InsertToPlan(insert).values

LEMMA RowsAreWritten == TableSpec => []RowsWritten
  <1>1. TableInit => RowsWritten
    BY DEF TableInit, RowsWritten
  <1>2. TypeOK /\ RowsWritten /\ [TableNext]_stored => RowsWritten'
    <2> SUFFICES ASSUME TypeOK, RowsWritten, [TableNext]_stored PROVE RowsWritten'
      OBVIOUS
    <2>1. CASE rows' = rows
      BY <2>1 DEF RowsWritten, InsertToPlan
    <2>2. ASSUME NEW insert \in Inserts, Insert(insert) PROVE RowsWritten'
      <3> DEFINE row == InsertToPlan(insert).values
      <3>1. insert \in Insertables /\ rows' = Append(rows, row)
        BY <2>2, InsertCases DEF Insertables
      <3>2. row \in Rows
        BY <3>1, PlannedRow
      <3>3. \A i \in DOMAIN rows' : rows'[i] = row \/ (i \in DOMAIN rows /\ rows'[i] = rows[i])
        <4> HIDE DEF row
        <4> QED
          BY <3>1, <3>2 DEF TypeOK
      <3> QED
        BY <3>1, <3>3 DEF RowsWritten
    <2> QED
      BY <2>1, <2>2 DEF TableNext, Flush, stored
  <1> QED
    BY <1>1, <1>2, TypeCorrect, PTL DEF TableSpec

(* The values of one column of two rows. *)
LEMMA ColumnOfOneType ==
    ASSUME ColumnsTyped, RowsWritten, NEW i \in DOMAIN rows, NEW j \in DOMAIN rows, NEW c,
           Field(rows[i], c) \notin {NullValue, Absent}, Field(rows[j], c) \notin {NullValue, Absent}
    PROVE  Field(rows[i], c).type = Field(rows[j], c).type
  <1> DEFINE k == ColumnIndex(c)
  <1>1. PICK insert \in Insertables : rows[i] = InsertToPlan(insert).values
    BY DEF RowsWritten
  <1>2. PICK other \in Insertables : rows[j] = InsertToPlan(other).values
    BY DEF RowsWritten
  <1>3. k \in DOMAIN rows[i] /\ k \in DOMAIN rows[j]
    BY DEF Field, At
  <1>4. Field(rows[i], c) = rows[i][k] /\ Field(rows[j], c) = rows[j][k]
    BY <1>3 DEF Field, At
  <1>5. OfOneType({rows[i][k], rows[j][k]})
    BY <1>1, <1>2, <1>3 DEF ColumnsTyped
  <1> QED
    BY <1>4, <1>5 DEF OfOneType

(* When a column has values of one type, the arrays made of a chunk have   *)
(* its values, but for columns whose first value is NULL.                  *)
THEOREM BatchesCorrect ==
    ASSUME ColumnsTyped
    PROVE  TableSpec => []BatchesMatch
  <1>1. TypeOK /\ CopiesExact /\ RowsWritten => BatchesMatch
    <2> SUFFICES ASSUME TypeOK, CopiesExact, RowsWritten,
                        NEW i \in DOMAIN chunks, NEW c \in DOMAIN Schema
                 PROVE  LET chunk == chunks[i]
                            array == RecordBatch(chunk)[c]
                            has(r) == Field(chunk[r], Schema[c]) \notin {NullValue, Absent}
                        IN  /\ DOMAIN array = DOMAIN chunk
                            /\ \A r \in DOMAIN chunk :
                                  IF has(r) THEN has(1) => array[r] = Field(chunk[r], Schema[c])
                                            ELSE array[r] = NullValue
      BY DEF BatchesMatch
    <2> DEFINE chunk == chunks[i]
               field(r) == Field(chunk[r], Schema[c])
               values == [r \in DOMAIN chunk |->
                            IF field(r) = Absent THEN NullValue ELSE field(r)]
               array == RecordBatch(chunk)[c]
    <2>1. chunk \in Seq(Rows) /\ DOMAIN chunk = 1..Len(chunk) /\ 1 \in DOMAIN chunk
      BY DEF TypeOK
    <2>2. ColumnIndex(Schema[c]) # 0
      <3>1. ColumnIndex(Schema[c]) \in DOMAIN Schema
        BY ColumnsHaveIndexes
      <3> QED
        BY <3>1, SchemaAssumption
    <2>3. Slices(<<chunk>>, Schema[c])[1] = values
      BY <2>2 DEF Slices
    <2>4. array = [r \in DOMAIN chunk |->
                     IF OfArrowType(values[r], values[1]) THEN values[r] ELSE NullValue]
      BY <2>3 DEF RecordBatch, ColumnToArrow
    <2>5. \A r \in DOMAIN chunk : \E k \in DOMAIN rows : chunk[r] = rows[k]
      <3>1. PICK row \in [Places -> DOMAIN rows] : \A p \in Places : Parts[p[1]][p[2]] = rows[row[p]]
        BY DEF CopiesExact, ChunksExact
      <3>2. ASSUME NEW r \in DOMAIN chunk PROVE \E k \in DOMAIN rows : chunk[r] = rows[k]
        <4>1. i \in DOMAIN Parts /\ Parts[i] = chunk
          BY DEF TypeOK, Parts
        <4>2. <<i, r>> \in Places
          BY <4>1 DEF Places
        <4>3. chunk[r] = rows[row[<<i, r>>]] /\ row[<<i, r>>] \in DOMAIN rows
          BY <3>1, <4>1, <4>2
        <4> QED
          BY <4>3
      <3> QED
        BY <3>2
    <2>6. ASSUME NEW r \in DOMAIN chunk, field(r) \notin {NullValue, Absent},
                 field(1) \notin {NullValue, Absent}
          PROVE  array[r] = field(r)
      <3>1. PICK k \in DOMAIN rows : chunk[r] = rows[k]
        BY <2>5
      <3>2. PICK l \in DOMAIN rows : chunk[1] = rows[l]
        BY <2>1, <2>5
      <3>3. field(r).type = field(1).type
        BY <2>6, <3>1, <3>2, ColumnOfOneType
      <3>4. field(1) \in Literals
        <4>1. chunk[1] \in Rows
          BY <2>1
        <4> QED
          BY <2>6, <4>1 DEF Field, At, Rows
      <3>5. field(1).type \in {"int", "float", "string"}
        BY <2>6, <3>4 DEF Literals
      <3> HIDE DEF field
      <3>6. values[r] = field(r) /\ values[1] = field(1)
        BY <2>1, <2>6
      <3> QED
        BY <2>4, <3>3, <3>5, <3>6 DEF OfArrowType, Comparable
    <2>7. ASSUME NEW r \in DOMAIN chunk, field(r) \in {NullValue, Absent} PROVE array[r] = NullValue
      <3> HIDE DEF field
      <3>1. values[r] = NullValue
        BY <2>7
      <3> QED
        BY <2>4, <3>1
    <2> QED
      BY <2>4, <2>6, <2>7
  <1> QED
    BY <1>1, TypeCorrect, CopiesCorrect, RowsAreWritten, PTL

-----------------------------------------------------------------------------
(* Lookups. *)

(* The elements of a set that come before one of them. *)
Below(S, R, x) == {y \in S : <<y, x>> \in R}

StrictOrder(S, R) ==
    /\ \A x, y \in S : x # y => <<x, y>> \in R \/ <<y, x>> \in R
    /\ \A x \in S : <<x, x>> \notin R
    /\ \A x, y, z \in S : <<x, y>> \in R /\ <<y, z>> \in R => <<x, z>> \in R

(* A list of a set in that order: what has k - 1 elements before it is the *)
(* k-th.                                                                   *)
ListsInOrder(s, S, R) ==
    /\ s \in SetToSeqs(S) /\ DOMAIN s = 1..Cardinality(S)
    /\ \A k \in DOMAIN s : s[k] \in S
    /\ \A i, j \in DOMAIN s : i < j => <<s[i], s[j]>> \in R
    /\ \A k \in DOMAIN s : \A x \in S : Cardinality(Below(S, R, x)) = k - 1 <=> x = s[k]

(* A finite set with a strict order can be listed in that order: the place *)
(* of an element is the number of those up to it.                          *)
LEMMA OrderedList ==
    ASSUME NEW S, IsFiniteSet(S), NEW R, StrictOrder(S, R)
    PROVE  \E s : ListsInOrder(s, S, R)
  <1> USE DEF StrictOrder
  <1> DEFINE n == Cardinality(S)
             upTo(x) == {y \in S : y = x \/ <<y, x>> \in R}
             rank == [x \in S |-> Cardinality(upTo(x))]
  <1>1. n \in Nat
    BY FS_CardinalityType
  <1>2. \A x \in S : IsFiniteSet(upTo(x)) /\ x \in upTo(x) /\ upTo(x) \in SUBSET S
    BY FS_Subset
  <1>3. ASSUME NEW x \in S PROVE rank[x] \in 1..n
    <2>1. rank[x] \in Nat /\ rank[x] <= n
      BY <1>2, FS_CardinalityType, FS_Subset
    <2>2. rank[x] # 0
      BY <1>2, FS_EmptySet
    <2> QED
      BY <1>1, <2>1, <2>2
  <1>4. ASSUME NEW x \in S, NEW y \in S, <<x, y>> \in R PROVE rank[x] < rank[y]
    <2>1. upTo(x) \in SUBSET upTo(y)
      BY <1>4
    <2>2. y \notin upTo(x)
      BY <1>4
    <2>3. y \in upTo(y)
      OBVIOUS
    <2>4. /\ Cardinality(upTo(x)) <= Cardinality(upTo(y))
          /\ Cardinality(upTo(x)) # Cardinality(upTo(y))
      BY <1>2, <2>1, <2>2, <2>3, FS_Subset
    <2>5. rank[x] = Cardinality(upTo(x)) /\ rank[y] = Cardinality(upTo(y))
      OBVIOUS
    <2>6. rank[x] \in 1..n /\ rank[y] \in 1..n
      BY <1>3
    <2> HIDE DEF rank, upTo, n
    <2> QED
      BY <1>1, <2>4, <2>5, <2>6
  <1> HIDE DEF rank, upTo
  <1>5. rank \in Injection(S, 1..n)
    <2>1. rank \in [S -> 1..n]
      BY <1>3 DEF rank
    <2>2. \A x, y \in S : rank[x] = rank[y] => x = y
      <3> SUFFICES ASSUME NEW x \in S, NEW y \in S, x # y PROVE rank[x] # rank[y]
        OBVIOUS
      <3>1. rank[x] \in 1..n /\ rank[y] \in 1..n
        BY <1>3
      <3>2. rank[x] < rank[y] \/ rank[y] < rank[x]
        BY <1>4
      <3> HIDE DEF n
      <3> QED
        BY <1>1, <3>1, <3>2
    <2> QED
      BY <2>1, <2>2 DEF Injection, IsInjective
  <1>6. rank \in Surjection(S, 1..n)
    <2>1. IsFiniteSet(1..n) /\ Cardinality(1..n) = n
      BY <1>1, FS_Interval
    <2> QED
      BY <1>5, <2>1, FS_Injection
  <1> DEFINE s == [k \in 1..n |-> CHOOSE x \in S : rank[x] = k]
  <1>7. ASSUME NEW k \in 1..n PROVE s[k] \in S /\ rank[s[k]] = k
    <2>1. \E x \in S : rank[x] = k
      BY <1>6 DEF Surjection
    <2> QED
      BY <2>1
  <1> HIDE DEF s
  <1>8. DOMAIN s = 1..n /\ s \in [1..n -> S]
    BY <1>7 DEF s
  <1>9. \A i, j \in 1..n : i # j => s[i] # s[j]
    BY <1>7
  <1>10. s \in SetToSeqs(S)
    BY <1>8, <1>9 DEF SetToSeqs
  <1>11. ASSUME NEW i \in 1..n, NEW j \in 1..n, i < j PROVE <<s[i], s[j]>> \in R
    <2>1. s[i] # s[j] /\ s[i] \in S /\ s[j] \in S /\ rank[s[i]] = i /\ rank[s[j]] = j
      BY <1>7, <1>9, <1>11
    <2>2. <<s[j], s[i]>> \in R => j < i
      BY <1>4, <2>1
    <2> QED
      BY <1>1, <1>11, <2>1, <2>2
  <1>12. ASSUME NEW k \in 1..n, NEW x \in S
         PROVE  Cardinality(Below(S, R, x)) = k - 1 <=> x = s[k]
    <2> DEFINE below == Below(S, R, x)
    <2>1. IsFiniteSet(below) /\ x \notin below /\ upTo(x) = below \cup {x}
      <3>1. x \notin below /\ upTo(x) = below \cup {x} /\ below \subseteq S
        BY DEF upTo, Below
      <3>2. IsFiniteSet(below)
        <4> HIDE DEF below
        <4> QED
          BY <3>1, FS_Subset
      <3> QED
        BY <3>1, <3>2
    <2>2. Cardinality(below) \in Nat /\ Cardinality(upTo(x)) = Cardinality(below) + 1
      <3> HIDE DEF below
      <3> QED
        BY <2>1, FS_AddElement, FS_CardinalityType
    <2>3. rank[x] = Cardinality(below) + 1
      BY <2>2 DEF rank
    <2>4. rank[x] = k <=> x = s[k]
      BY <1>5, <1>7 DEF Injection, IsInjective
    <2> HIDE DEF below, n
    <2>5. Cardinality(below) = k - 1 <=> rank[x] = k
      BY <1>1, <2>2, <2>3
    <2> QED
      BY <2>4, <2>5 DEF below
  <1> QED
    BY <1>7, <1>8, <1>10, <1>11, <1>12 DEF ListsInOrder

(* A list of all elements of a finite set leaves none out. *)
LEMMA ListsAll ==
    ASSUME NEW S, IsFiniteSet(S), NEW s \in SetToSeqs(S)
    PROVE  /\ DOMAIN s = 1..Cardinality(S) /\ Cardinality(S) \in Nat
           /\ \A k \in DOMAIN s : s[k] \in S
           /\ \A x \in S : \E k \in DOMAIN s : s[k] = x
           /\ \A k, l \in DOMAIN s : s[k] = s[l] => k = l
  <1> DEFINE n == Cardinality(S)
  <1>1. n \in Nat /\ IsFiniteSet(1..n) /\ Cardinality(1..n) = n
    BY FS_CardinalityType, FS_Interval
  <1>2. s \in [1..n -> S] /\ \A k, l \in 1..n : s[k] = s[l] => k = l
    BY DEF SetToSeqs
  <1>3. s \in Injection(1..n, S)
    BY <1>2 DEF Injection, IsInjective
  <1>4. s \in Surjection(1..n, S)
    BY <1>1, <1>3, FS_Injection
  <1> QED
    BY <1>1, <1>2, <1>4 DEF Surjection

(* Keys of one type are in the order of their numbers. *)
LEMMA KeysInOrder ==
    ASSUME NEW v \in Literals \ {NullValue}, NEW w \in Literals \ {NullValue}, v.type = w.type
    PROVE  /\ KeyAtMost(KeyOf(v), KeyOf(w)) <=> v.n <= w.n
           /\ KeyOf(v) = KeyOf(w) <=> v.n = w.n
           /\ v = w <=> v.n = w.n
           /\ v.n \in Nat /\ w.n \in Nat /\ v # Absent
           /\ Comparable(v, w)
  <1>1. v \in [type : {"int", "float", "string"}, n : Nat] /\ w \in [type : {"int", "float", "string"}, n : Nat]
    BY DEF Literals
  <1>2. v = [type |-> v.type, n |-> v.n] /\ w = [type |-> w.type, n |-> w.n]
    BY <1>1
  <1>3. v = w <=> v.n = w.n
    BY <1>2
  <1>4. v # Absent /\ Comparable(v, w) /\ v.n \in Nat /\ w.n \in Nat
    BY <1>1 DEF Absent, Comparable
  <1>5. CASE v.type = "int"
    BY <1>1, <1>3, <1>4, <1>5 DEF KeyOf, KeyAtMost
  <1>6. CASE v.type = "float"
    BY <1>1, <1>3, <1>4, <1>6 DEF KeyOf, KeyAtMost
  <1>7. CASE v.type = "string"
    BY <1>1, <1>3, <1>4, <1>7 DEF KeyOf, KeyAtMost
  <1> QED
    BY <1>1, <1>5, <1>6, <1>7

(* When ids and ends are of one type, a lookup lists exactly the rows with *)
(* ids in the range, and these are the rows that compare so.               *)
LEMMA LookUpFinds ==
    ASSUME TypeOK, CopiesExact, indexed,
           NEW low \in Literals \ {NullValue}, NEW high \in Literals \ {NullValue},
           low.type = high.type, low.n <= high.n,
           \A i \in DOMAIN rows : IdOf(i) \in {NullValue, Absent} \/ IdOf(i).type = low.type
    PROVE  LET answer == LookUp(low, high).rows
               found  == {i \in DOMAIN rows : Holds(IdOf(i), ">=", low) /\ Holds(IdOf(i), "<=", high)}
           IN  /\ LookUp(low, high) = Result(answer)
               /\ ListsById(answer, found)
               /\ low = high => found = {i \in DOMAIN rows : Holds(IdOf(i), "=", low)}
  <1> DEFINE has == {i \in DOMAIN rows : IdOf(i) \notin {NullValue, Absent}}
             chosen == {i \in has : low.n <= IdOf(i).n /\ IdOf(i).n <= high.n}
             found == {e \in index : InRange(e[1], KeyOf(low), KeyOf(high))}
  <1>1. low \in Literals \ {NullValue} /\ high \in Literals \ {NullValue}
    OBVIOUS
  <1>2. low.type = high.type /\ low # Absent /\ high # Absent
    BY KeysInOrder
  <1>3. DOMAIN rows = 1..Len(rows) /\ Len(rows) \in Nat
    BY IdsOfRows
  <1>4. \A i \in has : IdOf(i) \in Literals \ {NullValue} /\ IdOf(i).type = low.type
    BY IdsOfRows
  <1>5. index = {<<KeyOf(IdOf(i)), i>> : i \in has}
    BY DEF CopiesExact, IndexExact
  <1>6. found = {<<KeyOf(IdOf(i)), i>> : i \in chosen}
    <2>1. ASSUME NEW i \in has
          PROVE  InRange(KeyOf(IdOf(i)), KeyOf(low), KeyOf(high))
                   <=> low.n <= IdOf(i).n /\ IdOf(i).n <= high.n
      BY <1>1, <1>2, <1>4, KeysInOrder DEF InRange
    <2> HIDE DEF has
    <2> QED
      BY <1>5, <2>1
  <1> HIDE DEF has, found
  <1>7. \A e \in found : e[2] \in chosen /\ e = <<KeyOf(IdOf(e[2])), e[2]>>
    BY <1>6
  <1>8. IsFiniteSet(found)
    <2> DEFINE position == [e \in found |-> e[2]]
    <2>1. position \in Injection(found, 1..Len(rows))
      <3>1. \A e \in found : e[2] \in 1..Len(rows)
        BY <1>3, <1>7 DEF has
      <3>2. \A d, e \in found : d[2] = e[2] => d = e
        BY <1>7
      <3> QED
        BY <3>1, <3>2 DEF Injection, IsInjective
    <2>2. IsFiniteSet(1..Len(rows))
      BY <1>3, FS_Interval
    <2> HIDE DEF position
    <2> QED
      BY <2>1, <2>2, FS_Injection
  <1>9. ASSUME NEW i \in chosen, NEW j \in chosen
        PROVE  EntryBefore(<<KeyOf(IdOf(i)), i>>, <<KeyOf(IdOf(j)), j>>)
                 <=> IdOf(i).n < IdOf(j).n \/ (IdOf(i).n = IdOf(j).n /\ i < j)
    <2>1. IdOf(i) \in Literals \ {NullValue} /\ IdOf(j) \in Literals \ {NullValue}
          /\ IdOf(i).type = IdOf(j).type
      BY <1>4
    <2>2. /\ KeyAtMost(KeyOf(IdOf(i)), KeyOf(IdOf(j))) <=> IdOf(i).n <= IdOf(j).n
          /\ KeyOf(IdOf(i)) = KeyOf(IdOf(j)) <=> IdOf(i).n = IdOf(j).n
          /\ IdOf(i).n \in Nat /\ IdOf(j).n \in Nat
      BY <2>1, KeysInOrder
    <2> QED
      BY <2>2 DEF EntryBefore
  <1>10. \A i \in chosen : IdOf(i).n \in Nat /\ i \in Nat /\ i \in DOMAIN rows
    BY <1>3, <1>4, KeysInOrder DEF has
  <1> DEFINE order == InKeyOrder(found)
  <1>11. /\ order \in SetToSeqs(found)
         /\ \A k, l \in DOMAIN order : k < l => EntryBefore(order[k], order[l])
    <2> DEFINE R == {p \in found \X found : EntryBefore(p[1], p[2])}
               num(e) == IdOf(e[2]).n
    <2>1. \A d, e \in found : <<d, e>> \in R <=> EntryBefore(d, e)
      OBVIOUS
    <2>2. \A d, e \in found : /\ <<d, e>> \in R <=> num(d) < num(e) \/ (num(d) = num(e) /\ d[2] < e[2])
                              /\ d[2] = e[2] => d = e
                              /\ num(d) \in Nat /\ d[2] \in Nat /\ num(e) \in Nat /\ e[2] \in Nat
      <3> SUFFICES ASSUME NEW d \in found, NEW e \in found
                   PROVE  /\ <<d, e>> \in R <=> num(d) < num(e) \/ (num(d) = num(e) /\ d[2] < e[2])
                          /\ d[2] = e[2] => d = e
                          /\ num(d) \in Nat /\ d[2] \in Nat /\ num(e) \in Nat /\ e[2] \in Nat
        OBVIOUS
      <3>1. d[2] \in chosen /\ e[2] \in chosen /\ d = <<KeyOf(IdOf(d[2])), d[2]>>
            /\ e = <<KeyOf(IdOf(e[2])), e[2]>>
        BY <1>7
      <3>2. EntryBefore(d, e) <=> num(d) < num(e) \/ (num(d) = num(e) /\ d[2] < e[2])
        BY <1>9, <3>1
      <3>3. num(d) \in Nat /\ d[2] \in Nat /\ num(e) \in Nat /\ e[2] \in Nat
        BY <1>10, <3>1
      <3> HIDE DEF num, R
      <3> QED
        BY <2>1, <3>1, <3>2, <3>3
    <2> HIDE DEF R, num
    <2>3. \A x, y \in found : x # y => <<x, y>> \in R \/ <<y, x>> \in R
      BY <2>2
    <2>4. \A x \in found : <<x, x>> \notin R
      BY <2>2
    <2>5. \A x, y, z \in found : <<x, y>> \in R /\ <<y, z>> \in R => <<x, z>> \in R
      BY <2>2
    <2>6. StrictOrder(found, R)
      BY <2>3, <2>4, <2>5 DEF StrictOrder
    <2>7. PICK s : ListsInOrder(s, found, R)
      BY <1>8, <2>6, OrderedList
    <2> USE <2>7 DEF ListsInOrder
    <2>8. \A i, j \in DOMAIN s : i < j => EntryBefore(s[i], s[j])
      BY <2>1
    <2>9. \A x \in found : {y \in found : EntryBefore(y, x)} = Below(found, R, x)
      BY <2>1 DEF Below
    <2>10. \A k \in 1..Cardinality(found) :
              s[k] = CHOOSE x \in found : Cardinality({y \in found : EntryBefore(y, x)}) = k - 1
      BY <2>9
    <2>11. s = [k \in 1..Cardinality(found) |-> s[k]]
      BY DEF SetToSeqs
    <2>12. InKeyOrder(found) = s
      BY <2>10, <2>11 DEF InKeyOrder, Listed
    <2> QED
      BY <2>8, <2>12
  <1>12. /\ \A k \in DOMAIN order : order[k] \in found
         /\ \A x \in found : \E k \in DOMAIN order : order[k] = x
         /\ \A k, l \in DOMAIN order : order[k] = order[l] => k = l
         /\ DOMAIN order \subseteq Nat
    BY <1>8, <1>11, ListsAll
  <1>13. LookUp(low, high) = Result([k \in DOMAIN order |-> rows[order[k][2]]])
    <2>1. KeyAtMost(KeyOf(low), KeyOf(high))
      BY <1>1, <1>2, KeysInOrder
    <2>2. NullValue \notin {low, high}
      OBVIOUS
    <2> QED
      BY <2>1, <2>2 DEF LookUp, found
  <1> HIDE DEF order
  <1> DEFINE answer == [k \in DOMAIN order |-> rows[order[k][2]]]
             at == [k \in DOMAIN order |-> order[k][2]]
  <1>14. LookUp(low, high).rows = answer
    BY <1>13 DEF Result
  <1>15. \A k \in DOMAIN order : at[k] \in chosen /\ order[k] = <<KeyOf(IdOf(at[k])), at[k]>>
    BY <1>7, <1>12
  <1>16. at \in [DOMAIN order -> DOMAIN rows]
    BY <1>10, <1>15
  <1>17. {at[k] : k \in DOMAIN order} = chosen
    <2>1. ASSUME NEW i \in chosen PROVE \E k \in DOMAIN order : at[k] = i
      <3>1. <<KeyOf(IdOf(i)), i>> \in found
        BY <1>6
      <3>2. PICK k \in DOMAIN order : order[k] = <<KeyOf(IdOf(i)), i>>
        BY <1>12, <3>1
      <3> QED
        BY <3>2
    <2> HIDE DEF at, chosen
    <2> QED
      BY <1>15, <2>1
  <1>18. ASSUME NEW k \in DOMAIN order, NEW l \in DOMAIN order, k < l
         PROVE  at[k] # at[l] /\ ~ Before(IdOf(at[l]), IdOf(at[k]))
    <2>1. at[k] \in chosen /\ at[l] \in chosen
      BY <1>15
    <2>2. IdOf(at[k]).n <= IdOf(at[l]).n
      <3>1. EntryBefore(<<KeyOf(IdOf(at[k])), at[k]>>, <<KeyOf(IdOf(at[l])), at[l]>>)
        BY <1>11, <1>15, <1>18
      <3>2. IdOf(at[k]).n \in Nat /\ IdOf(at[l]).n \in Nat
        BY <1>10, <2>1
      <3> HIDE DEF at, chosen
      <3> QED
        BY <1>9, <2>1, <3>1, <3>2
    <2>3. at[k] # at[l]
      <3>1. order[k] # order[l]
        BY <1>12, <1>18
      <3> QED
        BY <1>15, <3>1
    <2>4. IdOf(at[l]) # Absent /\ IdOf(at[k]).n \in Nat /\ IdOf(at[l]).n \in Nat
      BY <1>10, <2>1 DEF has
    <2> HIDE DEF at
    <2> QED
      BY <2>2, <2>3, <2>4 DEF Before
  <1>19. chosen = {i \in DOMAIN rows : Holds(IdOf(i), ">=", low) /\ Holds(IdOf(i), "<=", high)}
    <2> SUFFICES ASSUME NEW i \in DOMAIN rows
                 PROVE  i \in chosen <=> Holds(IdOf(i), ">=", low) /\ Holds(IdOf(i), "<=", high)
      BY DEF has
    <2>1. CASE i \in has
      <3>1. /\ Comparable(IdOf(i), low) /\ Comparable(IdOf(i), high) /\ IdOf(i) # Absent
            /\ IdOf(i).n \in Nat /\ low.n \in Nat /\ high.n \in Nat
        BY <1>1, <1>2, <1>4, <2>1, KeysInOrder
      <3>2. Holds(IdOf(i), ">=", low) <=> low.n <= IdOf(i).n
        BY <3>1 DEF Holds, Relates
      <3>3. Holds(IdOf(i), "<=", high) <=> IdOf(i).n <= high.n
        BY <3>1 DEF Holds, Relates
      <3> QED
        BY <2>1, <3>2, <3>3
    <2>2. CASE i \notin has
      <3>1. IdOf(i) \in {NullValue, Absent}
        BY <2>2 DEF has
      <3>2. ~ Holds(IdOf(i), ">=", low)
        BY <3>1 DEF Holds, Comparable, NullValue, Absent
      <3> QED
        BY <2>2, <3>2
    <2> QED
      BY <2>1, <2>2
  <1>20. ASSUME low = high PROVE chosen = {i \in DOMAIN rows : Holds(IdOf(i), "=", low)}
    <2> SUFFICES ASSUME NEW i \in DOMAIN rows PROVE i \in chosen <=> Holds(IdOf(i), "=", low)
      BY DEF has
    <2>1. Holds(IdOf(i), "=", low) <=> IdOf(i) = low
      BY <1>2 DEF Holds
    <2>2. CASE i \in has
      <3>1. /\ IdOf(i) = low <=> IdOf(i).n = low.n
            /\ IdOf(i).n \in Nat /\ low.n \in Nat
        BY <1>1, <1>4, <2>2, KeysInOrder
      <3> QED
        BY <1>20, <2>1, <2>2, <3>1
    <2>3. CASE i \notin has
      BY <1>1, <1>2, <2>1, <2>3 DEF has
    <2> QED
      BY <2>2, <2>3
  <1> HIDE DEF chosen, at
  <1>21. \A k \in DOMAIN answer : answer[k] = rows[at[k]]
    BY DEF at
  <1>22. DOMAIN answer = DOMAIN order
    OBVIOUS
  <1> HIDE DEF answer
  <1>23. LookUp(low, high) = Result(answer)
    BY <1>13 DEF answer
  <1>24. ListsById(answer, chosen)
    <2> DEFINE m == Cardinality(found)
    <2>1. m \in Nat /\ DOMAIN order = 1..m /\ DOMAIN at = 1..m
      BY <1>8, <1>11, ListsAll DEF at
    <2>2. at \in [1..m -> chosen] /\ \A k, l \in 1..m : k # l => at[k] # at[l]
      <3>1. \A k, l \in 1..m : k < l => at[k] # at[l]
        BY <1>18, <2>1
      <3>2. \A k \in 1..m : at[k] \in chosen
        BY <1>15, <2>1
      <3>3. \A k, l \in 1..m : k # l => k < l \/ l < k
        BY <2>1
      <3> HIDE DEF m
      <3> QED
        BY <1>16, <2>1, <3>1, <3>2, <3>3
    <2>3. Cardinality(chosen) = m
      <3>1. at \in Bijection(1..m, chosen)
        <4>1. at \in Injection(1..m, chosen)
          BY <2>2 DEF Injection, IsInjective
        <4>2. at \in Surjection(1..m, chosen)
          BY <1>17, <2>1, <2>2 DEF Surjection
        <4> QED
          BY <4>1, <4>2 DEF Bijection
      <3>2. ExistsBijection(1..m, chosen)
        BY <3>1 DEF ExistsBijection
      <3> HIDE DEF m
      <3> QED
        BY <2>1, <3>2, FS_CountingElements
    <2>4. at \in SetToSeqs(chosen)
      BY <2>2, <2>3 DEF SetToSeqs
    <2>5. \A k, l \in DOMAIN at : k < l => ~ Before(IdOf(at[l]), IdOf(at[k]))
      BY <1>18, <2>1
    <2>6. answer = [k \in DOMAIN at |-> rows[at[k]]]
      BY <1>21, <1>22, <2>1 DEF answer
    <2> QED
      BY <2>4, <2>5, <2>6 DEF ListsById
  <1> QED
    BY <1>14, <1>19, <1>20, <1>23, <1>24

-----------------------------------------------------------------------------
(* WHERE. *)

(* A set of numbers that is not empty has a smallest one. *)
LEMMA Smallest ==
    ASSUME NEW S \in SUBSET Nat, S # {}
    PROVE  \E k \in S : \A m \in S : k <= m
  <1> DEFINE R == OpToRel(<, Nat)
  <1>1. IsWellFoundedOn(R, Nat)
    BY NatLessThanWellFounded
  <1>2. PICK k \in S : \A m \in S : ~ (<<m, k>> \in R)
    <2> HIDE DEF R
    <2> QED
      BY <1>1, WFMin
  <1>3. ASSUME NEW m \in S PROVE k <= m
    <2>1. ~ (m < k)
      BY <1>2 DEF OpToRel
    <2> QED
      BY <2>1
  <1> QED
    BY <1>3

(* What an expression is made of. *)
LEMMA ConditionShape ==
    ASSUME NEW e \in Clauses
    PROVE  /\ e \in Conditions /\ e.node \in {"bool", "cmp", "and", "or"}
           /\ e.node = "cmp" => e.op \in Ops /\ e.left \in Exprs /\ e.right \in Exprs
           /\ e.node \in {"and", "or"} =>
                 /\ e.left \in Clauses /\ e.right \in Clauses
                 /\ Depth[e.left] < Depth[e] /\ Depth[e.right] < Depth[e]
           /\ Depth[e] \in 0..MaxDepth
  <1>1. e \in Conditions /\ e # NoWhere
    BY DEF Clauses
  <1>2. \/ e \in [node : {"bool"}, is : BOOLEAN]
        \/ e \in [node : {"cmp"}, op : Ops, left : Exprs, right : Exprs]
        \/ e \in [node : {"and", "or"}, left : Clauses, right : Clauses]
    BY <1>1, ConditionsAssumption
  <1> QED
    BY <1>1, <1>2, DepthAssumption

(* The recursion of expr_to_filter comes to an end. If it did not, there   *)
(* would be a least depth from which on there are no filters.              *)
LEMMA FiltersExist == \A e \in Conditions : ExprToFilter[e] = FilterOf(e, ExprToFilter)
  <1> DEFINE is(f) == f = [e \in Conditions |-> FilterOf(e, f)]
             Settled(k, f) == /\ f = [e \in Conditions |-> f[e]]
                              /\ \A e \in Conditions : Depth[e] < k => f[e] = FilterOf(e, f)
             Missing == {k \in 0..MaxDepth + 1 : ~ \E f : Settled(k, f)}
  <1>1. ASSUME NEW e \in Conditions, NEW f, NEW g,
               \A d \in Conditions : Depth[d] < Depth[e] => f[d] = g[d]
        PROVE  FilterOf(e, f) = FilterOf(e, g)
    <2>1. CASE e = NoWhere
      BY <2>1 DEF FilterOf, NoWhere
    <2>2. CASE e # NoWhere
      <3>1. e \in Clauses
        BY <2>2 DEF Clauses
      <3>2. e.node \in {"and", "or"} => f[e.left] = g[e.left] /\ f[e.right] = g[e.right]
        BY <1>1, <3>1, ConditionShape
      <3>3. e.node \in {"bool", "cmp", "and", "or"}
        BY <3>1, ConditionShape
      <3> QED
        BY <3>2, <3>3 DEF FilterOf
    <2> QED
      BY <2>1, <2>2
  <1>2. Missing = {}
    <2> SUFFICES ASSUME Missing # {} PROVE FALSE
      OBVIOUS
    <2>1. PICK k \in Missing : \A m \in Missing : k <= m
      <3>1. Missing \subseteq Nat
        BY DepthAssumption
      <3> HIDE DEF Missing
      <3> QED
        BY <3>1, Smallest
    <2>2. k \in 0..MaxDepth + 1 /\ k \in Nat
      BY DepthAssumption
    <2>3. k # 0
      <3>1. Settled(0, [e \in Conditions |-> e])
        BY DepthAssumption
      <3> QED
        BY <3>1
    <2>4. k - 1 \in 0..MaxDepth + 1 /\ k - 1 \notin Missing
      BY <2>1, <2>2, <2>3, DepthAssumption
    <2>5. PICK f : Settled(k - 1, f)
      BY <2>4
    <2> DEFINE g == [e \in Conditions |-> FilterOf(e, f)]
    <2>6. \A d \in Conditions : Depth[d] < k - 1 => f[d] = g[d]
      BY <2>5
    <2>7. ASSUME NEW e \in Conditions, Depth[e] < k PROVE g[e] = FilterOf(e, g)
      <3>1. \A d \in Conditions : Depth[d] < Depth[e] => f[d] = g[d]
        <4>1. \A d \in Conditions : Depth[d] < Depth[e] => Depth[d] < k - 1
          BY <2>2, <2>7, DepthAssumption
        <4> QED
          BY <2>6, <4>1
      <3>2. FilterOf(e, f) = FilterOf(e, g)
        <4> HIDE DEF g
        <4> QED
          BY <1>1, <3>1
      <3> QED
        BY <3>2
    <2>8. Settled(k, g)
      <3>1. g = [e \in Conditions |-> g[e]]
        OBVIOUS
      <3> HIDE DEF g
      <3> QED
        BY <2>7, <3>1
    <2> QED
      BY <2>1, <2>8
  <1>3. MaxDepth + 1 \in 0..MaxDepth + 1
    BY DepthAssumption
  <1>4. PICK f : Settled(MaxDepth + 1, f)
    BY <1>2, <1>3
  <1>5. is(f)
    <2>1. \A e \in Conditions : Depth[e] < MaxDepth + 1
      BY DepthAssumption
    <2> QED
      BY <1>4, <2>1
  <1>6. ExprToFilter = CHOOSE h : is(h)
    BY DEF ExprToFilter
  <1>7. is(ExprToFilter)
    <2> HIDE DEF is
    <2> QED
      BY <1>5, <1>6
  <1> QED
    BY <1>7

(* What an expression becomes, if the planner takes it.                    *)
LEMMA FilterShape ==
    ASSUME NEW e \in Clauses, ExprToFilter[e] # Refused
    PROVE  LET p == ExprToFilter[e]
           IN  /\ p.node = e.node /\ p \in Predicates
               /\ e.node = "bool" => p = e
               /\ e.node = "cmp"  => p = CompareToFilter(e)
               /\ e.node \in {"and", "or"} =>
                     /\ p.left = ExprToFilter[e.left] /\ p.right = ExprToFilter[e.right]
                     /\ p.left # Refused /\ p.right # Refused
  <1> DEFINE p == ExprToFilter[e]
  <1>1. e \in Conditions /\ e.node \in {"bool", "cmp", "and", "or"}
    BY ConditionShape
  <1>2. p = FilterOf(e, ExprToFilter)
    BY <1>1, FiltersExist
  <1>3. e.node = "bool" => p = e
    BY <1>2 DEF FilterOf
  <1>4. e.node = "cmp" => p = CompareToFilter(e)
    BY <1>2 DEF FilterOf
  <1>5. e.node \in {"and", "or"} =>
            /\ p.node = e.node
            /\ p.left = ExprToFilter[e.left] /\ p.right = ExprToFilter[e.right]
            /\ p.left # Refused /\ p.right # Refused
    BY <1>2 DEF FilterOf
  <1>6. e.node = "cmp" => p.node = "cmp"
    BY <1>4 DEF CompareToFilter, Cmp
  <1>7. p.node = e.node
    BY <1>1, <1>3, <1>5, <1>6
  <1>8. p # NoWhere
    BY <1>1, <1>7 DEF NoWhere
  <1>9. p \in Predicates
    BY <1>1, <1>8 DEF Predicates
  <1> QED
    BY <1>3, <1>4, <1>5, <1>7, <1>9

(* Truth of things that are made of simpler things, as far as it depends   *)
(* on the truth of the simpler ones.                                       *)
DependsOnSimpler(S, rank, Truth) ==
    \A x \in S : \A f, g \in [S -> BOOLEAN] :
        (\A y \in S : rank[y] < rank[x] => f[y] = g[y]) => Truth[x][f] = Truth[x][g]

LEMMA TruthExists ==
    ASSUME NEW S, NEW rank \in [S -> 0..MaxDepth],
           NEW Truth \in [S -> [[S -> BOOLEAN] -> BOOLEAN]],
           DependsOnSimpler(S, rank, Truth)
    PROVE  \E f \in [S -> BOOLEAN] : \A x \in S : f[x] = Truth[x][f]
  <1> DEFINE Settled(k, f) == \A x \in S : rank[x] < k => f[x] = Truth[x][f]
             Missing == {k \in 0..MaxDepth + 1 : ~ \E f \in [S -> BOOLEAN] : Settled(k, f)}
  <1>1. ASSUME MaxDepth + 1 \notin Missing
        PROVE  \E f \in [S -> BOOLEAN] : \A x \in S : f[x] = Truth[x][f]
    <2>1. \A x \in S : rank[x] < MaxDepth + 1
      BY DepthAssumption
    <2> QED
      BY <1>1, <2>1, DepthAssumption
  <1> SUFFICES ASSUME Missing # {} PROVE FALSE
    BY <1>1
  <1>2. PICK k \in Missing : \A m \in Missing : k <= m
    <2>1. Missing \subseteq Nat
      BY DepthAssumption
    <2> HIDE DEF Missing
    <2> QED
      BY <2>1, Smallest
  <1>3. k \in 0..MaxDepth + 1 /\ k \in Nat
    BY DepthAssumption
  <1>4. k # 0
    <2>1. \A x \in S : ~ (rank[x] < 0)
      BY DepthAssumption
    <2>2. [x \in S |-> TRUE] \in [S -> BOOLEAN]
      OBVIOUS
    <2>3. Settled(0, [x \in S |-> TRUE])
      BY <2>1
    <2> QED
      BY <2>2, <2>3
  <1>5. k - 1 \in 0..MaxDepth + 1 /\ k - 1 \notin Missing
    BY <1>2, <1>3, <1>4, DepthAssumption
  <1>6. PICK f \in [S -> BOOLEAN] : Settled(k - 1, f)
    BY <1>5
  <1> DEFINE g == [x \in S |-> Truth[x][f]]
  <1>7. g \in [S -> BOOLEAN]
    OBVIOUS
  <1>8. \A y \in S : rank[y] < k - 1 => g[y] = f[y]
    BY <1>6, DepthAssumption
  <1>9. ASSUME NEW x \in S, rank[x] < k PROVE g[x] = Truth[x][g]
    <2>1. \A y \in S : rank[y] < rank[x] => f[y] = g[y]
      <3>1. \A y \in S : rank[y] < rank[x] => rank[y] < k - 1
        BY <1>3, <1>9, DepthAssumption
      <3> QED
        BY <1>8, <3>1
    <2>2. Truth[x][f] = Truth[x][g]
      <3> HIDE DEF g
      <3> QED
        BY <1>7, <2>1 DEF DependsOnSimpler
    <2> QED
      BY <2>2
  <1>10. Settled(k, g)
    <2> HIDE DEF g
    <2> QED
      BY <1>9
  <1> QED
    BY <1>2, <1>7, <1>10

(* The depth of the simplest expressions that become a predicate.          *)
DepthsOf(p) == {Depth[e] : e \in {f \in Clauses : ExprToFilter[f] = p}}
Rank == [p \in Predicates |-> CHOOSE k \in DepthsOf(p) : \A m \in DepthsOf(p) : k <= m]

LEMMA RankIsLeast ==
    ASSUME NEW p \in Predicates
    PROVE  /\ \E e \in Clauses : ExprToFilter[e] = p /\ Depth[e] = Rank[p]
           /\ \A e \in Clauses : ExprToFilter[e] = p => Rank[p] <= Depth[e]
           /\ Rank[p] \in 0..MaxDepth
  <1>1. PICK e \in Clauses : ExprToFilter[e] = p
    <2>1. PICK e \in Conditions : ExprToFilter[e] = p
      BY DEF Predicates
    <2>2. e # NoWhere
      <3> SUFFICES ASSUME e = NoWhere PROVE FALSE
        OBVIOUS
      <3>1. ExprToFilter[e] = NoWhere
        BY <2>1, FiltersExist DEF FilterOf, NoWhere
      <3> QED
        BY <2>1, <3>1 DEF Predicates
    <2> QED
      BY <2>1, <2>2 DEF Clauses
  <1>2. DepthsOf(p) \subseteq 0..MaxDepth /\ DepthsOf(p) # {}
    <2>1. \A d \in Clauses : Depth[d] \in 0..MaxDepth
      BY ConditionShape
    <2> QED
      BY <1>1, <2>1 DEF DepthsOf
  <1>3. \E k \in DepthsOf(p) : \A m \in DepthsOf(p) : k <= m
    <2>1. DepthsOf(p) \in SUBSET Nat
      BY <1>2, DepthAssumption
    <2> QED
      BY <1>2, <2>1, Smallest
  <1>4. Rank[p] \in DepthsOf(p) /\ \A m \in DepthsOf(p) : Rank[p] <= m
    BY <1>3 DEF Rank
  <1>5. PICK d \in Clauses : ExprToFilter[d] = p /\ Depth[d] = Rank[p]
    BY <1>4 DEF DepthsOf
  <1>6. \A f \in Clauses : ExprToFilter[f] = p => Depth[f] \in DepthsOf(p)
    BY DEF DepthsOf
  <1> QED
    BY <1>2, <1>4, <1>5, <1>6

(* What a predicate is made of.                                            *)
LEMMA PredicateShape ==
    ASSUME NEW p \in Predicates
    PROVE  /\ p.node \in {"bool", "cmp", "and", "or"}
           /\ p.node \in {"and", "or"} =>
                 /\ p.left \in Predicates /\ p.right \in Predicates
                 /\ Rank[p.left] < Rank[p] /\ Rank[p.right] < Rank[p]
  <1>1. PICK e \in Clauses : ExprToFilter[e] = p /\ Depth[e] = Rank[p]
    BY RankIsLeast
  <1>2. p # Refused /\ p.node = e.node /\ e.node \in {"bool", "cmp", "and", "or"}
    BY <1>1, FilterShape, ConditionShape DEF Predicates
  <1>3. ASSUME p.node \in {"and", "or"}
        PROVE  /\ p.left \in Predicates /\ p.right \in Predicates
               /\ Rank[p.left] < Rank[p] /\ Rank[p.right] < Rank[p]
    <2>1. /\ e.left \in Clauses /\ e.right \in Clauses
          /\ Depth[e.left] < Depth[e] /\ Depth[e.right] < Depth[e]
      BY <1>2, <1>3, ConditionShape
    <2>2. /\ p.left = ExprToFilter[e.left] /\ p.right = ExprToFilter[e.right]
          /\ p.left # Refused /\ p.right # Refused
      BY <1>1, <1>2, <1>3, FilterShape
    <2>3. p.left \in Predicates /\ p.right \in Predicates
      BY <2>1, <2>2, FilterShape
    <2>4. Rank[p.left] <= Depth[e.left] /\ Rank[p.right] <= Depth[e.right]
      BY <2>1, <2>2, <2>3, RankIsLeast
    <2>5. /\ Rank[p.left] \in 0..MaxDepth /\ Rank[p.right] \in 0..MaxDepth
          /\ Depth[e] \in 0..MaxDepth
          /\ Depth[e.left] \in 0..MaxDepth /\ Depth[e.right] \in 0..MaxDepth
      BY <2>1, <2>3, RankIsLeast, ConditionShape
    <2> QED
      BY <1>1, <2>1, <2>3, <2>4, <2>5, DepthAssumption
  <1> QED
    BY <1>2, <1>3

(* A row is filtered by the parts of a predicate, and satisfies a WHERE by *)
(* its parts.                                                              *)
LEMMA EvalUnfolds ==
    ASSUME NEW row, NEW p \in Predicates
    PROVE  /\ EvalPredicate(row, p) \in BOOLEAN
           /\ p.node = "bool" => (EvalPredicate(row, p) <=> p.is)
           /\ p.node = "cmp" => (EvalPredicate(row, p) <=> Holds(Field(row, p.col), p.op, p.value))
           /\ p.node = "and" =>
                 (EvalPredicate(row, p) <=> EvalPredicate(row, p.left) /\ EvalPredicate(row, p.right))
           /\ p.node = "or" =>
                 (EvalPredicate(row, p) <=> EvalPredicate(row, p.left) \/ EvalPredicate(row, p.right))
  <1> DEFINE Valuations == [Predicates -> BOOLEAN]
             Truth == [q \in Predicates |-> [f \in Valuations |-> PredicateHolds(row, q, f)]]
             is(f) == f = [q \in Predicates |-> PredicateHolds(row, q, f)]
             holds == CHOOSE f : is(f)
  <1>1. Rank \in [Predicates -> 0..MaxDepth]
    <2>1. \A q \in Predicates : Rank[q] \in 0..MaxDepth
      BY RankIsLeast
    <2>2. Rank = [q \in Predicates |-> Rank[q]]
      BY DEF Rank
    <2> QED
      BY <2>1, <2>2
  <1>2. Truth \in [Predicates -> [Valuations -> BOOLEAN]]
    <2>1. \A q, f : PredicateHolds(row, q, f) \in BOOLEAN
      BY DEF PredicateHolds
    <2> QED
      BY <2>1
  <1>3. DependsOnSimpler(Predicates, Rank, Truth)
    <2>1. ASSUME NEW q \in Predicates, NEW f \in Valuations, NEW g \in Valuations,
                 \A r \in Predicates : Rank[r] < Rank[q] => f[r] = g[r]
          PROVE  PredicateHolds(row, q, f) = PredicateHolds(row, q, g)
      <3>1. q.node \in {"and", "or"} => f[q.left] = g[q.left] /\ f[q.right] = g[q.right]
        BY <2>1, PredicateShape
      <3> QED
        BY <3>1 DEF PredicateHolds
    <2> QED
      BY <2>1 DEF DependsOnSimpler
  <1>4. PICK f \in Valuations : \A q \in Predicates : f[q] = Truth[q][f]
    <2>1. \A rank \in [Predicates -> 0..MaxDepth] :
             \A truth \in [Predicates -> [[Predicates -> BOOLEAN] -> BOOLEAN]] :
                DependsOnSimpler(Predicates, rank, truth) =>
                   \E f \in [Predicates -> BOOLEAN] : \A q \in Predicates : f[q] = truth[q][f]
      BY TruthExists
    <2> HIDE DEF Truth
    <2> QED
      BY <1>1, <1>2, <1>3, <2>1
  <1>5. is(f)
    BY <1>4
  <1>6. is(holds)
    <2> HIDE DEF is
    <2> QED
      BY <1>5
  <1>7. \A q \in Predicates : EvalPredicate(row, q) = holds[q]
    BY DEF EvalPredicate
  <1>8. \A q \in Predicates : EvalPredicate(row, q) = PredicateHolds(row, q, holds)
    <2> HIDE DEF holds
    <2> QED
      BY <1>6, <1>7
  <1> HIDE DEF holds
  <1>9. EvalPredicate(row, p) \in BOOLEAN
    BY <1>8 DEF PredicateHolds
  <1>10. p.node \in {"and", "or"} =>
            /\ EvalPredicate(row, p.left) = holds[p.left]
            /\ EvalPredicate(row, p.right) = holds[p.right]
    BY <1>7, PredicateShape
  <1>11. EvalPredicate(row, p) <=> PredicateHolds(row, p, holds)
    BY <1>8
  <1>12. p.node = "bool" => (EvalPredicate(row, p) <=> p.is)
    BY <1>11, Zenon DEF PredicateHolds
  <1>13. p.node = "cmp" => (EvalPredicate(row, p) <=> Holds(Field(row, p.col), p.op, p.value))
    BY <1>11, Zenon DEF PredicateHolds
  <1>14. p.node = "and" =>
            (EvalPredicate(row, p) <=> EvalPredicate(row, p.left) /\ EvalPredicate(row, p.right))
    BY <1>10, <1>11, Zenon DEF PredicateHolds
  <1>15. p.node = "or" =>
            (EvalPredicate(row, p) <=> EvalPredicate(row, p.left) \/ EvalPredicate(row, p.right))
    BY <1>10, <1>11, Zenon DEF PredicateHolds
  <1> QED
    BY <1>9, <1>12, <1>13, <1>14, <1>15

LEMMA SatisfiesUnfolds ==
    ASSUME NEW row, NEW e \in Clauses
    PROVE  /\ Satisfies(row, e) \in BOOLEAN
           /\ e.node = "bool" => (Satisfies(row, e) <=> e.is)
           /\ e.node = "cmp" =>
                 (Satisfies(row, e) <=>
                    SqlHolds(Operand(row, e.left), e.op, Operand(row, e.right)))
           /\ e.node = "and" =>
                 (Satisfies(row, e) <=> Satisfies(row, e.left) /\ Satisfies(row, e.right))
           /\ e.node = "or" =>
                 (Satisfies(row, e) <=> Satisfies(row, e.left) \/ Satisfies(row, e.right))
  <1> DEFINE Valuations == [Clauses -> BOOLEAN]
             rank == [d \in Clauses |-> Depth[d]]
             Truth == [d \in Clauses |-> [f \in Valuations |-> ConditionHolds(row, d, f)]]
             is(f) == f = [d \in Clauses |-> ConditionHolds(row, d, f)]
             true == CHOOSE f : is(f)
  <1>1. rank \in [Clauses -> 0..MaxDepth]
    BY ConditionShape
  <1>2. Truth \in [Clauses -> [Valuations -> BOOLEAN]]
    <2>1. \A d, f : ConditionHolds(row, d, f) \in BOOLEAN
      BY DEF ConditionHolds
    <2> QED
      BY <2>1
  <1>3. DependsOnSimpler(Clauses, rank, Truth)
    <2>1. ASSUME NEW d \in Clauses, NEW f \in Valuations, NEW g \in Valuations,
                 \A c \in Clauses : rank[c] < rank[d] => f[c] = g[c]
          PROVE  ConditionHolds(row, d, f) = ConditionHolds(row, d, g)
      <3>1. d.node \in {"and", "or"} => f[d.left] = g[d.left] /\ f[d.right] = g[d.right]
        BY <2>1, ConditionShape
      <3> QED
        BY <3>1 DEF ConditionHolds
    <2> QED
      BY <2>1 DEF DependsOnSimpler
  <1>4. PICK f \in Valuations : \A d \in Clauses : f[d] = Truth[d][f]
    <2>1. \A r \in [Clauses -> 0..MaxDepth] :
             \A truth \in [Clauses -> [[Clauses -> BOOLEAN] -> BOOLEAN]] :
                DependsOnSimpler(Clauses, r, truth) =>
                   \E f \in [Clauses -> BOOLEAN] : \A d \in Clauses : f[d] = truth[d][f]
      BY TruthExists
    <2> HIDE DEF Truth, rank
    <2> QED
      BY <1>1, <1>2, <1>3, <2>1
  <1>5. is(f)
    BY <1>4
  <1>6. is(true)
    <2> HIDE DEF is
    <2> QED
      BY <1>5
  <1>7. \A d \in Clauses : d # NoWhere
    BY DEF Clauses
  <1>8. \A d \in Clauses : ConditionHolds(row, d, true) \in BOOLEAN
    BY DEF ConditionHolds
  <1>9. \A d \in Clauses : true[d] = ConditionHolds(row, d, true)
    <2> HIDE DEF true
    <2> QED
      BY <1>6
  <1>10. \A d \in Clauses : Satisfies(row, d) <=> true[d]
    BY <1>7 DEF Satisfies
  <1> HIDE DEF true
  <1>11. Satisfies(row, e) <=> ConditionHolds(row, e, true)
    BY <1>9, <1>10
  <1>12. e.node \in {"and", "or"} =>
            /\ Satisfies(row, e.left) <=> true[e.left]
            /\ Satisfies(row, e.right) <=> true[e.right]
    BY <1>10, ConditionShape
  <1>13. e.node = "bool" => (Satisfies(row, e) <=> e.is)
    BY <1>11, Zenon DEF ConditionHolds
  <1>14. e.node = "cmp" =>
            (Satisfies(row, e) <=> SqlHolds(Operand(row, e.left), e.op, Operand(row, e.right)))
    BY <1>11, Zenon DEF ConditionHolds
  <1>15. e.node = "and" =>
            (Satisfies(row, e) <=> Satisfies(row, e.left) /\ Satisfies(row, e.right))
    BY <1>11, <1>12, Zenon DEF ConditionHolds
  <1>16. e.node = "or" =>
            (Satisfies(row, e) <=> Satisfies(row, e.left) \/ Satisfies(row, e.right))
    BY <1>11, <1>12, Zenon DEF ConditionHolds
  <1>17. Satisfies(row, e) \in BOOLEAN
    BY DEF Satisfies
  <1> QED
    BY <1>13, <1>14, <1>15, <1>16, <1>17

(* Two values compare as SQL says, if they are of one type or the first is *)
(* missing and the operator is not <>.                                     *)
LEMMA HoldsAsSql ==
    ASSUME NEW v \in Literals \cup {Absent}, NEW w \in Literals \ {NullValue}, NEW op \in Ops,
           v = Absent \/ v.type = w.type \/ (v = NullValue /\ op # "!=")
    PROVE  /\ Holds(v, op, w) <=> SqlHolds(v, op, w)
           /\ Holds(v, "=", w) <=> SqlHolds(w, "=", v)
  <1>1. w.type \in {"int", "float", "string"} /\ w # Absent
    BY DEF Literals, Absent, NullValue
  <1>2. CASE v = Absent
    BY <1>2 DEF Holds, SqlHolds
  <1>3. CASE v = NullValue
    <2>1. ~ Comparable(v, w) /\ v # w
      BY <1>1, <1>3 DEF Comparable, NullValue
    <2>2. ~ Holds(v, "=", w)
      BY <2>1 DEF Holds
    <2>3. ~ Holds(v, op, w)
      <3>1. op # "!="
        BY <1>1, <1>3 DEF Absent, NullValue
      <3> QED
        BY <2>1, <3>1 DEF Holds
    <2> QED
      BY <1>3, <2>2, <2>3 DEF SqlHolds
  <1>4. CASE v \notin {Absent, NullValue}
    <2>1. v \in Literals \ {NullValue} /\ v.type = w.type
      BY <1>4
    <2>2. v.n \in Nat /\ w.n \in Nat /\ (v = w <=> v.n = w.n) /\ Comparable(v, w)
      BY <2>1, KeysInOrder
    <2>3. /\ Numeric(v) < Numeric(w) <=> v.n < w.n
          /\ Numeric(v) > Numeric(w) <=> v.n > w.n
          /\ Numeric(v) = Numeric(w) <=> v.n = w.n
      BY <2>1, <2>2 DEF Numeric
    <2>4. \A o \in Ops : SqlHolds(v, o, w) <=> Relates(v.n, o, w.n)
      BY <1>1, <1>4, <2>1, <2>3 DEF SqlHolds, Relates
    <2>5. SqlHolds(w, "=", v) <=> v.n = w.n
      BY <1>1, <1>4, <2>1, <2>3 DEF SqlHolds, Relates
    <2>6. \A o \in Ops : Holds(v, o, w) <=> Relates(v.n, o, w.n)
      BY <1>4, <2>2 DEF Holds, Relates, Ops
    <2> QED
      BY <2>2, <2>4, <2>5, <2>6 DEF Ops, Relates
  <1> QED
    BY <1>2, <1>3, <1>4

(* What a comparison becomes, and what is in its column.                   *)
LEMMA ComparisonShape ==
    ASSUME ConditionsFit, NEW e \in Clauses, e.node = "cmp", ExprToFilter[e] # Refused
    PROVE  LET p == ExprToFilter[e]
           IN  /\ p.op = e.op /\ p.op \in Ops /\ p.value \in Literals \ {NullValue}
               /\ \/ e.left = Col(p.col) /\ e.right = Lit(p.value)
                  \/ e.left = Lit(p.value) /\ e.right = Col(p.col) /\ e.op = "="
               /\ \A insert \in Insertables :
                     LET v == Field(InsertToPlan(insert).values, p.col)
                     IN  /\ v \in Literals \cup {Absent}
                         /\ v = Absent \/ v.type = p.value.type \/ (v = NullValue /\ p.op # "!=")
  <1> DEFINE p == ExprToFilter[e]
  <1>1. e \in Conditions /\ e.op \in Ops /\ e.left \in Exprs /\ e.right \in Exprs
    BY ConditionShape
  <1>2. p = CompareToFilter(e) /\ p # Refused
    BY FilterShape
  <1>3. /\ e.left.operand = "column" \/ e.op = "="
        /\ Lit(p.value) \in {e.left, e.right} /\ p.value # NullValue
        /\ FitsColumn(p)
    BY <1>1 DEF ConditionsFit
  <1>4. \A x \in Exprs : /\ x.operand = "literal" => x = Lit(x.value) /\ x.value \in Literals
                         /\ x.operand = "column" => x = Col(x.name)
                         /\ x.operand \in {"literal", "column"}
    BY DEF Exprs, Lit, Col
  <1>5. /\ p.op = e.op
        /\ \/ /\ e.left.operand = "column" /\ e.right.operand = "literal"
              /\ p.col = e.left.name
           \/ /\ e.left.operand = "literal" /\ e.right.operand = "column"
              /\ p.col = e.right.name
    BY <1>1, <1>2 DEF CompareToFilter, Cmp
  <1>6. Lit(p.value).operand = "literal" /\ Lit(p.value).value = p.value
    BY DEF Lit
  <1> HIDE DEF p
  <1>7. \/ e.left = Col(p.col) /\ e.right = Lit(p.value)
        \/ e.left = Lit(p.value) /\ e.right = Col(p.col) /\ e.op = "="
    <2>1. CASE e.left.operand = "column" /\ e.right.operand = "literal"
      BY <1>1, <1>3, <1>4, <1>5, <1>6, <2>1
    <2>2. CASE e.left.operand = "literal" /\ e.right.operand = "column"
      BY <1>1, <1>3, <1>4, <1>5, <1>6, <2>2
    <2> QED
      BY <1>5, <2>1, <2>2
  <1>8. p.value \in Literals
    BY <1>1, <1>3, <1>4, <1>6
  <1>9. ASSUME NEW insert \in Insertables
        PROVE  LET v == Field(InsertToPlan(insert).values, p.col)
               IN  /\ v \in Literals \cup {Absent}
                   /\ v = Absent \/ v.type = p.value.type \/ (v = NullValue /\ p.op # "!=")
    <2>1. InsertToPlan(insert).values \in Rows
      BY PlannedRow
    <2>2. Field(InsertToPlan(insert).values, p.col) \in Literals \cup {Absent}
      BY <2>1 DEF Rows, Field, At
    <2> QED
      BY <1>3, <2>2 DEF FitsColumn
  <1> QED
    BY <1>1, <1>3, <1>5, <1>7, <1>8, <1>9 DEF p

(* The predicate of a comparison holds of the rows of which it is true.    *)
LEMMA CompareAgrees ==
    ASSUME ConditionsFit, NEW insert \in Insertables,
           NEW e \in Clauses, e.node = "cmp", ExprToFilter[e] # Refused
    PROVE  LET row == InsertToPlan(insert).values
               p   == ExprToFilter[e]
           IN  Holds(Field(row, p.col), p.op, p.value)
                 <=> SqlHolds(Operand(row, e.left), e.op, Operand(row, e.right))
  <1> DEFINE row == InsertToPlan(insert).values
             p == ExprToFilter[e]
             v == Field(row, p.col)
  <1>1. /\ p.op = e.op /\ p.op \in Ops /\ p.value \in Literals \ {NullValue}
        /\ \/ e.left = Col(p.col) /\ e.right = Lit(p.value)
           \/ e.left = Lit(p.value) /\ e.right = Col(p.col) /\ e.op = "="
    BY ComparisonShape
  <1>2. /\ v \in Literals \cup {Absent}
        /\ v = Absent \/ v.type = p.value.type \/ (v = NullValue /\ p.op # "!=")
    BY ComparisonShape
  <1> HIDE DEF p, row
  <1>3. Operand(row, Col(p.col)) = v /\ Operand(row, Lit(p.value)) = p.value
    BY DEF Operand, Col, Lit
  <1> HIDE DEF v
  <1>4. /\ Holds(v, p.op, p.value) <=> SqlHolds(v, p.op, p.value)
        /\ Holds(v, "=", p.value) <=> SqlHolds(p.value, "=", v)
    BY <1>1, <1>2, HoldsAsSql
  <1>5. Holds(v, p.op, p.value) <=> SqlHolds(Operand(row, e.left), e.op, Operand(row, e.right))
    BY <1>1, <1>3, <1>4
  <1> QED
    BY <1>5 DEF p, row, v

(* A row satisfies a WHERE if and only if it satisfies the predicate made  *)
(* of it. If not, there would be a least depth where they differ.          *)
LEMMA WhereAgrees ==
    ASSUME ConditionsFit, NEW insert \in Insertables,
           NEW e \in Clauses, ExprToFilter[e] # Refused
    PROVE  LET row == InsertToPlan(insert).values
           IN  EvalPredicate(row, ExprToFilter[e]) <=> Satisfies(row, e)
  <1> DEFINE row == InsertToPlan(insert).values
             Agree(d) == EvalPredicate(row, ExprToFilter[d]) <=> Satisfies(row, d)
             Wrong == {d \in Clauses : ExprToFilter[d] # Refused /\ ~ Agree(d)}
             Depths == {Depth[d] : d \in Wrong}
  <1> SUFFICES ASSUME Wrong # {} PROVE FALSE
    OBVIOUS
  <1>1. PICK d \in Wrong : \A f \in Wrong : Depth[d] <= Depth[f]
    <2>1. Depths \subseteq Nat /\ Depths # {}
      <3>1. \A f \in Clauses : Depth[f] \in Nat
        BY ConditionShape, DepthAssumption
      <3>2. Wrong \subseteq Clauses
        OBVIOUS
      <3> HIDE DEF Wrong
      <3> QED
        BY <3>1, <3>2
    <2>2. PICK k \in Depths : \A m \in Depths : k <= m
      <3> HIDE DEF Depths
      <3> QED
        BY <2>1, Smallest
    <2> HIDE DEF Wrong
    <2> QED
      BY <2>2
  <1> HIDE DEF row, Agree
  <1>2. d \in Clauses /\ ExprToFilter[d] # Refused /\ ~ Agree(d)
    OBVIOUS
  <1>3. \A f \in Clauses : ExprToFilter[f] # Refused /\ Depth[f] < Depth[d] => Agree(f)
    <2>1. \A f \in Clauses : Depth[f] \in Nat
      BY ConditionShape, DepthAssumption
    <2> QED
      BY <1>1, <1>2, <2>1
  <1> DEFINE p == ExprToFilter[d]
  <1>4. p \in Predicates /\ p.node = d.node /\ d.node \in {"bool", "cmp", "and", "or"}
    BY <1>2, FilterShape, ConditionShape
  <1>5. CASE d.node = "bool"
    <2>1. p = d
      BY <1>2, <1>5, FilterShape
    <2>2. (EvalPredicate(row, p) <=> p.is) /\ (Satisfies(row, d) <=> d.is)
      <3> HIDE DEF p
      <3> QED
        BY <1>2, <1>4, <1>5, EvalUnfolds, SatisfiesUnfolds
    <2> QED
      BY <1>2, <2>1, <2>2 DEF Agree
  <1>6. CASE d.node = "cmp"
    <2>1. EvalPredicate(row, p) <=> Holds(Field(row, p.col), p.op, p.value)
      <3> HIDE DEF p
      <3> QED
        BY <1>4, <1>6, EvalUnfolds
    <2>2. Satisfies(row, d) <=> SqlHolds(Operand(row, d.left), d.op, Operand(row, d.right))
      BY <1>2, <1>6, SatisfiesUnfolds
    <2>3. Holds(Field(row, p.col), p.op, p.value)
            <=> SqlHolds(Operand(row, d.left), d.op, Operand(row, d.right))
      BY <1>2, <1>6, CompareAgrees DEF row
    <2> QED
      BY <1>2, <2>1, <2>2, <2>3 DEF Agree
  <1>7. CASE d.node \in {"and", "or"}
    <2>1. /\ d.left \in Clauses /\ d.right \in Clauses
          /\ Depth[d.left] < Depth[d] /\ Depth[d.right] < Depth[d]
      BY <1>2, <1>7, ConditionShape
    <2>2. /\ p.left = ExprToFilter[d.left] /\ p.right = ExprToFilter[d.right]
          /\ p.left # Refused /\ p.right # Refused
      BY <1>2, <1>7, FilterShape
    <2> HIDE DEF p
    <2>3. Agree(d.left) /\ Agree(d.right)
      BY <1>3, <2>1, <2>2
    <2>4. /\ EvalPredicate(row, p.left) <=> Satisfies(row, d.left)
          /\ EvalPredicate(row, p.right) <=> Satisfies(row, d.right)
      BY <2>2, <2>3 DEF Agree
    <2>5. CASE d.node = "and"
      BY <1>2, <1>4, <2>4, <2>5, EvalUnfolds, SatisfiesUnfolds DEF Agree, p
    <2>6. CASE d.node = "or"
      BY <1>2, <1>4, <2>4, <2>6, EvalUnfolds, SatisfiesUnfolds DEF Agree, p
    <2> QED
      BY <1>7, <2>5, <2>6
  <1> QED
    BY <1>4, <1>5, <1>6, <1>7

(* A comparison of the id, and the ids it is asked of. *)
LEMMA IdComparison ==
    ASSUME ConditionsFit, RowsWritten, NEW q \in Predicates, NEW op, IsIdCmp(q, op)
    PROVE  /\ q.value \in Literals \ {NullValue}
           /\ \A i \in DOMAIN rows :
                 /\ IdOf(i) \in {NullValue, Absent} \/ IdOf(i).type = q.value.type
                 /\ EvalPredicate(rows[i], q) <=> Holds(IdOf(i), op, q.value)
  <1>1. q.node = "cmp" /\ q.col = "id" /\ q.op = op
    BY DEF IsIdCmp
  <1>2. PICK e \in Clauses : ExprToFilter[e] = q
    BY RankIsLeast
  <1>3. ExprToFilter[e] # Refused /\ e.node = "cmp"
    BY <1>1, <1>2, FilterShape DEF Predicates
  <1>4. q.value \in Literals \ {NullValue}
    BY <1>2, <1>3, ComparisonShape
  <1>5. ASSUME NEW i \in DOMAIN rows
        PROVE  IdOf(i) \in {NullValue, Absent} \/ IdOf(i).type = q.value.type
    <2>1. PICK insert \in Insertables : rows[i] = InsertToPlan(insert).values
      BY DEF RowsWritten
    <2>2. LET v == Field(InsertToPlan(insert).values, q.col)
          IN  v = Absent \/ v.type = q.value.type \/ v = NullValue
      BY <1>2, <1>3, ComparisonShape
    <2> QED
      BY <1>1, <2>1, <2>2 DEF IdOf
  <1>6. \A i \in DOMAIN rows : EvalPredicate(rows[i], q) <=> Holds(IdOf(i), op, q.value)
    BY <1>1, EvalUnfolds DEF IdOf
  <1> QED
    BY <1>4, <1>5, <1>6

(* Where a lookup stands for a predicate, its ends are what LookUpFinds    *)
(* needs, and the rows in the range are those the predicate holds of.      *)
LEMMA LookUpStands ==
    ASSUME ConditionsFit, RowsWritten,
           NEW e \in Clauses, ExprToFilter[e] # Refused, IdLookup(ExprToFilter[e]) # {}
    PROVE  LET p     == ExprToFilter[e]
               range == CHOOSE r \in IdLookup(p) : TRUE
               low   == range[1]
               high  == range[2]
           IN  /\ low \in Literals \ {NullValue} /\ high \in Literals \ {NullValue}
               /\ low.type = high.type /\ low.n <= high.n
               /\ \A i \in DOMAIN rows :
                     IdOf(i) \in {NullValue, Absent} \/ IdOf(i).type = low.type
               /\ \/ /\ low = high
                     /\ \A i \in DOMAIN rows :
                           EvalPredicate(rows[i], p) <=> Holds(IdOf(i), "=", low)
                  \/ \A i \in DOMAIN rows :
                        EvalPredicate(rows[i], p)
                          <=> Holds(IdOf(i), ">=", low) /\ Holds(IdOf(i), "<=", high)
  <1> DEFINE p == ExprToFilter[e]
             range == CHOOSE r \in IdLookup(p) : TRUE
             low == range[1]
             high == range[2]
  <1>1. p \in Predicates /\ e \in Conditions /\ range \in IdLookup(p)
    BY FilterShape, ConditionShape
  <1>2. low.type = high.type /\ low.n <= high.n
    BY <1>1 DEF ConditionsFit
  <1> HIDE DEF p
  <1>3. CASE IsIdCmp(p, "=")
    <2>1. range = <<p.value, p.value>>
      BY <1>1, <1>3 DEF IdLookup
    <2>2. low = p.value /\ high = p.value
      <3> HIDE DEF range
      <3> QED
        BY <2>1
    <2> HIDE DEF low, high
    <2>3. /\ low \in Literals \ {NullValue} /\ high \in Literals \ {NullValue}
          /\ \A i \in DOMAIN rows :
                /\ IdOf(i) \in {NullValue, Absent} \/ IdOf(i).type = low.type
                /\ EvalPredicate(rows[i], p) <=> Holds(IdOf(i), "=", low)
      BY <1>1, <1>3, <2>2, IdComparison
    <2> QED
      BY <1>2, <2>2, <2>3 DEF low, high, p
  <1>4. CASE ~ IsIdCmp(p, "=")
    <2>1. p.node = "and"
      BY <1>1, <1>4 DEF IdLookup
    <2>2. p.left \in Predicates /\ p.right \in Predicates
      BY <1>1, <2>1, PredicateShape
    <2>3. \A row : EvalPredicate(row, p)
                      <=> EvalPredicate(row, p.left) /\ EvalPredicate(row, p.right)
      BY <1>1, <2>1, EvalUnfolds
    <2>4. \/ /\ IsIdCmp(p.left, ">=") /\ IsIdCmp(p.right, "<=")
             /\ range = <<p.left.value, p.right.value>>
          \/ /\ IsIdCmp(p.left, "<=") /\ IsIdCmp(p.right, ">=")
             /\ range = <<p.right.value, p.left.value>>
      BY <1>1, <1>4, <2>1 DEF IdLookup
    <2>5. \/ /\ IsIdCmp(p.left, ">=") /\ IsIdCmp(p.right, "<=")
             /\ low = p.left.value /\ high = p.right.value
          \/ /\ IsIdCmp(p.left, "<=") /\ IsIdCmp(p.right, ">=")
             /\ low = p.right.value /\ high = p.left.value
      <3> HIDE DEF range
      <3> QED
        BY <2>4
    <2> HIDE DEF low, high
    <2>6. /\ low \in Literals \ {NullValue} /\ high \in Literals \ {NullValue}
          /\ \A i \in DOMAIN rows :
                /\ IdOf(i) \in {NullValue, Absent} \/ IdOf(i).type = low.type
                /\ EvalPredicate(rows[i], p)
                     <=> Holds(IdOf(i), ">=", low) /\ Holds(IdOf(i), "<=", high)
      BY <2>2, <2>3, <2>5, IdComparison
    <2> QED
      BY <1>2, <2>6 DEF low, high, p
  <1> QED
    BY <1>3, <1>4

(* When WHERE compares columns to literals of their type, a row satisfies  *)
(* it if and only if it satisfies the predicate the planner made of it;    *)
(* and a lookup in the index that stands for the predicate returns just    *)
(* these rows, each once and by id.                                        *)
THEOREM WhereCorrect ==
    ASSUME ConditionsFit
    PROVE  TableSpec => []WhereMatches
  <1>1. TypeOK /\ CopiesExact /\ RowsWritten => WhereMatches
    <2> SUFFICES ASSUME TypeOK, CopiesExact, RowsWritten,
                        NEW e \in Clauses, ExprToFilter[e] # Refused
                 PROVE  LET p      == ExprToFilter[e]
                            found  == {i \in DOMAIN rows : Satisfies(rows[i], e)}
                            answer == Filter(p).rows
                        IN  /\ \A i \in DOMAIN rows : EvalPredicate(rows[i], p) <=> i \in found
                            /\ indexed /\ IdLookup(p) # {} =>
                                  /\ Filter(p) = Result(answer)
                                  /\ ListsById(answer, found)
      BY DEF WhereMatches
    <2> DEFINE p == ExprToFilter[e]
               found == {i \in DOMAIN rows : Satisfies(rows[i], e)}
               range == CHOOSE r \in IdLookup(p) : TRUE
               low == range[1]
               high == range[2]
    <2>1. \A i \in DOMAIN rows : EvalPredicate(rows[i], p) <=> Satisfies(rows[i], e)
      BY WhereAgrees DEF RowsWritten
    <2>2. ASSUME indexed, IdLookup(p) # {}
          PROVE  Filter(p) = Result(Filter(p).rows) /\ ListsById(Filter(p).rows, found)
      <3>1. Filter(p) = LookUp(low, high)
        <4> HIDE DEF p
        <4> QED
          BY <2>2, Zenon DEF Filter, ByIndex
      <3>2. /\ low \in Literals \ {NullValue} /\ high \in Literals \ {NullValue}
            /\ low.type = high.type /\ low.n <= high.n
            /\ \A i \in DOMAIN rows :
                  IdOf(i) \in {NullValue, Absent} \/ IdOf(i).type = low.type
            /\ \/ /\ low = high
                  /\ \A i \in DOMAIN rows :
                        EvalPredicate(rows[i], p) <=> Holds(IdOf(i), "=", low)
               \/ \A i \in DOMAIN rows :
                     EvalPredicate(rows[i], p)
                       <=> Holds(IdOf(i), ">=", low) /\ Holds(IdOf(i), "<=", high)
        BY <2>2, LookUpStands
      <3> DEFINE answer == LookUp(low, high).rows
                 inRange == {i \in DOMAIN rows : Holds(IdOf(i), ">=", low) /\ Holds(IdOf(i), "<=", high)}
      <3> HIDE DEF low, high, p
      <3>3. /\ LookUp(low, high) = Result(answer)
            /\ ListsById(answer, inRange)
            /\ low = high => inRange = {i \in DOMAIN rows : Holds(IdOf(i), "=", low)}
        BY <2>2, <3>2, LookUpFinds
      <3>4. inRange = found
        BY <2>1, <3>2, <3>3
      <3> QED
        BY <3>1, <3>3, <3>4
    <2> QED
      BY <2>1, <2>2
  <1> QED
    BY <1>1, TypeCorrect, CopiesCorrect, RowsAreWritten, PTL

-----------------------------------------------------------------------------
(* The session. *)

(* Whatever SELECTs a session runs between its INSERTs, and whatever is    *)
(* refused or panics: it fills the table as OneTable says, so that the     *)
(* theorems above hold of it.                                              *)
THEOREM SessionFillsTable == Spec => TableSpec
  <1>1. Init => TableInit
    BY DEF Init
  <1>2. [Next]_vars => [TableNext]_stored
    <2> SUFFICES ASSUME [Next]_vars PROVE [TableNext]_stored
      OBVIOUS
    <2>1. CASE UNCHANGED vars
      BY <2>1 DEF vars
    <2>2. ASSUME NEW insert \in Inserts, InsertRow(insert) PROVE TableNext
      BY <2>2 DEF InsertRow, TableNext
    <2>3. ASSUME NEW query \in Queries, Select(query) PROVE [TableNext]_stored
      BY <2>3 DEF Select, TableNext
    <2>4. ASSUME Refuse PROVE UNCHANGED stored
      BY <2>4 DEF Refuse
    <2> QED
      BY <2>1, <2>2, <2>3, <2>4 DEF Next
  <1> QED
    BY <1>1, <1>2, PTL DEF Spec, TableSpec
=============================================================================
