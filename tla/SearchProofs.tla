---------------------------- MODULE SearchProofs ----------------------------
(***************************************************************************)
(* The two search indexes. Of the inverted index: when callers exclude     *)
(* each other on a row, searches find what was inserted last. Of the       *)
(* vector index: a search finds the nearest.                               *)
(***************************************************************************)
EXTENDS InvertedIndex, VectorIndex, FiniteSetTheorems, FunctionTheorems,
        SequenceTheorems, WellFoundedInduction, TLAPS

(* The lengths and elements of a text that the steps of a call rely on.    *)
LEMMA TextElements ==
    ASSUME NEW text \in Seq(Terms)
    PROVE  /\ DOMAIN text = 1..Len(text)
           /\ Len(text) \in Nat
           /\ \A i \in DOMAIN text : text[i] \in Terms
           /\ \A w : w \in ToSet(text) <=> \E i \in DOMAIN text : text[i] = w
  BY DEF ToSet

(* Every variable keeps its type, and a thread has a row exactly while it  *)
(* is in a call.                                                           *)
THEOREM TypeCorrect == Spec => []TypeOK
  <1>1. Init => TypeOK
    BY NoneAssumption DEF Init, TypeOK
  <1>2. TypeOK /\ [Next]_vars => TypeOK'
    <2> SUFFICES ASSUME TypeOK, [Next]_vars PROVE TypeOK'
      OBVIOUS
    <2> USE DEF TypeOK
    <2>1. ASSUME NEW t \in Threads, NEW id \in RowIds, NEW text \in Texts,
                 BeginInsert(t, id, text)
          PROVE  TypeOK'
      BY <2>1, TextsAssumption, NoneAssumption DEF BeginInsert, Call
    <2>2. ASSUME NEW t \in Threads, PushTerm(t) PROVE TypeOK'
      <3>1. row_id[t] \in RowIds
        BY <2>2 DEF PushTerm
      <3>2. terms[t][at[t]] \in Terms
        BY <2>2, TextElements DEF PushTerm
      <3>3. index' \in [Terms -> [RowIds -> Nat]]
        BY <2>2, <3>1, <3>2 DEF PushTerm
      <3> QED
        BY <2>2, <3>3 DEF PushTerm
    <2>3. ASSUME NEW t \in Threads, RecordTerms(t) PROVE TypeOK'
      <3>1. row_id[t] \in RowIds
        BY <2>3 DEF RecordTerms
      <3>2. doc_terms' \in [RowIds -> Seq(Terms) \cup {NONE}]
        BY <2>3, <3>1 DEF RecordTerms
      <3> QED
        BY <2>3, <3>2, NoneAssumption DEF RecordTerms, Return, Call
    <2>4. ASSUME NEW t \in Threads, NEW id \in RowIds, TakeTerms(t, id)
          PROVE  TypeOK'
      BY <2>4, NoneAssumption DEF TakeTerms, Call
    <2>5. ASSUME NEW t \in Threads, PurgeTerms(t) PROVE TypeOK'
      <3>1. index' \in [Terms -> [RowIds -> Nat]]
        BY <2>5 DEF PurgeTerms
      <3> QED
        BY <2>5, <3>1, NoneAssumption DEF PurgeTerms, Return, Call
    <2>6. CASE UNCHANGED vars
      BY <2>6 DEF vars
    <2> QED
      BY <2>1, <2>2, <2>3, <2>4, <2>5, <2>6 DEF Next
  <1> QED
    BY <1>1, <1>2, PTL DEF Spec

-----------------------------------------------------------------------------
(* A thread between calls works on no row, and one in a call on one.       *)
LEMMA RowOfCall ==
    ASSUME TypeOK, NEW t \in Threads
    PROVE  /\ pc[t] = "idle" => row_id[t] = NONE
           /\ pc[t] # "idle" => row_id[t] \in RowIds
  BY NoneAssumption DEF TypeOK

(* Beginning a call adds its row to those in use.                          *)
LEMMA BeginUses ==
    ASSUME TypeOK, NEW t \in Threads, pc[t] = "idle",
           NEW id \in RowIds, NEW step, NEW text, Call(t, step, id, text)
    PROVE  /\ \A i \in RowIds : InUse(i)' <=> InUse(i) \/ i = id
           /\ \A u \in Threads \ {t} : row_id'[u] = row_id[u] /\ pc'[u] = pc[u]
                                       /\ terms'[u] = terms[u] /\ at'[u] = at[u]
           /\ row_id'[t] = id /\ pc'[t] = step /\ terms'[t] = text /\ at'[t] = 1
  BY NoneAssumption DEF TypeOK, Call, InUse

(* Returning from a call frees its row and no other.                       *)
LEMMA ReturnFrees ==
    ASSUME TypeOK, CallsExclusive, NEW t \in Threads, pc[t] # "idle", Return(t)
    PROVE  /\ \A i \in RowIds : InUse(i)' <=> InUse(i) /\ i # row_id[t]
           /\ \A u \in Threads \ {t} : row_id'[u] = row_id[u] /\ pc'[u] = pc[u]
                                       /\ terms'[u] = terms[u] /\ at'[u] = at[u]
           /\ row_id'[t] = NONE /\ pc'[t] = "idle"
  BY NoneAssumption DEF TypeOK, CallsExclusive, Return, Call, InUse

(* What a call leaves alone, it leaves half-inserted or half-deleted.      *)
LEMMA OthersUntouched ==
    ASSUME TypeOK, CallsExclusive, NEW t \in Threads, NEW u \in Threads \ {t},
           pc[t] # "idle", pc[u] # "idle"
    PROVE  row_id[u] # row_id[t] /\ row_id[u] \in RowIds
  BY RowOfCall, NoneAssumption DEF CallsExclusive, TypeOK

-----------------------------------------------------------------------------
(* An insert begins with a row no list has.                                *)
LEMMA BeginInsertKeeps ==
    ASSUME Exclusive, TypeOK, IndexInvariant, NEW t \in Threads,
           NEW id \in RowIds, NEW text \in Texts, BeginInsert(t, id, text)
    PROVE  IndexInvariant'
  <1>1. pc[t] = "idle" /\ ~ InUse(id) /\ doc_terms[id] = NONE
    BY DEF BeginInsert
  <1>2. /\ Call(t, "insert", id, text)
        /\ index' = index /\ doc_terms' = doc_terms
    BY DEF BeginInsert
  <1>3. \A w \in Terms : ~ Lists(id, w)
    BY <1>1 DEF IndexInvariant, NothingStale, Has, Lists
  <1>4. CallsExclusive'
    BY <1>1, <1>2, BeginUses DEF IndexInvariant, CallsExclusive, InUse
  <1>5. HalfInserted'
    BY <1>1, <1>2, <1>3, BeginUses
       DEF IndexInvariant, HalfInserted, Lists, Pushed
  <1>6. HalfDeleted'
    BY <1>1, <1>2, BeginUses DEF IndexInvariant, HalfDeleted, Lists
  <1>7. NothingStale' /\ NothingLost'
    BY <1>1, <1>2, BeginUses
       DEF IndexInvariant, NothingStale, NothingLost, Has
  <1> QED
    BY <1>4, <1>5, <1>6, <1>7 DEF IndexInvariant

(* A push adds the next term of the text to those the row is listed under. *)
LEMMA PushTermKeeps ==
    ASSUME TypeOK, IndexInvariant, NEW t \in Threads, PushTerm(t)
    PROVE  IndexInvariant'
  <1> DEFINE word == terms[t][at[t]]
  <1>1. /\ pc[t] = "insert" /\ at[t] \in DOMAIN terms[t]
        /\ at' = [at EXCEPT ![t] = @ + 1]
        /\ UNCHANGED <<doc_terms, pc, row_id, terms>>
    BY DEF PushTerm
  <1>2. row_id[t] \in RowIds /\ word \in Terms
    BY <1>1, RowOfCall, TextElements DEF TypeOK
  <1>3. \A w \in Terms, id \in RowIds :
            Lists(id, w)' <=> Lists(id, w) \/ (w = word /\ id = row_id[t])
    BY <1>2 DEF PushTerm, TypeOK, Lists
  <1>4. \A id \in RowIds : InUse(id)' <=> InUse(id)
    BY <1>1 DEF InUse
  <1>5. InUse(row_id[t])
    BY DEF InUse
  <1>6. \A w \in Terms : Pushed(t, w)' <=> Pushed(t, w) \/ w = word
    BY <1>1 DEF Pushed, TypeOK
  <1>7. \A u \in Threads \ {t}, w \in Terms : Pushed(u, w)' <=> Pushed(u, w)
    BY <1>1 DEF Pushed, TypeOK
  <1> HIDE DEF word
  <1>8. CallsExclusive'
    BY <1>1 DEF IndexInvariant, CallsExclusive
  <1>9. HalfInserted'
    BY <1>1, <1>2, <1>3, <1>6, <1>7, RowOfCall, OthersUntouched
       DEF IndexInvariant, HalfInserted
  <1>10. HalfDeleted'
    BY <1>1, <1>2, <1>3, RowOfCall, OthersUntouched
       DEF IndexInvariant, HalfDeleted
  <1>11. NothingStale' /\ NothingLost'
    BY <1>1, <1>3, <1>4, <1>5
       DEF IndexInvariant, NothingStale, NothingLost, Has, Lists
  <1> QED
    BY <1>8, <1>9, <1>10, <1>11 DEF IndexInvariant

(* When the terms are recorded, all of them have been pushed.              *)
LEMMA RecordTermsKeeps ==
    ASSUME TypeOK, IndexInvariant, NEW t \in Threads, RecordTerms(t)
    PROVE  IndexInvariant'
  <1>1. /\ pc[t] = "insert" /\ at[t] \notin DOMAIN terms[t] /\ Return(t)
        /\ doc_terms' = [doc_terms EXCEPT ![row_id[t]] = terms[t]]
        /\ index' = index
    BY DEF RecordTerms
  <1>2. row_id[t] \in RowIds /\ terms[t] \in Seq(Terms) /\ terms[t] # NONE
    BY <1>1, RowOfCall, NoneAssumption DEF TypeOK
  <1>3. \A w \in Terms : w \in ToSet(terms[t]) <=> Pushed(t, w)
    BY <1>1, <1>2, TextElements DEF Pushed, TypeOK
  <1>4. \A id \in RowIds, w \in Terms :
            Has(id, w)' <=> IF id = row_id[t] THEN w \in ToSet(terms[t]) ELSE Has(id, w)
    BY <1>1, <1>2 DEF Has, TypeOK
  <1>5. \A u \in Threads \ {t} : pc[u] # "idle" =>
            doc_terms'[row_id[u]] = doc_terms[row_id[u]]
    BY <1>1, OthersUntouched DEF IndexInvariant, TypeOK
  <1>6. CallsExclusive'
    BY <1>1, <1>5, ReturnFrees DEF IndexInvariant, CallsExclusive
  <1>7. HalfInserted'
    BY <1>1, ReturnFrees DEF IndexInvariant, HalfInserted, Lists, Pushed
  <1>8. HalfDeleted'
    BY <1>1, ReturnFrees DEF IndexInvariant, HalfDeleted, Lists
  <1>9. \A w \in Terms : index[w][row_id[t]] > 0 <=> w \in ToSet(terms[t])
    BY <1>1, <1>3 DEF IndexInvariant, HalfInserted, Lists
  <1>10. NothingStale' /\ NothingLost'
    BY <1>1, <1>4, <1>9, ReturnFrees
       DEF IndexInvariant, NothingStale, NothingLost
  <1> QED
    BY <1>6, <1>7, <1>8, <1>10 DEF IndexInvariant

(* A delete takes over the terms that lists may still have the row under.  *)
LEMMA TakeTermsKeeps ==
    ASSUME Exclusive, TypeOK, IndexInvariant, NEW t \in Threads,
           NEW id \in RowIds, TakeTerms(t, id)
    PROVE  IndexInvariant'
  <1>1. /\ pc[t] = "idle" /\ ~ InUse(id) /\ doc_terms[id] # NONE
        /\ doc_terms' = [doc_terms EXCEPT ![id] = NONE]
        /\ Call(t, "delete", id, doc_terms[id])
        /\ index' = index
    BY DEF TakeTerms
  <1>2. CallsExclusive'
    <2>1. \A u \in Threads \ {t} : row_id[u] # id
      BY <1>1 DEF InUse
    <2>2. \A u \in Threads \ {t} : pc[u] # "idle" =>
              doc_terms'[row_id[u]] = doc_terms[row_id[u]]
      BY <1>1, <2>1, RowOfCall DEF TypeOK
    <2>3. doc_terms'[id] = NONE
      BY <1>1 DEF TypeOK
    <2> QED
      BY <1>1, <2>1, <2>2, <2>3, BeginUses DEF IndexInvariant, CallsExclusive
  <1>3. HalfInserted'
    BY <1>1, BeginUses DEF IndexInvariant, HalfInserted, Lists, Pushed
  <1>4. HalfDeleted'
    BY <1>1, BeginUses
       DEF IndexInvariant, HalfDeleted, NothingStale, Lists, Has
  <1>5. \A i \in RowIds \ {id}, w \in Terms : Has(i, w)' <=> Has(i, w)
    BY <1>1 DEF Has, TypeOK
  <1>6. NothingStale' /\ NothingLost'
    BY <1>1, <1>5, BeginUses DEF IndexInvariant, NothingStale, NothingLost
  <1> QED
    BY <1>2, <1>3, <1>4, <1>6 DEF IndexInvariant

(* After the purge no list has the row, and every other row is where it    *)
(* was.                                                                    *)
LEMMA PurgeTermsKeeps ==
    ASSUME TypeOK, IndexInvariant, NEW t \in Threads, PurgeTerms(t)
    PROVE  IndexInvariant'
  <1>1. pc[t] = "delete" /\ Return(t) /\ doc_terms' = doc_terms
    BY DEF PurgeTerms
  <1>2. row_id[t] \in RowIds /\ doc_terms[row_id[t]] = NONE
    BY <1>1, RowOfCall DEF IndexInvariant, CallsExclusive
  <1>3. \A w \in Terms, id \in RowIds \ {row_id[t]} : index'[w][id] = index[w][id]
    BY <1>2 DEF PurgeTerms, TypeOK
  <1>4. \A w \in Terms : ~ (index'[w][row_id[t]] > 0)
    <2> TAKE w \in Terms
    <2>1. CASE w \in ToSet(terms[t])
      BY <1>2, <2>1 DEF PurgeTerms, TypeOK
    <2>2. CASE w \notin ToSet(terms[t])
      <3>1. index'[w] = index[w]
        BY <2>2 DEF PurgeTerms
      <3> QED
        BY <1>1, <2>2, <3>1 DEF IndexInvariant, HalfDeleted, Lists
    <2> QED
      BY <2>1, <2>2
  <1>5. CallsExclusive'
    BY <1>1, ReturnFrees DEF IndexInvariant, CallsExclusive
  <1>6. HalfInserted'
    BY <1>1, <1>3, ReturnFrees, OthersUntouched
       DEF IndexInvariant, HalfInserted, Lists, Pushed
  <1>7. HalfDeleted'
    BY <1>1, <1>3, ReturnFrees, OthersUntouched
       DEF IndexInvariant, HalfDeleted, Lists
  <1>8. NothingStale' /\ NothingLost'
    BY <1>1, <1>2, <1>3, <1>4, ReturnFrees
       DEF IndexInvariant, NothingStale, NothingLost, Has
  <1> QED
    BY <1>5, <1>6, <1>7, <1>8 DEF IndexInvariant

-----------------------------------------------------------------------------
(* The lists and doc_terms agree on every row no call is working on, and   *)
(* differ on the others only as far as their calls have come.              *)
THEOREM IndexCorrect ==
    ASSUME Exclusive PROVE Spec => []IndexInvariant
  <1>1. Init => IndexInvariant
    BY NoneAssumption
       DEF Init, IndexInvariant, CallsExclusive, HalfInserted, HalfDeleted,
           NothingStale, NothingLost, InUse, Has
  <1>2. TypeOK /\ IndexInvariant /\ [Next]_vars => IndexInvariant'
    <2> SUFFICES ASSUME TypeOK, IndexInvariant, [Next]_vars
                 PROVE  IndexInvariant'
      OBVIOUS
    <2>1. CASE UNCHANGED vars
      BY <2>1 DEF vars, IndexInvariant, CallsExclusive, HalfInserted,
                  HalfDeleted, NothingStale, NothingLost, InUse, Has, Lists,
                  Pushed
    <2> QED
      BY <2>1, BeginInsertKeeps, PushTermKeeps, RecordTermsKeeps,
         TakeTermsKeeps, PurgeTermsKeeps DEF Next
  <1> QED
    BY <1>1, <1>2, TypeCorrect, PTL DEF Spec

(* Nothing outlives a delete: a row is listed under terms of its text.     *)
THEOREM Fresh == ASSUME Exclusive PROVE Spec => []NothingStale
  <1>1. IndexInvariant => NothingStale
    BY DEF IndexInvariant
  <1> QED
    BY <1>1, IndexCorrect, PTL

(* Nothing is lost: a row is listed under every term of its text.          *)
THEOREM Complete == ASSUME Exclusive PROVE Spec => []NothingLost
  <1>1. IndexInvariant => NothingLost
    BY DEF IndexInvariant
  <1> QED
    BY <1>1, IndexCorrect, PTL

-----------------------------------------------------------------------------
(* How often: a list has a row once for each place of the term in its text. *)

(* Places of a term, up to one more place. *)
LEMMA PlacesCount ==
    ASSUME NEW text \in Seq(Terms), NEW w, NEW n \in Nat \ {0}
    PROVE  /\ IsFiniteSet(PlacesBefore(text, w, n))
           /\ Cardinality(PlacesBefore(text, w, n)) \in Nat
           /\ PlacesBefore(text, w, 1) = {}
           /\ n \notin DOMAIN text => PlacesBefore(text, w, n) = {i \in DOMAIN text : text[i] = w}
           /\ n \in DOMAIN text =>
                 Cardinality(PlacesBefore(text, w, n + 1)) =
                    Cardinality(PlacesBefore(text, w, n)) + IF text[n] = w THEN 1 ELSE 0
  <1>1. DOMAIN text = 1..Len(text) /\ Len(text) \in Nat
    BY TextElements
  <1>2. IsFiniteSet(DOMAIN text)
    BY <1>1, FS_Interval
  <1>3. IsFiniteSet(PlacesBefore(text, w, n))
    BY <1>2, FS_Subset DEF PlacesBefore
  <1>4. Cardinality(PlacesBefore(text, w, n)) \in Nat
    BY <1>3, FS_CardinalityType
  <1>5. PlacesBefore(text, w, 1) = {}
    BY <1>1 DEF PlacesBefore
  <1>6. n \notin DOMAIN text => PlacesBefore(text, w, n) = {i \in DOMAIN text : text[i] = w}
    BY <1>1 DEF PlacesBefore
  <1>7. ASSUME n \in DOMAIN text
        PROVE  Cardinality(PlacesBefore(text, w, n + 1)) =
                  Cardinality(PlacesBefore(text, w, n)) + IF text[n] = w THEN 1 ELSE 0
    <2>1. CASE text[n] = w
      <3>1. PlacesBefore(text, w, n + 1) = PlacesBefore(text, w, n) \cup {n}
        BY <1>1, <1>7, <2>1 DEF PlacesBefore
      <3>2. n \notin PlacesBefore(text, w, n)
        BY DEF PlacesBefore
      <3> QED
        BY <1>3, <2>1, <3>1, <3>2, FS_AddElement
    <2>2. CASE text[n] # w
      <3>1. PlacesBefore(text, w, n + 1) = PlacesBefore(text, w, n)
        BY <1>1, <1>7, <2>2 DEF PlacesBefore
      <3> QED
        BY <1>4, <2>2, <3>1
    <2> QED
      BY <2>1, <2>2
  <1> QED
    BY <1>3, <1>4, <1>5, <1>6, <1>7

(* The counts of a row that is not in a call stay as long as its list and  *)
(* its text do, and so do those of one that goes on being inserted.        *)
LEMMA CountsStay ==
    ASSUME CountsExact, NEW id \in RowIds, ~ InUse(id),
           doc_terms'[id] = doc_terms[id],
           \A w \in Terms : index'[w][id] = index[w][id]
    PROVE  \A w \in Terms :
              index'[w][id] = Cardinality({i \in DOMAIN Text(id)' : Text(id)'[i] = w})
  BY DEF CountsExact, Text

LEMMA HalfStays ==
    ASSUME HalfCounted, NEW t \in Threads, pc[t] = "insert",
           row_id'[t] = row_id[t], terms'[t] = terms[t], at'[t] = at[t],
           \A w \in Terms : index'[w][row_id[t]] = index[w][row_id[t]]
    PROVE  \A w \in Terms :
              index'[w][row_id'[t]] = Cardinality(PlacesBefore(terms'[t], w, at'[t]))
  BY DEF HalfCounted

LEMMA BeginInsertCounts ==
    ASSUME Exclusive, TypeOK, IndexInvariant, CountInvariant, NEW t \in Threads,
           NEW id \in RowIds, NEW text \in Texts, BeginInsert(t, id, text)
    PROVE  CountInvariant'
  <1>1. /\ pc[t] = "idle" /\ ~ InUse(id) /\ doc_terms[id] = NONE
        /\ Call(t, "insert", id, text)
        /\ index' = index /\ doc_terms' = doc_terms
    BY DEF BeginInsert
  <1>2. \A w \in Terms : index[w][id] = 0
    BY <1>1 DEF IndexInvariant, NothingStale, Has, TypeOK
  <1>3. HalfCounted'
    <2> SUFFICES ASSUME NEW u \in Threads, pc'[u] = "insert"
                 PROVE  \A w \in Terms : index'[w][row_id'[u]] =
                           Cardinality(PlacesBefore(terms'[u], w, at'[u]))
      BY DEF HalfCounted
    <2>1. CASE u = t
      <3>1. row_id'[t] = id /\ terms'[t] = text /\ at'[t] = 1
        BY <1>1, BeginUses
      <3>2. \A w \in Terms : PlacesBefore(text, w, 1) = {}
        BY TextsAssumption, PlacesCount
      <3> QED
        BY <1>1, <1>2, <2>1, <3>1, <3>2, FS_EmptySet
    <2>2. CASE u # t
      <3>1. /\ pc[u] = "insert" /\ row_id'[u] = row_id[u]
            /\ terms'[u] = terms[u] /\ at'[u] = at[u]
        BY <1>1, <2>2, BeginUses
      <3> QED
        BY <1>1, <3>1, HalfStays DEF CountInvariant
    <2> QED
      BY <2>1, <2>2
  <1>4. CountsExact'
    <2> SUFFICES ASSUME NEW i \in RowIds, ~ InUse(i)'
                 PROVE  \A w \in Terms : index'[w][i] =
                           Cardinality({k \in DOMAIN Text(i)' : Text(i)'[k] = w})
      BY DEF CountsExact
    <2>1. ~ InUse(i)
      BY <1>1, BeginUses
    <2> QED
      BY <1>1, <2>1, CountsStay DEF CountInvariant
  <1> QED
    BY <1>3, <1>4 DEF CountInvariant

LEMMA PushTermCounts ==
    ASSUME TypeOK, IndexInvariant, CountInvariant, NEW t \in Threads, PushTerm(t)
    PROVE  CountInvariant'
  <1> DEFINE word == terms[t][at[t]]
  <1>1. /\ pc[t] = "insert" /\ at[t] \in DOMAIN terms[t]
        /\ at' = [at EXCEPT ![t] = @ + 1]
        /\ UNCHANGED <<doc_terms, pc, row_id, terms>>
    BY DEF PushTerm
  <1>2. row_id[t] \in RowIds /\ word \in Terms
    BY <1>1, RowOfCall, TextElements DEF TypeOK
  <1>3. \A w \in Terms : index'[w][row_id[t]] =
                            index[w][row_id[t]] + IF word = w THEN 1 ELSE 0
    BY <1>2 DEF PushTerm, TypeOK
  <1>4. \A w \in Terms, id \in RowIds \ {row_id[t]} : index'[w][id] = index[w][id]
    BY <1>2 DEF PushTerm, TypeOK
  <1>5. HalfCounted'
    <2> SUFFICES ASSUME NEW u \in Threads, pc'[u] = "insert"
                 PROVE  \A w \in Terms : index'[w][row_id'[u]] =
                           Cardinality(PlacesBefore(terms'[u], w, at'[u]))
      BY DEF HalfCounted
    <2>1. CASE u = t
      <3> TAKE w \in Terms
      <3>1. index[w][row_id[t]] = Cardinality(PlacesBefore(terms[t], w, at[t]))
        BY <1>1 DEF CountInvariant, HalfCounted
      <3>2. terms[t] \in Seq(Terms) /\ at[t] \in Nat \ {0}
        BY DEF TypeOK
      <3>3. Cardinality(PlacesBefore(terms[t], w, at[t] + 1)) =
               Cardinality(PlacesBefore(terms[t], w, at[t])) + IF word = w THEN 1 ELSE 0
        BY <1>1, <3>2, PlacesCount
      <3>4. row_id'[t] = row_id[t] /\ terms'[t] = terms[t] /\ at'[t] = at[t] + 1
        BY <1>1 DEF TypeOK
      <3> QED
        BY <1>3, <2>1, <3>1, <3>3, <3>4
    <2>2. CASE u # t
      <3>1. /\ pc[u] = "insert" /\ row_id'[u] = row_id[u]
            /\ terms'[u] = terms[u] /\ at'[u] = at[u]
        BY <1>1, <2>2 DEF TypeOK
      <3>2. row_id[u] \in RowIds \ {row_id[t]}
        BY <1>1, <2>2, <3>1, OthersUntouched DEF IndexInvariant
      <3> QED
        BY <1>4, <3>1, <3>2, HalfStays DEF CountInvariant
    <2> QED
      BY <2>1, <2>2
  <1>6. CountsExact'
    <2> SUFFICES ASSUME NEW i \in RowIds, ~ InUse(i)'
                 PROVE  \A w \in Terms : index'[w][i] =
                           Cardinality({k \in DOMAIN Text(i)' : Text(i)'[k] = w})
      BY DEF CountsExact
    <2>1. ~ InUse(i) /\ i # row_id[t]
      BY <1>1 DEF InUse
    <2> QED
      BY <1>1, <1>4, <2>1, CountsStay DEF CountInvariant
  <1> QED
    BY <1>5, <1>6 DEF CountInvariant

LEMMA RecordTermsCounts ==
    ASSUME TypeOK, IndexInvariant, CountInvariant, NEW t \in Threads, RecordTerms(t)
    PROVE  CountInvariant'
  <1>1. /\ pc[t] = "insert" /\ at[t] \notin DOMAIN terms[t] /\ Return(t)
        /\ doc_terms' = [doc_terms EXCEPT ![row_id[t]] = terms[t]]
        /\ index' = index
    BY DEF RecordTerms
  <1>2. row_id[t] \in RowIds /\ terms[t] \in Seq(Terms) /\ terms[t] # NONE
        /\ at[t] \in Nat \ {0}
    BY <1>1, RowOfCall, NoneAssumption DEF TypeOK
  <1>3. HalfCounted'
    <2> SUFFICES ASSUME NEW u \in Threads, pc'[u] = "insert"
                 PROVE  \A w \in Terms : index'[w][row_id'[u]] =
                           Cardinality(PlacesBefore(terms'[u], w, at'[u]))
      BY DEF HalfCounted
    <2>1. u # t /\ pc[u] = "insert" /\ row_id'[u] = row_id[u]
          /\ terms'[u] = terms[u] /\ at'[u] = at[u]
      BY <1>1, ReturnFrees DEF IndexInvariant
    <2> QED
      BY <1>1, <2>1, HalfStays DEF CountInvariant
  <1>4. CountsExact'
    <2> SUFFICES ASSUME NEW i \in RowIds, ~ InUse(i)'
                 PROVE  \A w \in Terms : index'[w][i] =
                           Cardinality({k \in DOMAIN Text(i)' : Text(i)'[k] = w})
      BY DEF CountsExact
    <2>1. CASE i = row_id[t]
      <3> TAKE w \in Terms
      <3>1. index[w][i] = Cardinality(PlacesBefore(terms[t], w, at[t]))
        BY <1>1, <2>1 DEF CountInvariant, HalfCounted
      <3>2. PlacesBefore(terms[t], w, at[t]) = {k \in DOMAIN terms[t] : terms[t][k] = w}
        BY <1>1, <1>2, PlacesCount
      <3>3. Text(i)' = terms[t]
        BY <1>1, <1>2, <2>1 DEF Text, TypeOK
      <3> QED
        BY <1>1, <3>1, <3>2, <3>3
    <2>2. CASE i # row_id[t]
      <3>1. ~ InUse(i) /\ doc_terms'[i] = doc_terms[i]
        BY <1>1, <2>2, ReturnFrees DEF IndexInvariant, TypeOK
      <3> QED
        BY <1>1, <3>1, CountsStay DEF CountInvariant
    <2> QED
      BY <2>1, <2>2
  <1> QED
    BY <1>3, <1>4 DEF CountInvariant

LEMMA TakeTermsCounts ==
    ASSUME Exclusive, TypeOK, IndexInvariant, CountInvariant, NEW t \in Threads,
           NEW id \in RowIds, TakeTerms(t, id)
    PROVE  CountInvariant'
  <1>1. /\ pc[t] = "idle" /\ ~ InUse(id)
        /\ doc_terms' = [doc_terms EXCEPT ![id] = NONE]
        /\ Call(t, "delete", id, doc_terms[id])
        /\ index' = index
    BY DEF TakeTerms
  <1>2. HalfCounted'
    <2> SUFFICES ASSUME NEW u \in Threads, pc'[u] = "insert"
                 PROVE  \A w \in Terms : index'[w][row_id'[u]] =
                           Cardinality(PlacesBefore(terms'[u], w, at'[u]))
      BY DEF HalfCounted
    <2>1. pc[u] = "insert" /\ row_id'[u] = row_id[u]
          /\ terms'[u] = terms[u] /\ at'[u] = at[u]
      BY <1>1, BeginUses
    <2> QED
      BY <1>1, <2>1, HalfStays DEF CountInvariant
  <1>3. CountsExact'
    <2> SUFFICES ASSUME NEW i \in RowIds, ~ InUse(i)'
                 PROVE  \A w \in Terms : index'[w][i] =
                           Cardinality({k \in DOMAIN Text(i)' : Text(i)'[k] = w})
      BY DEF CountsExact
    <2>1. ~ InUse(i) /\ i # id
      BY <1>1, BeginUses
    <2>2. doc_terms'[i] = doc_terms[i]
      BY <1>1, <2>1 DEF TypeOK
    <2> QED
      BY <1>1, <2>1, <2>2, CountsStay DEF CountInvariant
  <1> QED
    BY <1>2, <1>3 DEF CountInvariant

LEMMA PurgeTermsCounts ==
    ASSUME TypeOK, IndexInvariant, CountInvariant, NEW t \in Threads, PurgeTerms(t)
    PROVE  CountInvariant'
  <1>1. pc[t] = "delete" /\ Return(t) /\ doc_terms' = doc_terms
    BY DEF PurgeTerms
  <1>2. row_id[t] \in RowIds /\ doc_terms[row_id[t]] = NONE
    BY <1>1, RowOfCall DEF IndexInvariant, CallsExclusive
  <1>3. \A w \in Terms, id \in RowIds \ {row_id[t]} : index'[w][id] = index[w][id]
    BY <1>2 DEF PurgeTerms, TypeOK
  <1>4. \A w \in Terms : index'[w][row_id[t]] = 0
    <2> TAKE w \in Terms
    <2>1. CASE w \in ToSet(terms[t])
      BY <1>2, <2>1 DEF PurgeTerms, TypeOK
    <2>2. CASE w \notin ToSet(terms[t])
      <3>1. index'[w] = index[w]
        BY <2>2 DEF PurgeTerms
      <3>2. ~ index[w][row_id[t]] > 0
        BY <1>1, <2>2 DEF IndexInvariant, HalfDeleted, Lists
      <3> QED
        BY <1>2, <3>1, <3>2 DEF TypeOK
    <2> QED
      BY <2>1, <2>2
  <1>5. HalfCounted'
    <2> SUFFICES ASSUME NEW u \in Threads, pc'[u] = "insert"
                 PROVE  \A w \in Terms : index'[w][row_id'[u]] =
                           Cardinality(PlacesBefore(terms'[u], w, at'[u]))
      BY DEF HalfCounted
    <2>1. u # t /\ pc[u] = "insert" /\ row_id'[u] = row_id[u]
          /\ terms'[u] = terms[u] /\ at'[u] = at[u]
      BY <1>1, ReturnFrees DEF IndexInvariant
    <2>2. row_id[u] \in RowIds \ {row_id[t]}
      BY <1>1, <2>1, OthersUntouched DEF IndexInvariant
    <2> QED
      BY <1>3, <2>1, <2>2, HalfStays DEF CountInvariant
  <1>6. CountsExact'
    <2> SUFFICES ASSUME NEW i \in RowIds, ~ InUse(i)'
                 PROVE  \A w \in Terms : index'[w][i] =
                           Cardinality({k \in DOMAIN Text(i)' : Text(i)'[k] = w})
      BY DEF CountsExact
    <2>1. CASE i = row_id[t]
      <3>1. Text(i)' = <<>>
        BY <1>1, <1>2, <2>1 DEF Text
      <3>2. \A w \in Terms : {k \in DOMAIN Text(i)' : Text(i)'[k] = w} = {}
        BY <3>1, EmptySeq
      <3> QED
        BY <1>4, <2>1, <3>2, FS_EmptySet
    <2>2. CASE i # row_id[t]
      <3>1. ~ InUse(i)
        BY <1>1, <2>2, ReturnFrees DEF IndexInvariant
      <3> QED
        BY <1>1, <1>3, <2>2, <3>1, CountsStay DEF CountInvariant
    <2> QED
      BY <2>1, <2>2
  <1> QED
    BY <1>5, <1>6 DEF CountInvariant

(* A list has a row exactly as often as its text has the term.             *)
THEOREM CountsCorrect == ASSUME Exclusive PROVE Spec => []CountInvariant
  <1>1. Init => CountInvariant
    <2> SUFFICES ASSUME Init PROVE CountInvariant
      OBVIOUS
    <2>1. HalfCounted
      BY DEF Init, HalfCounted
    <2>2. CountsExact
      <3> SUFFICES ASSUME NEW id \in RowIds, NEW w \in Terms
                   PROVE  index[w][id] = Cardinality({i \in DOMAIN Text(id) : Text(id)[i] = w})
        BY DEF CountsExact
      <3>1. Text(id) = <<>> /\ index[w][id] = 0
        BY DEF Init, Text
      <3>2. {i \in DOMAIN Text(id) : Text(id)[i] = w} = {}
        BY <3>1, EmptySeq
      <3> QED
        BY <3>1, <3>2, FS_EmptySet
    <2> QED
      BY <2>1, <2>2 DEF CountInvariant
  <1>2. TypeOK /\ IndexInvariant /\ CountInvariant /\ [Next]_vars => CountInvariant'
    <2> SUFFICES ASSUME TypeOK, IndexInvariant, CountInvariant, [Next]_vars
                 PROVE  CountInvariant'
      OBVIOUS
    <2>1. CASE UNCHANGED vars
      BY <2>1 DEF vars, CountInvariant, HalfCounted, CountsExact, InUse, Text
    <2> QED
      BY <2>1, BeginInsertCounts, PushTermCounts, RecordTermsCounts,
         TakeTermsCounts, PurgeTermsCounts DEF Next
  <1> QED
    BY <1>1, <1>2, TypeCorrect, IndexCorrect, PTL DEF Spec

-----------------------------------------------------------------------------
(* Searches.                                                               *)

(* For a term, the places where a row's text has it. *)
PlacesOf(w, id) == {i \in DOMAIN Text(id) : Text(id)[i] = w}

LEMMA TextType ==
    ASSUME TypeOK, NEW id \in RowIds PROVE Text(id) \in Seq(Terms)
  BY EmptySeq DEF Text, TypeOK

(* The pairs of a place in the query and a place in a row's text that have *)
(* the same term.                                                          *)
Matches(query, id) ==
    {p \in (DOMAIN query) \X (DOMAIN Text(id)) : query[p[1]] = Text(id)[p[2]]}

Occurrences(query, id) == Cardinality(Matches(query, id))

(* The entries of the lists a query meets and the pairs of equal terms are *)
(* as many: the k-th entry goes with the k-th place of the term.           *)
LEMMA EntriesAreMatches ==
    ASSUME TypeOK, CountsExact, NEW id \in RowIds, ~ InUse(id), NEW query \in Seq(Terms)
    PROVE  Count(query, id) = Occurrences(query, id) /\ Count(query, id) \in Nat
  <1>1. Text(id) \in Seq(Terms)
    BY TextType
  <1>2. /\ IsFiniteSet(DOMAIN query) /\ IsFiniteSet(DOMAIN Text(id))
        /\ \A i \in DOMAIN query : query[i] \in Terms
    BY <1>1, TextElements, FS_Interval
  <1>3. IsFiniteSet(Matches(query, id))
    <2>1. IsFiniteSet((DOMAIN query) \X (DOMAIN Text(id)))
      BY <1>2, FS_Product
    <2> QED
      BY <2>1, FS_Subset DEF Matches
  <1>4. ASSUME NEW w \in Terms
        PROVE  Bijection(1..index[w][id], PlacesOf(w, id)) # {}
    <2>1. IsFiniteSet(PlacesOf(w, id))
      BY <1>2, FS_Subset DEF PlacesOf
    <2>2. index[w][id] = Cardinality(PlacesOf(w, id))
      BY DEF CountsExact, PlacesOf
    <2>3. ExistsBijection(1..index[w][id], PlacesOf(w, id))
      BY <2>1, <2>2, FS_CardinalityType
    <2> QED
      BY <2>3, Fun_ExistsBij
  <1> DEFINE place == [w \in Terms |-> CHOOSE f : f \in Bijection(1..index[w][id], PlacesOf(w, id))]
  <1>5. ASSUME NEW w \in Terms
        PROVE  /\ place[w] \in [1..index[w][id] -> PlacesOf(w, id)]
               /\ \A j, k \in 1..index[w][id] : place[w][j] = place[w][k] => j = k
               /\ \A i \in PlacesOf(w, id) : \E k \in 1..index[w][id] : place[w][k] = i
    <2>1. place[w] \in Bijection(1..index[w][id], PlacesOf(w, id))
      BY <1>4
    <2> QED
      BY <2>1 DEF Bijection, Injection, Surjection, IsInjective
  <1> HIDE DEF place
  <1> DEFINE E == Entries(query, id)
             pair == [e \in E |-> <<e[1], place[query[e[1]]][e[2]]>>]
  <1>6. \A e : e \in E <=> \E i \in DOMAIN query : \E k \in 1..index[query[i]][id] : e = <<i, k>>
    BY DEF Entries
  <1>7. \A m : m \in Matches(query, id) <=>
           \E i \in DOMAIN query : \E k \in PlacesOf(query[i], id) : m = <<i, k>>
    <2>1. \A m : m \in Matches(query, id) <=>
             /\ m \in (DOMAIN query) \X (DOMAIN Text(id))
             /\ query[m[1]] = Text(id)[m[2]]
      BY DEF Matches
    <2> QED
      BY <2>1 DEF PlacesOf
  <1> HIDE DEF E
  <1>8. ASSUME NEW e \in E
        PROVE  /\ e = <<e[1], e[2]>> /\ e[1] \in DOMAIN query
               /\ query[e[1]] \in Terms
               /\ e[2] \in 1..index[query[e[1]]][id]
    BY <1>2, <1>6
  <1>9. ASSUME NEW e \in E PROVE pair[e] \in Matches(query, id)
    <2>1. place[query[e[1]]][e[2]] \in PlacesOf(query[e[1]], id)
      <3>1. PICK w \in Terms : w = query[e[1]]
        BY <1>8
      <3>2. place[w] \in [1..index[w][id] -> PlacesOf(w, id)] /\ e[2] \in 1..index[w][id]
        BY <1>5, <1>8, <3>1
      <3>3. place[w][e[2]] \in PlacesOf(w, id)
        BY <3>2
      <3> QED
        BY <3>1, <3>3 DEF PlacesOf
    <2> QED
      BY <1>7, <1>8, <2>1
  <1>10. ASSUME NEW d \in E, NEW e \in E, pair[d] = pair[e] PROVE d = e
    <2>1. d[1] = e[1] /\ place[query[d[1]]][d[2]] = place[query[e[1]]][e[2]]
      BY <1>10
    <2>2. place[query[d[1]]][d[2]] = place[query[d[1]]][e[2]]
      BY <2>1
    <2>3. d[2] = e[2]
      BY <1>5, <1>8, <2>1, <2>2
    <2> QED
      BY <1>8, <2>1, <2>3
  <1>11. ASSUME NEW m \in Matches(query, id) PROVE \E e \in E : pair[e] = m
    <2>1. PICK i \in DOMAIN query : \E p \in PlacesOf(query[i], id) : m = <<i, p>>
      BY <1>7
    <2>2. PICK p \in PlacesOf(query[i], id) : m = <<i, p>>
      BY <2>1
    <2>3. PICK k \in 1..index[query[i]][id] : place[query[i]][k] = p
      BY <1>2, <1>5
    <2>4. <<i, k>> \in E
      BY <1>6
    <2>5. pair[<<i, k>>] = m
      BY <2>2, <2>3, <2>4
    <2> QED
      BY <2>4, <2>5
  <1>12. pair \in Bijection(E, Matches(query, id))
    <2>1. pair \in [E -> Matches(query, id)]
      BY <1>9
    <2> HIDE DEF pair
    <2> QED
      BY <1>10, <1>11, <2>1, Fun_IsBij
  <1>13. ExistsBijection(Matches(query, id), E)
    BY <1>12, Fun_ExistsBij, Fun_ExistsBijSymmetric
  <1>14. Cardinality(E) = Cardinality(Matches(query, id))
    BY <1>3, <1>13, FS_Bijection
  <1>15. Cardinality(Matches(query, id)) \in Nat
    BY <1>3, FS_CardinalityType
  <1> QED
    BY <1>14, <1>15 DEF Count, Occurrences, E

(* With room for every row a search answers with one of the orders of what *)
(* it found, whole.                                                        *)
LEMMA SearchWhole ==
    ASSUME NEW query, NEW answer \in Search(query, Cardinality(RowIds))
    PROVE  /\ answer \in SetToSeqs(Found(query))
           /\ \A i, j \in DOMAIN answer :
                 i < j => Count(query, answer[i]) >= Count(query, answer[j])
  <1>1. PICK order \in SetToSeqs(Found(query)) :
           /\ \A i, j \in DOMAIN order :
                 i < j => Count(query, order[i]) >= Count(query, order[j])
           /\ answer = SubSeq(order, 1, IF Cardinality(RowIds) < Len(order)
                                        THEN Cardinality(RowIds) ELSE Len(order))
    BY DEF Search
  <1>2. /\ IsFiniteSet(Found(query)) /\ Cardinality(Found(query)) \in Nat
        /\ Cardinality(RowIds) \in Nat /\ Cardinality(Found(query)) <= Cardinality(RowIds)
    BY RowsAssumption, FS_Subset, FS_CardinalityType DEF Found
  <1>3. order \in [1..Cardinality(Found(query)) -> Found(query)]
    BY <1>1 DEF SetToSeqs
  <1>4. order \in Seq(Found(query)) /\ Len(order) = Cardinality(Found(query))
    BY <1>2, <1>3
  <1>5. answer = SubSeq(order, 1, Len(order))
    BY <1>1, <1>2, <1>4
  <1>6. answer = order
    BY <1>4, <1>5, SubSeqFull
  <1> QED
    BY <1>1, <1>6

(* An order of a set has each of its elements once.                        *)
LEMMA OrderOfSet ==
    ASSUME NEW S, IsFiniteSet(S), NEW order \in SetToSeqs(S)
    PROVE  IsInjective(order) /\ ToSet(order) = S
  <1>1. order \in [1..Cardinality(S) -> S]
        /\ \A i, j \in 1..Cardinality(S) : i # j => order[i] # order[j]
    BY DEF SetToSeqs
  <1>2. order \in Injection(1..Cardinality(S), S) /\ IsInjective(order)
    BY <1>1 DEF Injection, IsInjective
  <1>3. Cardinality(S) \in Nat /\ Cardinality(1..Cardinality(S)) = Cardinality(S)
    BY FS_CardinalityType, FS_Interval
  <1>4. order \in Surjection(1..Cardinality(S), S)
    BY <1>2, <1>3, FS_Injection
  <1>5. ToSet(order) = S
    BY <1>1, <1>4 DEF Surjection, ToSet
  <1> QED
    BY <1>2, <1>5

(* Some term occurs in a text and in the query if there is a matching one; *)
(* where no term is repeated, occurrences are as many as matching terms.   *)
LEMMA OccurrencesMatch ==
    ASSUME TypeOK, NEW id \in RowIds, NEW query \in Seq(Terms)
    PROVE  /\ Occurrences(query, id) > 0 <=> MatchingTerms(query, id) # {}
           /\ IsInjective(query) /\ IsInjective(Text(id)) =>
                 Occurrences(query, id) = Cardinality(MatchingTerms(query, id))
  <1> DEFINE text == Text(id)
             M    == Matches(query, id)
             W    == MatchingTerms(query, id)
             term == [m \in M |-> query[m[1]]]
  <1>1. text \in Seq(Terms)
    BY TextType
  <1>2. IsFiniteSet(M)
    <2>1. IsFiniteSet(DOMAIN query) /\ IsFiniteSet(DOMAIN text)
      BY <1>1, TextElements, FS_Interval
    <2>2. IsFiniteSet((DOMAIN query) \X (DOMAIN text))
      BY <2>1, FS_Product
    <2> QED
      BY <2>2, FS_Subset DEF Matches
  <1>3. \A m : m \in M <=> /\ m \in (DOMAIN query) \X (DOMAIN text)
                         /\ query[m[1]] = text[m[2]]
    BY DEF Matches
  <1>4. \A w : w \in W <=> /\ \E i \in DOMAIN query : query[i] = w
                         /\ \E k \in DOMAIN text : text[k] = w
    BY DEF MatchingTerms, ToSet
  <1> HIDE DEF text, M, W
  <1>5. \A m \in M : m[1] \in DOMAIN query /\ m[2] \in DOMAIN text /\ m = <<m[1], m[2]>>
                     /\ query[m[1]] = text[m[2]]
    BY <1>3
  <1>6. term \in [M -> W]
    BY <1>4, <1>5
  <1>7. ASSUME NEW w \in W PROVE \E m \in M : term[m] = w
    <2>1. PICK i \in DOMAIN query : query[i] = w
      BY <1>4
    <2>2. PICK k \in DOMAIN text : text[k] = w
      BY <1>4
    <2>3. <<i, k>> \in M
      BY <1>3, <2>1, <2>2
    <2> QED
      BY <2>1, <2>3
  <1>8. Cardinality(M) > 0 <=> W # {}
    <2>1. Cardinality(M) \in Nat /\ (Cardinality(M) = 0 <=> M = {})
      BY <1>2, FS_CardinalityType, FS_EmptySet
    <2>2. M # {} <=> W # {}
      BY <1>6, <1>7
    <2> QED
      BY <2>1, <2>2
  <1>9. ASSUME IsInjective(query), IsInjective(text) PROVE Cardinality(M) = Cardinality(W)
    <2>1. ASSUME NEW m \in M, NEW n \in M, term[m] = term[n] PROVE m = n
      <3>1. query[m[1]] = query[n[1]] /\ text[m[2]] = text[n[2]]
        BY <1>5, <2>1
      <3>2. m[1] = n[1] /\ m[2] = n[2]
        BY <1>5, <1>9, <3>1 DEF IsInjective
      <3> QED
        BY <1>5, <3>2
    <2> HIDE DEF term
    <2>2. term \in Bijection(M, W)
      BY <1>6, <1>7, <2>1, Fun_IsBij
    <2>3. ExistsBijection(M, W)
      BY <2>2, Fun_ExistsBij
    <2> QED
      BY <1>2, <2>3, FS_Bijection
  <1> QED
    BY <1>8, <1>9 DEF Occurrences, text, M, W

(* A search returns exactly the rows whose text has a term of the query,   *)
(* each once, whatever other calls are at work on other rows; those with   *)
(* the most matching terms come first, where no term is repeated.          *)
THEOREM SearchCorrect == ASSUME Exclusive PROVE Spec => []SearchRanks
  <1>1. TypeOK /\ CountInvariant => SearchRanks
    <2> SUFFICES ASSUME TypeOK, CountInvariant, NEW query \in Texts,
                        NEW answer \in Search(query, Cardinality(RowIds))
                 PROVE  /\ IsInjective(answer)
                        /\ \A id \in RowIds : ~ InUse(id) =>
                              (id \in ToSet(answer) <=> MatchingTerms(query, id) # {})
                        /\ \A i, j \in DOMAIN answer :
                              /\ i < j /\ ~ InUse(answer[i]) /\ ~ InUse(answer[j])
                              /\ \A text \in {query, Text(answer[i]), Text(answer[j])} :
                                     IsInjective(text)
                              => Cardinality(MatchingTerms(query, answer[i]))
                                   >= Cardinality(MatchingTerms(query, answer[j]))
      BY DEF SearchRanks
    <2>1. \A id \in RowIds : ~ InUse(id) => Count(query, id) = Occurrences(query, id)
      BY TextsAssumption, EntriesAreMatches DEF CountInvariant
    <2>2. /\ answer \in SetToSeqs(Found(query))
          /\ \A i, j \in DOMAIN answer :
                i < j => Count(query, answer[i]) >= Count(query, answer[j])
      BY SearchWhole
    <2>3. IsFiniteSet(Found(query))
      BY RowsAssumption, FS_Subset DEF Found
    <2>4. IsInjective(answer) /\ ToSet(answer) = Found(query)
      BY <2>2, <2>3, OrderOfSet
    <2>5. \A id \in RowIds :
             /\ Occurrences(query, id) > 0 <=> MatchingTerms(query, id) # {}
             /\ IsInjective(query) /\ IsInjective(Text(id)) =>
                   Occurrences(query, id) = Cardinality(MatchingTerms(query, id))
      BY TextsAssumption, OccurrencesMatch
    <2>6. ASSUME NEW id \in RowIds, ~ InUse(id)
          PROVE  id \in ToSet(answer) <=> MatchingTerms(query, id) # {}
      <3>1. id \in ToSet(answer) <=> Occurrences(query, id) > 0
        BY <2>1, <2>4, <2>6 DEF Found
      <3> QED
        BY <2>5, <3>1
    <2>7. ASSUME NEW i \in DOMAIN answer, NEW j \in DOMAIN answer, i < j,
                 ~ InUse(answer[i]), ~ InUse(answer[j]),
                 \A text \in {query, Text(answer[i]), Text(answer[j])} : IsInjective(text)
          PROVE  Cardinality(MatchingTerms(query, answer[i]))
                   >= Cardinality(MatchingTerms(query, answer[j]))
      <3>1. answer[i] \in RowIds /\ answer[j] \in RowIds
        BY <2>4 DEF ToSet, Found
      <3>2. Occurrences(query, answer[i]) >= Occurrences(query, answer[j])
        BY <2>1, <2>2, <2>7, <3>1
      <3> QED
        BY <2>5, <2>7, <3>1, <3>2
    <2> QED
      BY <2>4, <2>6, <2>7
  <1> QED
    BY <1>1, TypeCorrect, CountsCorrect, PTL

-----------------------------------------------------------------------------
(* The vector index. *)

(* A finite set with a strict order can be listed in that order: the place *)
(* of an element is the number of those up to it.                          *)
LEMMA OrderedList ==
    ASSUME NEW S, IsFiniteSet(S), NEW R,
           \A x, y \in S : x # y => <<x, y>> \in R \/ <<y, x>> \in R,
           \A x \in S : <<x, x>> \notin R,
           \A x, y, z \in S : <<x, y>> \in R /\ <<y, z>> \in R => <<x, z>> \in R
    PROVE  \E s \in SetToSeqs(S) : \A i, j \in DOMAIN s : i < j => <<s[i], s[j]>> \in R
  <1> DEFINE n == Cardinality(S)
             upTo(x) == {y \in S : y = x \/ <<y, x>> \in R}
             rank == [x \in S |-> Cardinality(upTo(x))]
  <1>1. n \in Nat
    BY FS_CardinalityType
  <1>2. \A x \in S : IsFiniteSet(upTo(x)) /\ x \in upTo(x) /\ upTo(x) \in SUBSET S
    BY FS_Subset
  <1>3. ASSUME NEW x \in S PROVE rank[x] \in 1..n
    <2>1. rank[x] \in Nat /\ rank[x] <= n
      BY <1>2, FS_CardinalityType, FS_Subset
    <2>2. rank[x] # 0
      BY <1>2, FS_EmptySet
    <2> QED
      BY <1>1, <2>1, <2>2
  <1>4. ASSUME NEW x \in S, NEW y \in S, <<x, y>> \in R PROVE rank[x] < rank[y]
    <2>1. upTo(x) \in SUBSET upTo(y)
      BY <1>4
    <2>2. y \notin upTo(x)
      BY <1>4
    <2>3. y \in upTo(y)
      OBVIOUS
    <2>4. /\ Cardinality(upTo(x)) <= Cardinality(upTo(y))
          /\ Cardinality(upTo(x)) # Cardinality(upTo(y))
      BY <1>2, <2>1, <2>2, <2>3, FS_Subset
    <2>5. rank[x] = Cardinality(upTo(x)) /\ rank[y] = Cardinality(upTo(y))
      OBVIOUS
    <2>6. rank[x] \in 1..n /\ rank[y] \in 1..n
      BY <1>3
    <2> HIDE DEF rank, upTo, n
    <2> QED
      BY <1>1, <2>4, <2>5, <2>6
  <1> HIDE DEF rank, upTo
  <1>5. rank \in Injection(S, 1..n)
    <2>1. rank \in [S -> 1..n]
      BY <1>3 DEF rank
    <2>2. \A x, y \in S : rank[x] = rank[y] => x = y
      <3> SUFFICES ASSUME NEW x \in S, NEW y \in S, x # y PROVE rank[x] # rank[y]
        OBVIOUS
      <3>1. rank[x] \in 1..n /\ rank[y] \in 1..n
        BY <1>3
      <3>2. rank[x] < rank[y] \/ rank[y] < rank[x]
        BY <1>4
      <3> HIDE DEF n
      <3> QED
        BY <1>1, <3>1, <3>2
    <2> QED
      BY <2>1, <2>2 DEF Injection, IsInjective
  <1>6. rank \in Surjection(S, 1..n)
    <2>1. IsFiniteSet(1..n) /\ Cardinality(1..n) = n
      BY <1>1, FS_Interval
    <2> QED
      BY <1>5, <2>1, FS_Injection
  <1> DEFINE s == [k \in 1..n |-> CHOOSE x \in S : rank[x] = k]
  <1>7. ASSUME NEW k \in 1..n PROVE s[k] \in S /\ rank[s[k]] = k
    <2>1. \E x \in S : rank[x] = k
      BY <1>6 DEF Surjection
    <2> QED
      BY <2>1
  <1> HIDE DEF s
  <1>8. DOMAIN s = 1..n /\ s \in [1..n -> S]
    BY <1>7 DEF s
  <1>9. \A i, j \in 1..n : i # j => s[i] # s[j]
    BY <1>7
  <1>10. s \in SetToSeqs(S)
    BY <1>8, <1>9 DEF SetToSeqs
  <1>11. ASSUME NEW i \in 1..n, NEW j \in 1..n, i < j PROVE <<s[i], s[j]>> \in R
    <2>1. s[i] # s[j] /\ s[i] \in S /\ s[j] \in S /\ rank[s[i]] = i /\ rank[s[j]] = j
      BY <1>7, <1>9, <1>11
    <2>2. <<s[j], s[i]>> \in R => j < i
      BY <1>4, <2>1
    <2> QED
      BY <1>1, <1>11, <2>1, <2>2
  <1> QED
    BY <1>8, <1>10, <1>11

(* A list of all elements of a finite set leaves none out. *)
LEMMA ListsAll ==
    ASSUME NEW S, IsFiniteSet(S), NEW s \in SetToSeqs(S)
    PROVE  /\ DOMAIN s = 1..Cardinality(S) /\ Cardinality(S) \in Nat
           /\ \A k \in DOMAIN s : s[k] \in S
           /\ \A x \in S : \E k \in DOMAIN s : s[k] = x
           /\ \A k, l \in DOMAIN s : s[k] = s[l] => k = l
  <1> DEFINE n == Cardinality(S)
  <1>1. n \in Nat /\ IsFiniteSet(1..n) /\ Cardinality(1..n) = n
    BY FS_CardinalityType, FS_Interval
  <1>2. s \in [1..n -> S] /\ \A k, l \in 1..n : s[k] = s[l] => k = l
    BY DEF SetToSeqs
  <1>3. s \in Injection(1..n, S)
    BY <1>2 DEF Injection, IsInjective
  <1>4. s \in Surjection(1..n, S)
    BY <1>1, <1>3, FS_Injection
  <1> QED
    BY <1>1, <1>2, <1>4 DEF Surjection

(* In such a list the elements up to one are as many as its place.         *)
LEMMA PlaceCounts ==
    ASSUME NEW S, IsFiniteSet(S), NEW s \in SetToSeqs(S), NEW k \in 0..Cardinality(S)
    PROVE  Cardinality({s[l] : l \in 1..k}) = k
  <1> DEFINE n == Cardinality(S)
             part == [l \in 1..k |-> s[l]]
             image == {s[l] : l \in 1..k}
  <1>1. n \in Nat /\ k \in Nat /\ k <= n
    BY FS_CardinalityType
  <1>2. \A l \in 1..k : l \in 1..n
    BY <1>1
  <1>3. \A l, m \in 1..k : s[l] = s[m] => l = m
    BY <1>2 DEF SetToSeqs
  <1>4. part \in Bijection(1..k, image)
    <2>1. part \in [1..k -> image]
      OBVIOUS
    <2> QED
      BY <1>3, <2>1, Fun_IsBij
  <1>5. IsFiniteSet(1..k) /\ Cardinality(1..k) = k
    BY <1>1, FS_Interval
  <1>6. ExistsBijection(1..k, image)
    BY <1>4, Fun_ExistsBij
  <1>7. Cardinality(1..k) = Cardinality(image)
    BY <1>5, <1>6, FS_Bijection
  <1> QED
    BY <1>5, <1>7

(* A set of numbers has a smallest one. *)
LEMMA Smallest ==
    ASSUME NEW S \in SUBSET Nat, S # {}
    PROVE  \E n \in S : \A m \in S : n <= m
  <1> DEFINE R == OpToRel(<, Nat)
  <1>1. IsWellFoundedOn(R, Nat)
    BY NatLessThanWellFounded
  <1>2. PICK n \in S : \A m \in S : ~ (<<m, n>> \in R)
    <2> HIDE DEF R
    <2> QED
      BY <1>1, WFMin
  <1>3. ASSUME NEW m \in S PROVE n <= m
    <2>1. ~ (m < n)
      BY <1>2 DEF OpToRel
    <2> QED
      BY <2>1
  <1> QED
    BY <1>3

(* The sums of the first terms of a sequence of integers exist. *)
LEMMA SumsExist ==
    ASSUME NEW N \in Nat, NEW term \in [1..N -> Int]
    PROVE  \E g \in [0..N -> Int] : g[0] = 0 /\ \A i \in 1..N : g[i] = g[i - 1] + term[i]
  <1> DEFINE Sums(n, g) == g[0] = 0 /\ \A i \in 1..n : g[i] = g[i - 1] + term[i]
             Missing == {n \in 0..N : ~ \E g \in [0..n -> Int] : Sums(n, g)}
  <1> SUFFICES ASSUME N \in Missing PROVE FALSE
    OBVIOUS
  <1>1. PICK n \in Missing : \A m \in Missing : n <= m
    <2>1. Missing \subseteq Nat
      OBVIOUS
    <2> HIDE DEF Missing
    <2> QED
      BY <2>1, Smallest
  <1>2. n \in 0..N /\ n \in Nat
    OBVIOUS
  <1>3. n # 0
    <2>1. [i \in 0..0 |-> 0] \in [0..0 -> Int] /\ Sums(0, [i \in 0..0 |-> 0])
      OBVIOUS
    <2> QED
      BY <2>1
  <1>4. n - 1 \in 0..N /\ n - 1 \in Nat
    BY <1>2, <1>3
  <1>5. n - 1 \notin Missing
    <2> HIDE DEF Missing
    <2> QED
      BY <1>1, <1>4
  <1>6. PICK g \in [0..n - 1 -> Int] : Sums(n - 1, g)
    BY <1>4, <1>5
  <1> DEFINE h == [i \in 0..n |-> IF i = n THEN g[n - 1] + term[n] ELSE g[i]]
  <1>7. n \in 1..N /\ term[n] \in Int /\ g[n - 1] \in Int
    BY <1>2, <1>3, <1>4, <1>6
  <1>8. h \in [0..n -> Int]
    <2>1. ASSUME NEW i \in 0..n, i # n PROVE g[i] \in Int
      BY <1>2, <1>6, <2>1
    <2> QED
      BY <1>7, <2>1
  <1>9. h[0] = 0
    BY <1>2, <1>3, <1>6
  <1>10. ASSUME NEW i \in 1..n PROVE h[i] = h[i - 1] + term[i]
    <2>1. i - 1 \in 0..n /\ i - 1 # n /\ i \in 0..n
      BY <1>2
    <2>2. h[i - 1] = g[i - 1]
      BY <2>1
    <2>3. CASE i = n
      BY <2>1, <2>2, <2>3
    <2>4. CASE i # n
      <3>1. i \in 1..n - 1
        BY <1>2, <2>4
      <3>2. g[i] = g[i - 1] + term[i]
        BY <1>6, <3>1
      <3> QED
        BY <2>1, <2>2, <2>4, <3>2
    <2> QED
      BY <2>3, <2>4
  <1>11. Sums(n, h)
    BY <1>9, <1>10
  <1> QED
    BY <1>1, <1>8, <1>11

(* A squared distance is an integer. *)
LEMMA DistanceType ==
    ASSUME NEW u \in Seq(Int), NEW v \in Seq(Int), Len(u) = Dimension, Len(v) = Dimension
    PROVE  SquaredDistance(u, v) \in Int
  <1> DEFINE square == [i \in 1..Dimension |-> (u[i] - v[i]) * (u[i] - v[i])]
             isSum(f) == f = [i \in 0..Dimension |-> IF i = 0 THEN 0 ELSE f[i - 1] + square[i]]
             sum == CHOOSE f : isSum(f)
  <1>1. SquaredDistance(u, v) = sum[Dimension]
    BY DEF SquaredDistance
  <1>2. square \in [1..Dimension -> Int]
    BY DimensionAssumption
  <1> HIDE DEF square
  <1>3. PICK g \in [0..Dimension -> Int] :
            g[0] = 0 /\ \A i \in 1..Dimension : g[i] = g[i - 1] + square[i]
    BY <1>2, DimensionAssumption, SumsExist
  <1>4. isSum(g)
    <2>1. ASSUME NEW i \in 0..Dimension
          PROVE  g[i] = IF i = 0 THEN 0 ELSE g[i - 1] + square[i]
      <3>1. i = 0 \/ i \in 1..Dimension
        BY DimensionAssumption
      <3> QED
        BY <1>3, <3>1
    <2> QED
      BY <1>3, <2>1
  <1>5. isSum(sum)
    <2> HIDE DEF isSum
    <2> QED
      BY <1>4
  <1> HIDE DEF sum
  <1> DEFINE Odd == {i \in 0..Dimension : sum[i] \notin Int}
  <1> SUFFICES ASSUME Odd # {} PROVE FALSE
    <2>1. Dimension \in 0..Dimension
      BY DimensionAssumption
    <2> QED
      BY <1>1, <2>1
  <1>6. PICK n \in Odd : \A m \in Odd : n <= m
    <2>1. Odd \subseteq Nat
      BY DimensionAssumption
    <2> HIDE DEF Odd
    <2> QED
      BY <2>1, Smallest
  <1>7. n \in Nat /\ n \in 0..Dimension
    BY DimensionAssumption
  <1>8. sum[n] = IF n = 0 THEN 0 ELSE sum[n - 1] + square[n]
    BY <1>5, <1>7
  <1>9. n # 0
    BY <1>8
  <1>10. n - 1 \in Nat /\ n - 1 \in 0..Dimension /\ n \in 1..Dimension
    BY <1>7, <1>9, DimensionAssumption
  <1>11. sum[n - 1] \in Int
    BY <1>6, <1>7, <1>10
  <1>12. square[n] \in Int
    BY <1>2, <1>10
  <1>13. sum[n] \in Int
    BY <1>8, <1>9, <1>11, <1>12
  <1> QED
    BY <1>13

(* Every vector in the index has its dimension. *)
EntriesType ==
    /\ entries \in Seq([row : Rows, vector : Vectors])
    /\ \A i \in DOMAIN entries : Len(entries[i].vector) = Dimension

LEMMA EntriesCorrect == VectorSpec => []EntriesType
  <1>1. VectorInit => EntriesType
    BY DEF VectorInit, EntriesType
  <1>2. EntriesType /\ [VectorNext]_entries => EntriesType'
    <2> SUFFICES ASSUME EntriesType, NEW row \in Rows, NEW vector \in Vectors,
                        InsertVector(row, vector)
                 PROVE  EntriesType'
      BY DEF VectorNext, EntriesType
    <2> DEFINE e == [row |-> row, vector |-> vector]
    <2>1. e \in [row : Rows, vector : Vectors] /\ Len(e.vector) = Dimension
      BY DEF InsertVector
    <2>2. entries' = Append(entries, e)
      BY DEF InsertVector
    <2> HIDE DEF e
    <2> QED
      BY <2>1, <2>2 DEF EntriesType
  <1> QED
    BY <1>1, <1>2, PTL DEF VectorSpec

(* In a list that is in the order of distance and insertion, an entry is   *)
(* at its rank.                                                            *)
LEMMA PlaceIsRank ==
    ASSUME NEW all, NEW n \in Nat, DOMAIN all = 1..n,
           \A i \in 1..n : all[i].distance \in Int,
           NEW s \in SetToSeqs(1..n),
           \A k, l \in DOMAIN s : k < l => Closer(all, s[k], s[l]),
           NEW k \in 1..n
    PROVE  Rank(all, s[k]) = k
  <1>1. IsFiniteSet(1..n) /\ Cardinality(1..n) = n
    BY FS_Interval
  <1>2. /\ DOMAIN s = 1..n
        /\ \A l \in 1..n : s[l] \in 1..n
        /\ \A x \in 1..n : \E l \in 1..n : s[l] = x
        /\ \A l, m \in 1..n : s[l] = s[m] => l = m
    <2> DEFINE S == 1..n
    <2>1. IsFiniteSet(S) /\ Cardinality(S) = n /\ s \in SetToSeqs(S)
      BY <1>1
    <2> HIDE DEF S
    <2>2. /\ DOMAIN s = 1..n
          /\ \A l \in 1..n : s[l] \in S
          /\ \A x \in S : \E l \in 1..n : s[l] = x
          /\ \A l, m \in 1..n : s[l] = s[m] => l = m
      BY <2>1, ListsAll
    <2> QED
      BY <2>2 DEF S
  <1> DEFINE upTo == {j \in DOMAIN all :
                        \/ all[j].distance < all[s[k]].distance
                        \/ all[j].distance = all[s[k]].distance /\ j <= s[k]}
             image == {s[l] : l \in 1..k}
  <1>3. ASSUME NEW l \in 1..n PROVE s[l] \in upTo <=> l <= k
    <2>1. s[l] \in 1..n /\ s[k] \in 1..n
      BY <1>2
    <2>2. all[s[l]].distance \in Int /\ all[s[k]].distance \in Int
      BY <2>1
    <2>3. CASE l < k
      <3>1. Closer(all, s[l], s[k])
        BY <1>2, <2>3
      <3> QED
        BY <2>1, <2>2, <2>3, <3>1 DEF Closer
    <2>4. CASE k < l
      <3>1. Closer(all, s[k], s[l])
        BY <1>2, <2>4
      <3> QED
        BY <2>1, <2>2, <2>4, <3>1 DEF Closer
    <2>5. CASE l = k
      BY <2>1, <2>5
    <2> QED
      BY <2>3, <2>4, <2>5
  <1> HIDE DEF upTo
  <1>4. upTo = image
    <2>1. \A j \in upTo : j \in 1..n
      BY DEF upTo
    <2>2. \A j \in upTo : \E l \in 1..k : s[l] = j
      BY <1>2, <1>3, <2>1
    <2>3. \A l \in 1..k : s[l] \in upTo
      BY <1>3
    <2> QED
      BY <2>2, <2>3
  <1>5. Cardinality(image) = k
    BY <1>1, PlaceCounts
  <1> QED
    BY <1>4, <1>5 DEF Rank, upTo

(* The stable sort has what it is asked for.                               *)
LEMMA SortedByDistance ==
    ASSUME NEW all, NEW n \in Nat, DOMAIN all = 1..n,
           \A i \in 1..n : all[i].distance \in Int
    PROVE  \E s \in SetToSeqs(1..n) :
              /\ \A k, l \in DOMAIN s : k < l => Closer(all, s[k], s[l])
              /\ SortByDistance(all) = [k \in DOMAIN s |-> all[s[k]]]
  <1> DEFINE R == {p \in (1..n) \X (1..n) : Closer(all, p[1], p[2])}
  <1>1. IsFiniteSet(1..n)
    BY FS_Interval
  <1>2. \A x, y \in 1..n : <<x, y>> \in R <=> Closer(all, x, y)
    OBVIOUS
  <1>3. \A x, y \in 1..n : x # y => <<x, y>> \in R \/ <<y, x>> \in R
    BY <1>2 DEF Closer
  <1>4. \A x \in 1..n : <<x, x>> \notin R
    BY <1>2 DEF Closer
  <1>5. \A x, y, z \in 1..n : <<x, y>> \in R /\ <<y, z>> \in R => <<x, z>> \in R
    BY <1>2 DEF Closer
  <1> HIDE DEF R
  <1>6. PICK t \in SetToSeqs(1..n) : \A i, j \in DOMAIN t : i < j => <<t[i], t[j]>> \in R
    <2> DEFINE S == 1..n
    <2>1. IsFiniteSet(S)
      BY <1>1
    <2> HIDE DEF S
    <2>2. \E t \in SetToSeqs(S) : \A i, j \in DOMAIN t : i < j => <<t[i], t[j]>> \in R
      <3>1. \A x, y \in S : x # y => <<x, y>> \in R \/ <<y, x>> \in R
        BY <1>3 DEF S
      <3>2. \A x \in S : <<x, x>> \notin R
        BY <1>4 DEF S
      <3>3. \A x, y, z \in S : <<x, y>> \in R /\ <<y, z>> \in R => <<x, z>> \in R
        BY <1>5 DEF S
      <3> QED
        BY <2>1, <3>1, <3>2, <3>3, OrderedList
    <2> QED
      BY <2>2 DEF S
  <1>7. \A k, l \in DOMAIN t : k < l => Closer(all, t[k], t[l])
    BY <1>6 DEF R
  <1> DEFINE s == CHOOSE u \in SetToSeqs(1..n) :
                     \A k, l \in DOMAIN u : k < l => Closer(all, u[k], u[l])
  <1>8. s \in SetToSeqs(1..n) /\ \A k, l \in DOMAIN s : k < l => Closer(all, s[k], s[l])
    BY <1>6, <1>7
  <1>9. SortByDistance(all) = [k \in DOMAIN s |-> all[s[k]]]
    BY DEF SortByDistance
  <1> QED
    BY <1>8, <1>9

(* A search returns the top_k entries nearest to the query, of two at the  *)
(* same distance the one inserted first, and all if there are not so many, *)
(* for vectors of any dimension.                                           *)
THEOREM NearestCorrect == VectorSpec => []NearestFound
  <1>1. EntriesType => NearestFound
    <2> SUFFICES ASSUME EntriesType, NEW query \in Vectors, NEW top_k \in 0..MaxEntries + 1,
                        Len(query) = Dimension
                 PROVE  LET all     == WithDistance(query)
                            nearest == {i \in DOMAIN all : Rank(all, i) <= top_k}
                            found   == Nearest(query, top_k)
                        IN  /\ Len(found) = Cardinality(nearest)
                            /\ \A i \in nearest : found[Rank(all, i)] = all[i]
      BY DEF NearestFound
    <2> DEFINE all == WithDistance(query)
               n == Len(entries)
               sorted == SortByDistance(all)
               m == IF top_k < n THEN top_k ELSE n
               nearest == {i \in DOMAIN all : Rank(all, i) <= top_k}
               found == Nearest(query, top_k)
    <2>1. n \in Nat /\ DOMAIN entries = 1..n
      BY DEF EntriesType
    <2>2. DOMAIN all = 1..n
      BY <2>1 DEF WithDistance
    <2>3. ASSUME NEW i \in 1..n PROVE all[i].distance \in Int
      <3>1. /\ entries[i].vector \in Vectors
            /\ Len(entries[i].vector) = Dimension
        <4>1. i \in DOMAIN entries
          BY <2>1
        <4>2. entries[i] \in [row : Rows, vector : Vectors]
          BY <4>1, <2>1, ElementOfSeq DEF EntriesType
        <4> QED
          BY <4>1, <4>2 DEF EntriesType
      <3>2. SquaredDistance(query, entries[i].vector) \in Int
        BY <3>1, VectorsAssumption, DistanceType
      <3> QED
        BY <2>1, <3>2 DEF WithDistance
    <2> HIDE DEF n, all
    <2>4. PICK s \in SetToSeqs(1..n) :
              /\ \A k, l \in DOMAIN s : k < l => Closer(all, s[k], s[l])
              /\ sorted = [k \in DOMAIN s |-> all[s[k]]]
      BY <2>1, <2>2, <2>3, SortedByDistance
    <2>5. IsFiniteSet(1..n) /\ Cardinality(1..n) = n
      BY <2>1, FS_Interval
    <2>6. /\ DOMAIN s = 1..n
          /\ \A k \in 1..n : s[k] \in 1..n
          /\ \A x \in 1..n : \E k \in 1..n : s[k] = x
      BY <2>5, ListsAll
    <2>7. \A k \in 1..n : Rank(all, s[k]) = k
      BY <2>1, <2>2, <2>3, <2>4, PlaceIsRank
    <2>8. DOMAIN sorted = 1..n /\ Len(sorted) = n /\ \A k \in 1..n : sorted[k] = all[s[k]]
      BY <2>1, <2>4, <2>6
    <2>9. m \in 0..n /\ m \in Nat /\ \A k \in 1..n : k <= top_k <=> k <= m
      BY <2>1, MaxEntriesAssumption
    <2> HIDE DEF sorted
    <2>10. found = SubSeq(sorted, 1, m)
      BY <2>8 DEF Nearest, Truncate, sorted, all
    <2>11. Len(found) = m /\ \A k \in 1..m : found[k] = sorted[k]
      BY <2>9, <2>10
    <2> HIDE DEF m, found
    <2>12. nearest = {s[k] : k \in 1..m}
      <3>1. ASSUME NEW i \in nearest PROVE \E k \in 1..m : s[k] = i
        <4>1. PICK k \in 1..n : s[k] = i
          BY <2>2, <2>6
        <4>2. k <= top_k
          BY <2>7, <3>1, <4>1
        <4> QED
          BY <2>9, <4>1, <4>2
      <3>2. ASSUME NEW k \in 1..m PROVE s[k] \in nearest
        <4>1. k \in 1..n /\ k <= top_k
          BY <2>1, <2>9
        <4> QED
          BY <2>2, <2>6, <2>7, <4>1
      <3> QED
        BY <3>1, <3>2
    <2>13. Cardinality(nearest) = m
      BY <2>5, <2>9, <2>12, PlaceCounts
    <2>14. ASSUME NEW i \in nearest PROVE found[Rank(all, i)] = all[i]
      <3>1. PICK k \in 1..m : i = s[k]
        BY <2>12
      <3>2. k \in 1..n
        BY <2>1, <2>9
      <3> QED
        BY <2>7, <2>8, <2>11, <3>1, <3>2
    <2> QED
      BY <2>11, <2>13, <2>14 DEF all, found
  <1> QED
    BY <1>1, EntriesCorrect, PTL
=============================================================================
