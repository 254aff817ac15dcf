--------------------------- MODULE InvertedIndex ---------------------------
(***************************************************************************)
(* The full-text index of rustafari-index (inverted.rs): two maps, each    *)
(* under its own lock, that an insert and a delete change one after the    *)
(* other. A text is the sequence of its terms, as tokenize returns them.   *)
(*                                                                         *)
(* A posting list is a Vec that has a row once for each occurrence; its    *)
(* order is nowhere used, so it is the number of times each row is in it.  *)
(***************************************************************************)
EXTENDS Integers, SequencesExt

CONSTANTS
    RowIds, Terms, Threads,
    Texts,      \* the texts of rows, and of searches
    NONE,       \* no terms, no row
    Exclusive   \* callers use a row from one thread at a time, and delete it
                \* before they insert another text for it

ASSUME TextsAssumption == Texts \subseteq Seq(Terms)
ASSUME NoneAssumption  == NONE \notin RowIds \cup Seq(Terms)
ASSUME RowsAssumption  == IsFiniteSet(RowIds)
ASSUME ExclusiveAssumption == Exclusive \in BOOLEAN

VARIABLES
    index,      \* term -> row -> times the row is in the list of the term
    doc_terms,  \* row -> its terms, or NONE
    pc,         \* of each thread: idle, or in insert or delete
    row_id,     \* the row the thread works on, or NONE
    terms,      \* the terms its call goes through
    at          \* position of the insert in them

vars == <<index, doc_terms, pc, row_id, terms, at>>

Init ==
    /\ index = [w \in Terms |-> [id \in RowIds |-> 0]]
    /\ doc_terms = [id \in RowIds |-> NONE]
    /\ pc = [t \in Threads |-> "idle"]
    /\ row_id = [t \in Threads |-> NONE]
    /\ terms = [t \in Threads |-> <<>>]
    /\ at = [t \in Threads |-> 1]

InUse(id) == \E t \in Threads : row_id[t] = id

(* Fault for the runs: positions begin at zero. *)
CallFromZero(t, step, id, text) ==
    /\ pc' = [pc EXCEPT ![t] = step]
    /\ row_id' = [row_id EXCEPT ![t] = id]
    /\ terms' = [terms EXCEPT ![t] = text]
    /\ at' = [at EXCEPT ![t] = 0]

Call(t, step, id, text) ==
    /\ pc' = [pc EXCEPT ![t] = step]
    /\ row_id' = [row_id EXCEPT ![t] = id]
    /\ terms' = [terms EXCEPT ![t] = text]
    /\ at' = [at EXCEPT ![t] = 1]

Return(t) == Call(t, "idle", NONE, <<>>)

-----------------------------------------------------------------------------
(* insert: a lock of the index for each occurrence, then one of doc_terms. *)

BeginInsert(t, id, text) ==
    /\ pc[t] = "idle"
    /\ Exclusive => ~ InUse(id) /\ doc_terms[id] = NONE
    /\ Call(t, "insert", id, text)
    /\ UNCHANGED <<index, doc_terms>>

(* Fault for the runs: a list has a row once, however often the term       *)
(* occurs in its text.                                                     *)
PushOnce(t) ==
    /\ pc[t] = "insert" /\ at[t] \in DOMAIN terms[t]
    /\ index' = [index EXCEPT ![terms[t][at[t]]][row_id[t]] = 1]
    /\ at' = [at EXCEPT ![t] = @ + 1]
    /\ UNCHANGED <<doc_terms, pc, row_id, terms>>

PushTerm(t) ==
    /\ pc[t] = "insert" /\ at[t] \in DOMAIN terms[t]
    /\ index' = [index EXCEPT ![terms[t][at[t]]][row_id[t]] = @ + 1]
    /\ at' = [at EXCEPT ![t] = @ + 1]
    /\ UNCHANGED <<doc_terms, pc, row_id, terms>>

(* Fault for the runs: the last term is not recorded. *)
RecordAllButLast(t) ==
    /\ pc[t] = "insert" /\ at[t] \notin DOMAIN terms[t]
    /\ doc_terms' = [doc_terms EXCEPT ![row_id[t]] =
                        SubSeq(terms[t], 1, Len(terms[t]) - 1)]
    /\ Return(t)
    /\ UNCHANGED index

RecordTerms(t) ==
    /\ pc[t] = "insert" /\ at[t] \notin DOMAIN terms[t]
    /\ doc_terms' = [doc_terms EXCEPT ![row_id[t]] = terms[t]]
    /\ Return(t)
    /\ UNCHANGED index

-----------------------------------------------------------------------------
(* delete: the terms of the row are taken out of doc_terms, then the row   *)
(* out of their lists, under one lock of the index.                        *)

TakeTerms(t, id) ==
    /\ pc[t] = "idle"
    /\ Exclusive => ~ InUse(id)
    /\ doc_terms[id] # NONE
    /\ doc_terms' = [doc_terms EXCEPT ![id] = NONE]
    /\ Call(t, "delete", id, doc_terms[id])
    /\ UNCHANGED index

(* Fault for the runs: the lists go whole, with the rows of other texts.   *)
DropLists(t) ==
    /\ pc[t] = "delete"
    /\ index' = [w \in Terms |->
                    IF w \in ToSet(terms[t]) THEN [id \in RowIds |-> 0]
                    ELSE index[w]]
    /\ Return(t)
    /\ UNCHANGED doc_terms

PurgeTerms(t) ==
    /\ pc[t] = "delete"
    /\ index' = [w \in Terms |->
                    IF w \in ToSet(terms[t])
                    THEN [index[w] EXCEPT ![row_id[t]] = 0] ELSE index[w]]
    /\ Return(t)
    /\ UNCHANGED doc_terms

Next ==
    \E t \in Threads :
        \/ \E id \in RowIds, text \in Texts : BeginInsert(t, id, text)
        \/ PushTerm(t)
        \/ RecordTerms(t)
        \/ \E id \in RowIds : TakeTerms(t, id)
        \/ PurgeTerms(t)

Spec == Init /\ [][Next]_vars

-----------------------------------------------------------------------------
(* search, under one lock of the index: a row counts once for each entry   *)
(* in the lists of the query's terms, and rows come in the order of their  *)
(* counts, those with equal counts in any order.                           *)

Entries(query, id) == UNION {{i} \X (1..index[query[i]][id]) : i \in DOMAIN query}

(* Fault for the runs: a row of any number of lists counts once. *)
CountOnce(query, id) == IF Entries(query, id) = {} THEN 0 ELSE 1

Count(query, id) == Cardinality(Entries(query, id))

Found(query) == {id \in RowIds : Count(query, id) > 0}

Search(query, top_k) ==
    {SubSeq(order, 1, IF top_k < Len(order) THEN top_k ELSE Len(order)) :
        order \in {s \in SetToSeqs(Found(query)) :
                     \A i, j \in DOMAIN s :
                         i < j => Count(query, s[i]) >= Count(query, s[j])}}

-----------------------------------------------------------------------------
TypeOK ==
    /\ index \in [Terms -> [RowIds -> Nat]]
    /\ doc_terms \in [RowIds -> Seq(Terms) \cup {NONE}]
    /\ pc \in [Threads -> {"idle", "insert", "delete"}]
    /\ row_id \in [Threads -> RowIds \cup {NONE}]
    /\ terms \in [Threads -> Seq(Terms)]
    /\ at \in [Threads -> Nat \ {0}]
    /\ \A t \in Threads : (pc[t] = "idle") = (row_id[t] = NONE)

Has(id, w) == doc_terms[id] # NONE /\ w \in ToSet(doc_terms[id])

(* A row that no call is working on is in the list of a term only if the   *)
(* text last inserted for it has the term: nothing outlives a delete.      *)
NothingStale ==
    \A id \in RowIds, w \in Terms :
        ~ InUse(id) /\ index[w][id] > 0 => Has(id, w)

(* And it is in the list of every term of that text, whatever other rows   *)
(* are inserted and deleted meanwhile.                                     *)
NothingLost ==
    \A id \in RowIds, w \in Terms :
        ~ InUse(id) /\ Has(id, w) => index[w][id] > 0

(* The terms of a query that the text last inserted for a row has too.     *)
Text(id) == IF doc_terms[id] = NONE THEN <<>> ELSE doc_terms[id]

MatchingTerms(query, id) == ToSet(query) \cap ToSet(Text(id))

(* A search with room for every row returns exactly the rows whose text    *)
(* has a term of the query, each once, whatever calls are at work on other *)
(* rows; and results are ordered by the number of matching terms, when the *)
(* query and the two texts repeat none. (A repeated term counts once for   *)
(* each occurrence: of <<lion, lion>> and <<lion, zebra>> neither comes    *)
(* first in a search for <<lion, zebra>>.)                                 *)
SearchRanks ==
    \A query \in Texts : \A answer \in Search(query, Cardinality(RowIds)) :
        /\ IsInjective(answer)
        /\ \A id \in RowIds : ~ InUse(id) =>
               (id \in ToSet(answer) <=> MatchingTerms(query, id) # {})
        /\ \A i, j \in DOMAIN answer :
               /\ i < j /\ ~ InUse(answer[i]) /\ ~ InUse(answer[j])
               /\ \A text \in {query, Text(answer[i]), Text(answer[j])} :
                      IsInjective(text)
               => Cardinality(MatchingTerms(query, answer[i]))
                    >= Cardinality(MatchingTerms(query, answer[j]))

-----------------------------------------------------------------------------
(* What makes NothingStale and NothingLost inductive when rows are         *)
(* Exclusive: what the lists hold of a row some call is working on.        *)

Pushed(t, w) == \E i \in 1..at[t] - 1 : i \in DOMAIN terms[t] /\ terms[t][i] = w

Lists(id, w) == index[w][id] > 0

CallsExclusive ==
    /\ \A t, u \in Threads : row_id[t] # NONE /\ row_id[t] = row_id[u] => t = u
    /\ \A t \in Threads : pc[t] # "idle" => doc_terms[row_id[t]] = NONE

HalfInserted ==
    \A t \in Threads, w \in Terms :
        pc[t] = "insert" => (Lists(row_id[t], w) <=> Pushed(t, w))

HalfDeleted ==
    \A t \in Threads, w \in Terms :
        pc[t] = "delete" => (Lists(row_id[t], w) => w \in ToSet(terms[t]))

IndexInvariant ==
    CallsExclusive /\ HalfInserted /\ HalfDeleted /\ NothingStale /\ NothingLost

(* And what the searches rest on: how often each list has a row.           *)
PlacesBefore(text, w, n) == {i \in DOMAIN text : i < n /\ text[i] = w}

HalfCounted ==
    \A t \in Threads, w \in Terms :
        pc[t] = "insert" =>
            index[w][row_id[t]] = Cardinality(PlacesBefore(terms[t], w, at[t]))

CountsExact ==
    \A id \in RowIds, w \in Terms :
        ~ InUse(id) =>
            index[w][id] = Cardinality({i \in DOMAIN Text(id) : Text(id)[i] = w})

CountInvariant == HalfCounted /\ CountsExact
=============================================================================
