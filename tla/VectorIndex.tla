---------------------------- MODULE VectorIndex ----------------------------
(***************************************************************************)
(* The vector index (rustafari-index, vector.rs): a list of rows with      *)
(* their vectors, and a search that sorts all of it by distance. Each call *)
(* holds the one lock throughout. A coordinate is an integer; distances    *)
(* are compared by their squares. There is no delete.                      *)
(***************************************************************************)
EXTENDS Integers, SequencesExt

CONSTANTS
    Rows,        \* RowIds
    Dimension,
    Vectors,     \* what callers pass, of the right length or not
    MaxEntries   \* bound: insert only below this number of entries

ASSUME DimensionAssumption  == Dimension \in Nat
ASSUME VectorsAssumption    == Vectors \subseteq Seq(Int)
ASSUME MaxEntriesAssumption == MaxEntries \in Nat

VARIABLE entries

VectorInit == entries = <<>>

(* A vector of another dimension is an error and changes nothing. *)
InsertVector(row, vector) ==
    /\ Len(vector) = Dimension
    /\ Len(entries) < MaxEntries
    /\ entries' = Append(entries, [row |-> row, vector |-> vector])

VectorNext == \E row \in Rows, vector \in Vectors : InsertVector(row, vector)

VectorSpec == VectorInit /\ [][VectorNext]_entries

(* The square of l2_distance. *)
SquaredDistance(u, v) ==
    LET square == [i \in 1..Dimension |-> (u[i] - v[i]) * (u[i] - v[i])]
        sum[i \in 0..Dimension] == IF i = 0 THEN 0 ELSE sum[i - 1] + square[i]
    IN  sum[Dimension]

WithDistance(query) ==
    [i \in DOMAIN entries |->
        [row |-> entries[i].row,
         distance |-> SquaredDistance(query, entries[i].vector)]]

(* sort_by, which is stable: of two at one distance the earlier is first.  *)
Closer(some, i, j) ==
    \/ some[i].distance < some[j].distance
    \/ some[i].distance = some[j].distance /\ i < j

SortByDistance(some) ==
    LET order == CHOOSE s \in SetToSeqs(DOMAIN some) :
                     \A k, l \in DOMAIN s : k < l => Closer(some, s[k], s[l])
    IN  [k \in DOMAIN order |-> some[order[k]]]

Truncate(some, k) == SubSeq(some, 1, IF k < Len(some) THEN k ELSE Len(some))

(* Fault for the runs: the list is cut before it is sorted. *)
FirstOnes(query, top_k) == SortByDistance(Truncate(WithDistance(query), top_k))

(* search *)
Nearest(query, top_k) == Truncate(SortByDistance(WithDistance(query)), top_k)

-----------------------------------------------------------------------------
(* A search returns the top_k entries nearest to the query, of two at the  *)
(* same distance the one inserted first, and all if there are not so many. *)
Rank(all, i) ==
    Cardinality({j \in DOMAIN all :
        \/ all[j].distance < all[i].distance
        \/ all[j].distance = all[i].distance /\ j <= i})

NearestFound ==
    \A query \in Vectors, top_k \in 0..MaxEntries + 1 :
        Len(query) = Dimension =>
            LET all     == WithDistance(query)
                nearest == {i \in DOMAIN all : Rank(all, i) <= top_k}
                found   == Nearest(query, top_k)
            IN  /\ Len(found) = Cardinality(nearest)
                /\ \A i \in nearest : found[Rank(all, i)] = all[i]
=============================================================================
