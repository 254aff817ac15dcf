------------------------------ MODULE MCSearch ------------------------------
(* Instances of the two search indexes for TLC, side by side. *)
EXTENDS InvertedIndex, VectorIndex

CONSTANTS a, b, r1, r2, r3, lion, zebra

ShortTexts == {<<>>, <<lion>>, <<lion, zebra>>, <<lion, lion>>, <<zebra, lion>>}

PlaneVectors == {<<0, 0>>, <<2, 1>>, <<1>>}

Symmetric == Permutations(Threads) \cup Permutations(RowIds)

-----------------------------------------------------------------------------
SearchInit == Init /\ VectorInit

SearchNext ==
    \/ Next /\ UNCHANGED entries
    \/ VectorNext /\ UNCHANGED vars

SearchSpec == SearchInit /\ [][SearchNext]_<<vars, entries>>
=============================================================================
