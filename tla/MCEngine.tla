------------------------------ MODULE MCEngine ------------------------------
(* Instances of Engine for TLC. *)
EXTENDS Solo, TLC

CONSTANTS a, b, public, t1, t2, with_id, without_id

(* A session starts with no catalog, or with the catalog of an earlier one *)
(* that had created a table t1, or two of them.                            *)
OneTable  == CreateTable(EmptyCatalog, public, t1, with_id)
TwoTables == CreateTable(OneTable, public, t1, with_id)

NewSession == {EmptyCatalog}
Restarted  == {LoadSnapshot(snap) :
                  snap \in Snapshots(OneTable) \cup Snapshots(TwoTables)}
AnySession == NewSession \cup Restarted

(* INSERT statements of one row, and of two rows. *)
OneRow  == {<<1>>}
TwoRows == {<<1>>, <<1, 2>>}
Mixed   == {<<1>>, <<2, 1>>, <<1, NULL>>, <<MISSING>>}

ThreadSymmetry == Permutations(Threads)
=============================================================================
