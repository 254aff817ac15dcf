--------------------------- MODULE MCCatalogFile ---------------------------
(* Instances of CatalogFile for TLC. *)
EXTENDS CatalogFile, TLC

CONSTANTS p, q, public, t1, t2, s1

ProcessSymmetry == Permutations(Processes)
=============================================================================
