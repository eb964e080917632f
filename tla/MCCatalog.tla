----------------------------- MODULE MCCatalog -----------------------------
(* Two table directories; the first may hold files of two schemas.          *)
EXTENDS Catalog, TLC
ProcSymmetry == Permutations(Procs)
MCNames == {"a", "b"}
MCLocations == {"x", "y"}
MCFiles == {"x1", "x3", "y1"}
MCHome == [f \in Files |-> IF f = "y1" THEN "y" ELSE "x"]
MCSchemaOf == [f \in Files |-> IF f = "x3" THEN "other" ELSE "common"]
=============================================================================
