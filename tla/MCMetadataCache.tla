--------------------------- MODULE MCMetadataCache ---------------------------
(* Three queries and one file, rewritten three times; one version is not valid Parquet. *)
EXTENDS MetadataCache, TLC
MCSig == [v \in Versions |-> <<"size and time of", v>>]
QuerySymmetry == Permutations(Queries)
=============================================================================
