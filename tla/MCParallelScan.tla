--------------------------- MODULE MCParallelScan ---------------------------
(* Row groups "a1".."a3" of one file and "b1" of another; "b1" of the second *)
(* row-group list cannot be decoded after its first batch.                   *)
EXTENDS ParallelScan

MCPathOf == [a1 |-> "a", a2 |-> "a", a3 |-> "a", b1 |-> "b", b2 |-> "b"]
MCPartitionOf == [a1 |-> "p", a2 |-> "p", a3 |-> "p", b1 |-> "q", b2 |-> "q"]
MCBatchesOf == [a1 |-> <<2, 0>>, a2 |-> <<1>>, a3 |-> <<>>, b1 |-> <<1, 2>>, b2 |-> <<1, Broken>>]
MCTaskLists == { <<"a1", "a2", "a3", "b1">>, <<"a1", "b2", "a2">> }
=============================================================================
