----------------------- MODULE MCParquetFileCacheFull -----------------------
(* A file cache for TLC whose budget holds three chunks, more than two       *)
(* threads evict for one shortage.  One more chunk is over the budget.       *)
EXTENDS ParquetFileCache, TLC

CONSTANTS FirstShard, SecondShard, Oversized   \* the chunks of each shard, and one more

MCChunks == FirstShard \cup SecondShard \cup {Oversized}
MCShardOf == [k \in Keys |-> IF k[1] \in FirstShard THEN 0 ELSE 1]
MCChunkLen == [k \in Keys |-> IF k[1] = Oversized THEN 4 ELSE 1]

\* Within a shard neither the lengths nor the hashes tell two chunks apart, and
\* no two deferred chunks share an epoch: the CHOOSE of Forgotten has one answer.
MCSymmetry ==
    Permutations(Threads) \cup Permutations(FirstShard) \cup Permutations(SecondShard)
=============================================================================
