------------------------- MODULE MCParquetFileCache -------------------------
(* A small file cache for TLC: two shards and a file that shrinks.           *)
EXTENDS ParquetFileCache

\* The stamp is part of what is hashed: a rewrite moves every chunk to the other
\* shard.
MCShardOf == [k \in Keys |-> (k[1] + k[2]) % 2]

\* Chunk 1 is full, chunk 2 is the tail, which is gone after the rewrite.  With a
\* budget of 14 each is admitted at once into an empty cache, and so is the tail
\* twice; chunk 1 and anything else are too much.
MCChunkLen == [k \in Keys |-> IF k[1] = 1 THEN 10 ELSE IF k[2] = 0 THEN 5 ELSE 0]
=============================================================================
