----------------------- MODULE MCPartitionedHashJoin -----------------------
(* Two keys, at most two batches per side, and every pair of hash functions *)
(* of two keys that matters: the partitions are symmetric.                  *)
EXTENDS PartitionedHashJoin
MCKeys == {1, 2}
MCHashes == [0..MaxDepth -> {[k \in MCKeys |-> 0], [k \in MCKeys |-> k - 1]}]

UpToTwo(Batches) ==
    {<<>>} \cup {<<a>> : a \in Batches} \cup {<<a, b>> : a, b \in Batches}
Plain == UpToTwo({<<1>>, <<2>>, <<1, 1>>, <<1, 2>>})
WithNull == UpToTwo({<<1>>, <<1, 1>>, <<1, 2>>, <<2, Null>>, <<Null>>})
Failing == {<<<<1>>, Broken>>, <<Broken>>}
Joins(lefts, rights, types, limits) ==
    [left : lefts, right : rights, type : types, limit : limits]

KeysOf(input) == {Key(row) : row \in RowsOf(BatchesOf("left", input))}
RowsWith(input, k) == {row \in RowsOf(BatchesOf("left", input)) : Key(row) = k}
Skewed(input) == \E k \in Keys : Cardinality(RowsWith(input, k)) >= HeavyRows
AllMatch(q) == KeysOf(q.left) = KeysOf(q.right)

\* The FULL joins in memory, and those of any size none of whose rows is unmatched.
FullInMemory ==
    {q \in Joins(Plain, Plain, {"Full"}, {4}) : ~Skewed(q.left) /\ ~Skewed(q.right)}
FullAllMatch == {q \in Joins(Plain, Plain, {"Full"}, {1}) : AllMatch(q)}

\* Every INNER and SEMI join, the FULL joins above, and inputs that cannot be read.
MCQueries ==
    Joins(WithNull, WithNull, {"Inner", "Semi"}, {1})
    \cup FullInMemory \cup FullAllMatch
    \cup Joins(Failing, {<<<<1>>>>}, {"Inner", "Semi", "Full"}, {1})

\* FULL joins that go chunk by chunk, without NULL and without a heavy key.
FullInChunks ==
    {q \in Joins(Plain, Plain, {"Full"}, {1}) : ~Skewed(q.left) /\ ~Skewed(q.right)}
\* FULL joins in memory with a heavy key.
FullSkewed ==
    {q \in Joins(Plain, Plain, {"Full"}, {4}) : Skewed(q.left) \/ Skewed(q.right)}
\* FULL joins in memory with NULL keys.
FullWithNull == Joins(WithNull, WithNull, {"Full"}, {4})
=============================================================================
