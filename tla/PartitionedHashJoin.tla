------------------------ MODULE PartitionedHashJoin ------------------------
(***************************************************************************)
(* The memory-bounded hash join of src/src/execution/physical.rs           *)
(* (PartitionedHashJoinStream) for the join types the planner gives it:    *)
(* INNER, FULL OUTER and LEFT SEMI.  Both inputs are spilled to files by   *)
(* the hash of their keys; a pair of partitions that is still too large is *)
(* split again with another salt, a few times; then a partition is joined  *)
(* in memory (Hash), chunk by chunk of its build side (FileHash), block by *)
(* block (BlockNestedLoop) or, when one side has no file, passed through   *)
(* (UnmatchedSide).  Keys with very many build rows are joined apart from  *)
(* the others.                                                             *)
(*                                                                         *)
(* A spill file holds one batch, as a set of rows.  Sizes are row counts.  *)
(* The Bloom filter and the per-type hash tables of HashJoinBuild answer a *)
(* lookup like a map and are left out, and so are projections and the      *)
(* splitting of output batches.                                            *)
(***************************************************************************)
EXTENDS JoinSemantics

CONSTANTS
    Queries,      \* the joins tried: two inputs (sequences of batches, sequences of
                  \* keys), a join type and memory_limit_bytes, in rows
    Partitions,   \* partitions per spill
    Hashes,       \* the salted hashes tried: one hash per depth
    MaxDepth,     \* MAX_REPARTITION_DEPTH
    HeavyRows     \* the least number of rows of a heavy key (1024 in the code)

ASSUME JoinAssumption ==
    /\ Null \notin Keys
    /\ \A q \in Queries :
          /\ q.left \in Seq(AnyBatch) /\ q.right \in Seq(AnyBatch)
          /\ q.type \in {"Inner", "Full", "Semi"} /\ q.limit \in Nat \ {0}
    /\ Hashes \subseteq [0..MaxDepth -> [Keys -> Nat]]
    /\ Partitions \in Nat \ {0}
    /\ MaxDepth \in Nat /\ HeavyRows \in Nat \ {0}

VARIABLES
    left, right,  \* the inputs
    joinType,
    memoryLimit,  \* memory_limit_bytes
    hash,         \* hash_row_with_salt
    spilled,      \* has the stream read its inputs?
    pending,      \* PartitionTasks: their files and depth
    active,       \* the PartitionJoinStates still to run, the first one running
    out,          \* rows handed to the operator above, as a bag
    status        \* "running", "done" or "error"

vars == <<left, right, joinType, memoryLimit, hash, spilled, pending, active, out, status>>
query == <<left, right, joinType, memoryLimit, hash>>

-----------------------------------------------------------------------------
(* Spill files.                                                            *)

\* The sizes of the files add up to their rows, which no two files share.
Bytes(files) == Cardinality(RowsOf(files))

\* partition_batch: rows with a NULL key belong to no partition.
PartitionBatch(batch, p, salt) ==
    {row \in batch : Key(row) # Null /\ hash[salt][Key(row)] % Partitions = p}

PartitionFiles(files, p, salt) ==
    NonEmpty([b \in DOMAIN files |-> PartitionBatch(files[b], p, salt)])

\* Mutant: the partitions of a partition are hashed as it was.
TasksUnsalted(leftFiles, rightFiles, depth) ==
    [p \in 1..Partitions |->
        [left |-> PartitionFiles(leftFiles, p - 1, 0),
         right |-> PartitionFiles(rightFiles, p - 1, depth),
         depth |-> depth]]

\* Mutant: a task forgets how often it was split.
TasksWithoutDepth(leftFiles, rightFiles, depth) ==
    [p \in 1..Partitions |->
        [left |-> PartitionFiles(leftFiles, p - 1, depth),
         right |-> PartitionFiles(rightFiles, p - 1, depth),
         depth |-> 0]]

\* spill_join_inputs, repartition_partition: the tasks of the next depth.
TasksOf(leftFiles, rightFiles, depth) ==
    [p \in 1..Partitions |->
        [left |-> PartitionFiles(leftFiles, p - 1, depth),
         right |-> PartitionFiles(rightFiles, p - 1, depth),
         depth |-> depth]]

HeavyThreshold(rows) == IF rows \div 10 > HeavyRows THEN rows \div 10 ELSE HeavyRows

\* heavy_keys_from_batches, heavy_keys_from_files: keys of the build side with at least
\* heavy_hitter_threshold rows.
HeavyKeys(files) ==
    {k \in Keys : Cardinality({row \in RowsOf(files) : Key(row) = k})
                    >= HeavyThreshold(Cardinality(RowsOf(files)))}

\* split_batches_by_key_set, split_files_by_key_set.
HeavyPart(files, heavy) ==
    NonEmpty([b \in DOMAIN files |-> {row \in files[b] : Key(row) \in heavy}])
NormalPart(files, heavy) ==
    NonEmpty([b \in DOMAIN files |-> {row \in files[b] : Key(row) \notin heavy \cup {Null}}])

-----------------------------------------------------------------------------
Emit(rows) == out' = out (+) SetToBag(rows)

-----------------------------------------------------------------------------
(* PartitionJoinState: the ways to join one partition.                     *)

HashState(build, probe, side) ==
    [kind |-> "Hash", build |-> RowsOf(build), probe |-> probe, side |-> side,
     matched |-> {}, emitted |-> FALSE]

FileHashState(build, probe, side) ==
    [kind |-> "FileHash", files |-> build, probeFiles |-> probe, side |-> side,
     build |-> {}, probe |-> <<>>, matched |-> {}, currentKeys |-> {}, matchedKeys |-> {},
     emitted |-> FALSE]

BlockState(leftFiles, rightFiles) ==
    [kind |-> "Block", left |-> leftFiles, right |-> rightFiles]

UnmatchedSideState(files, side) ==
    [kind |-> "UnmatchedSide", files |-> files, side |-> side]

BlockOf(build, probe, side) ==
    IF side = "left" THEN BlockState(build, probe) ELSE BlockState(probe, build)

\* How the heavy rows, or all rows of an oversized partition, are joined.
OversizedState(build, probe, side) ==
    IF joinType \in {"Full", "Semi"} THEN FileHashState(build, probe, side)
    ELSE BlockOf(build, probe, side)

\* A state is only made when both its sides have rows.
IfBoth(state, build, probe) == IF build = <<>> \/ probe = <<>> THEN <<>> ELSE <<state>>

\* build_partition_join_states and build_partition_join_states_from_files.
JoinStates(build, probe, side, oversized) ==
    LET heavy == HeavyKeys(build)
        nb == NormalPart(build, heavy)
        np == NormalPart(probe, heavy)
        hb == HeavyPart(build, heavy)
        hp == HeavyPart(probe, heavy)
        normal == IF oversized THEN FileHashState(nb, np, side) ELSE HashState(nb, np, side)
    IN  CASE heavy = {} /\ oversized -> <<OversizedState(build, probe, side)>>
          [] heavy = {} /\ ~oversized -> <<HashState(build, probe, side)>>
          [] OTHER -> IfBoth(normal, nb, np)
                      \o IfBoth(OversizedState(hb, hp, side), hb, hp)

SmallerSide(task) ==
    IF Bytes(task.left) <= Bytes(task.right) THEN Bytes(task.left) ELSE Bytes(task.right)

\* The side a partition's hash table is built from.
BuildSide(task) ==
    IF joinType # "Semi" /\ Bytes(task.left) <= Bytes(task.right) THEN "left" ELSE "right"

\* prepare_partition_join of a partition both sides of which have files.
PreparedStates(task) ==
    LET oversized == SmallerSide(task) > memoryLimit
    IN  IF BuildSide(task) = "left" THEN JoinStates(task.left, task.right, "left", oversized)
        ELSE JoinStates(task.right, task.left, "right", oversized)

-----------------------------------------------------------------------------
Init ==
    /\ \E q \in Queries :
          /\ left = q.left /\ right = q.right
          /\ joinType = q.type /\ memoryLimit = q.limit
    /\ hash \in Hashes
    /\ spilled = FALSE
    /\ pending = <<>>
    /\ active = <<>>
    /\ out = EmptyBag
    /\ status = "running"

\* The first call of next: both inputs are read and spilled.
Spill ==
    /\ status = "running" /\ ~spilled
    /\ Broken \notin Range(left) \cup Range(right)
    /\ spilled' = TRUE
    /\ pending' = TasksOf(BatchesOf("left", left), BatchesOf("right", right), 0)
    /\ UNCHANGED <<query, active, out, status>>

\* An input that cannot be read ends the stream.
SpillFails ==
    /\ status = "running" /\ ~spilled
    /\ Broken \in Range(left) \cup Range(right)
    /\ spilled' = TRUE
    /\ status' = "error"
    /\ UNCHANGED <<query, pending, active, out>>

Ready == status = "running" /\ spilled /\ active = <<>> /\ pending # <<>>
Task == Head(pending)

\* A partition only one side of which has files is passed through by a FULL join, which
\* needs to have seen the other side's schema.
PrepareOneSided ==
    /\ Ready
    /\ Task.left = <<>> \/ Task.right = <<>>
    /\ pending' = Tail(pending)
    /\ LET other == IF Task.left # <<>> THEN RowsOf(BatchesOf("right", right))
                    ELSE RowsOf(BatchesOf("left", left))
           rows == Task.left \o Task.right
       IN  \/ /\ joinType = "Full" /\ rows # <<>> /\ other # {}
              /\ active' = << UnmatchedSideState(rows,
                                IF Task.left # <<>> THEN "left" ELSE "right") >>
              /\ UNCHANGED status
           \/ /\ joinType = "Full" /\ rows # <<>> /\ other = {}
              /\ status' = "error"
              /\ UNCHANGED active
           \/ /\ joinType # "Full" \/ rows = <<>>
              /\ UNCHANGED <<active, status>>
    /\ UNCHANGED <<query, spilled, out>>

TooLarge(task) ==
    SmallerSide(task) > memoryLimit /\ task.depth < MaxDepth /\ Partitions > 1

\* An oversized partition is split again, with its depth as the salt.
Repartition ==
    /\ Ready
    /\ Task.left # <<>> /\ Task.right # <<>>
    /\ TooLarge(Task)
    /\ pending' = Tail(pending) \o TasksOf(Task.left, Task.right, Task.depth + 1)
    /\ UNCHANGED <<query, spilled, active, out, status>>

Prepare ==
    /\ Ready
    /\ Task.left # <<>> /\ Task.right # <<>>
    /\ ~TooLarge(Task)
    /\ pending' = Tail(pending)
    /\ active' = PreparedStates(Task)
    /\ UNCHANGED <<query, spilled, out, status>>

Running(kind) == status = "running" /\ active # <<>> /\ Head(active).kind = kind
State == Head(active)
Replace(state) == active' = [active EXCEPT ![1] = state]

\* A state that has no more output is dropped.
Finish == active' = Tail(active)

\* HashPartitionJoinState: one probe batch.
HashProbe ==
    /\ Running("Hash") /\ State.probe # <<>>
    /\ LET batch == Head(State.probe)
       IN  /\ Emit(Probed(joinType, State.build, batch, State.side))
           /\ Replace([State EXCEPT !.probe = Tail(@),
                                    !.matched = @ \cup MatchedBuild(State.build, batch)])
    /\ UNCHANGED <<query, spilled, pending, status>>

\* HashPartitionJoinState after its last probe batch.
HashEnd ==
    /\ Running("Hash") /\ State.probe = <<>>
    /\ IF joinType = "Full" /\ ~State.emitted
       THEN /\ Emit(UnmatchedBuild(State.build \ State.matched, State.side))
            /\ Replace([State EXCEPT !.emitted = TRUE])
       ELSE Finish /\ UNCHANGED out
    /\ UNCHANGED <<query, spilled, pending, status>>

\* Mutant: the chunk ends after the file that overflows it.
ChunkLengthOverflowing(files) ==
    LET fits(n) == n = 1 \/ Bytes(SubSeq(files, 1, n - 1)) <= memoryLimit
    IN  CHOOSE n \in 1..Len(files) :
            (\A m \in 1..n : fits(m)) /\ (n = Len(files) \/ ~fits(n + 1))

\* next_build_batch_chunk: as many build files as fit, and at least one.
ChunkLength(files) ==
    LET fits(n) == n = 1 \/ Bytes(SubSeq(files, 1, n)) <= memoryLimit
    IN  CHOOSE n \in 1..Len(files) :
            (\A m \in 1..n : fits(m)) /\ (n = Len(files) \/ ~fits(n + 1))

\* FileHashPartitionJoinState reads the next chunk of its build side and goes through its
\* probe files from the start.
FileHashChunk ==
    /\ Running("FileHash") /\ State.build = {} /\ State.files # <<>>
    /\ LET n == ChunkLength(State.files)
       IN  Replace([State EXCEPT !.build = RowsOf(SubSeq(State.files, 1, n)),
                                 !.files = SubSeq(@, n + 1, Len(@)),
                                 !.probe = State.probeFiles,
                                 !.matched = {}, !.currentKeys = {}])
    /\ UNCHANGED <<query, spilled, pending, out, status>>

\* One probe batch against the chunk; a semi join passes over keys that earlier chunks
\* have matched.
FileHashProbe ==
    /\ Running("FileHash") /\ State.build # {} /\ State.probe # <<>>
    /\ LET batch == Head(State.probe)
           fresh == {p \in batch : Key(p) \notin State.matchedKeys}
           probed == IF joinType = "Semi" THEN fresh ELSE batch
       IN  /\ Emit(Probed(IF joinType = "Semi" THEN "Semi" ELSE "Inner", State.build, probed,
                          State.side))
           /\ Replace([State EXCEPT !.probe = Tail(@),
                  !.matched = @ \cup MatchedBuild(State.build, probed),
                  !.currentKeys = @ \cup {Key(b) : b \in MatchedBuild(State.build, probed)}])
    /\ UNCHANGED <<query, spilled, pending, status>>

\* Mutant: the keys a chunk matched are not remembered.
FileHashChunkEndForgets ==
    /\ Running("FileHash") /\ State.build # {} /\ State.probe = <<>>
    /\ LET unmatched == State.build \ State.matched
       IN  IF joinType = "Full" /\ unmatched # {}
           THEN /\ Emit(UnmatchedBuild(unmatched, State.side))
                /\ Replace([State EXCEPT !.build = {}])
           ELSE /\ Replace([State EXCEPT !.build = {}])
                /\ UNCHANGED out
    /\ UNCHANGED <<query, spilled, pending, status>>

\* The chunk is done.  When it has unmatched build rows to emit, it returns them before
\* the keys it matched are added to matched_probe_keys.
FileHashChunkEnd ==
    /\ Running("FileHash") /\ State.build # {} /\ State.probe = <<>>
    /\ LET unmatched == State.build \ State.matched
       IN  IF joinType = "Full" /\ unmatched # {}
           THEN /\ Emit(UnmatchedBuild(unmatched, State.side))
                /\ Replace([State EXCEPT !.build = {}])
           ELSE /\ Replace([State EXCEPT !.build = {},
                                         !.matchedKeys = @ \cup State.currentKeys])
                /\ UNCHANGED out
    /\ UNCHANGED <<query, spilled, pending, status>>

\* next_unmatched_probe_batches, once, when no build file is left.
FileHashEnd ==
    /\ Running("FileHash") /\ State.build = {} /\ State.files = <<>>
    /\ IF joinType = "Full" /\ ~State.emitted
       THEN /\ Emit({Pair(State.side, NullRow, p) :
                        p \in {q \in RowsOf(State.probeFiles) :
                                Key(q) = Null \/ Key(q) \notin State.matchedKeys}})
            /\ Replace([State EXCEPT !.emitted = TRUE])
       ELSE Finish /\ UNCHANGED out
    /\ UNCHANGED <<query, spilled, pending, status>>

\* BlockNestedLoopJoinState: one left batch against all right files.
BlockStep ==
    /\ Running("Block")
    /\ IF State.left # <<>>
       THEN /\ Emit(Joined(Head(State.left), RowsOf(State.right), "left"))
            /\ Replace([State EXCEPT !.left = Tail(@)])
       ELSE Finish /\ UNCHANGED out
    /\ UNCHANGED <<query, spilled, pending, status>>

\* UnmatchedSideJoinState: one batch of the only side.
UnmatchedSideStep ==
    /\ Running("UnmatchedSide")
    /\ IF State.files # <<>>
       THEN /\ Emit(UnmatchedBuild(Head(State.files), State.side))
            /\ Replace([State EXCEPT !.files = Tail(@)])
       ELSE Finish /\ UNCHANGED out
    /\ UNCHANGED <<query, spilled, pending, status>>

\* No state and no task is left: the stream ends.
End ==
    /\ status = "running" /\ spilled /\ active = <<>> /\ pending = <<>>
    /\ status' = "done"
    /\ UNCHANGED <<query, spilled, pending, active, out>>

Next ==
    \/ Spill \/ SpillFails \/ PrepareOneSided \/ Repartition \/ Prepare
    \/ HashProbe \/ HashEnd
    \/ FileHashChunk \/ FileHashProbe \/ FileHashChunkEnd \/ FileHashEnd
    \/ BlockStep \/ UnmatchedSideStep \/ End

Spec == Init /\ [][Next]_vars

\* The consumer pulls until the stream ends.
FairSpec == Spec /\ WF_vars(Next)

-----------------------------------------------------------------------------
\* The join is exact: however often its partitions were split, whichever side was built
\* and whichever state joined them, a stream that ends has produced every row of the SQL
\* join exactly once and no other.
JoinExact == status = "done" => out = SetToBag(SqlJoin(joinType, left, right))

\* A row is never produced twice, not even before the stream ends: LIMIT and EXISTS
\* consumers stop early.
NoRowTwice == \A row \in BagToSet(out) : out[row] = 1

\* The hash table of a partition fits the memory limit, unless one spill file alone is
\* larger or the table is that of a semi join's right side (memory_limit_bytes).
BuildFits ==
    \A i \in DOMAIN active : active[i].kind \in {"Hash", "FileHash"} =>
        \/ Cardinality(active[i].build) <= memoryLimit
        \/ joinType = "Semi" /\ active[i].kind = "Hash"
        \/ \E b \in DOMAIN left : active[i].build \subseteq BatchOf("left", left[b], b)
        \/ \E b \in DOMAIN right : active[i].build \subseteq BatchOf("right", right[b], b)

\* The stream ends, also when all rows have one key and no hash separates them.
StreamEnds == <>(status # "running")
=============================================================================
