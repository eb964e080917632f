---------------------------- MODULE ParallelScan ----------------------------
(***************************************************************************)
(* The parallel Parquet scan of src/src/execution/physical.rs              *)
(* (ParallelParquetScanStream, chunk_parquet_scan_tasks) under a           *)
(* LimitStream.  The consumer's thread packs the planned row groups into   *)
(* chunks and spawns one job per chunk on the rayon pool; the jobs send    *)
(* their batches through one unbounded mpsc channel, which ends when the   *)
(* last sender is gone.  A consumer that has enough rows, meets an error,  *)
(* or is itself abandoned drops the receiver, and the jobs notice at their *)
(* next send.                                                              *)
(*                                                                         *)
(* A batch is its number of rows; decode times and metrics are left out.   *)
(***************************************************************************)
EXTENDS Integers, FiniteSets, SequencesExt

CONSTANTS
    TaskLists,   \* the row-group lists the scan planner may produce
    PathOf,      \* the file of a row group
    PartitionOf, \* its partition_values, which a job adds to all its batches
    BatchesOf,   \* the batches a row group decodes to
    Broken,      \* a batch that cannot be decoded
    Target,      \* row groups per job (DODAM_PARQUET_SCAN_ROW_GROUP_CHUNK)
    Pool,        \* rayon threads
    Limits,      \* LIMIT values tried
    MaxJobs      \* bound: at least the number of jobs of any list

RowGroups == DOMAIN BatchesOf

ASSUME ScanAssumption ==
    /\ Target \in Nat \ {0} /\ Pool \in Nat \ {0}
    /\ Limits \subseteq Nat /\ Broken \notin Nat
    /\ \A g \in RowGroups : BatchesOf[g] \in Seq(Nat \cup {Broken})
    /\ \A ts \in TaskLists : ts \in Seq(RowGroups) /\ Len(ts) <= MaxJobs

VARIABLES
    tasks,      \* the planned row groups
    chunks,     \* the jobs' row groups: ParquetScanTaskChunk
    job,        \* per job: "unspawned", "queued", "running" or "done"
    pos,        \* per job: batches decoded so far
    wasted,     \* per job: batches decoded for nobody
    channel,    \* the mpsc queue: <<job, batch>> pairs
    consumer,   \* "spawning", "consuming" or "gone"
    got,        \* per job: batches received
    status,     \* how the scan stream ended: "open", "end", "error", "dropped"
    remaining,  \* LimitStream.remaining
    limit,      \* its initial value
    outRows     \* rows handed to the operator above

vars == <<tasks, chunks, job, pos, wasted, channel, consumer, got, status, remaining,
          limit, outRows>>
query == <<tasks, chunks, limit>>

Jobs == DOMAIN chunks

-----------------------------------------------------------------------------
\* Mutant: the file of a row group is not looked at.
AddTaskOfAnyFile(cs, task) ==
    IF cs # <<>> /\ Len(Last(cs)) < Target
    THEN Append(Front(cs), Append(Last(cs), task))
    ELSE Append(cs, <<task>>)

\* What the row groups of a job have in common.
SourceOf(g) == <<PathOf[g], PartitionOf[g]>>

\* A row group joins the last job if that scans the same file with the same partition
\* values and has room.
AddTask(cs, task) ==
    IF /\ cs # <<>>
       /\ SourceOf(Last(Last(cs))) = SourceOf(task)
       /\ Len(Last(cs)) < Target
    THEN Append(Front(cs), Append(Last(cs), task))
    ELSE Append(cs, <<task>>)

\* chunk_parquet_scan_tasks: neighbouring row groups of one file, at most Target
\* of them, form a job.
ChunkTasks(ts) ==
    LET after[n \in 0..Len(ts)] == IF n = 0 THEN <<>> ELSE AddTask(after[n - 1], ts[n])
    IN  after[Len(ts)]

\* A job's reader yields the batches of its row groups in order.
BatchesOfChunk(chunk) == FlattenSeq([i \in DOMAIN chunk |-> BatchesOf[chunk[i]]])
BatchesOfJob(j) == BatchesOfChunk(chunks[j])

\* ParquetScanExec::into_stream_parts takes this path for two row groups or more.
Init ==
    /\ tasks \in {ts \in TaskLists : Len(ts) > 1}
    /\ chunks = ChunkTasks(tasks)
    /\ job = [j \in Jobs |-> "unspawned"]
    /\ pos = [j \in Jobs |-> 0]
    /\ wasted = [j \in Jobs |-> 0]
    /\ channel = <<>>
    /\ consumer = "spawning"
    /\ got = [j \in Jobs |-> 0]
    /\ status = "open"
    /\ limit \in Limits
    /\ remaining = limit
    /\ outRows = 0

Running == {j \in Jobs : job[j] = "running"}

\* rayon::spawn for the next chunk.
Spawn(j) ==
    /\ consumer = "spawning"
    /\ job[j] = "unspawned" /\ \A i \in Jobs : i < j => job[i] # "unspawned"
    /\ job' = [job EXCEPT ![j] = "queued"]
    /\ UNCHANGED <<query, pos, wasted, channel, consumer, got, status, remaining, outRows>>

\* drop(sender): from here on the channel ends with the last job.
DropSender ==
    /\ consumer = "spawning"
    /\ \A j \in Jobs : job[j] # "unspawned"
    /\ consumer' = "consuming"
    /\ UNCHANGED <<query, job, pos, wasted, channel, got, status, remaining, outRows>>

\* The pool runs a queued job.
Start(j) ==
    /\ job[j] = "queued" /\ Cardinality(Running) < Pool
    /\ job' = [job EXCEPT ![j] = "running"]
    /\ UNCHANGED <<query, pos, wasted, channel, consumer, got, status, remaining, outRows>>

\* Mutant: a failed send is ignored.
DecodeIgnoringSendError(j) ==
    LET batch == BatchesOfJob(j)[pos[j] + 1]
        sent == consumer # "gone"
    IN  /\ job[j] = "running" /\ pos[j] < Len(BatchesOfJob(j))
        /\ pos' = [pos EXCEPT ![j] = @ + 1]
        /\ channel' = IF sent THEN Append(channel, <<j, batch>>) ELSE channel
        /\ wasted' = IF sent THEN wasted ELSE [wasted EXCEPT ![j] = @ + 1]
        /\ job' = IF batch = Broken THEN [job EXCEPT ![j] = "done"] ELSE job
        /\ UNCHANGED <<query, consumer, got, status, remaining, outRows>>

\* Mutant: a decode error ends the job without being sent.
DecodeDroppingError(j) ==
    LET batch == BatchesOfJob(j)[pos[j] + 1]
        sent == consumer # "gone" /\ batch # Broken
    IN  /\ job[j] = "running" /\ pos[j] < Len(BatchesOfJob(j))
        /\ pos' = [pos EXCEPT ![j] = @ + 1]
        /\ channel' = IF sent THEN Append(channel, <<j, batch>>) ELSE channel
        /\ wasted' = wasted
        /\ job' = IF batch = Broken \/ ~sent THEN [job EXCEPT ![j] = "done"] ELSE job
        /\ UNCHANGED <<query, consumer, got, status, remaining, outRows>>

\* The job decodes a batch and sends it.  It stops after an error, and when the
\* receiver is gone.
Decode(j) ==
    LET batch == BatchesOfJob(j)[pos[j] + 1]
        sent == consumer # "gone"
    IN  /\ job[j] = "running" /\ pos[j] < Len(BatchesOfJob(j))
        /\ pos' = [pos EXCEPT ![j] = @ + 1]
        /\ channel' = IF sent THEN Append(channel, <<j, batch>>) ELSE channel
        /\ wasted' = IF sent THEN wasted ELSE [wasted EXCEPT ![j] = @ + 1]
        /\ job' = IF batch = Broken \/ ~sent THEN [job EXCEPT ![j] = "done"] ELSE job
        /\ UNCHANGED <<query, consumer, got, status, remaining, outRows>>

\* Mutant: an exhausted job keeps its sender.
ExhaustedKeepsSender(j) ==
    /\ job[j] = "running" /\ pos[j] = Len(BatchesOfJob(j))
    /\ UNCHANGED vars

\* The job's reader is exhausted; its sender is dropped.
Exhausted(j) ==
    /\ job[j] = "running" /\ pos[j] = Len(BatchesOfJob(j))
    /\ job' = [job EXCEPT ![j] = "done"]
    /\ UNCHANGED <<query, pos, wasted, channel, consumer, got, status, remaining, outRows>>

-----------------------------------------------------------------------------
(* LimitStream::next                                                       *)

\* The stream is dropped with the receiver, and what the channel still holds.
Leave(how) ==
    /\ consumer' = "gone"
    /\ status' = how
    /\ channel' = <<>>

\* A batch, cut to the rows still wanted; an empty one changes nothing.
Recv ==
    LET j == Head(channel)[1]
        batch == Head(channel)[2]
        rows == IF batch < remaining THEN batch ELSE remaining
    IN  /\ consumer = "consuming" /\ remaining > 0
        /\ channel # <<>> /\ batch # Broken
        /\ channel' = Tail(channel)
        /\ got' = [got EXCEPT ![j] = @ + 1]
        /\ remaining' = remaining - rows
        /\ outRows' = outRows + rows
        /\ UNCHANGED <<query, job, pos, wasted, consumer, status>>

\* Mutant: an error overtakes the batches sent before it.
RecvErrorFirst ==
    /\ consumer = "consuming" /\ remaining > 0
    /\ \E i \in DOMAIN channel : channel[i][2] = Broken
    /\ Leave("error")
    /\ UNCHANGED <<query, job, pos, wasted, got, remaining, outRows>>

\* An error goes up; every collector returns it with `?`.
RecvError ==
    /\ consumer = "consuming" /\ remaining > 0
    /\ channel # <<>> /\ Head(channel)[2] = Broken
    /\ Leave("error")
    /\ UNCHANGED <<query, job, pos, wasted, got, remaining, outRows>>

\* recv() fails: the channel is empty and all senders are gone.
Disconnected ==
    /\ consumer = "consuming" /\ remaining > 0
    /\ channel = <<>> /\ \A j \in Jobs : job[j] = "done"
    /\ Leave("end")
    /\ UNCHANGED <<query, job, pos, wasted, got, remaining, outRows>>

\* The limit is reached: no further recv().
LimitReached ==
    /\ consumer = "consuming" /\ remaining = 0
    /\ Leave("dropped")
    /\ UNCHANGED <<query, job, pos, wasted, got, remaining, outRows>>

\* An operator above fails and drops the whole pipeline.
Abandon ==
    /\ consumer = "consuming" /\ remaining > 0
    /\ Leave("dropped")
    /\ UNCHANGED <<query, job, pos, wasted, got, remaining, outRows>>

Consume == Recv \/ RecvError \/ Disconnected \/ LimitReached
Work(j) == Start(j) \/ Decode(j) \/ Exhausted(j)

\* The query is over and the pool idle.
Quiescent ==
    /\ consumer = "gone" /\ \A j \in Jobs : job[j] = "done"
    /\ UNCHANGED vars

Next ==
    \/ DropSender \/ Consume \/ Abandon \/ Quiescent
    \/ \E j \in Jobs : Spawn(j) \/ Work(j)

\* The consumer's thread keeps polling and the pool keeps running queued jobs;
\* nobody has to abandon the query.
Spec ==
    /\ Init /\ [][Next]_vars
    /\ WF_vars(DropSender \/ Consume \/ \E j \in Jobs : Spawn(j))
    /\ \A n \in 1..MaxJobs : WF_vars(n \in Jobs /\ Work(n))

-----------------------------------------------------------------------------
(* Properties                                                              *)

\* The reachable states are well typed.
TypeOK ==
    /\ job \in [Jobs -> {"unspawned", "queued", "running", "done"}]
    /\ Cardinality(Running) <= Pool
    /\ \A j \in Jobs : got[j] <= pos[j] /\ pos[j] <= Len(BatchesOfJob(j))
    /\ consumer \in {"spawning", "consuming", "gone"}
    /\ status \in {"open", "end", "error", "dropped"}
    /\ remaining \in 0..limit /\ outRows \in Nat

\* The jobs together scan exactly the planned row groups, in order, and a job
\* never mixes files or partitions.
ChunksCoverTasks ==
    /\ FlattenSeq(chunks) = tasks
    /\ \A j \in Jobs : \A a, b \in ToSet(chunks[j]) : SourceOf(a) = SourceOf(b)

\* All rows of the scan (the r-th of the n-th batch of job j), and whether some row
\* group cannot be decoded.
RowsOf(j, n) == {<<j, n>>} \X (1..BatchesOfJob(j)[n])
RowsUpTo(counts) == UNION {UNION {RowsOf(j, n) : n \in 1..counts[j]} : j \in Jobs}
TotalRows == Cardinality(RowsUpTo([j \in Jobs |-> Len(BatchesOfJob(j))]))
AnyBroken == \E j \in Jobs : Broken \in ToSet(BatchesOfJob(j))

\* A query that ends without an error has all rows or as many as its LIMIT, and
\* never a truncated answer because a job failed.
AnswerComplete ==
    /\ outRows <= limit
    /\ status = "end" => ~AnyBroken /\ outRows = TotalRows
    /\ status = "dropped" /\ remaining = 0 => outRows = limit

\* After the receiver is gone a job decodes at most one more batch.
CancelledPromptly == \A j \in Jobs : wasted[j] <= 1

\* Every query ends, and its jobs leave the pool.
QueryEnds == <>[](consumer = "gone" /\ \A j \in Jobs : job[j] = "done")

\* The channel of batches implements the abstract stream: no batch is lost,
\* duplicated or reordered within its job, and the end comes last.
AllBatches == [j \in Jobs |-> BatchesOfJob(j)]
Stream == INSTANCE BatchStream WITH batches <- AllBatches
ImplementsStream == Stream!Spec
=============================================================================
