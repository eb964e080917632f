--------------------------- MODULE GlobalAggregate ---------------------------
(***************************************************************************)
(* Global aggregation (collect_aggregates and its accumulators in          *)
(* src/src/execution/aggregate.rs; parallel_batch_fold in                  *)
(* src/src/sql/parallel_folds.rs has the same shape).  The consumer reads  *)
(* the batch stream and spawns one job per batch; each job reduces its     *)
(* batch to a partial state and sends it; the consumer then receives as    *)
(* many partials as it spawned jobs and merges them as they arrive.        *)
(*                                                                         *)
(* One column is aggregated, of a 32-bit or a 64-bit integer type; the     *)
(* word sizes are constants.  A partial carries COUNT, COUNT(col),         *)
(* COUNT(DISTINCT col), SUM, MIN and MAX at once; AVG is SUM over          *)
(* COUNT(col).                                                             *)
(***************************************************************************)
EXTENDS Integers, FiniteSetsExt, SequencesExt

CONSTANTS
    Inputs,    \* streams tried: sequences of batches, of Broken and of Unsupported
    Null,      \* a NULL in the column
    Broken,    \* the stream yields an error
    Unsupported, \* a batch whose column from_batch rejects
    Narrow,    \* the column is Int32 (else Int64)
    Half32,    \* 2^31
    Half64     \* 2^63

Batches == Seq(Int \cup {Null})

ASSUME WidthAssumption ==
    /\ Narrow \in BOOLEAN /\ Half32 \in Nat /\ Half64 \in Nat /\ 0 < Half32 /\ Half32 < Half64

ASSUME InputsAssumption ==
    /\ Null \notin Int
    /\ Broken \notin Batches /\ Unsupported \notin Batches
    /\ \A s \in Inputs : s \in Seq(Batches \cup {Broken, Unsupported})

VARIABLES
    input,     \* the stream
    next,      \* batches read
    consumer,  \* "reading", "merging", "ok" or "error"
    job,       \* per batch: "none", "queued" or "done"
    channel,   \* batches whose partial was sent and not yet received
    pending,   \* pending_batches still to be received
    acc        \* GlobalAggregateState of the consumer

vars == <<input, next, consumer, job, channel, pending, acc>>

\* Two's complement arithmetic with values in -half .. half - 1.
Wrap(n, half) == ((n + half) % (2 * half)) - half

-----------------------------------------------------------------------------
(* Accumulators                                                            *)

\* GlobalAggregateState::new
NewState == [rows |-> 0, count |-> 0, distinct |-> {}, sum |-> 0, min |-> Null, max |-> Null]

\* The sum of a sequence of integers.
Total(s) ==
    LET total[n \in 0..Len(s)] == IF n = 0 THEN 0 ELSE total[n - 1] + s[n]
    IN  total[Len(s)]

\* Per row of the column: its validity bit, and what it adds to the sum.
Valid(batch) == [i \in DOMAIN batch |-> IF batch[i] = Null THEN 0 ELSE 1]
Addends(batch) == [i \in DOMAIN batch |-> IF batch[i] = Null THEN 0 ELSE batch[i]]

\* The Arrow kernel `sum` adds in the column's own type and wraps around.
KernelSum(batch) == Wrap(Total(Addends(batch)), IF Narrow THEN Half32 ELSE Half64)

\* GlobalAggregateState::from_batch
FromBatch(batch) ==
    LET set == ToSet(batch) \ {Null}
    IN  [rows |-> Len(batch), count |-> Total(Valid(batch)), distinct |-> set,
         sum |-> KernelSum(batch),
         min |-> IF set = {} THEN Null ELSE Min(set),
         max |-> IF set = {} THEN Null ELSE Max(set)]

\* update_min_max_value: an absent state is replaced, else the better value wins.
Better(a, b, lower) ==
    CASE b = Null -> a
      [] a = Null -> b
      [] OTHER -> IF (b < a) = lower THEN b ELSE a

\* Mutant: the partial's sum replaces the state's.
MergeReplacingSum(a, b) ==
    [rows |-> a.rows + b.rows, count |-> a.count + b.count,
     distinct |-> a.distinct \cup b.distinct,
     sum |-> b.sum,
     min |-> Better(a.min, b.min, TRUE),
     max |-> Better(a.max, b.max, FALSE)]

\* GlobalAggregateState::merge
Merge(a, b) ==
    [rows |-> a.rows + b.rows, count |-> a.count + b.count,
     distinct |-> a.distinct \cup b.distinct,
     sum |-> Wrap(a.sum + b.sum, Half64),
     min |-> Better(a.min, b.min, TRUE),
     max |-> Better(a.max, b.max, FALSE)]

-----------------------------------------------------------------------------
Init ==
    /\ input \in Inputs
    /\ next = 0
    /\ consumer = "reading"
    /\ job = [i \in DOMAIN input |-> "none"]
    /\ channel = <<>>
    /\ pending = 0
    /\ acc = NewState

More == consumer = "reading" /\ next < Len(input)
Batch == input[next + 1]

\* A batch without rows is skipped.
SkipEmpty ==
    /\ More /\ Batch = <<>>
    /\ next' = next + 1
    /\ UNCHANGED <<input, consumer, job, channel, pending, acc>>

\* A batch is handed to a job of the pool.
SpawnJob ==
    /\ More /\ Batch \notin {<<>>, Broken}
    /\ next' = next + 1
    /\ job' = [job EXCEPT ![next + 1] = "queued"]
    /\ pending' = pending + 1
    /\ UNCHANGED <<input, consumer, channel, acc>>

\* An error of the stream is returned at once; running jobs are left behind.
StreamError ==
    /\ More /\ Batch = Broken
    /\ consumer' = "error"
    /\ channel' = <<>>
    /\ UNCHANGED <<input, next, job, pending, acc>>

EndOfStream ==
    /\ consumer = "reading" /\ next = Len(input)
    /\ consumer' = "merging"
    /\ UNCHANGED <<input, next, job, channel, pending, acc>>

\* Mutant: a job whose batch is rejected sends nothing.
RunJobSilentError(i) ==
    /\ job[i] = "queued"
    /\ job' = [job EXCEPT ![i] = "done"]
    /\ channel' = IF consumer = "error" \/ input[i] = Unsupported THEN channel ELSE Append(channel, i)
    /\ UNCHANGED <<input, next, consumer, pending, acc>>

\* A job reduces its batch and sends the partial, or the error; a receiver that
\* is gone is ignored.
RunJob(i) ==
    /\ job[i] = "queued"
    /\ job' = [job EXCEPT ![i] = "done"]
    /\ channel' = IF consumer = "error" THEN channel ELSE Append(channel, i)
    /\ UNCHANGED <<input, next, consumer, pending, acc>>

Receiving == consumer = "merging" /\ pending > 0 /\ channel # <<>>

MergePartial ==
    /\ Receiving /\ input[Head(channel)] # Unsupported
    /\ acc' = Merge(acc, FromBatch(input[Head(channel)]))
    /\ channel' = Tail(channel)
    /\ pending' = pending - 1
    /\ UNCHANGED <<input, next, consumer, job>>

MergeError ==
    /\ Receiving /\ input[Head(channel)] = Unsupported
    /\ consumer' = "error"
    /\ channel' = <<>>
    /\ UNCHANGED <<input, next, job, pending, acc>>

\* Mutant: merging stops as soon as the channel is empty.
FinishWhenDrained ==
    /\ consumer = "merging" /\ channel = <<>>
    /\ consumer' = "ok"
    /\ UNCHANGED <<input, next, job, channel, pending, acc>>

\* All partials are in.
Finish ==
    /\ consumer = "merging" /\ pending = 0
    /\ consumer' = "ok"
    /\ UNCHANGED <<input, next, job, channel, pending, acc>>

\* The query is over and the pool idle.
Quiescent ==
    /\ consumer \in {"ok", "error"} /\ \A i \in DOMAIN input : job[i] # "queued"
    /\ UNCHANGED vars

Consume == SkipEmpty \/ SpawnJob \/ StreamError \/ EndOfStream \/ MergePartial \/ MergeError \/ Finish
Next == Consume \/ Quiescent \/ \E i \in DOMAIN input : RunJob(i)

Spec == Init /\ [][Next]_vars

-----------------------------------------------------------------------------
(* Properties                                                              *)

\* All rows of a stream without errors, in stream order.
AllRows == FlattenSeq(input)

\* Whatever the batch boundaries and the order in which the jobs finish, an
\* answer accounts for every row once, and a failed batch is never left out of
\* it: COUNT, COUNT(DISTINCT), MIN and MAX are those of the whole column.
AnswerExact ==
    consumer = "ok" =>
        /\ \A i \in DOMAIN input : input[i] \notin {Broken, Unsupported}
        /\ LET all == FromBatch(AllRows) IN
           \A f \in {"rows", "count", "distinct", "min", "max"} : acc[f] = all[f]

\* SUM is the 64-bit sum of the column's values (README.md:147, numeric SUM/AVG),
\* however the rows are split into batches.
SumExact ==
    consumer = "ok" /\ (\A i \in DOMAIN input : input[i] \notin {Broken, Unsupported}) =>
        acc.sum = Wrap(Total(Addends(AllRows)), Half64)

\* recv() never finds all senders gone while partials are owed, which would be
\* reported as "aggregate worker stopped".
NoWorkerStopped ==
    consumer = "merging" /\ pending > 0 =>
        channel # <<>> \/ \E i \in DOMAIN input : job[i] = "queued"
=============================================================================
