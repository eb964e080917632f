----------------------------- MODULE DirectFold -----------------------------
(***************************************************************************)
(* SELECT k, COUNT(..), SUM(v) FROM file GROUP BY k, folded straight over  *)
(* the pages of one Parquet file (DirectPrimitiveFoldExec of               *)
(* src/src/execution/physical.rs, the primitive readers of                 *)
(* src/src/storage.rs and SingleKeyCountSumVectorState of                  *)
(* src/src/execution/aggregate.rs).  Two attempts are made: over PLAIN     *)
(* pages in one worker thread, then over column batches in several, each   *)
(* falling from reader to reader.  Every worker folds its chunk of the row *)
(* groups into a state of its own and sends it; the main thread waits for  *)
(* all of them and merges what they sent, in the order it arrived.         *)
(*                                                                         *)
(* A row is a key and a value, either of them possibly NULL.  A row group  *)
(* is one page per column.  Dense and hashed group indexes give the same   *)
(* groups and are not told apart.                                          *)
(***************************************************************************)
EXTENDS Integers, SequencesExt

CONSTANTS
    Queries,      \* a file and the argument of COUNT: "star", "k" or "v"
    Null,
    Parallelism,  \* threads for the second attempt (available_parallelism)
    BatchSize,
    DenseRows,    \* rows from which a batch is totalled before it is added (1024)
    SumMax        \* the largest i64

\* The rows of a file: an integer key and a value of 64 bits.
RowSet == [k : Int \cup {Null}, v : (-SumMax - 1 .. SumMax) \cup {Null}]

ASSUME FoldAssumption ==
    /\ Parallelism \in Nat \ {0} /\ BatchSize \in Nat \ {0}
    /\ DenseRows \in Nat /\ SumMax \in Nat
    /\ \A q \in Queries :
          q.file.groups \in Seq([plain : BOOLEAN, broken : BOOLEAN, rows : Seq(RowSet)])

VARIABLES
    query,     \* [file, count]
    attempt,   \* "pages" or "columns"
    phase,     \* the main thread: "joining", "receiving" or "done"
    reader,    \* per worker: "pages", "stream", "page" or "column"
    pos,       \* per worker: the row group it reads next
    partial,   \* per worker: its SingleKeyCountSumVectorState
    result,    \* per worker: "running", "some", "none" or "error"
    arrived,   \* the workers in the order in which they sent
    received,  \* how many of those the main thread has taken
    total,     \* the main thread's state
    answer     \* what try_execute_metrics returns

vars == <<query, attempt, phase, reader, pos, partial, result, arrived, received, total, answer>>
workerVars == <<reader, pos, partial, result, arrived>>

File == query.file
Groups == File.groups

-----------------------------------------------------------------------------
(* Chunks of row groups.                                                   *)

Smaller(a, b) == IF a < b THEN a ELSE b
Ceil(n, d) == (n + d - 1) \div d

\* partition_row_groups_balanced, as it is unless the environment asks for balance:
\* chunks of equal length, the last one shorter.
ChunkSize(n, threads) == IF n = 0 THEN 1 ELSE Ceil(n, Smaller(threads, n))
ChunkCount(n, threads) == Ceil(n, ChunkSize(n, threads))
ChunkFirst(n, threads, w) == (w - 1) * ChunkSize(n, threads) + 1
ChunkLast(n, threads, w) == Smaller(w * ChunkSize(n, threads), n)

Threads(a) == IF a = "pages" THEN 1 ELSE Parallelism
Workers(a) == 1 .. ChunkCount(Len(Groups), Threads(a))
LastGroup(w) == ChunkLast(Len(Groups), Threads(attempt), w)

-----------------------------------------------------------------------------
(* The state of a fold.                                                    *)

Saturate(n) == IF n > SumMax THEN SumMax ELSE IF n < -SumMax - 1 THEN -SumMax - 1 ELSE n

\* Rows with strictly increasing keys are kept as they are (DirectUniqueI64CountSum)
\* until a batch breaks the order; from then on there are only groups.
Fresh == [open |-> TRUE, unique |-> <<>>, groups |-> <<>>]

NewGroup == [count |-> 0, sum |-> 0, present |-> 0]
GroupAt(groups, k) == IF k \in DOMAIN groups THEN groups[k] ELSE NewGroup
PutGroup(groups, k, g) == [x \in DOMAIN groups \cup {k} |-> IF x = k THEN g ELSE groups[x]]

MergeGroup(g, h) == [count |-> g.count + h.count, sum |-> Saturate(g.sum + h.sum),
                     present |-> g.present + h.present]
RowGroup(row) == IF row.v = Null THEN [count |-> 1, sum |-> 0, present |-> 0]
                 ELSE [count |-> 1, sum |-> row.v, present |-> 1]
UpdateRow(groups, row) == PutGroup(groups, row.k, MergeGroup(GroupAt(groups, row.k), RowGroup(row)))
UpdateRows(groups, rows) ==
    LET updated[n \in 0 .. Len(rows)] == IF n = 0 THEN groups ELSE UpdateRow(updated[n - 1], rows[n])
    IN  updated[Len(rows)]

\* Mutant: a group that is there already is replaced.
MergeGroupsReplacing(groups, more) ==
    [x \in DOMAIN groups \cup DOMAIN more |-> IF x \in DOMAIN more THEN more[x] ELSE groups[x]]

MergeGroups(groups, more) ==
    [x \in DOMAIN groups \cup DOMAIN more |->
        IF x \in DOMAIN more THEN MergeGroup(GroupAt(groups, x), more[x]) ELSE groups[x]]

NullFree(rows) == \A i \in DOMAIN rows : rows[i].k # Null /\ rows[i].v # Null

\* A long batch is totalled per key first (consume_.._dense_accumulate).
UpdateBatch(groups, rows) ==
    IF Len(rows) >= DenseRows /\ \A i \in DOMAIN rows : rows[i].v # Null
    THEN MergeGroups(groups, UpdateRows(<<>>, rows))
    ELSE UpdateRows(groups, rows)

Increasing(rows) == \A i \in 1 .. Len(rows) - 1 : rows[i].k < rows[i + 1].k

\* consume_i32_i64_batch, consume_i64_i64_batch and their page_bytes twins: the view of a
\* batch without NULLs goes through the unique rows, any other straight to the groups.
Consume(state, rows) ==
    IF NullFree(rows) /\ state.open
    THEN IF Increasing(state.unique \o rows)
         THEN [state EXCEPT !.unique = @ \o rows]
         ELSE [open |-> FALSE, unique |-> <<>>,
               groups |-> UpdateBatch(UpdateRows(state.groups, state.unique), rows)]
    ELSE [state EXCEPT !.groups = UpdateBatch(@, rows)]

\* SingleKeyCountSumVectorState::merge looks at the groups of the partial state only.
Merge(state, part) == [state EXCEPT !.groups = MergeGroups(@, part.groups)]

ResultRow(k, g) == [k |-> k, count |-> g.count, sum |-> IF g.present = 0 THEN Null ELSE g.sum]

\* finish: the unique rows are the answer if there is no group, and forgotten if there is.
Finish(state) ==
    IF state.open /\ state.groups = <<>>
    THEN {ResultRow(state.unique[i].k, RowGroup(state.unique[i])) : i \in DOMAIN state.unique}
    ELSE {ResultRow(k, state.groups[k]) : k \in DOMAIN state.groups}

-----------------------------------------------------------------------------
(* The readers.                                                            *)

\* A row group's rows, batch by batch.
Batches(rows) ==
    [i \in 1 .. Ceil(Len(rows), BatchSize) |->
        SubSeq(rows, (i - 1) * BatchSize + 1, Smaller(i * BatchSize, Len(rows)))]
ConsumeGroup(state, group) ==
    LET batches == Batches(group.rows)
        consumed[n \in 0 .. Len(batches)] == IF n = 0 THEN state ELSE Consume(consumed[n - 1], batches[n])
    IN  consumed[Len(batches)]

\* The page streams take columns without NULLs only, all but the materializing page
\* reader look at the type of v before they read anything.
RefusesFile(r) ==
    \/ r \in {"pages", "stream"} /\ (File.keyOptional \/ File.sumOptional)
    \/ r # "page" /\ ~File.sumInt64

\* Mutant: the column reader wants PLAIN pages too.
RefusesGroupUnlessPlain(r, group) == (~group.plain /\ group.rows # <<>>) \/ (r = "page" /\ ~File.sumInt64)

\* A page that is not PLAIN, or belongs to a dictionary, ends every reader but the last.
RefusesGroup(r, group) ==
    \/ r # "column" /\ ~group.plain /\ group.rows # <<>>
    \/ r = "page" /\ ~File.sumInt64

FirstReader(a) == IF a = "pages" THEN "pages" ELSE "stream"
NextReader == [stream |-> "page", page |-> "column"]

-----------------------------------------------------------------------------
Started(a) ==
    [reader |-> [w \in Workers(a) |-> FirstReader(a)],
     pos |-> [w \in Workers(a) |-> ChunkFirst(Len(Groups), Threads(a), w)],
     partial |-> [w \in Workers(a) |-> Fresh],
     result |-> [w \in Workers(a) |-> "running"]]

Init ==
    /\ query \in Queries
    /\ attempt = "pages" /\ phase = "joining"
    /\ LET s == Started("pages") IN reader = s.reader /\ pos = s.pos /\ partial = s.partial /\ result = s.result
    /\ arrived = <<>> /\ received = 0
    /\ total = Fresh
    /\ answer = [kind |-> "waiting"]

Running(w) == w \in DOMAIN result /\ result[w] = "running"
Reading(w) == Running(w) /\ pos[w] <= LastGroup(w)

Send(w, r) == /\ result' = [result EXCEPT ![w] = r]
              /\ arrived' = Append(arrived, w)

\* Mutant: a worker whose last reader gives up ends without a word.
FallBackSilently(w) ==
    IF reader[w] \in DOMAIN NextReader
    THEN /\ reader' = [reader EXCEPT ![w] = NextReader[@]]
         /\ pos' = [pos EXCEPT ![w] = ChunkFirst(Len(Groups), Threads(attempt), w)]
         /\ UNCHANGED <<partial, result, arrived>>
    ELSE UNCHANGED workerVars

\* scan_parquet_primitive_columns_with_store_impl: the next reader starts over at the
\* first row group, with the same state.
FallBack(w) ==
    IF reader[w] \in DOMAIN NextReader
    THEN /\ reader' = [reader EXCEPT ![w] = NextReader[@]]
         /\ pos' = [pos EXCEPT ![w] = ChunkFirst(Len(Groups), Threads(attempt), w)]
         /\ UNCHANGED <<partial, result, arrived>>
    ELSE Send(w, "none") /\ UNCHANGED <<reader, pos, partial>>

\* A worker's reader opens the file or goes on to the next row group.
Refuse(w) ==
    /\ Reading(w)
    /\ \/ RefusesFile(reader[w])
       \/ ~Groups[pos[w]].broken /\ RefusesGroup(reader[w], Groups[pos[w]])
    /\ FallBack(w)
    /\ UNCHANGED <<query, attempt, phase, received, total, answer>>

ReadError(w) ==
    /\ Reading(w) /\ ~RefusesFile(reader[w]) /\ Groups[pos[w]].broken
    /\ Send(w, "error")
    /\ UNCHANGED <<query, attempt, phase, reader, pos, partial, received, total, answer>>

ReadGroup(w) ==
    /\ Reading(w) /\ ~RefusesFile(reader[w])
    /\ LET group == Groups[pos[w]]
       IN  /\ ~group.broken /\ ~RefusesGroup(reader[w], group)
           /\ partial' = [partial EXCEPT ![w] = ConsumeGroup(@, group)]
    /\ pos' = [pos EXCEPT ![w] = @ + 1]
    /\ UNCHANGED <<query, attempt, phase, reader, result, arrived, received, total, answer>>

EndOfChunk(w) ==
    /\ Running(w) /\ pos[w] > LastGroup(w)
    /\ Send(w, "some")
    /\ UNCHANGED <<query, attempt, phase, reader, pos, partial, received, total, answer>>

\* The thread scope ends when every worker has.
Join ==
    /\ phase = "joining"
    /\ \A w \in DOMAIN result : result[w] # "running"
    /\ phase' = "receiving"
    /\ UNCHANGED <<query, attempt, workerVars, received, total, answer>>

Return(a) == phase' = "done" /\ answer' = a

\* The fold over pages gives up and the one over columns begins, with a state of its own.
StartColumns ==
    LET s == Started("columns")
    IN  /\ attempt' = "columns" /\ phase' = "joining"
        /\ reader' = s.reader /\ pos' = s.pos /\ partial' = s.partial /\ result' = s.result
        /\ arrived' = <<>> /\ received' = 0 /\ total' = Fresh
        /\ UNCHANGED <<query, answer>>

\* Mutant: a worker that could not read its part is left out.
TakeWhatThereIs ==
    LET w == arrived[received + 1]
    IN  /\ phase = "receiving" /\ received < Len(arrived)
        /\ total' = IF result[w] # "some" THEN total
                    ELSE IF Len(Groups) <= 1 THEN partial[w] ELSE Merge(total, partial[w])
        /\ received' = received + 1
        /\ UNCHANGED <<query, attempt, phase, workerVars, answer>>

\* The receive loop; a single row group has been folded into the main state itself.
Take ==
    LET w == arrived[received + 1]
    IN  /\ phase = "receiving" /\ received < Len(arrived)
        /\ \/ /\ result[w] = "some"
              /\ total' = IF Len(Groups) <= 1 THEN partial[w] ELSE Merge(total, partial[w])
              /\ received' = received + 1
              /\ UNCHANGED <<query, attempt, phase, workerVars, answer>>
           \/ /\ result[w] = "error"
              /\ Return([kind |-> "error"])
              /\ UNCHANGED <<query, attempt, workerVars, received, total>>
           \/ /\ result[w] = "none" /\ attempt = "columns"
              /\ Return([kind |-> "declined"])
              /\ UNCHANGED <<query, attempt, workerVars, received, total>>
           \/ result[w] = "none" /\ attempt = "pages" /\ StartColumns

Answer ==
    /\ phase = "receiving" /\ received = Len(arrived)
    /\ Return([kind |-> "groups", rows |-> Finish(total)])
    /\ UNCHANGED <<query, attempt, workerVars, received, total>>

Work(w) == Refuse(w) \/ ReadError(w) \/ ReadGroup(w) \/ EndOfChunk(w)
Next == Join \/ Take \/ Answer \/ \E w \in DOMAIN result : Work(w)
Spec == Init /\ [][Next]_vars

\* Threads that can run do run.
Main == Join \/ Take \/ Answer
Worker(w) == w \in DOMAIN result /\ Work(w)
FairSpec == Spec /\ WF_vars(Main) /\ \A w \in 1 .. Parallelism : WF_vars(Worker(w))

-----------------------------------------------------------------------------
(* What SQL says.                                                          *)

AllRows == FlattenSeq([i \in DOMAIN Groups |-> Groups[i].rows])
Counted(row) == CASE query.count = "k" -> row.k # Null
                  [] query.count = "v" -> row.v # Null
                  [] OTHER -> TRUE
Total(s) ==
    LET sums[n \in 0 .. Len(s)] == IF n = 0 THEN 0 ELSE sums[n - 1] + s[n]
    IN  sums[Len(s)]
SqlGroup(k) ==
    LET rows == {i \in DOMAIN AllRows : AllRows[i].k = k}
        values == {i \in rows : AllRows[i].v # Null}
    IN  [k |-> k,
         count |-> Total([i \in DOMAIN AllRows |-> IF i \in rows /\ Counted(AllRows[i]) THEN 1 ELSE 0]),
         sum |-> IF values = {} THEN Null
                 ELSE Saturate(Total([i \in DOMAIN AllRows |-> IF i \in values THEN AllRows[i].v ELSE 0]))]

\* GROUP BY gives one row per key with its exact count and its sum, clamped to i64,
\* whatever readers the workers fell back to and in which order their states were merged.
GroupsExact ==
    answer.kind = "groups" => answer.rows = {SqlGroup(k) : k \in {AllRows[i].k : i \in DOMAIN AllRows}}

\* A state keeps unique rows beside groups, and a merge drops them.  That is ruled out if a
\* file of several row groups has none that begins with a batch in key order, and one
\* with NULLs has none but such batches or begins with one out of order.
Settled(rows) ==
    LET batches == Batches(rows)
    IN  \/ \A i \in DOMAIN batches : ~NullFree(batches[i])
        \/ NullFree(batches[1]) /\ ~Increasing(batches[1])
KeepsRows(f) ==
    \/ Len(f.groups) <= 1 /\ \A i \in DOMAIN f.groups : NullFree(f.groups[i].rows)
    \/ \A i \in DOMAIN f.groups : Settled(f.groups[i].rows)

\* The state itself: some worker has unique rows that finish or a merge looks past.
ForgetsRows ==
    \E w \in DOMAIN partial :
        partial[w].unique # <<>> /\ (Len(Groups) > 1 \/ partial[w].groups # <<>>)

\* A reader that gives up in the middle of a chunk has consumed its first row groups,
\* and the next one reads them again: ruled out if in no worker's chunk a row group with
\* rows comes before the first one that ends a reader.
EndsReader(group) == ~group.plain /\ group.rows # <<>>
ReadsOnce(f) ==
    LET n == Len(f.groups)
    IN  \A w \in 1 .. ChunkCount(n, Parallelism) :
            \A i, j \in ChunkFirst(n, Parallelism, w) .. ChunkLast(n, Parallelism, w) :
                i < j /\ f.groups[i].rows # <<>> /\ EndsReader(f.groups[j]) =>
                    \E h \in ChunkFirst(n, Parallelism, w) .. i : EndsReader(f.groups[h])

\* The query fails only if a row group cannot be read, and is left to another operator
\* only if v is not 64 bits wide: the last reader takes every encoding.
FailsForCause ==
    /\ answer.kind = "error" => \E i \in DOMAIN Groups : Groups[i].broken
    /\ answer.kind = "declined" => ~File.sumInt64

\* An answer is made of the state of every worker, each taken once and each complete: a
\* worker that failed or gave up is never simply missing (the receive loops of
\* scan_direct_primitive_count_sum_page_fold and scan_direct_primitive_parallel_fold).
MergedOnce ==
    answer.kind = "groups" =>
        \A w \in DOMAIN result :
            /\ result[w] = "some"
            /\ \E i \in 1 .. received : arrived[i] = w
            /\ \A i, j \in 1 .. received : arrived[i] = w /\ arrived[j] = w => i = j

\* Every query comes to an end: the main thread does not wait for a worker that will not
\* send, and the attempts and readers to fall back to run out.
Answered == <>(phase = "done")
=============================================================================
