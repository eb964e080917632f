# Verification of Dodam

Dodam (`src/`) is an analytical query engine in Rust: SQL over Parquet files in
local directories, with a persistent table catalog, caches shared by all queries,
parallel scans, and joins and aggregations over streams of record batches. This
directory holds TLA+ models of the parts whose correctness depends on
interleavings, on failures, on long sequences of steps or on awkward boundary
cases; TLC checks the models on small instances, and TLAPS proves the most
important properties of eight of them for every value of their constants.

Run from this directory, for example

    tlc -config MCCatalog.cfg MCCatalog
    tlapm ParquetFileCacheProofs.tla

`PROJECT.json` lists the components, the runs and what each shows, the source
lines every definition stands for, a mutation of the model that breaks each
property, the hazards of the code, the disagreements found and the theorems.

## 1. Inventory

The engine's core is in `src/src`. A query is parsed (`sql.rs`, `sql/`), planned
and optimized (`plan.rs`, `optimizer.rs`, `cost.rs`), and run as a tree of pull
streams of record batches (`execution/physical.rs`, `execution/aggregate.rs`) over
scans (`storage.rs`). `engine.rs` ties these together and owns what queries share.

| part | state | operations | interacts with | hard because | correct when |
|---|---|---|---|---|---|
| chunk cache (`storage.rs`) | entries and admission table per shard, byte counter, epoch | lookup, fill, admission, eviction | all scan threads; the files | sharded locks, relaxed atomics, files rewritten under it | accounting exact, budget kept up to a bound, never stale, never stuck |
| metadata cache (`storage.rs`) | footer per path with size and time | `get_with_store` | all queries; the files | load outside the lock, stat before open | a query never plans with a footer from before it began |
| parallel scan, `LIMIT` (`execution/physical.rs`) | task chunks, pool jobs, channel, rows left | spawn, decode, send, receive, stop | rayon pool, operators above | end and error travel over one channel, early drop | complete or an error; cancelled soon; always ends |
| global aggregation (`execution/aggregate.rs`, `sql/parallel_folds.rs`) | partial states, number owed | spawn, reduce, merge | rayon pool, scan | partials arrive in any order; integer widths | independent of order and batch boundaries |
| catalog (`catalog.rs`, `engine.rs`, `main.rs`) | `.dodam/catalog.json` | register, refresh, resolve a name | other processes, table directories | no lock, write in place, directories change | an acknowledged table stays usable, with its snapshot |
| in-memory hash join (`execution/physical.rs`) | build table, tracker of matched rows | build, probe, emit unmatched | two input streams | outer joins, NULL keys, empty sides, two trackers | equals the SQL join |
| partitioned hash join (`execution/physical.rs`) | spill files, pending partitions, running states | spill, split, prepare, four ways to join | two input streams, memory limit, files | repeated splitting, skew, chunked build sides | equals the SQL join, no row twice, memory kept, ends |
| optimizer (`optimizer.rs`) | - | plan rewriting | planner | pushdown past LIMIT, DISTINCT and outer joins | answers unchanged |
| stages and tasks (`plan.rs`, `engine.rs`) | stages done, shuffle store | plan, cut into stages, run tasks, write and read partitions | optimizer, operators, files | partition counts chosen in several places, empty partitions, order of stages | the answer of the plan, every shuffled row read once |
| engine folds (`engine.rs`, `execution/physical.rs`, `storage.rs`, `execution/aggregate.rs`) | state per worker, results owed | scoped threads over row groups, four readers, merge | storage decoders | a reader or worker declines after rows were consumed | no row twice or lost |
| predicates, pruning (`execution/physical.rs`, `execution/logical.rs`, `storage.rs`, `engine.rs`) | - | masks, skipping row groups and directories | every scan | three-valued logic, statistics, several evaluators | SQL's truth values, no row lost |
| set operations (`sql/set_query.rs`, `sql/set_operations.rs`) | - | six plans and the general one | scans, sort, distinct | each plan's conditions | the rows SQL allows |
| join queries (`sql/join_*.rs`, `sql/query_parser.rs`) | - | keys, side filters, what stays above | optimizer, hash join | ON against WHERE, OR, outer joins | the rows SQL allows |
| subqueries (`sql/semijoin*.rs`, `sql/subquery_rewrite.rs`) | - | replacement by lists, semijoins | scans | NULLs, ordered early stops, four rules for one query | the rows SQL allows |
| window functions (`sql/window.rs`, `sql/output_order.rs`) | - | one sort for all functions, values per row, final order | scans, sort | LIMIT before or after the functions, ties, partition states looked up later | the rows SQL allows |
| sort-merge join, external sort, other typed states | per operator | | | ties, many copies of one algorithm | equal to the SQL definition |
| parsing, output, COPY, cost model, decoders | none that outlives a call | | | | |

What is hard to test in each part is listed, with its line and the properties that
catch it, under `hazards` in `PROJECT.json`. Some more hazards have nothing a property
could say: a rewrite that keeps size and modification time is taken for the old file;
the channel of a scan is unbounded; a query that races with the registration of its
table may get the directory or the snapshot; for a semi join the build side may exceed
the memory limit; a spill directory left by a killed process of the same id makes a
join fail.

## 2. Modules

| module | models | checked by |
|---|---|---|
| `ParquetFileCache` | `ParquetFileCache`, `CachedParquetChunkReader` | `MCParquetFileCache`, `MCParquetFileCacheFull`, `ParquetFileCacheProofs` |
| `MetadataCache` | `ParquetMetadataCache` and the reads that follow | `MCMetadataCache`, `MetadataCacheProofs` |
| `BatchStream` | abstract: what a scan promises the operator above | refined by `ParallelScan` |
| `ParallelScan` | `ParallelParquetScanStream`, `chunk_parquet_scan_tasks`, `LimitStream` | `MCParallelScan`, `ParallelScanProofs` |
| `GlobalAggregate` | `collect_aggregates`, `GlobalAggregateState` | `MCGlobalAggregate`, `GlobalAggregateProofs` |
| `Catalog` | `PersistentCatalog`, name resolution in the engine | `MCCatalog`, `CatalogProofs` |
| `JoinSemantics` | probing a hash table; the SQL join as the reference | used by the next two |
| `HashJoin` | `HashJoinStream` | `MCHashJoin`, `HashJoinProofs` |
| `PartitionedHashJoin` | `PartitionedHashJoinStream` and its partition states | `MCPartitionedHashJoin`, `PartitionedHashJoinProofs` |
| `DirectFold` | `DirectPrimitiveFoldExec`, its workers, readers and `SingleKeyCountSumVectorState` | `MCDirectFold`, `DirectFoldProofs` |
| `Predicates` | filters on batches and on decoded views; SQL's truth values as the reference | `MCQueries` |
| `FilteredScan` | pruning of row groups and directories (extends `Predicates`) | `MCQueries` |
| `SetQuery` | `try_execute_set_operation_sql` (extends `FilteredScan`) | `MCQueries` |
| `JoinQuery` | join queries from FROM, ON and WHERE to the projected rows (extends `SetQuery`) | `MCQueries` |
| `InSubquery` | IN, EXISTS and scalar subqueries (extends `JoinQuery`) | `MCQueries` |
| `WindowQuery` | SELECT with window functions and its sorts (extends `SetQuery`) | `MCQueries` |
| `LogicalPlans` | plans, their meaning, `optimize_logical_node` | `MCExecutionGraph` |
| `ExecutionGraph` | physical planning, stages, tasks, their execution (extends `LogicalPlans`) | `MCExecutionGraph` |

Operators named `...Without...`, `...Ignoring...` and the like that a comment calls
a mutant are plausible mistakes in the definition that follows them. No
specification uses them; each breaks one property when it takes that definition's
place.

### Chunk cache

A thread stats a file (`Stat`), opens it (`Open`) and asks for chunks (`Get`). One
action stands for each lock acquisition, each atomic update another thread can see,
and each file access of `get_or_read_range`, `should_admit`,
`evict_until_has_space` and `evict_one_from_entries`; `pc` names the place in the
function. The cache's maps are flattened: `cached` is the set of keys of all
shards, `ShardOf` the hash, `content` the version of the file whose bytes an entry
holds. `Rewrite` is another program replacing the file or writing it in place, so a
read through an open handle delivers the version opened or any later one
(`Readable`), or fails when the file has become too short. Statistics counters and
offsets within a chunk are left out.

### Metadata cache

`get_with_store` is `Stat`, `Hit` or `Miss` (first critical section), `Load` or
`LoadFails` (no lock held), `Insert` (second critical section). A query then makes
a chunk reader (`OpenReader`) and reads (`ReadChunks`) some version between the one
on disk when the reader was made and the one on disk now, which is what
`NeverOlderThanStat` of the chunk cache promises. The load of a footer is one step.
Both caches assume that a rewrite changes the file's size or modification time: the
code has nothing else to go by (`SigAssumption`).

### Parallel scan

The consumer packs row groups of one source, a path and its partition values, into
chunks (`ChunkTasks`), spawns a job per chunk
(`Spawn`) and drops its own sender (`DropSender`). Jobs run when the pool has a
thread (`Start`), decode and send (`Decode`), and end (`Exhausted`). `Recv`,
`RecvError`, `Disconnected` and `LimitReached` are `LimitStream::next` over the
channel; `Abandon` is a failing operator above. A reader that cannot be opened is a
first batch that cannot be decoded: both send one error and end the job.
`BatchStream` is the abstract stream: each source's batches in order, an error only
where there is one, the end only after everything, and nothing after a drop.

### Global aggregation

`SpawnJob` per non-empty batch, `RunJob` in any order, `MergePartial` as they
arrive. A partial has COUNT(*), COUNT(col), COUNT(DISTINCT col), SUM, MIN and MAX
of one column; `KernelSum` adds in the column's width like the Arrow kernel, and
`Merge` adds in 64 bits. The widths are constants (`Half32`, `Half64`), so that
small numbers overflow; release builds wrap.

### Catalog

Each command is a process: it loads the catalog (`Load`), walks the directory entry
by entry (`Discover`), opens the fragments one by one (`Inspect`), and saves in two
steps, since `std::fs::write` truncates (`Truncate`) and then writes (`Write`). When
two processes write at the same time, the later one may leave the tail of a longer
text behind. Queries resolve a name to the stored fragments (`Resolve`) or, when
the table appeared only after the first look, to the directory (`ResolvePath`).
`Change` adds or removes files, `Crash` kills a command. `acked` remembers what
each successful command reported, and `serial` whether commands have run one after
another so far.

### Joins

Rows carry their side, place and key, so that output rows are distinguishable and
the output can be compared, as a bag, with `SqlJoin`. The typed hash tables, the
Bloom filter and the typed probe loops answer lookups like a map and are
represented by the generic loop of `probe_hash_join_batches`; what the dense Int32
table changes, the tracking of matched rows by key, is in `HashJoin`
(`Dense`, `Slots`). `PartitionedHashJoin` follows the stream's control: `Spill`,
then per task `PrepareOneSided`, `Repartition` or `Prepare`, then the steps of the
running partition states. A query is its inputs, its join type and its memory limit.
The sizes of files are counted in rows. The hash is an arbitrary function per salt.

### Direct fold

`SELECT k, COUNT(..), SUM(v) ... GROUP BY k` over one file is folded by scoped threads,
each over its chunk of row groups (`ChunkFirst` .. `ChunkLast`). A worker reads its
chunk with the fastest reader that accepts it (`ReadGroup`, `EndOfChunk`); one that
refuses, at the file or in the middle of the chunk (`Refuse`), is followed by the next
(`FallBack`), with the same state. The main thread joins the scope (`Join`), takes one
result after the other (`Take`), and answers or tries the other operator
(`StartColumns`). The state keeps increasing keys beside groups and has branches for
batches with and without NULLs (`Consume`, `Merge`, `Finish`). Numbers are capped by
`SumMax`, at which `saturating_add` stops.

### Queries

`Predicates`, `FilteredScan`, `SetQuery`, `JoinQuery`, `InSubquery` and `WindowQuery` are
pure: a query
is evaluated in one step by the operators named after the functions of the source, and
compared with what SQL says, written without the code's case distinctions (`SqlSays`,
`SetSays`, `JoinSays`, `SubqueriesSay`, `WindowSays`). `MCQueries` runs every case of a family once.
Values are integers, floats with NaN, short strings and NULL; files are row groups of
rows with statistics; a predicate is a tree of comparisons, IN lists, LIKE, IS NULL and
the connectives. `LikePatternTokens`, `Segments` and the prefix range keep the
characters of patterns, since it is them the pruning and the fast path look at.
A rule that does not apply returns `NoPlan`, and the next one is tried, in the order of
the source. What is read from a file without ORDER BY may come in any order, and the
properties allow any; with LIMIT, any selection SQL allows.
`WindowQuery` follows `try_execute_window_sql`: the sort that drives the functions
(`ExecutionSort`), the columns read, the LIMIT that may be applied before the functions
(`PrefixLimit`), their values row by row (`WindowValue`), or the states of whole
partitions looked up for the rows that are left (`LateAppend`), and the final order. Rows
that ORDER BY does not tell apart may be lined up in any way (`LineUps`), and an answer is
right if it is right for one of them.
`MCQueries` takes the entry points of set queries, subqueries and windows as constants
(`SetQueries`, `SubqueryQueries`, `WindowQueries`), which `MCQueries.cfg` sets to
`RunSetQuery`, `RunSubqueries` and `RunWindow`: TLC's coverage statistics unfold every
call of a next-state relation, and of these chains of plans they would not end.

### Plans and graphs

`LogicalPlans` gives a plan the set of row sequences that are an answer to it
(`Meanings`), and has every rule of the optimizer. `ExecutionGraph` plans it (`Plan`:
`PlanNode`, `Split`, `StageTasks`), then follows the scheduling loop: passes over the
stages (`SkipStage`, `EndOfPass`), a task of a ready stage (`RunTask`, `TaskFails`), the
end of a stage (`FinishStage`). Stages may be listed in either order (`reversed`). The
shuffle store holds, per stage and partition, the files of rolled batches; a batch has
`BatchRows` rows, a file `FileTarget`. The operators of a task are evaluated in one step.

## 3. Runs

| run | instance | shows |
|---|---|---|
| `chunk_cache` | 2 threads, 2 shards, a full chunk of 10 and a tail of 5, budget 14, one rewrite after which the tail is gone and the full chunk is in the other shard, 4 requests | exact accounting, freshness, overshoot is bounded, every request returns |
| `chunk_cache_full` | 2 threads, 5 chunks of 1 byte in 2 shards and one of 4, over the budget of 3, 7 requests: three to fill the cache, and two chunks that each need a second miss to be admitted, at the same time | threads that evict for one shortage do not empty the cache |
| `metadata_cache` | 3 queries, one file, 3 rewrites, one of them not Parquet | fresh metadata; consistent quiet queries |
| `parallel_scan` | two task lists over two files, empty batches and row groups, a broken batch, chunks of 2, pool of 2, LIMIT 0, 2, 9 | complete answers, prompt cancellation, termination, refinement of `BatchStream` |
| `global_aggregate` | all streams of three batches of at most 2 rows over 3, 2, -4, NULL; broken and rejected batches | exact answers in every order, nobody waits in vain |
| `catalog` | two processes, 3 commands, 2 names, 2 directories, 3 files of 2 schemas, a change of a directory, a crash | true snapshots, scannable entries; while commands run one after another, acknowledgements are kept |
| `hash_join` | at most 2 batches of at most 2 rows per side, 2 keys and NULL, read errors, all types, both sides, both trackers | exact |
| `direct_fold` | files of up to 3 row groups of up to 6 rows, PLAIN or not, columns with and without NULLs, a broken row group, 2 workers, batches of 2 | exact groups, every worker merged once, errors with a cause, an end |
| `queries` | filters over columns of 4 types; scans of files with and without statistics and of partitioned directories; set operations of 2 and 3 operands with ORDER BY, LIMIT, OFFSET; joins of 5 types; IN, EXISTS and scalar subqueries alone and under AND, OR, NOT; window functions alone and in pairs, over one partition or several, with ORDER BY, LIMIT, OFFSET | SQL's masks, rows and answers |
| `execution_graph` | all valid stacks of up to 3 operators over a table of two fragments, scans that filter, sort, limit and drop duplicates themselves, joins of 4 kinds of inputs, with and without exchanges, 1 to 3 shuffle partitions, both orders of stages | the optimizer keeps meanings, the graph's rows are an answer, shuffled rows are read once, the loop finishes |
| `partitioned_join` | the same sizes, 2 partitions, depth 2, heavy from 3 rows, all hashes; INNER and SEMI with memory of 1 row, FULL in memory, FULL in chunks when every row has a match, read errors | exact, no row twice, tables fit, ends |

The bounds are the smallest at which the interesting cases meet: two threads and
two shards are enough for every pair of lock holders and for an eviction from a
foreign shard, one rewrite for every order of stat, open, fill and rewrite; three
partials for every merge order; two processes for every overlap of load and save.
Partitions of two keys with hashes that separate them or not, at every depth,
include splits that help, help late, and never help. A shortage for which two threads
evict too much needs a budget of three chunks: with two, `BoundedEviction` says only that
a victim was counted. Seven requests reach such a shortage: a chunk that finds the cache
three quarters full is deferred at its first miss, so each of the two takes a second one.

Deadlock is checked in the runs whose system goes on or whose end is an explicit
step, also in `execution_graph`, whose scheduler has an explicit end (`Returned`); the
catalog (bounded commands), the joins and the fold (one stream) and `queries` (a finite
list) may stop.

### Disagreements

One run ends in a counterexample to what the repository says of the code (`findings`):

- `direct_fold_fallback`: a reader that refuses a row group in the middle of a chunk has
  consumed those before, and the next reader consumes them again into the same state
  (`storage.rs:9964`; `todo.md:2846` calls the fallback safe).

In the following cases the code and SQL, or the code and its own notes, differ as well.
The passing runs leave exactly these cases out, and a changed configuration shows each.

| case | where | to see it |
|---|---|---|
| SUM of an Int32 column wraps inside a batch, though the result is 64 bits wide | `aggregate.rs:17484` | `Narrow = TRUE` in `MCGlobalAggregate.cfg`: `SumExact` |
| two registrations at a time lose a table that was reported; a command killed between truncation and write leaves a file that does not parse | `catalog.rs:216` | `RegisteredUsable` as an invariant of `MCCatalog.cfg` (for the second, one process) |
| an outer join with an empty build side returns nothing | `physical.rs:2759` | `Queries <- MCEmptyBuild` in `MCHashJoin.cfg` |
| with a dense Int32 key, an outer join loses build rows with NULL | `physical.rs:9420` | `Queries <- MCNullBuild` |
| a FULL join in build chunks repeats probe rows as unmatched | `physical.rs:3296` | `Queries <- FullInChunks` in `MCPartitionedHashJoin.cfg` |
| a FULL join of a skewed partition loses the unmatched rows of a part with one side | `physical.rs:4416` | `Queries <- FullSkewed` |
| rows with a NULL key are in no spill file | `physical.rs:4144` | `Queries <- FullWithNull` |
| a condition on a partition column makes NOT, IN, IS NULL and boolean conditions beside it disappear (`todo.md:394`) | `engine.rs:8034` | `Scans <- MCDirectoryScans` in `MCQueries.cfg`: `ScanExact` |
| INTERSECT and EXCEPT are reduced to the literals of a filter although the filtered column is not selected | `set_query.rs:4276` | `Sets <- MCHiddenSets`: `SetExact` |
| ORDER BY and LIMIT of a nested set operand are ignored | `set_query.rs:4206` | `Sets <- MCNestedSets`: `SetExact` |
| merging drops the increasing rows of a partial state, and finishing drops them once there are groups (`todo.md:3694`) | `aggregate.rs:7049` | without `KeepsRows` in `MCDirectFold` |
| COUNT(k) and COUNT(v) of the fold count NULLs | `aggregate.rs:13833` | `CountsFor` without its condition |
| a WHERE condition that holds of NULLs is evaluated below the NULL-supplying side of an outer join (`LEFT JOIN ... WHERE r.k IS NULL`) | `optimizer.rs:797` | `JoinQueryExact` without `RejectsNulls` |
| a stage over several partitions of another number runs its operator per task, e.g. GROUP BY over DISTINCT; without exchanges, a sort or aggregate over several fragments runs per fragment | `plan.rs:853` | `GraphExact` without `Sound` |
| an in-memory join of two scans in a graph fails | `engine.rs:8203` | `GraphRunsToEnd` without `TwoScans` |

Queries with subqueries have more of these; each is a disjunct of `Disputed` in
`MCQueries`, and without it `SubqueryExact` fails:

- a correlated EXISTS ignores DISTINCT and OFFSET, and NOT EXISTS loses outer rows whose
  key is NULL (`semijoin_exists.rs:316`); an uncorrelated EXISTS alone ignores OFFSET;
- the key semijoin ignores a LIMIT of the subquery and a WHERE in it that needs
  expressions (`semijoin.rs:2613`), applies DISTINCT after LIMIT (2826), trusts row groups
  in order to be sorted inside (2702), and NOT IN keeps NULLs of types without a loop of
  their own, such as floats (957);
- otherwise OFFSET is dropped (1859), LIMIT comes before expression filters (1969) and
  DISTINCT over the columns these need; the branch of an OR or NOT beside a subquery that
  needs expressions is dropped (`subquery_rewrite.rs:611`); ORDER BY a column that is not
  selected, with LIMIT over sorted row groups, fails (`batch_streams.rs:54`).

Window functions have four, the disjuncts of `DisputedWindow`, without which `WindowExact`
fails:

- LEAD is computed over the rows LIMIT leaves, and gives NULL at their end
  (`window.rs:270`; `todo.md:3595` speaks of ranking and running windows only);
- an aggregate with ORDER BY ends at the row itself, not with its peers (`window.rs:1166`);
- an aggregate of a whole partition whose PARTITION BY column is not selected fails,
  because the column is not read (`window.rs:52`);
- two functions whose OVER sorts alike but divides differently are taken for the same
  OVER, and a final ORDER BY that reverses a partition column of the first also reverses
  the second's order (`window.rs:243`).

Found by reading, not in the models' cases: runs of rows split NaN keys of PARTITION BY
which hashing keeps together (`window.rs:2861`); LIKE '' matches everything (`physical.rs:11073`); an empty IN list
differs between views and batches for NULL (`physical.rs:10108`, 10865); literals 1 and
1.0 count as disjoint (`set_operations.rs:58`); statistics leave out NaN, which compares
above every number (`storage.rs:16071`); saturating sums of mixed sign depend on the
division into chunks (`aggregate.rs:13843`); NULL IN (1) of literals is FALSE in
`literals.rs:436` and NULL in `literal_values.rs:81`; keys that do not fit an Int32
column make the row filter of the key semijoin fail.

In `catalog`, what is acknowledged is compared with what is stored only as long as no two
commands overlapped and none was killed (`serial`). Inner and semi joins are checked
without exception.

## 4. Fairness

- `ParquetFileCache!FairSpec`: a thread inside a request goes on (weak fairness of
  its steps), and whoever waits for a shard's lock gets it if it is free again and
  again (strong fairness of the two acquisitions). The standard library's `RwLock`
  promises no order, but its futex and pthread implementations queue waiters;
  without that, any use of the lock may starve. Nobody is obliged to make requests.
- `ParallelScan!Spec`: the consumer's thread goes on (weak fairness of its own
  steps), and so does each job (the pool runs queued jobs). `Abandon` is not fair.
- `DirectFold!FairSpec`: weak fairness of the main thread and of each worker; scoped
  threads are threads of the operating system and run.
- `ExecutionGraph` needs none: it is sequential, and that it ends is the absence of
  deadlock and of the state "cyclic" over finitely many steps.
- `PartitionedHashJoin!FairSpec`: the consumer pulls until the end. Weak fairness of
  the whole next-state relation: the stream is sequential.

## 5. Proofs

The proof modules extend the component's module. They rest on the component's
assumptions, which TLC evaluates for its instances: finitely many threads and
chunks, positive sizes, a hash and lengths defined on all keys, and a bound on the
lengths that fit into the budget (`SizesAssumption`, `ThreadsAssumption`,
`KeysAssumption`, `EntryAssumption`); distinct signatures of
distinct versions and an entry that differs from "no entry" (`SigAssumption`,
`NoEntryAssumption`); inputs that are sequences of batches, row groups or queries of the
right form, with NULL and the broken batch apart from the values (`ScanAssumption`,
`InputsAssumption`, `QueriesAssumption`, `JoinAssumption`, `FoldAssumption`).

`ParquetFileCacheProofs`, for any number of threads, shards, chunks, rewrites and
requests:

- `Invariance`: `IInv == TypeOK /\ LockInv /\ BytesMatchEntries` is inductive.
  `BytesMatchEntries` alone is not: that `entries.insert` adds a new key needs that
  the key was found absent under the same write lock (`LockInv`: a shard has one
  writer, and the places in the function at which a thread is that writer), and
  that a victim is subtracted once needs the lock on its shard. `TypeOK` needs
  `BytesMatchEntries` in turn: only it keeps the unsigned counter from going below
  zero. Sizes are counted as the cardinality of a set of bytes (`Area`), so that
  adding and removing entries follows from the library's facts on finite sets.
- `AccountingCorrect` and `TypeCorrect` follow.
- `FreshnessCorrect`: `FreshInv` adds, for a thread, stamp <= opened version <=
  version on disk, and that its request's key carries its own stamp.
- `BudgetCorrect`: `BudgetInv` adds that a chunk which reaches the eviction loop is
  no larger than the budget. Leaving the loop is the only step that raises what is
  promised; the proof bounds the chunks of the other threads between loop and
  `fetch_add` by one largest chunk each.
- `EvictionCorrect`: `BoundedEviction` looks at one thread about to subtract its victim,
  and is not inductive, since the others may subtract theirs first. `EvictionInv` counts
  the threads between check and subtraction: while there are any, the cache lacks less
  than one largest chunk and one more for each thread that is not among them. A thread
  that joins them has just found no room for its own chunk; one that leaves takes at most
  the chunk with it that the invariant then allows. Victims are at most a largest chunk
  because no larger one is ever inserted (`EntriesFit`).

`MetadataCacheProofs`, for any number of queries, files and rewrites: `Invariance`
of `TypeOK`, of what entries satisfy (the signature is that of a version no newer
than the footer, both no newer than the file) and of what a query at each step
knows (began <= statted <= footer, began <= opened <= read, all <= the file now).
The entry's half is what makes a hit safe: an entry with the signature of version v
has a footer of v or later. `FreshMetadata` and `QuietQueries` follow.

`CatalogProofs`, for any names, directories, files, processes and numbers of commands,
changes and crashes: `IInv` is `TypeInv`, `ProcInv`, `CopiesInv` and `SerialInv`.
`SnapshotOfDirectory` speaks of a command that saves; `ProcInv` carries it from the start
of the command: what is listed was there at some time, what was there all the time is
listed or not yet walked past. `EntriesScannable` speaks of the file, but an entry gets
there through some process's copy, so `CopiesInv` says it of all copies. `AckedIsStored`
and `QueryUsesSnapshot` need that a command running alone works on what was acknowledged
last, and that the file is torn only while that command writes (`SerialInv`).

`ParallelScanProofs`, for any task lists, batches, pool and limit: the channel mixes the
batches of all jobs, so `ChannelInv` numbers them: there is a numbering under which the
batches of a job in the channel are exactly those it has decoded and the consumer has not
received, in order. With it `ScanIsStream` shows that every step is one of `BatchStream`
or a stutter (the safety part of `ImplementsStream`); `JobsCancelled` and `TypeCorrect`
need `JobsInv` and `RowsInv`. That the jobs scan the planned row groups (`JobsCover`) is an induction over the loop of
`chunk_parquet_scan_tasks` (`AddTaskScans`). `AnswersComplete` needs `DeliveredInv`: while
the `LIMIT` still wants rows, the operator above has all rows of the batches received, and
the channel ends only when all have been (from `ChannelInv`, and because a job stops early
only after sending an error). Rows are counted as the cardinality of a set.

`DirectFoldProofs`, for any files, number of threads and batch size: `ChunksPartition`,
that the rounded-up division gives every row group to exactly one worker, is arithmetic
on `Ceil`. `FoldInv` says that a worker is in `arrived` once and iff it has a result, and
that all received results are good; `EveryWorkerMergedOnce` and `FoldFailsForCause` follow.

`GroupsExact` is proved from tallies: per key the numbers of rows and of values and the
sums of the positive and of the negative values, which add up over any splitting of the
rows (a commutative monoid). `WorkerInv`: a worker's state has the tally of the row groups
it has read, whether its rows are still increasing unique rows or groups, and whether they
were added one by one or totalled per batch; `TotalInv`: the main state has the tallies of
the workers merged, less the unique rows that merging dropped. `FoldExact` then has four
conditions, each of them a disagreement named in section 3 or the violation run: no partial
state keeps unique rows (`KeepsRows`), no reader refuses a row group after others (`ReadsOnce`, the violation run), COUNT meets no NULL
(`AllCounted`), and no sum saturates on the way (`SumsFit`; values of both signs past 64
bits, `aggregate.rs:13843`). `ExactExactlyIfNothingForgotten` replaces the first by its
effect and shows it necessary: an answer is SQL's if and only if no row was dropped
(`ForgetsRows`).

`GlobalAggregateProofs`, for any stream of batches: the merged state is the aggregate of the
*set* of batches merged so far, in whatever order (`IInv`): every count and sum is a total
over all batches in which the others count 0, so that merging one changes one addend. The
partials owed are the jobs queued and the entries of the channel, which repeats none; hence
`WorkersOwe`, and that an answer comes only after every batch (`Answers`). `Sums` needs that
wrapping to 64 bits is additive (`WrapAdd`), so that only the total counts; for a 32-bit
column it assumes that no batch leaves 32 bits (`SumsFit`), which is exactly the case listed
under Disagreements.

`HashJoinProofs`, for any inputs, join type, side and tracker: the output is, after each
probe batch, what the rows read so far call for, each once, and the tracker holds the build
rows matched so far (`IInv`). `HashJoinExact` follows outside `LeftShort`, the outer joins
listed under Disagreements and those without a probe batch; `ShortAlways` proves that each of
these, when it ends, does lack rows, so that nothing else was excluded.

`PartitionedHashJoinProofs`, for any inputs, hashes, partitions, depth and memory limit, is
a ledger: a task or a state owes a set of output rows; these sets and the rows produced are
pairwise disjoint and, for inner and semi joins, together the SQL join. Spilling and
splitting distribute what is owed, steps of a state pay it. `RowsOnce` and `InnerSemiExact`
follow; `TablesFit` needs that a spill file holds rows of one input batch.

In this ledger a FULL state owes too much: a build row is owed as unmatched until a probe
batch matches it. `FullInv` is a second ledger that says exactly what is owed: by a task the
FULL join of its files, by a Hash state the pairs and unmatched probe rows of the batches to
come and the build rows that nothing has matched or will. It holds for the joins of
`FullFits`: no NULL key, and either every row has a partner, which splitting preserves since
partners have the same hash, so that chunks and heavy keys leave nothing unmatched; or no
key is heavy and every set of rows that no salt separates fits in memory on one side, so that
repartitioning ends with Hash states only (`SplitUntilItFits`). `FullExact` follows. It
covers more than the run's cases, namely any memory limit at which splitting succeeds, and
leaves out the three FULL rows of the table in section 3. `NullKeyLost` proves that the
condition on NULL keys is necessary; those on heavy and inseparable rows are sufficient
only, and the changed configurations show rows lost or repeated without them.

Induction is over sets, without operator parameters: every nonempty set of numbers has a
least element (`WFMin` of the library), hence a set with 0 that is closed under successor has
all numbers (`NatInd`). A recursive function of the models (`Total`, `ChunkTasks`,
`FlattenSeq`, `UpdateRows`, `ConsumeGroup`) is shown to exist for every length in this way, and is then known by its
equations.

`ParquetFileCacheProofs`, `MetadataCacheProofs`, `CatalogProofs` and `ParallelScanProofs`
also prove their module's `TypeOK`, which no run repeats.

Only model-checked: liveness (`RequestsReturn`, `QueryEnds`, `StreamEnds`, `Answered`) and
the fairness part of `ImplementsStream`, which TLAPS does not reason about; and the
invariants of `MCQueries` and `ExecutionGraph`, whose operators are recursive on syntax
trees, predicates and plans (RECURSIVE operators, which the prover cannot unfold).

## 6. Not modelled

See `components` in `PROJECT.json`. The source has about 143 000 lines, most of them the
same operation once more for another type or shape: decoders per encoding and type,
accumulators per key and value type, fused loops for single TPC-H queries, probe loops per
key type. The models have one of each kind, and the map names only the lines that are
modelled, which is why it covers a small share of the whole. Left out for good: byte-level
decoders, numeric kernels, the floating-point cost model, parsing, output, and the rules
that recognise TPC-H shapes, which compute in one loop what the general operators compute.
The life cycle of spill directories, and errors of single spill files, are not in
`PartitionedHashJoin`. Of subqueries, pairs of columns, aggregates and other correlations
are left out, of joins more than two tables, of window functions expressions as arguments; of plans, sort-merge joins, broadcast and the
search for a join order.

## 7. Plan

Done, in this order: the shared caches, the scan and its abstract stream, global
aggregation, the catalog, the joins; the direct fold; predicates, pruning, set operations,
join queries, subqueries and window functions against SQL; optimizer, stages and tasks; proofs about the
caches, the catalog, the scan, the fold, global aggregation and the joins.

Next:

1. sort-merge join and external sort as stream operators;
2. the search for a join order, against `Meanings`;
3. the grouped states with several keys, and their parallel merge;
4. the spill directories of `PartitionedHashJoin`.

Proofs worth having: the invariants of `ExecutionGraph`'s loop with the planner as a
constant; which FULL joins with heavy keys or build chunks are exact all the same.
