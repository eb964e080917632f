----------------------------- MODULE WindowQuery -----------------------------
(***************************************************************************)
(* SELECT with window functions over one table: src/src/sql/window.rs, and *)
(* the sorts it uses (src/src/execution/physical.rs,                       *)
(* src/src/sql/output_order.rs).                                           *)
(*                                                                         *)
(* A query is a record: path, filter, shown (the plain columns of SELECT), *)
(* fns, order (Null or a sort), limit and offset.  A sort is a sequence of *)
(* [col, desc, nf] (nf: NULLS FIRST).  A window function is [name, f, arg, *)
(* by, part, order]: its output column, its kind, its argument (a column,  *)
(* or Null for COUNT of all), the offset of LAG and LEAD, the columns of   *)
(* PARTITION BY and the sort of ORDER BY.  An average is <<sum, count>>.   *)
(* Aliases of plain columns and expressions as arguments are left out.     *)
(***************************************************************************)
EXTENDS SetQuery

Ranking == {"row_number", "rank", "dense_rank"}
Aggregates == {"count", "sum", "avg"}
Shifts == {"lag", "lead"}

-----------------------------------------------------------------------------
(* Sorts.                                                                  *)

\* SortColumn and SortOptions: where NULLs go does not depend on the direction.
ExprBefore(s, a, b) ==
    CASE a = Null -> b # Null /\ s.nf
      [] a # Null /\ b = Null -> ~s.nf
      [] OTHER -> IF s.desc THEN a > b ELSE a < b
RowBefore(sort, a, b) ==
    \E n \in DOMAIN sort : /\ ExprBefore(sort[n], a[sort[n].col], b[sort[n].col])
                           /\ \A m \in 1 .. n - 1 : a[sort[m].col] = b[sort[m].col]
SortColumns(sort) == {sort[n].col : n \in DOMAIN sort}

\* sort_single_batch; lexsort_to_indices leaves the order of equal rows open.
SortedBy(rows, sort) ==
    LET Before(i, j) == \/ RowBefore(sort, rows[i], rows[j])
                        \/ ~RowBefore(sort, rows[j], rows[i]) /\ i < j
    IN  Pick(rows, SortSeq(Indices(rows), Before))

\* sort_batches: every batch is cut to its first limit rows when that helps one of them.
SortBatches(batches, sort, limit) ==
    LET Top(rows) == LimitRows(SortedBy(rows, sort), limit, 0)
        prune == /\ limit # Null /\ Len(batches) > 1
                 /\ \E b \in DOMAIN batches : Len(batches[b]) > limit
    IN  Top(FlattenSeq(IF prune THEN [b \in DOMAIN batches |-> Top(batches[b])] ELSE batches))

\* dense_i32_window_partition_range and dense_i32_array_range; the limit of a million slots
\* is left out.
DenseKeys(keys) ==
    LET found == Range(keys) \ {Null}
    IN  found = {} \/ Max(found) - Min(found) + 1 <= 4 * Len(keys)

\* sort_nullable_i32_then_ordered_i64_batch: the rows already are in the order of the second
\* column, and are only distributed over buckets of the first.
IsBucketSort(rows, sort, limit) ==
    /\ limit # Null
    /\ limit > 0 /\ limit < Len(rows)
    /\ Len(sort) = 2
    /\ ~sort[1].desc /\ ~sort[2].desc /\ sort[1].nf /\ ~sort[2].nf
    /\ ColumnType[sort[1].col] = "int32" /\ ColumnType[sort[2].col] \in {"int32", "int64"}
    /\ Ascending(rows, sort[2].col)
    /\ DenseKeys([i \in DOMAIN rows |-> rows[i][sort[1].col]])
BucketSorted(rows, col, limit) ==
    LET Bucket(v) == SelectSeq(rows, LAMBDA row : row[col] = v)
        keys == SetToSortSeq({rows[i][col] : i \in DOMAIN rows} \ {Null}, <)
    IN  LimitRows(Bucket(Null) \o FlattenSeq([n \in DOMAIN keys |-> Bucket(keys[n])]), limit, 0)

\* sort_output_batch, without the partial sorts that are off by default
SortOutput(rows, sort, limit) ==
    IF IsBucketSort(rows, sort, limit) THEN BucketSorted(rows, sort[1].col, limit)
    ELSE LimitRows(SortedBy(rows, sort), limit, 0)

\* apply_output_order_limit over one batch
OutputOrderLimit(rows, sort, limit, offset) ==
    LimitRows(IF sort = Null THEN rows
              ELSE SortOutput(rows, sort, IF limit = Null THEN Null ELSE limit + offset), limit, offset)

-----------------------------------------------------------------------------
(* Planning.                                                               *)

\* parse_window_function: partition columns before the columns of ORDER BY.
WindowSort(fn) == [n \in DOMAIN fn.part |-> [col |-> fn.part[n], desc |-> FALSE, nf |-> FALSE]] \o fn.order
OverOf(q) == IF WindowSort(q.fns[1]) = <<>> THEN Null ELSE WindowSort(q.fns[1])

\* parse_window_projection and parse_window_function: one OVER for all, and ORDER BY where
\* the function needs it.
IsSupported(q) ==
    \A fn \in Range(q.fns) : /\ WindowSort(fn) = WindowSort(q.fns[1])
                             /\ fn.f \in Ranking \cup Shifts => fn.order # <<>>

\* window_order_uses_output
OutputNames(q) == {fn.name : fn \in Range(q.fns)}
OrdersByOutput(q) == q.order # Null /\ SortColumns(q.order) \cap OutputNames(q) # {}

\* window_partition_hash_aggregate_safe
IsHashAggregate(q) ==
    \A fn \in Range(q.fns) : fn.f \in Aggregates /\ fn.order = <<>> /\ fn.part # <<>>

\* Mutant: any function may run on a prefix of the sorted rows.
PrefixAlwaysSafe(q) == TRUE

\* window_prefix_limit_safe
PrefixSafe(q) == \A fn \in Range(q.fns) : fn.f \in Ranking \/ fn.order # <<>>

\* final_order_can_drive_window_sort: partition columns may be sorted in any direction.
CanDrive(q, over) ==
    /\ Len(q.order) >= Len(over)
    /\ \A n \in DOMAIN over : IF n <= Len(q.fns[1].part) THEN q.order[n].col = over[n].col
                              ELSE q.order[n] = over[n]

\* window_execution_sort
ExecutionSort(q) ==
    LET over == OverOf(q)
    IN  CASE IsHashAggregate(q) -> Null
          [] ~IsHashAggregate(q) /\ (q.order = Null \/ OrdersByOutput(q)) -> over
          [] OTHER -> IF over = Null THEN q.order ELSE IF CanDrive(q, over) THEN q.order ELSE over

\* execution_sort_satisfies_order and sort_key_prefix_matches
SatisfiesOrder(q, sort) ==
    q.order = Null \/ (sort # Null /\ IsPrefix(q.order, sort))

\* try_execute_window_sql: pre_window_prefix_limit
PrefixLimit(q, sort) ==
    IF q.limit # Null /\ SatisfiesOrder(q, sort) /\ PrefixSafe(q) THEN q.limit + q.offset ELSE Null

\* try_execute_window_sql: scan_projection.  Partition columns are read for the sort only.
Arguments(q) == {fn.arg : fn \in Range(q.fns)} \ {Null}
ScanColumns(q, sort) ==
    q.shown \cup Arguments(q) \cup (IF sort = Null THEN {} ELSE SortColumns(sort))
    \cup (IF q.order = Null THEN {} ELSE SortColumns(q.order) \ OutputNames(q))

-----------------------------------------------------------------------------
(* Values of one function over the sorted rows.                            *)

\* rows_equal_on_columns
EqualOn(cols, a, b) == \A n \in DOMAIN cols : a[cols[n]] = b[cols[n]]

\* window_partition_ranges: where the run of rows of one partition starts and ends.
RunStart(rows, fn, i) ==
    Max({s \in 1 .. i : s = 1 \/ ~EqualOn(fn.part, rows[s - 1], rows[s])})
RunEnd(rows, fn, i) ==
    Min({e \in i .. Len(rows) : e = Len(rows) \/ ~EqualOn(fn.part, rows[e], rows[e + 1])})

\* append_primitive_ranking_outputs, append_ranking_window_columns: in the run of i, the rows up
\* to i that differ from the one before.
OrderColumns(fn) == [n \in DOMAIN fn.order |-> fn.order[n].col]
Changes(rows, fn, i) ==
    LET start == RunStart(rows, fn, i)
    IN  {start} \cup {j \in start + 1 .. i : ~EqualOn(OrderColumns(fn), rows[j - 1], rows[j])}
RankingValue(rows, fn, i) ==
    LET start == RunStart(rows, fn, i)
    IN  CASE fn.f = "row_number" -> i - start + 1
          [] fn.f = "rank" -> Max(Changes(rows, fn, i)) - start + 1
          [] fn.f = "dense_rank" -> Cardinality(Changes(rows, fn, i))

\* A count, a sum or an average of present values; no value gives NULL, but for COUNT.
AggregateResult(fn, sum, count) ==
    CASE fn.f = "count" -> count
      [] fn.f # "count" /\ count = 0 -> Null
      [] fn.f = "sum" /\ count > 0 -> sum
      [] OTHER -> <<sum, count>>
Present(fn, row) == fn.arg = Null \/ row[fn.arg] # Null
Addend(fn, row) == IF fn.f = "count" THEN 0 ELSE row[fn.arg]
AggregateOf(fn, rows) ==
    LET present == SelectSeq(rows, LAMBDA row : Present(fn, row))
    IN  AggregateResult(fn, FoldLeft(LAMBDA sum, row : sum + Addend(fn, row), 0, present), Len(present))

\* append_running_aggregate_window_columns: the rows of the run up to this one.
RunningValue(rows, fn, i) == AggregateOf(fn, SubSeq(rows, RunStart(rows, fn, i), i))

\* shift_window_take_indices and shift_copy_window_values
ShiftValue(rows, fn, i) ==
    LET j == IF fn.f = "lag" THEN i - fn.by ELSE i + fn.by
    IN  IF j < RunStart(rows, fn, i) \/ j > RunEnd(rows, fn, i) THEN Null ELSE rows[j][fn.arg]

\* window_hash_count_values and window_hash_sum_count_values: all rows with these values of
\* the partition columns, wherever they are.
HashValue(rows, fn, i) ==
    AggregateOf(fn, SelectSeq(rows, LAMBDA row : EqualOn(fn.part, row, rows[i])))

\* append_window_function_columns, window_function_values, window_aggregate_values: one of the
\* typed loops, or else function by function.
WindowValue(rows, fn, i) ==
    CASE fn.f \in Ranking -> RankingValue(rows, fn, i)
      [] fn.f \in Shifts -> ShiftValue(rows, fn, i)
      [] fn.f \in Aggregates /\ fn.order # <<>> -> RunningValue(rows, fn, i)
      [] OTHER -> IF fn.part # <<>> THEN HashValue(rows, fn, i) ELSE AggregateOf(fn, rows)
AppendColumns(rows, fns) ==
    [i \in DOMAIN rows |->
        rows[i] @@ [name \in {fn.name : fn \in Range(fns)} |->
                      WindowValue(rows, CHOOSE fn \in Range(fns) : fn.name = name, i)]]

-----------------------------------------------------------------------------
(* Aggregates of whole partitions, computed before the rows are chosen.    *)

\* try_shared_int64_partition_window_states: one pass for functions of one column.
IsShared(q, rows) ==
    /\ Len(q.fns) >= 2
    /\ DenseKeys([i \in DOMAIN rows |-> rows[i][q.fns[1].part[1]]])
    /\ Arguments(q) # {} /\ \A fn \in Range(q.fns) : fn.arg = q.fns[1].arg
    /\ ColumnType[q.fns[1].arg] = "int64"

\* int32_partition_window_state: slots for dense keys and one for NULL, or else a map.  Only
\* present values are counted.
PartitionState(rows, col, fn) ==
    LET keys == [i \in DOMAIN rows |-> rows[i][col]]
        found == Range(keys) \ {Null}
        Of(v) == SelectSeq(rows, LAMBDA row : row[col] = v /\ Present(fn, row))
        Sum(v) == FoldLeft(LAMBDA sum, row : sum + IF fn.arg = Null THEN 0 ELSE row[fn.arg], 0, Of(v))
        min == IF found = {} THEN 0 ELSE Min(found)
        slots == IF found = {} THEN {} ELSE 0 .. Max(found) - min
    IN  IF DenseKeys(keys)
        THEN [dense |-> TRUE, min |-> min,
              slots |-> [s \in slots |-> [sum |-> Sum(min + s), count |-> Len(Of(min + s))]],
              ofNull |-> [sum |-> Sum(Null), count |-> Len(Of(Null))]]
        ELSE [dense |-> FALSE, map |-> [v \in Range(keys) |-> [sum |-> Sum(v), count |-> Len(Of(v))]]]

\* append_int32_partition_hash_window_columns_from_states
StateValue(state, fn, key) ==
    LET entry == CASE ~state.dense -> state.map[key]
                   [] state.dense /\ key = Null -> state.ofNull
                   [] OTHER -> state.slots[key - state.min]
    IN  AggregateResult(fn, entry.sum, entry.count)

\* try_apply_int32_partition_hash_window_order_limit
IsLateAppend(q) ==
    /\ IsHashAggregate(q) /\ q.order # Null /\ ~OrdersByOutput(q)
    /\ Len(q.fns[1].part) = 1 /\ ColumnType[q.fns[1].part[1]] = "int32"
LateAppend(q, rows) ==
    LET col == q.fns[1].part[1]
        states == [n \in DOMAIN q.fns |-> PartitionState(rows, col, q.fns[IF IsShared(q, rows) THEN 1 ELSE n])]
        \* prune_window_late_append_sort_batch
        pruned == Project(rows, q.shown \cup SortColumns(q.order) \cup {col})
        kept == OutputOrderLimit(pruned, q.order, q.limit, q.offset)
        At(name) == CHOOSE n \in DOMAIN q.fns : q.fns[n].name = name
    IN  [i \in DOMAIN kept |->
            kept[i] @@ [name \in OutputNames(q) |->
                          StateValue(states[At(name)], q.fns[At(name)], kept[i][col])]]

\* try_execute_window_sql
RunWindow(q) ==
    LET sort == ExecutionSort(q)
        cols == ScanColumns(q, sort)
        prefix == PrefixLimit(q, sort)
        groups == [g \in DOMAIN Tables[q.path] |-> Project(Filtered(Tables[q.path][g].rows, q.filter), cols)]
        batches == SelectSeq(groups, LAMBDA rows : rows # <<>>)
        rows == IF sort = Null THEN FlattenSeq(batches) ELSE SortBatches(batches, sort, prefix)
        valued == AppendColumns(rows, q.fns)
        unread == \E fn \in Range(q.fns) : ~(Range(fn.part) \subseteq cols)
    IN  CASE ~IsSupported(q) -> Error
          [] IsSupported(q) /\ rows # <<>> /\ unread -> Error
          [] OTHER ->
               Project(CASE rows = <<>> -> <<>>
                         [] rows # <<>> /\ IsLateAppend(q) -> LateAppend(q, rows)
                         [] OTHER -> IF SatisfiesOrder(q, sort) THEN LimitRows(valued, q.limit, q.offset)
                                     ELSE OutputOrderLimit(valued, q.order, q.limit, q.offset),
                       q.shown \cup OutputNames(q))

-----------------------------------------------------------------------------
(* What SQL says.  The rows of a partition are in some order that ORDER BY  *)
(* allows; aggregates with ORDER BY include the peers of a row.             *)

\* The ways to line up the rows that the sort of OVER allows.
LineUps(rows, sort) ==
    {p \in Permutations(DOMAIN rows) :
        \A i, j \in DOMAIN rows : i < j => ~RowBefore(sort, rows[p[j]], rows[p[i]])}

\* The value for the row at place i of the line.
ValueSays(line, fn, i) ==
    LET mates == SelectSeq(Indices(line), LAMBDA j : EqualOn(fn.part, line[j], line[i]))
        ahead == SelectSeq(mates, LAMBDA j : RowBefore(fn.order, line[j], line[i]))
        framed == SelectSeq(mates, LAMBDA j : ~RowBefore(fn.order, line[i], line[j]))
        place == CHOOSE n \in DOMAIN mates : mates[n] = i
        shifted == IF fn.f = "lag" THEN place - fn.by ELSE place + fn.by
        keys == {[c \in Range(OrderColumns(fn)) |-> line[j][c]] : j \in Range(ahead)}
    IN  CASE fn.f = "row_number" -> place
          [] fn.f = "rank" -> Len(ahead) + 1
          [] fn.f = "dense_rank" -> Cardinality(keys) + 1
          [] fn.f \in Shifts -> IF shifted \in DOMAIN mates THEN line[mates[shifted]][fn.arg] ELSE Null
          [] OTHER -> AggregateOf(fn, Pick(line, framed))

WindowSays(q, line) ==
    [i \in DOMAIN line |-> line[i] @@ [name \in OutputNames(q) |->
        ValueSays(line, CHOOSE fn \in Range(q.fns) : fn.name = name, i)]]

\* out is an answer, when the rows are lined up in this way.
IsWindowAnswer(out, q, line) ==
    LET all == WindowSays(q, line)
        shown == Project(all, q.shown \cup OutputNames(q))
        wanted == LimitRows(IF q.order = Null THEN all ELSE SortedBy(all, q.order), q.limit, q.offset)
        keys == IF q.order = Null THEN {} ELSE SortColumns(q.order) \cap (q.shown \cup OutputNames(q))
    IN  /\ Len(out) = Len(wanted)
        /\ \A row \in Range(out) : Count(out, row) <= Count(shown, row)
        /\ \A i \in DOMAIN out, c \in keys : out[i][c] = wanted[i][c]
=============================================================================
