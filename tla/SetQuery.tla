------------------------------ MODULE SetQuery ------------------------------
(***************************************************************************)
(* UNION, INTERSECT and EXCEPT, ALL or DISTINCT: try_execute_set_operation *)
(* _sql of src/src/sql/set_query.rs tries, in this order, plans that read  *)
(* one file once for all operands, and else executes the operands one by   *)
(* one and combines their rows (src/src/sql/set_operations.rs).            *)
(*                                                                         *)
(* A set expression is an operand (k "select": path, columns, filter,      *)
(* distinct), a parenthesised query with its own order and limit           *)
(* (k "query") or an operation (k "op").  Rows come in sequences, since    *)
(* they may repeat.  A plan that does not apply gives NoPlan.  Aliases and *)
(* the CASE literals of try_execute_simple_case_distinct_set_literals are  *)
(* left out.                                                               *)
(***************************************************************************)
EXTENDS FilteredScan, TLC

CONSTANTS
    Tables,     \* path -> the row groups of the file
    TopkRows,   \* reverse_row_group_topk_max_limit_rows, 65536 by default
    NoPlan

Project(rows, cols) == [i \in DOMAIN rows |-> [c \in cols |-> rows[i][c]]]
Indices(rows) == [i \in DOMAIN rows |-> i]
Pick(rows, at) == [n \in DOMAIN at |-> rows[at[n]]]
Count(rows, row) == Cardinality({i \in DOMAIN rows : rows[i] = row})
AllRows(path) == FlattenSeq([g \in DOMAIN Tables[path] |-> Tables[path][g].rows])
Filtered(rows, filter) ==
    IF filter = Null THEN rows ELSE SelectSeq(rows, LAMBDA row : EvaluateFilter(row, filter) = TRUE)

\* DistinctExec keeps the first of equal rows.
DistinctRows(rows) ==
    Pick(rows, SelectSeq(Indices(rows), LAMBDA i : \A j \in 1 .. i - 1 : rows[j] # rows[i]))

\* ORDER BY col, NULLs last; rows with equal keys stay in order.
KeyBefore(order, a, b) ==
    \/ a # Null /\ b = Null
    \/ a # Null /\ b # Null /\ IF order.desc THEN a > b ELSE a < b
Sorted(rows, order) ==
    LET Before(i, j) == \/ KeyBefore(order, rows[i][order.col], rows[j][order.col])
                        \/ ~KeyBefore(order, rows[j][order.col], rows[i][order.col]) /\ i < j
    IN Pick(rows, SortSeq(Indices(rows), Before))

Least(a, b) == IF a < b THEN a ELSE b

\* limit_batches and apply_output_order_limit; limit Null is none.
LimitRows(rows, limit, offset) ==
    SubSeq(rows, offset + 1, IF limit = Null THEN Len(rows) ELSE Least(offset + limit, Len(rows)))
OrderLimit(rows, order, limit, offset) ==
    LimitRows(IF order = Null THEN rows ELSE Sorted(rows, order), limit, offset)

-----------------------------------------------------------------------------
(* Recognising operands that read the same file.                           *)

RECURSIVE ContainsSetOperation(_)
ContainsSetOperation(x) == x.k = "op" \/ (x.k = "query" /\ ContainsSetOperation(x.body))

PlainQuery(x) == x.order = Null /\ x.limit = Null

\* collect_union_all_operand_queries and collect_union_distinct_operand_queries.
RECURSIVE UnionOperands(_, _)
UnionOperands(x, all) ==
    CASE x.k = "select" -> <<x>>
      [] x.k = "op" ->
             IF x.op # "union" \/ x.all # all THEN NoPlan
             ELSE LET l == UnionOperands(x.l, all)
                      r == UnionOperands(x.r, all)
                  IN IF NoPlan \in {l, r} THEN NoPlan ELSE l \o r
      [] x.k = "query" ->
             IF ContainsSetOperation(x.body) THEN UnionOperands(x.body, all)
             ELSE IF PlainQuery(x) THEN UnionOperands(x.body, all) ELSE NoPlan

\* single_set_operand_query
SingleOperand(x) ==
    CASE x.k = "select" -> x
      [] x.k = "query" -> IF ~ContainsSetOperation(x.body) /\ PlainQuery(x) THEN x.body ELSE NoPlan
      [] x.k = "op" -> NoPlan

\* positive_literal_filter_values: a column and the literals it must equal one of.
LiteralFilter(f) ==
    CASE f = Null -> NoPlan
      [] f # Null /\ f.e = "cmp" /\ f.op = "=" /\ f.lit # NullLiteral -> <<f.col, <<f.lit>>>>
      [] f # Null /\ f.e = "in" /\ ~f.negated /\ ~f.hasNull -> <<f.col, f.vals>>
      [] OTHER -> NoPlan

\* The operands scan one file for the same columns (same_source_union_all_operand_supported
\* and the comparisons with the first operand).
SameSource(operands) ==
    \A i \in DOMAIN operands :
        /\ ~operands[i].distinct
        /\ operands[i].path = operands[1].path
        /\ operands[i].cols = operands[1].cols

\* One scan for all operands, which select literals of one column.
LiteralOperands(operands) ==
    /\ SameSource(operands)
    /\ \A i \in DOMAIN operands :
           /\ LiteralFilter(operands[i].filter) # NoPlan
           /\ LiteralFilter(operands[i].filter)[1] = LiteralFilter(operands[1].filter)[1]
Literals(operands) == FlattenSeq([i \in DOMAIN operands |-> LiteralFilter(operands[i].filter)[2]])
SharedScan(operands, literals) ==
    [path |-> operands[1].path, cols |-> operands[1].cols,
     filter |-> [e |-> "in", col |-> LiteralFilter(operands[1].filter)[1], vals |-> literals,
                 negated |-> FALSE, hasNull |-> FALSE]]

\* Mutant: literals of two operands may be equal.
DisjointUnchecked(literals) == TRUE

Disjoint(literals) == \A i, j \in DOMAIN literals : literals[i] = literals[j] => i = j

\* same_source_disjoint_union_all_plan
DisjointUnionAllPlan(x) ==
    LET operands == UnionOperands(x, TRUE)
    IN IF operands = NoPlan THEN NoPlan
       ELSE IF Len(operands) < 2 \/ ~LiteralOperands(operands) THEN NoPlan
       ELSE IF ~Disjoint(Literals(operands)) THEN NoPlan
       ELSE SharedScan(operands, Literals(operands))

\* same_source_union_distinct_plan
UnionDistinctPlan(x) ==
    LET operands == UnionOperands(x, FALSE)
    IN IF operands = NoPlan THEN NoPlan
       ELSE IF Len(operands) < 2 \/ ~LiteralOperands(operands) THEN NoPlan
       ELSE SharedScan(operands, DistinctRows(Literals(operands)))

\* same_source_distinct_set_plan: intersect_literal_values or except_literal_values.
DistinctSetPlan(x) ==
    IF x.k # "op" THEN NoPlan
    ELSE IF x.op = "union" \/ x.all \/ NoPlan \in {SingleOperand(x.l), SingleOperand(x.r)} THEN NoPlan
    ELSE LET operands == <<SingleOperand(x.l), SingleOperand(x.r)>>
             Right == Range(LiteralFilter(operands[2].filter)[2])
             Kept(lit) == (lit \in Right) = (x.op = "intersect")
         IN IF ~LiteralOperands(operands) THEN NoPlan
            ELSE SharedScan(operands,
                     DistinctRows(SelectSeq(LiteralFilter(operands[1].filter)[2], Kept)))

ScanShared(shared) == Project(Filtered(AllRows(shared.path), shared.filter), shared.cols)

-----------------------------------------------------------------------------
(* ORDER BY ... DESC LIMIT over a shared scan.                             *)

NoNulls(rows, col) == \A i \in DOMAIN rows : rows[i][col] # Null
Ascending(rows, col) ==
    NoNulls(rows, col) /\ \A i \in 1 .. Len(rows) - 1 : rows[i][col] <= rows[i + 1][col]

\* parquet_row_groups_monotonic_by_column
RowGroupsMonotonic(path, col) ==
    LET groups == Tables[path]
    IN /\ groups # <<>>
       /\ \A g \in DOMAIN groups :
              groups[g].stats = "exact" /\ groups[g].rows # <<>> /\ NoNulls(groups[g].rows, col)
       /\ \A g \in 2 .. Len(groups) :
              Statistics(groups[g], col).min >= Statistics(groups[g - 1], col).max

\* The row groups, last first, until they hold at least limit rows that pass the filter.
TailGroups(shared, limit) ==
    LET groups == Tables[shared.path]
        Passing(g) == Len(Filtered(groups[g].rows, shared.filter))
        Behind(g) == FoldLeft(LAMBDA n, k : n + Passing(k), 0,
                              SelectSeq(Indices(groups), LAMBDA k : k > g))
    IN SelectSeq(Indices(groups), LAMBDA g : Behind(g) < limit)

\* scan_filter_sort_ordered_row_group: reversed when the rows are in ascending order.
GroupDescending(shared, g, order) ==
    LET rows == Tables[shared.path][g].rows
    IN IF Ascending(rows, order.col) THEN Reverse(Filtered(rows, shared.filter))
       ELSE Sorted(Filtered(rows, shared.filter), order)

\* try_row_group_ordered_desc_sort
RowGroupOrderedDesc(shared, order, limit) ==
    LET tail == Reverse(TailGroups(shared, limit))
    IN IF limit <= TopkRows \/ ~RowGroupsMonotonic(shared.path, order.col) THEN NoPlan
       ELSE LimitRows(FlattenSeq([n \in DOMAIN tail |-> GroupDescending(shared, tail[n], order)]),
                      limit, 0)

\* try_reverse_row_group_desc_tail_topk
ReverseTailTopk(shared, order, limit) ==
    LET tail == TailGroups(shared, limit)
        suffix == FlattenSeq([n \in DOMAIN tail |->
                      Filtered(Tables[shared.path][tail[n]].rows, shared.filter)])
    IN IF limit > TopkRows \/ ~RowGroupsMonotonic(shared.path, order.col) THEN NoPlan
       ELSE OrderLimit(suffix, order, limit, 0)

\* try_same_source_union_all_streaming_desc_topk: a heap of the limit greatest by key and
\* position.
StreamingTopk(shared, order, limit) ==
    LET rows == Filtered(AllRows(shared.path), shared.filter)
        Above(i, j) == \/ rows[i][order.col] > rows[j][order.col]
                       \/ rows[i][order.col] = rows[j][order.col] /\ i > j
        heap == SelectSeq(Indices(rows), LAMBDA i : Cardinality({j \in DOMAIN rows : Above(j, i)}) < limit)
    IN IF limit > TopkRows \/ ~NoNulls(rows, order.col) THEN NoPlan
       ELSE Pick(rows, SortSeq(heap, Above))

\* collect_monotonic_desc_tail_topk: the last limit rows of an ascending stream.
MonotonicTailTopk(shared, order, limit) ==
    LET rows == Filtered(AllRows(shared.path), shared.filter)
    IN IF ~Ascending(rows, order.col) THEN NoPlan
       ELSE OrderLimit(SubSeq(rows, Len(rows) - Least(limit, Len(rows)) + 1, Len(rows)), order, limit, 0)

FirstPlan(plans) ==
    LET found == SelectSeq(plans, LAMBDA p : p # NoPlan)
    IN IF found = <<>> THEN NoPlan ELSE found[1]

\* try_execute_same_source_union_all_monotonic_topk
MonotonicTopk(x, order, limit, offset) ==
    LET shared == DisjointUnionAllPlan(x)
        found == FirstPlan(<<RowGroupOrderedDesc(shared, order, limit), ReverseTailTopk(shared, order, limit),
                             StreamingTopk(shared, order, limit), MonotonicTailTopk(shared, order, limit)>>)
    IN CASE order = Null \/ limit \in {Null, 0} \/ offset # 0 -> NoPlan
         [] order # Null /\ ~order.desc -> NoPlan
         [] shared = NoPlan -> NoPlan
         [] OTHER -> IF found = NoPlan THEN NoPlan ELSE Project(found, shared.cols)

-----------------------------------------------------------------------------
(* The other plans over one scan.                                          *)

\* try_execute_same_source_union_all_filter_scan: a row is written once for every operand
\* whose filter it passes.
UnionAllFilterScan(x) ==
    LET operands == UnionOperands(x, TRUE)
        rows == AllRows(operands[1].path)
        Copies(row) == FlattenSeq([i \in DOMAIN operands |->
                           Project(Filtered(<<row>>, operands[i].filter), operands[i].cols)])
    IN IF operands = NoPlan THEN NoPlan
       ELSE IF \/ Len(operands) < 2 \/ ~SameSource(operands)
               \/ \E i \in DOMAIN operands : operands[i].filter = Null THEN NoPlan
       ELSE FlattenSeq([n \in DOMAIN rows |-> Copies(rows[n])])

\* try_execute_same_source_all_set_scan counts the candidate values of one projected
\* integer column without NULLs, and repeats each value as often as the operation says.
AllSetScan(x) ==
    LET operands == <<SingleOperand(x.l), SingleOperand(x.r)>>
        col == LiteralFilter(operands[1].filter)[1]
        Values(i) == DistinctRows([n \in DOMAIN LiteralFilter(operands[i].filter)[2] |->
                                      LiteralFilter(operands[i].filter)[2][n].v])
        rows == AllRows(operands[1].path)
        Found(v) == Cardinality({i \in DOMAIN rows : rows[i][col] = v})
        Repeats(v) == LET right == IF v \in Range(Values(2)) THEN Found(v) ELSE 0
                      IN IF x.op = "intersect" THEN Least(Found(v), right) ELSE Found(v) - right
    IN IF x.k # "op" THEN NoPlan
       ELSE IF x.op = "union" \/ ~x.all \/ NoPlan \in Range(operands) THEN NoPlan
       ELSE IF ~LiteralOperands(operands) \/ operands[1].cols # {col} THEN NoPlan
       ELSE IF ColumnType[col] \notin {"int32", "int64"} \/ ~NoNulls(rows, col) THEN NoPlan
       ELSE IF \E lit \in Range(Literals(operands)) : lit.t # "int" THEN NoPlan
       ELSE FlattenSeq([n \in DOMAIN Values(1) |->
                [k \in 1 .. Repeats(Values(1)[n]) |-> [c \in {col} |-> Values(1)[n]]]])

-----------------------------------------------------------------------------
(* Operand by operand.                                                     *)

\* apply_distinct_row_set_operation and apply_all_row_set_operation
DistinctSetRows(left, right, op) ==
    DistinctRows(SelectSeq(left, LAMBDA row : (row \in Range(right)) = (op = "intersect")))
AllSetRows(left, right, op) ==
    LET Nth(i) == Cardinality({j \in 1 .. i : left[j] = left[i]})
        Kept(i) == (Nth(i) <= Count(right, left[i])) = (op = "intersect")
    IN Pick(left, SelectSeq(Indices(left), Kept))

\* An operand runs as a query of its own, with the order and limit handed down to it.
RunOperand(q, topk) ==
    LET rows == Project(Filtered(AllRows(q.path), q.filter), q.cols)
        out == IF q.distinct THEN DistinctRows(rows) ELSE rows
    IN IF topk = Null THEN out ELSE OrderLimit(out, topk.order, topk.limit, 0)

\* execute_set_operation_expr
RECURSIVE ExecuteSetExpr(_, _, _)
ExecuteSetExpr(x, topk, distinct) ==
    LET Dedup(rows) == IF distinct THEN DistinctRows(rows) ELSE rows
    IN CASE x.k = "select" -> Dedup(RunOperand(x, topk))
         [] x.k = "query" ->
                IF ContainsSetOperation(x.body) THEN ExecuteSetExpr(x.body, topk, distinct)
                ELSE IF PlainQuery(x) THEN Dedup(RunOperand(x.body, topk)) ELSE Error
         [] x.k = "op" /\ x.op = "union" ->
                LET down == IF x.all THEN topk ELSE Null
                    l == ExecuteSetExpr(x.l, down, distinct \/ ~x.all)
                    r == ExecuteSetExpr(x.r, down, distinct \/ ~x.all)
                IN IF Error \in {l, r} THEN Error
                   ELSE IF x.all THEN l \o r ELSE DistinctRows(l \o r)
         [] x.k = "op" /\ x.op # "union" ->
                LET l == ExecuteSetExpr(x.l, Null, FALSE)
                    r == ExecuteSetExpr(x.r, Null, FALSE)
                IN IF Error \in {l, r} THEN Error
                   ELSE Dedup(IF x.all THEN AllSetRows(l, r, x.op) ELSE DistinctSetRows(l, r, x.op))

ExecuteGeneric(x, order, limit, offset) ==
    LET topk == IF offset = 0 /\ order # Null /\ limit # Null
                THEN [order |-> order, limit |-> limit] ELSE Null
    IN ExecuteSetExpr(x, topk, FALSE)

\* try_execute_set_operation_sql: the first plan that applies.
RunSetQuery(x, order, limit, offset) ==
    LET topk == MonotonicTopk(x, order, limit, offset)
        append == DisjointUnionAllPlan(x)
        filters == IF order = Null /\ limit = Null /\ offset = 0 THEN UnionAllFilterScan(x) ELSE NoPlan
        union == UnionDistinctPlan(x)
        set == DistinctSetPlan(x)
        allSet == AllSetScan(x)
        rows == CASE append # NoPlan -> ScanShared(append)
                  [] union # NoPlan -> DistinctRows(ScanShared(union))
                  [] set # NoPlan -> DistinctRows(ScanShared(set))
                  [] allSet # NoPlan -> allSet
                  [] OTHER -> ExecuteGeneric(x, order, limit, offset)
    IN IF topk # NoPlan THEN topk
       ELSE IF append = NoPlan /\ filters # NoPlan THEN filters
       ELSE IF rows = Error THEN Error ELSE OrderLimit(rows, order, limit, offset)

-----------------------------------------------------------------------------
(* What SQL says.                                                          *)

RECURSIVE SetSays(_)
SetSays(x) ==
    CASE x.k = "select" ->
             LET rows == Project(SelectSeq(AllRows(x.path),
                                    LAMBDA row : x.filter = Null \/ SqlSays(row, x.filter) = TRUE), x.cols)
             IN IF x.distinct THEN DistinctRows(rows) ELSE rows
      [] x.k = "query" -> OrderLimit(SetSays(x.body), x.order, x.limit, 0)
      [] x.k = "op" ->
             LET l == SetSays(x.l)
                 r == SetSays(x.r)
                 Times(row) == CASE x.op = "union" -> Count(l, row) + Count(r, row)
                                 [] x.op = "intersect" -> Least(Count(l, row), Count(r, row))
                                 [] x.op = "except" ->
                                        IF x.all THEN IF Count(l, row) > Count(r, row)
                                                      THEN Count(l, row) - Count(r, row) ELSE 0
                                        ELSE IF Count(r, row) = 0 THEN Count(l, row) ELSE 0
                 rows == SetToSeq(Range(l) \cup Range(r))
                 Once(n) == IF x.all \/ n = 0 THEN n ELSE 1
             IN FlattenSeq([i \in DOMAIN rows |-> [k \in 1 .. Once(Times(rows[i])) |-> rows[i]]])

\* The rows of an answer: sorted, of the right number, and with the keys that ORDER BY,
\* LIMIT and OFFSET ask for, which leaves open which of the rows with equal keys come.
IsAnswer(out, x, order, limit, offset) ==
    LET all == SetSays(x)
        wanted == OrderLimit(all, order, limit, offset)
    IN /\ Len(out) = Len(wanted)
       /\ \A row \in Range(out) : Count(out, row) <= Count(all, row)
       /\ order # Null => \A i \in DOMAIN out : out[i][order.col] = wanted[i][order.col]
=============================================================================
