--------------------------- MODULE LogicalPlans ---------------------------
(***************************************************************************)
(* Logical plans, what they mean, and LogicalOptimizer of                  *)
(* src/src/optimizer.rs, which pushes what lies above a scan into it.  A   *)
(* stream is a sequence of rows and a row a function of its columns.  The  *)
(* rows of a table, of groups and of a join come in any order, so a plan   *)
(* means a set of sequences; everything else keeps the order it is given.  *)
(***************************************************************************)
EXTENDS Integers, SequencesExt

CONSTANTS
    Files,  \* the tables: to a name, the fragments of the table, each a sequence of rows
    Null,   \* SQL's NULL
    None    \* no limit, no order, and the projection All

-----------------------------------------------------------------------------
(* Operations on streams.                                                  *)

\* A filter is a conjunction of comparisons of a column with a value.
Holds(row, filter) == \A c \in filter : row[c.col] = c.val
Selected(rows, filter) == SelectSeq(rows, LAMBDA row : Holds(row, filter))

Narrow(row, columns) == [c \in columns |-> row[c]]
Projected(rows, columns) ==
    IF columns = None THEN rows ELSE [i \in DOMAIN rows |-> Narrow(rows[i], columns)]

Truncated(rows, limit) ==
    IF limit = None THEN rows
    ELSE SubSeq(rows, 1, IF limit < Len(rows) THEN limit ELSE Len(rows))

Dedup(rows) ==
    FoldLeft(LAMBDA seen, row : IF Contains(seen, row) THEN seen ELSE Append(seen, row),
             <<>>, rows)

\* COUNT(*) per group, or one row when there is nothing to group by.
Groups(rows, by) ==
    LET keys == IF by = {} THEN {<<>>} ELSE {Narrow(rows[i], by) : i \in DOMAIN rows}
        Count(key) == Len(SelectSeq(rows, LAMBDA row : by = {} \/ Narrow(row, by) = key))
    IN  SetToSeq({[c \in by \cup {"count"} |-> IF c = "count" THEN Count(key) ELSE key[c]]
                    : key \in keys})

\* The columns of a join carry the prefix of their side.
LeftName == [k |-> "l.k", v |-> "l.v", count |-> "l.count"]
RightName == [k |-> "r.k", v |-> "r.v", count |-> "r.count"]
Named(name, row) ==
    [c \in {name[x] : x \in DOMAIN row} |-> row[CHOOSE x \in DOMAIN row : name[x] = c]]
Meet(l, r, key) == l[key] = r[key] /\ l[key] # Null
JoinRows(left, right, type, key) ==
    IF type = "semi"
    THEN LET kept == SelectSeq(left, LAMBDA l : \E j \in DOMAIN right : Meet(l, right[j], key))
         IN  [i \in DOMAIN kept |-> Named(LeftName, kept[i])]
    ELSE FlattenSeq([i \in DOMAIN left |->
            LET found == SelectSeq(right, LAMBDA r : Meet(left[i], r, key))
            IN  [j \in DOMAIN found |->
                    Named(LeftName, left[i]) @@ Named(RightName, found[j])]])

-----------------------------------------------------------------------------
(* The plans, and their meaning.                                           *)

ScanOf(table) == [op |-> "scan", table |-> table, columns |-> None, filter |-> {},
                  order |-> None, limit |-> None, distinct |-> FALSE]
FilterOf(input, filter) == [op |-> "filter", input |-> input, filter |-> filter]
ProjectionOf(input, columns) == [op |-> "projection", input |-> input, columns |-> columns]
SortOf(input, order, limit) == [op |-> "sort", input |-> input, order |-> order, limit |-> limit]
LimitOf(input, limit) == [op |-> "limit", input |-> input, limit |-> limit]
DistinctOf(input) == [op |-> "distinct", input |-> input]
AggregateOf(input, by) == [op |-> "aggregate", input |-> input, by |-> by]
JoinOf(left, right, type, key) ==
    [op |-> "join", left |-> left, right |-> right, type |-> type, key |-> key]

Orders(rows) ==
    {[i \in DOMAIN rows |-> rows[p[i]]] : p \in Permutations(DOMAIN rows)}
InOrder(rows, column) ==
    \A i \in 1..Len(rows) - 1 : rows[i][column] <= rows[i + 1][column]
SortedOrders(rows, column) == {s \in Orders(rows) : InOrder(s, column)}

\* SELECT [DISTINCT] columns FROM table WHERE filter ORDER BY order LIMIT limit
ScanMeanings(scan) ==
    LET wanted == {Selected(s, scan.filter) : s \in Orders(FlattenSeq(Files[scan.table]))}
        before == IF scan.distinct THEN {Dedup(Projected(s, scan.columns)) : s \in wanted}
                  ELSE wanted
        sorted == IF scan.order = None THEN before
                  ELSE UNION {SortedOrders(s, scan.order) : s \in before}
    IN  {Truncated(Projected(s, scan.columns), scan.limit) : s \in sorted}

RECURSIVE Meanings(_)
Meanings(plan) ==
    CASE plan.op = "scan" -> ScanMeanings(plan)
      [] plan.op = "filter" -> {Selected(s, plan.filter) : s \in Meanings(plan.input)}
      [] plan.op = "projection" -> {Projected(s, plan.columns) : s \in Meanings(plan.input)}
      [] plan.op = "sort" -> {Truncated(t, plan.limit) : t \in
                                UNION {SortedOrders(s, plan.order) : s \in Meanings(plan.input)}}
      [] plan.op = "limit" -> {Truncated(s, plan.limit) : s \in Meanings(plan.input)}
      [] plan.op = "distinct" -> {Dedup(s) : s \in Meanings(plan.input)}
      [] plan.op = "aggregate" -> UNION {Orders(Groups(s, plan.by)) : s \in Meanings(plan.input)}
      [] plan.op = "join" -> UNION {Orders(JoinRows(l, r, plan.type, plan.key))
                                    : l \in Meanings(plan.left), r \in Meanings(plan.right)}

-----------------------------------------------------------------------------
(* optimize_logical_node                                                   *)

\* projection_contains_columns, projection_can_replace and replace_projection
Offers(columns, required) == columns = None \/ required \subseteq columns
CanReplace(scan, output) == output = None \/ Offers(scan, output)
Replaced(scan, output) == IF output = None THEN scan ELSE output

Tighter(limit, other) ==
    IF limit = None THEN other ELSE IF limit < other THEN limit ELSE other

\* The guards of the rules that push into a scan.
ProjectionFits(scan, columns) == ~scan.distinct /\ CanReplace(scan.columns, columns)
\* Mutant: a filter goes below the limit of the scan.
FilterFitsBelowLimit(scan, filter) == Offers(scan.columns, {c.col : c \in filter})
FilterFits(scan, filter) == scan.limit = None /\ Offers(scan.columns, {c.col : c \in filter})
SortFits(scan, order) ==
    scan.order = None /\ scan.limit = None /\ Offers(scan.columns, {order})
DistinctFits(scan) == scan.limit = None /\ scan.order = None

RECURSIVE Optimize(_)
Optimize(plan) ==
    IF plan.op = "scan" THEN plan
    ELSE IF plan.op = "join"
    THEN [plan EXCEPT !.left = Optimize(@), !.right = Optimize(@)]
    ELSE
    LET input == Optimize(plan.input)
        overScan == input.op = "scan"
        stays == [plan EXCEPT !.input = input]
    IN  CASE plan.op = "projection" ->
               IF overScan /\ ProjectionFits(input, plan.columns)
               THEN [input EXCEPT !.columns = Replaced(@, plan.columns)] ELSE stays
          [] plan.op = "filter" ->
               IF overScan /\ FilterFits(input, plan.filter)
               THEN [input EXCEPT !.filter = @ \cup plan.filter]
               ELSE IF input.op = "filter"
               THEN Optimize(FilterOf(input.input, input.filter \cup plan.filter)) ELSE stays
          [] plan.op = "sort" ->
               IF overScan /\ SortFits(input, plan.order)
               THEN [input EXCEPT !.order = plan.order, !.limit = plan.limit] ELSE stays
          [] plan.op = "limit" ->
               IF overScan THEN [input EXCEPT !.limit = Tighter(@, plan.limit)]
               ELSE IF input.op = "sort"
               THEN LimitOf([input EXCEPT !.limit = Tighter(@, plan.limit)], plan.limit)
               ELSE stays
          [] plan.op = "distinct" ->
               IF overScan /\ DistinctFits(input) THEN [input EXCEPT !.distinct = TRUE] ELSE stays
          [] plan.op = "aggregate" -> stays
=============================================================================
