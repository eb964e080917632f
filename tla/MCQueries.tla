----------------------------- MODULE MCQueries -----------------------------
(* Filters, filtered scans, set queries, joins, subqueries and window       *)
(* functions over small tables: every case is run once, and its outcome     *)
(* compared with what SQL says.                                             *)
EXTENDS InSubquery, WindowQuery

CONSTANTS Scans, Sets, Filters, Joins, Subqueries, Windows,
              \* the cases: scans of tables, set queries, filters alone, queries over two
              \* tables, queries with subqueries and queries with window functions
          Waiting
CONSTANTS SetQueries(_, _, _, _), SubqueryQueries(_), WindowQueries(_)
              \* the entry points of the longest chains of plans: RunSetQuery,
              \* RunSubqueries and RunWindow.  As parameters they are opaque to TLC's cost model,
              \* which would unfold every plan at every use.

VARIABLES case, outcome
vars == <<case, outcome>>

Init == /\ case \in Scans \/ case \in Sets \/ case \in Filters \/ case \in Joins
           \/ case \in Subqueries \/ case \in Windows
        /\ outcome = <<Waiting>>

RunScan == /\ outcome = <<Waiting>> /\ case.kind = "scan"
           /\ outcome' = <<ScanRows(case.table, case.filter)>>
           /\ UNCHANGED case
RunSet == /\ outcome = <<Waiting>> /\ case.kind = "set"
          /\ outcome' = <<SetQueries(case.x, case.order, case.limit, case.offset)>>
          /\ UNCHANGED case
RunFilter == /\ outcome = <<Waiting>> /\ case.kind = "filter"
             /\ outcome' = <<[row \in case.rows |->
                                [batch |-> EvaluateFilter(row, case.filter),
                                 view |-> EvaluateView(row, case.filter)]]>>
             /\ UNCHANGED case
RunJoin == /\ outcome = <<Waiting>> /\ case.kind = "join"
           /\ outcome' = <<RunJoinQuery(case)>>
           /\ UNCHANGED case
RunSubquery == /\ outcome = <<Waiting>> /\ case.kind = "sub"
               /\ outcome' = <<SubqueryQueries(case)>>
               /\ UNCHANGED case
RunWindows == /\ outcome = <<Waiting>> /\ case.kind = "window"
              /\ outcome' = <<WindowQueries(case)>>
              /\ UNCHANGED case
Next == RunScan \/ RunSet \/ RunFilter \/ RunJoin \/ RunSubquery \/ RunWindows
Spec == Init /\ [][Next]_vars

Finished == outcome # <<Waiting>>

-----------------------------------------------------------------------------
(* Properties.                                                             *)

\* A filtered scan returns exactly the rows for which WHERE is true, whatever directories
\* and row groups it skips (prune_table_source_partitions, prune_row_groups,
\* FilterStream); it fails only on a filter that does not fit the columns.
ScanExact ==
    Finished /\ case.kind = "scan" =>
        IF outcome = <<Error>>
        THEN ~WellTyped(Columns \cup PartitionColumns(case.table), case.filter)
        ELSE outcome[1] = RowsSelected(case.table, case.filter)

\* A set query returns an answer that SQL allows, whichever of the plans of
\* try_execute_set_operation_sql takes it.
SetExact ==
    Finished /\ case.kind = "set" =>
        outcome # <<Error>> /\ IsAnswer(outcome[1], case.x, case.order, case.limit, case.offset)

\* evaluate_filter gives the truth value SQL gives, and an error exactly for a filter that
\* does not fit: Kleene logic, lists with NULLs, and LIKE by segments or by tokens.
MaskExact ==
    Finished /\ case.kind = "filter" =>
        \A row \in case.rows :
            outcome[1][row].batch = IF WellTyped(DOMAIN row, case.filter)
                                    THEN SqlSays(row, case.filter) ELSE Error

\* Where the evaluator on decoded views does not give up, it agrees with the one on
\* batches: a query must not depend on which of them its plan uses.
EvaluatorsAgree ==
    Finished /\ case.kind = "filter" =>
        \A row \in case.rows :
            outcome[1][row].view \in {Unsupported, outcome[1][row].batch}

\* A query over two tables returns an answer that SQL allows, whatever part of ON and
\* WHERE becomes join keys, is evaluated below the join or is tried twice, as long as
\* nothing that is true of NULLs is evaluated below the outer side of a join
\* (execute_explicit_join_query, plan_join_inputs).
JoinQueryExact ==
    Finished /\ case.kind = "join" /\ RejectsNulls(case) =>
        outcome # <<Error>> /\ Answers(outcome[1], case, JoinSays(case))

\* Where the rules give other answers than SQL (README, Disagreements), by the rule that
\* takes the query.
InOrder(rows, col) == \A i \in 1 .. Len(rows) - 1 : rows[i][col] <= rows[i + 1][col]
DisputedExists(q) ==
    \/ q.distinct \/ q.offset # 0
    \/ \E e \in Range(SqlConjuncts(q.where)) :
           /\ Parts(e, "exists") # Null /\ Parts(e, "exists").negated
           /\ ~NoNulls(AllRows(q.path), Parts(e, "exists").sub.key[2])
DisputedKeys(q, in) ==
    \/ in.sub.limit # Null
    \/ in.sub.filter # Null /\ NeedsExpression(in.sub.filter)
    \/ q.distinct /\ q.limit # Null
    \/ StreamsInOrder(q) /\ ~InOrder(AllRows(q.path), q.order.col)
    \/ in.negated /\ ColumnType[in.col] = "float" /\ ~NoNulls(AllRows(q.path), in.col)
DisputedReplaced(q) ==
    \/ q.offset # 0
    \/ q.limit # Null /\ \E e \in Range(SqlConjuncts(q.where)) : ForRows(e)
    \/ q.distinct /\ NeedsExpression(q.where)
    \/ \E e \in Range(SqlConjuncts(q.where)) : HasSubquery(e) /\ RequiresExpression(e)
    \/ StreamsInOrder(q) /\ q.order.col \notin q.cols
Disputed(rule, q) ==
    CASE rule = "correlated" -> DisputedExists(q)
      [] rule = "exists" -> q.offset # 0
      [] rule = "keys" -> LET conjuncts == SqlConjuncts(Rewritten(q.where, q.path))
                          IN  DisputedKeys(q, Parts(conjuncts[FirstOf(conjuncts, "insub")], "insub"))
      [] OTHER -> DisputedReplaced(q)

\* A query with subqueries returns an answer that SQL allows, and fails only over a scalar
\* subquery of several rows: NULLs inside and outside of IN and NOT IN, empty subqueries
\* and NOTs come out alike whichever rule takes the query (SemijoinKeySet,
\* parse_filter_with_subqueries), except in the disputed cases.
SubqueryExact ==
    Finished /\ case.kind = "sub" /\ ~Disputed(outcome[1].rule, case) =>
        LET rows == outcome[1].rows
        IN  IF ScalarFails(case.where) THEN rows = Error
            ELSE rows # Error /\ Answers(rows, case, SubqueriesSay(case))

\* Where window functions give other answers than SQL (README, Disagreements).
DisputedWindow(q, rows) ==
    \/ /\ \E fn \in Range(q.fns) : fn.f = "lead"
       /\ q.limit # Null /\ SatisfiesOrder(q, ExecutionSort(q))
    \/ \E fn \in Range(q.fns) :
           /\ fn.f \in Aggregates /\ fn.order # <<>>
           /\ \E i, j \in DOMAIN rows : i # j /\ EqualOn(fn.part \o OrderColumns(fn), rows[i], rows[j])
    \/ IsHashAggregate(q) /\ ~(Range(q.fns[1].part) \subseteq ScanColumns(q, Null))
    \/ \E fn \in Range(q.fns) : Len(fn.part) < Len(q.fns[1].part) /\ ExecutionSort(q) = q.order

\* A query with window functions returns an answer that SQL allows: values for rows that
\* are lined up as OVER demands, whether functions are computed over a prefix, over all the
\* rows, or per partition after ORDER BY and LIMIT (try_execute_window_sql), except in the
\* disputed cases.  It fails only when its functions do not share one OVER, or lack ORDER BY.
WindowExact ==
    Finished /\ case.kind = "window" =>
        LET rows == SelectSeq(AllRows(case.path), LAMBDA row : case.filter = Null \/ SqlSays(row, case.filter) = TRUE)
        IN  IF ~IsSupported(case) THEN outcome = <<Error>>
            ELSE DisputedWindow(case, rows) \/
                 /\ outcome # <<Error>>
                 /\ \E p \in LineUps(rows, WindowSort(case.fns[1])) :
                        IsWindowAnswer(outcome[1], case, [i \in DOMAIN rows |-> rows[p[i]]])

-----------------------------------------------------------------------------
(* The cases.                                                              *)

MCColumnType ==
    [id |-> "int64", x |-> "int32", f |-> "float", s |-> "string", v |-> "int64"]
    @@ [c \in {"k", "l.k", "l.x", "r.k", "r.x"} |-> "int32"]

\* a, ab, b
A == <<97>>
AB == <<97, 98>>
B == <<98>>

Cmp(col, op, lit) == [e |-> "cmp", col |-> col, op |-> op, lit |-> lit]
In(col, vals, negated, hasNull) ==
    [e |-> "in", col |-> col, vals |-> vals, negated |-> negated, hasNull |-> hasNull]
Like(pattern, negated) ==
    [e |-> "like", col |-> "s", pattern |-> pattern, negated |-> negated, escape |-> Null, insensitive |-> FALSE]
IsNull(col, negated) == [e |-> "isnull", col |-> col, negated |-> negated]
Not(x) == [e |-> "not", x |-> x]
And(l, r) == [e |-> "and", l |-> l, r |-> r]
Or(l, r) == [e |-> "or", l |-> l, r |-> r]
Bool(v) == [e |-> "bool", v |-> v]

Atoms ==
    {Cmp("x", op, IntLit(2)) : op \in {"=", "<>", "<", "<=", ">", ">="}}
    \cup {Cmp("x", "=", NullLiteral), Cmp("x", "=", IntLit(Int32Max + 1)), Cmp("id", ">", StrLit(A)),
          Cmp("f", "<", FloatLit(2)), Cmp("f", ">=", IntLit(3)), Cmp("s", "<", StrLit(AB)),
          Cmp("s", "=", IntLit(12)), [e |-> "colcmp", left |-> "x", op |-> "<", right |-> "x"],
          [e |-> "colcmp", left |-> "x", op |-> "=", right |-> "s"],
          In("x", <<IntLit(1), IntLit(3)>>, FALSE, FALSE), In("x", <<IntLit(1)>>, TRUE, TRUE),
          In("s", <<StrLit(A)>>, TRUE, FALSE), IsNull("x", FALSE), IsNull("s", TRUE),
          Like(<<97, Percent>>, FALSE), Like(<<Percent, 98>>, TRUE), Like(<<97, Percent, 98>>, FALSE)}

\* Partition columns hold text.
PartAtoms == {Cmp("p", "=", StrLit(A)), Cmp("p", "=", IntLit(1)), Cmp("p", "<>", StrLit(A)),
              In("p", <<StrLit(A), StrLit(B)>>, FALSE, FALSE)}

Pairs(S, T) == {And(l, r) : l \in S, r \in T} \cup {Or(l, r) : l \in S, r \in T}

Row(id, x, f, s) == [id |-> id, x |-> x, f |-> f, s |-> s]
Group(rows, stats) == [rows |-> rows, stats |-> stats]
OneFile(groups) == <<[parts |-> <<>>, groups |-> groups]>>
Rows1 == <<Row(1, 1, 1, A), Row(2, 2, Null, AB)>>
Rows2 == <<Row(3, 3, 4, B), Row(4, Null, 2, Null)>>
Rows3 == <<Row(5, Null, Null, Null)>>
Rows4 == <<Row(6, 2, 3, <<49, 50>>)>>

MCTables ==
    {OneFile(<<Group(Rows1, s1), Group(Rows2, s2), Group(Rows3, "exact"), Group(Rows4, s2)>>) :
        s1, s2 \in {"exact", "inexact", "none"}}
Directories ==
    <<[parts |-> [p |-> A], groups |-> <<Group(Rows1, "exact"), Group(Rows3, "exact")>>],
      [parts |-> [p |-> B], groups |-> <<Group(Rows2, "exact")>>],
      [parts |-> [p |-> <<49>>], groups |-> <<Group(Rows4, "exact")>>]>>

\* Row and filter pairs for the evaluators; a NULL value in an empty list without NULL is
\* left out, where the two evaluators differ.
SmallRows == {Row(1, x, f, s) : x \in {1, 2, Null}, f \in {2, Null}, s \in {A, Null}}
Texts == UNION {[1 .. n -> {97, 98}] : n \in 0 .. 4}
TextRows == {Row(1, 1, 1, s) : s \in Texts}
Patterns == UNION {[1 .. n -> {97, 98, Percent, Underscore}] : n \in 1 .. 3}
            \cup UNION {[1 .. n -> {97, 98, Percent}] : n \in 4 .. 5}
Escaped == {[e |-> "like", col |-> "s", pattern |-> pattern, negated |-> FALSE, escape |-> esc,
             insensitive |-> ins] : pattern \in UNION {[1 .. n -> {65, 98, Percent}] : n \in 1 .. 3},
                                    esc \in {98, Null}, ins \in BOOLEAN}

MCFilters ==
    {[kind |-> "filter", filter |-> e, rows |-> SmallRows] :
        e \in Atoms \cup Pairs(Atoms, Atoms) \cup {Not(x) : x \in Atoms \cup Pairs(Atoms, {Bool(Null)})}}
    \cup {[kind |-> "filter", filter |-> Like(pattern, FALSE), rows |-> TextRows] : pattern \in Patterns}
    \cup {[kind |-> "filter", filter |-> e, rows |-> TextRows] : e \in Escaped}

\* The conditions WHERE joins with AND, and whether dropping some of them is felt: a
\* partition predicate is found, and another condition is of a kind that Conjuncts leaves
\* out.
RECURSIVE Conditions(_)
Conditions(e) == IF e.e = "and" THEN Conditions(e.l) \o Conditions(e.r) ELSE <<e>>
LosesCondition(e) ==
    /\ \E i \in DOMAIN Conditions(e) : Conditions(e)[i] \in {Cmp("p", "=", StrLit(A)), Cmp("p", "=", IntLit(1))}
    /\ \E i \in DOMAIN Conditions(e) : Dropped(Conditions(e)[i])

Scan(table, filter) == [kind |-> "scan", table |-> table, filter |-> filter]
FileFilters == Atoms \cup Pairs(Atoms, Atoms) \cup {Not(x) : x \in Atoms}
DirFilters == PartAtoms \cup Pairs(PartAtoms, Atoms \cup PartAtoms)
              \cup {And(x, Or(y, z)) : x, y \in PartAtoms, z \in Atoms}
MCScans == {Scan(table, e) : table \in MCTables, e \in FileFilters}
           \cup {Scan(Directories, e) : e \in {d \in DirFilters : ~LosesCondition(d)}}
MCDirectoryScans == {Scan(Directories, e) : e \in DirFilters}

\* Files for set queries: sorted by x, unsorted, with a NULL, sorted between row groups
\* only, and empty.
R(x, id) == [x |-> x, id |-> id]
W(k, x, id, v) == [k |-> k, x |-> x, id |-> id, v |-> v]
MCFiles ==
    [sorted |-> <<Group(<<R(1, 1), R(1, 2)>>, "exact"), Group(<<R(2, 1), R(2, 1)>>, "exact"),
                  Group(<<R(2, 2), R(3, Null)>>, "exact")>>,
     mixed |-> <<Group(<<R(2, 1), R(1, 1)>>, "exact"), Group(<<R(3, 2), R(1, 1)>>, "exact")>>,
     nulls |-> <<Group(<<R(1, 1), R(Null, 1)>>, "exact"), Group(<<R(2, 2), R(Null, 2)>>, "exact")>>,
     groups |-> <<Group(<<R(2, 1), R(1, 2)>>, "exact"), Group(<<R(3, 1), R(2, 2), R(3, 2)>>, "exact")>>,
     empty |-> <<>>,
     floats |-> <<Group(<<[f |-> 1, id |-> 1], [f |-> Null, id |-> 2]>>, "exact"),
                  Group(<<[f |-> 2, id |-> 3]>>, "exact")>>,
     near |-> <<Group(<<W(1, 2, 1, 2)>>, "exact"), Group(<<W(1, 1, 2, Null), W(Null, 1, 3, 1)>>, "exact"),
                Group(<<W(2, Null, 4, 3), W(1, 1, 5, 4)>>, "exact")>>,
     far |-> <<Group(<<W(9, 1, 1, Null), W(-9, 2, 2, 1), W(9, 1, 3, 2)>>, "exact")>>]

Select(path, cols, filter, distinct) ==
    [k |-> "select", path |-> path, cols |-> cols, filter |-> filter, distinct |-> distinct]
Op(op, all, l, r) == [k |-> "op", op |-> op, all |-> all, l |-> l, r |-> r]
Query(body, order, limit) == [k |-> "query", body |-> body, order |-> order, limit |-> limit]
Xs(vals) == In("x", [i \in DOMAIN vals |-> IntLit(vals[i])], FALSE, FALSE)
SetFilters == {Cmp("x", "=", IntLit(1)), Xs(<<1, 2>>), Xs(<<2, 3, 2>>), Xs(<<3, 4>>), Cmp("id", ">", IntLit(1)), Null}
Operands == {Select(path, cols, f, FALSE) :
                path \in DOMAIN MCFiles \ {"floats", "near", "far"}, cols \in {{"x"}, {"x", "id"}}, f \in SetFilters}
Operations == {"union", "intersect", "except"} \X BOOLEAN
SameCols(l, r) == l.cols = r.cols

\* Two operands, over one file or two, and three operands over one.
TwoOperands ==
    {Op(o[1], o[2], q[1], q[2]) : o \in Operations,
        q \in {p \in Operands \X Operands : p[1].cols = p[2].cols /\ (p[1].path = p[2].path \/ p[2].path = "mixed")}}
X(path, f) == Select(path, {"x", "id"}, f, FALSE)
ThreeOperands ==
    {Op(o[1], o[2], Op(u[1], u[2], X(path, Xs(<<1>>)), X(path, Xs(<<2>>))), X(path, f)) :
        o, u \in Operations, path \in {"sorted", "nulls", "groups"}, f \in {Xs(<<3>>), Xs(<<2, 3>>), Null}}
    \cup {Op(o[1], o[2], X("mixed", Null), Query(Op(u[1], u[2], X("mixed", Xs(<<1>>)), X("mixed", Null)), Null, Null)) :
            o, u \in Operations}
    \cup {Op(o[1], o[2], [X("groups", Null) EXCEPT !.distinct = TRUE, !.cols = {"x"}],
             Query(Select("mixed", {"x"}, Xs(<<1, 2>>), FALSE), Null, Null)) : o \in Operations}

Set(x, order, limit, offset) == [kind |-> "set", x |-> x, order |-> order, limit |-> limit, offset |-> offset]
Tops == {<<Null, Null, 0>>} \cup {<<[col |-> "x", desc |-> d], l, o>> : d \in BOOLEAN, l \in {1, 3, 5}, o \in {0, 1}}
MCSets == {Set(x, t[1], t[2], t[3]) : x \in TwoOperands \cup ThreeOperands, t \in Tops}

\* An operand with a LIMIT of its own inside parentheses, and operands whose columns leave
\* out the one they filter by.
Hidden == {Op(o, FALSE, Select("sorted", {"id"}, Xs(<<1>>), FALSE), Select("sorted", {"id"}, Xs(<<2>>), FALSE)) :
              o \in {"intersect", "except"}}
NestedLimit == {Op("union", TRUE, Query(Op("union", TRUE, X("mixed", Xs(<<1>>)), X("mixed", Xs(<<2>>))),
                                        [col |-> "x", desc |-> TRUE], 1), X("mixed", Xs(<<3>>)))}
MCHiddenSets == {Set(x, Null, Null, 0) : x \in Hidden}
MCNestedSets == {Set(x, Null, Null, 0) : x \in NestedLimit}

\* Two tables, the conditions that ON and WHERE are made of, and comma joins, whose keys
\* stand in WHERE, perhaps in every branch of an OR.
KX(k, x) == [k |-> k, x |-> x]
LeftRows == <<KX(1, 1), KX(1, 2), KX(2, Null), KX(Null, 1), KX(3, 2), KX(3, 2)>>
RightRows == <<KX(1, 1), KX(1, Null), KX(2, 2), KX(Null, 1), KX(4, 1)>>
Equal(l, r) == [e |-> "colcmp", left |-> l, op |-> "=", right |-> r]
Opaque(x) == [e |-> "opaque", x |-> x]
Coalesce(col, fallback, lit) ==
    [e |-> "coalesce", col |-> col, fallback |-> fallback, op |-> "=", lit |-> IntLit(lit)]
Between(col, negated) ==
    [e |-> "between", col |-> col, negated |-> negated, low |-> IntLit(2), high |-> IntLit(2)]
LeftAtoms == {Cmp("l.x", "=", IntLit(2)), IsNull("l.x", FALSE), Coalesce("l.x", 1, 1),
              In("l.x", <<IntLit(1)>>, TRUE, FALSE)}
RightAtoms == {Cmp("r.x", "<", IntLit(2)), IsNull("r.x", TRUE), IsNull("r.k", FALSE),
               Coalesce("r.x", 2, 1), Between("r.x", TRUE), Opaque(Cmp("r.x", "=", IntLit(1)))}
MixedAtoms == {[e |-> "colcmp", left |-> "l.x", op |-> "<", right |-> "r.x"], Bool(TRUE)}
JoinAtoms == LeftAtoms \cup RightAtoms \cup MixedAtoms
Wheres == JoinAtoms \cup Pairs(JoinAtoms, JoinAtoms) \cup {Not(x) : x \in JoinAtoms}
          \cup {Or(And(l, r), And(Cmp("l.x", "=", IntLit(2)), s)) : l \in LeftAtoms, r, s \in RightAtoms}
LeftWheres == LeftAtoms \cup Pairs(LeftAtoms, LeftAtoms)

K == Equal("l.k", "r.k")
Ons == {<<type, K>> : type \in {"inner", "left", "right", "full"}}
       \cup {<<type, And(And(K, e), IsNull("r.k", TRUE))>> : type \in {"inner", "left"},
                 e \in {Equal("r.x", "l.x"), Cmp("r.x", "<", IntLit(2)), IsNull("r.x", FALSE)}}
Shown == {<<Null, FALSE, Null, Null, 0>>, <<{"l.x"}, FALSE, Null, Null, 0>>,
          <<{"l.x"}, TRUE, [col |-> "l.x", desc |-> TRUE], 2, 0>>,
          <<{"l.k", "l.x"}, FALSE, [col |-> "l.x", desc |-> FALSE], 3, 1>>}
JoinCase(type, on, where, s) ==
    [kind |-> "join", type |-> type, on |-> on, where |-> where, left |-> LeftRows,
     right |-> RightRows, cols |-> s[1], distinct |-> s[2], order |-> s[3], limit |-> s[4],
     offset |-> s[5]]
CommaWheres ==
    {And(w, K) : w \in Wheres} \cup {K, And(K, Equal("r.x", "l.x")), And(K, Equal("l.k", "l.x"))}
    \cup {Or(And(K, l), And(And(Equal("l.x", "r.x"), r), K)) : l \in JoinAtoms, r \in RightAtoms}
MCJoins ==
    {JoinCase(on[1], on[2], where, s) : on \in Ons, where \in Wheres \cup {Null}, s \in Shown}
    \cup {JoinCase("semi", on, where, s) : on \in {K, And(K, Cmp("r.x", "<", IntLit(2)))},
                                          where \in LeftWheres \cup {Null}, s \in Shown}
    \cup {JoinCase("inner", Null, where, s) : where \in CommaWheres, s \in Shown}

\* Subqueries with and without rows and NULLs, conditions on them, and conditions beside
\* them.
Sub(path, col, filter, distinct) ==
    [path |-> path, col |-> col, filter |-> filter, distinct |-> distinct, order |-> Null,
     limit |-> Null, key |-> Null]
Top(sub, n) == [sub EXCEPT !.order = [col |-> sub.col, desc |-> FALSE], !.limit = n]
InSub(col, sub, negated) == [e |-> "insub", col |-> col, sub |-> sub, negated |-> negated]
Exists(sub, negated) == [e |-> "exists", sub |-> sub, negated |-> negated]
Scalar(col, op, sub) == [e |-> "scalar", col |-> col, op |-> op, sub |-> sub]
Id(n) == Cmp("id", "=", IntLit(n))
Subs == {Sub(path, "x", filter, FALSE) : path \in {"nulls", "mixed"},
            filter \in {Null, Cmp("x", ">", IntLit(1)), Cmp("x", ">", IntLit(3)), IsNull("x", FALSE)}}
        \cup {Sub("nulls", "x", IsNull("x", TRUE), TRUE), Top(Sub("mixed", "x", Null, FALSE), 1),
              Sub("mixed", "x", Opaque(Cmp("x", "<", IntLit(2))), FALSE), Sub("empty", "x", Null, FALSE)}
Ins == {InSub("x", sub, negated) : sub \in Subs, negated \in BOOLEAN}
       \cup {Not(InSub("x", Sub("nulls", "x", Null, FALSE), TRUE))}
SubAtoms == Ins \cup {Exists(sub, TRUE) : sub \in Subs}
            \cup {Scalar("x", "=", Top(sub, 1)) : sub \in Subs} \cup {Scalar("x", ">", sub) : sub \in Subs}
Beside == {Id(2), IsNull("x", FALSE), Opaque(Id(1)), Coalesce("id", 2, 2)}
SubWheres ==
    SubAtoms \cup {Not(e) : e \in SubAtoms} \cup Pairs(SubAtoms, Beside)
    \cup {And(e, InSub("x", Sub("mixed", "x", Null, FALSE), negated)) : e \in SubAtoms, negated \in BOOLEAN}
    \cup {Or(e, Exists(Sub("empty", "x", Null, FALSE), negated)) : e \in SubAtoms, negated \in BOOLEAN}
Correlated == {Exists([Sub(path, "x", filter, FALSE) EXCEPT !.key = <<"x", "x">>], negated) :
                  path \in {"nulls", "mixed", "empty"}, filter \in {Null, Id(2)}, negated \in BOOLEAN}
CorrelatedWheres == Correlated \cup {And(e, f) : e \in Correlated, f \in Beside \cup Ins}
FloatWheres == {InSub("f", Sub("floats", "f", filter, FALSE), negated) : filter \in {Null, Id(1), Id(2)},
                    negated \in BOOLEAN}

SubCase(path, where, s) ==
    [kind |-> "sub", path |-> path, where |-> where, cols |-> s[1], distinct |-> s[2], order |-> s[3],
     limit |-> s[4], offset |-> s[5]]
Up(col) == [col |-> col, desc |-> FALSE]
SubShown == {<<{"x", "id"}, FALSE, Null, Null, 0>>, <<{"x", "id"}, FALSE, Up("x"), 2, 0>>,
             <<{"x"}, FALSE, [col |-> "x", desc |-> TRUE], 2, 1>>, <<{"id"}, FALSE, Up("x"), 1, 0>>,
             <<{"x"}, TRUE, Null, Null, 0>>, <<{"x"}, TRUE, Up("x"), 2, 0>>}
MCSubqueries ==
    {SubCase(path, where, s) : path \in {"sorted", "nulls", "groups"},
                               where \in SubWheres \cup CorrelatedWheres, s \in SubShown}
    \cup {SubCase("floats", where, <<{"id", "f"}, FALSE, o, 2, 0>>) : where \in FloatWheres, o \in {Up("id"), Null}}

\* Window functions alone and in pairs, with one OVER or with two that sort alike.
By(col) == [col |-> col, desc |-> FALSE, nf |-> FALSE]
Down(col) == [By(col) EXCEPT !.desc = TRUE]
NullsFirst(col) == [By(col) EXCEPT !.nf = TRUE]
Fn(f, arg, by, over) == [name |-> f, f |-> f, arg |-> arg, by |-> by, part |-> over[1], order |-> over[2]]
Overs == {<<part, order>> : part \in {<<>>, <<"k">>}, order \in {<<>>, <<By("x")>>, <<Down("x"), By("id")>>}}
         \cup {<<<<"k", "x">>, <<>>>>, <<<<"k", "x">>, <<By("id")>>>>}
Single(over) == {Fn(f, Null, 1, over) : f \in Ranking \cup {"count"}}
                \cup {Fn(f, arg, 1, over) : f \in Aggregates, arg \in {"v", "x"}}
                \cup {Fn(f, "v", by, over) : f \in Shifts, by \in 0 .. 2}
Chosen == {"row_number", "rank", "sum", "lead"}
Alike == <<<<"k">>, <<By("x"), By("id")>>>>
FnLists ==
    UNION {{<<fn>> : fn \in Single(over)} : over \in Overs}
    \cup UNION {{<<l, r>> : l \in {fn \in Single(over) : fn.f \in Chosen /\ fn.by = 1},
                           r \in {Fn("count", "v", 1, over), Fn("avg", "v", 1, over), Fn("dense_rank", Null, 1, over)}} :
                 over \in Overs}
    \cup {<<Fn("rank", Null, 1, Alike), Fn(f, "v", 1, <<<<"k", "x">>, <<By("id")>>>>)>> : f \in Aggregates \cup Shifts}
    \cup {<<Fn(f, "v", 1, <<<<"k", "x">>, <<By("id")>>>>), Fn("rank", Null, 1, Alike)>> : f \in Aggregates \cup Shifts}
\* Final orders; "output" stands for the first function's column, where that is a number.
FinalOrders == {Null, <<By("id")>>, <<By("k"), By("x")>>, <<NullsFirst("k"), By("id")>>,
                <<Down("k"), Down("x"), By("id")>>, <<By("output")>>}
WindowCase(path, filter, shown, fns, order, limit) ==
    [kind |-> "window", path |-> path, filter |-> filter, shown |-> shown, fns |-> fns,
     order |-> IF order # <<By("output")>> THEN order
               ELSE IF fns[1].f = "avg" THEN Null ELSE <<Down(fns[1].name)>>,
     limit |-> limit[1], offset |-> limit[2]]
MCWindows ==
    {WindowCase(path, filter, shown, fns, order, limit) :
        path \in {"near", "far"}, filter \in {Null, Cmp("id", "<>", IntLit(2))}, shown \in {{"id", "k"}, {"id"}},
        fns \in FnLists, order \in FinalOrders, limit \in {<<Null, 0>>, <<2, 0>>, <<1, 1>>}}
=============================================================================
