----------------------------- MODULE JoinQuery -----------------------------
(***************************************************************************)
(* SELECT over two tables, with JOIN ... ON or with a comma: how the       *)
(* parser finds the join keys (src/src/sql/query_parser.rs,                *)
(* src/src/sql/join_condition.rs), what plan_join_inputs of                *)
(* src/src/optimizer.rs evaluates below the join, and what                 *)
(* execute_explicit_join_query does above it.                              *)
(*                                                                         *)
(* A table has the columns k and x, which carry the prefix of their side   *)
(* above the scans.  Besides the conditions of Predicates, WHERE has       *)
(* "between", "coalesce" (COALESCE(col, fallback) op lit) and "opaque", a  *)
(* comparison of some other scalar expression.  Aggregates, expressions in *)
(* SELECT and qualified wildcards are left out.                            *)
(***************************************************************************)
EXTENDS SetQuery

Qualified == [left |-> [k |-> "l.k", x |-> "l.x"], right |-> [k |-> "r.k", x |-> "r.x"]]
ColumnsOf(side) == Range(Qualified[side])
\* strip_join_prefix
Stripped(side, col) == CHOOSE c \in DOMAIN Qualified[side] : Qualified[side][c] = col

-----------------------------------------------------------------------------
(* Conditions.                                                             *)

Junction(op, l, r) == [e |-> op, l |-> l, r |-> r]
Comparison(col, op, lit) == [e |-> "cmp", col |-> col, op |-> op, lit |-> lit]
NullCheck(col, negated) == [e |-> "isnull", col |-> col, negated |-> negated]
IntCompare(a, op, b) == CASE op = "=" -> a = b [] op = "<" -> a < b [] op = ">" -> a > b

\* BETWEEN as two comparisons
Bounds(e) ==
    IF e.negated THEN Junction("or", Comparison(e.col, "<", e.low), Comparison(e.col, ">", e.high))
    ELSE Junction("and", Comparison(e.col, ">=", e.low), Comparison(e.col, "<=", e.high))

\* What a condition means, and what evaluate_join_scalar_predicate computes.
RECURSIVE Plainly(_)
Plainly(e) ==
    CASE e.e = "between" -> Bounds(e)
      [] e.e = "opaque" -> e.x
      [] e.e = "coalesce" ->
           Junction("or", Junction("and", NullCheck(e.col, TRUE), Comparison(e.col, e.op, e.lit)),
                          Junction("and", NullCheck(e.col, FALSE),
                                   [e |-> "bool", v |-> IntCompare(e.fallback, e.op, e.lit.v)]))
      [] e.e = "not" -> [e EXCEPT !.x = Plainly(@)]
      [] e.e \in {"and", "or"} -> Junction(e.e, Plainly(e.l), Plainly(e.r))
      [] OTHER -> e

\* join_expr_to_filter_expr, for a condition without scalar expressions
RECURSIVE Parsed(_)
Parsed(e) == CASE e.e = "between" -> Bounds(e)
               [] e.e = "not" -> [e EXCEPT !.x = Parsed(@)]
               [] e.e \in {"and", "or"} -> Junction(e.e, Parsed(e.l), Parsed(e.r))
               [] OTHER -> e

\* collect_expr_referenced_columns
RECURSIVE Referenced(_)
Referenced(e) == CASE e.e = "bool" -> {}
                   [] e.e = "colcmp" -> {e.left, e.right}
                   [] e.e \in {"not", "opaque"} -> Referenced(e.x)
                   [] e.e \in {"and", "or"} -> Referenced(e.l) \cup Referenced(e.r)
                   [] OTHER -> {e.col}
ColumnsIn(filter) == IF filter = Null THEN {} ELSE Referenced(filter)

\* combine_optional_filters and combine_filter_options
Both(l, r) == IF l = Null THEN r ELSE IF r = Null THEN l ELSE Junction("and", l, r)

RECURSIVE RequiresExpression(_)
RequiresExpression(e) ==
    CASE e.e = "not" -> RequiresExpression(e.x)
      [] e.e \in {"and", "or"} -> RequiresExpression(e.l) \/ RequiresExpression(e.r)
      [] OTHER -> e.e \in {"coalesce", "opaque"}

\* safe_expression_pushdown_filter: a filter that holds wherever the condition does.
RECURSIVE SafePushdown(_)
SafePushdown(e) ==
    CASE e.e = "and" -> Both(SafePushdown(e.l), SafePushdown(e.r))
      [] e.e = "or" -> LET l == SafePushdown(e.l)
                           r == SafePushdown(e.r)
                       IN  IF Null \in {l, r} THEN Null ELSE Junction("or", l, r)
      [] e.e \in {"cmp", "isnull", "like"} -> e
      [] e.e = "in" -> IF e.negated \/ e.vals = <<>> THEN Null ELSE e
      [] e.e = "between" -> Bounds(e)
      [] e.e = "coalesce" ->
           IF IntCompare(e.fallback, e.op, e.lit.v)
           THEN Junction("or", Comparison(e.col, e.op, e.lit), NullCheck(e.col, FALSE))
           ELSE Comparison(e.col, e.op, e.lit)
      [] OTHER -> Null

\* parse_join_filter_plan: a filter for the scans and the output, and an expression for
\* the output.
FilterPlan(e) ==
    IF e = Null THEN [filter |-> Null, expression |-> Null]
    ELSE IF RequiresExpression(e) THEN [filter |-> SafePushdown(e), expression |-> e]
    ELSE [filter |-> Parsed(e), expression |-> Null]

-----------------------------------------------------------------------------
(* Join keys.                                                              *)

RECURSIVE SqlConjuncts(_)
SqlConjuncts(e) == IF e.e = "and" THEN SqlConjuncts(e.l) \o SqlConjuncts(e.r) ELSE <<e>>

\* combine_sql_and_conjuncts and combine_expr_filters
Conjoined(exprs) ==
    IF exprs = <<>> THEN Null
    ELSE FoldLeft(LAMBDA right, left : Junction("and", left, right), Last(exprs), Front(exprs))

\* comma_join_equality_keys: the key of an equation between the two tables.
IsKey(e) == /\ e.e = "colcmp" /\ e.op = "="
            /\ {e.left, e.right} \cap ColumnsOf("left") # {}
            /\ {e.left, e.right} \cap ColumnsOf("right") # {}
KeyOf(e) == IF e.left \in ColumnsOf("left")
            THEN <<Stripped("left", e.left), Stripped("right", e.right)>>
            ELSE <<Stripped("left", e.right), Stripped("right", e.left)>>
KeysAmong(exprs) ==
    LET keys == SelectSeq(exprs, IsKey) IN [i \in DOMAIN keys |-> KeyOf(keys[i])]

\* common_or_comma_join_equality_keys: the keys every branch of an OR has.
RECURSIVE CommonKeys(_)
CommonKeys(e) ==
    IF e.e = "or"
    THEN LET right == Range(CommonKeys(e.r))
         IN  SelectSeq(CommonKeys(e.l), LAMBDA key : key \in right)
    ELSE DistinctRows(KeysAmong(SqlConjuncts(e)))

\* split_comma_join_selection: the keys and the rest of WHERE.
CommaJoin(where) ==
    LET conjuncts == SqlConjuncts(where)
        keys == KeysAmong(conjuncts)
        found == IF keys = <<>> THEN CommonKeys(where) ELSE keys
    IN  IF found = <<>> THEN Error
        ELSE [type |-> "inner", keys |-> found, rightFilter |-> Null,
              where |-> Conjoined(SelectSeq(conjuncts, LAMBDA e : ~IsKey(e)))]

\* strip_filter_prefix and rewrite_join_side_expr
RECURSIVE WithoutPrefix(_, _)
WithoutPrefix(e, side) ==
    CASE e.e = "bool" -> e
      [] e.e = "colcmp" -> [e EXCEPT !.left = Stripped(side, @), !.right = Stripped(side, @)]
      [] e.e = "not" -> [e EXCEPT !.x = WithoutPrefix(@, side)]
      [] e.e \in {"and", "or"} -> Junction(e.e, WithoutPrefix(e.l, side), WithoutPrefix(e.r, side))
      [] OTHER -> [e EXCEPT !.col = Stripped(side, @)]

\* parse_join_condition: equations are keys, and what is left filters the right input.
OnJoin(type, on, where) ==
    LET conjuncts == SqlConjuncts(on)
        Equation(e) == e.e = "colcmp" /\ e.op = "="
        residuals == SelectSeq(conjuncts, LAMBDA e : ~Equation(e))
        filters == [i \in DOMAIN residuals |-> WithoutPrefix(Parsed(residuals[i]), "right")]
        refused == \/ KeysAmong(conjuncts) = <<>>
                   \/ \E e \in Range(conjuncts) : Equation(e) /\ ~IsKey(e)
                   \/ residuals # <<>> /\ type \notin {"inner", "left", "semi"}
                   \/ \E e \in Range(residuals) : Referenced(e) \cap ColumnsOf("left") # {}
    IN  IF refused THEN Error
        ELSE [type |-> type, keys |-> KeysAmong(conjuncts), rightFilter |-> Conjoined(filters),
              where |-> where]

-----------------------------------------------------------------------------
(* plan_join_inputs                                                        *)

\* Mutant: one branch of an OR is enough.
SideFilterEither(l, r) == Both(l, r)
SideFilterOr(l, r) == IF Null \in {l, r} THEN Null ELSE Junction("or", l, r)

\* derive_join_side_filter: the part of WHERE that one side can decide.
RECURSIVE SideFilter(_, _)
SideFilter(e, side) ==
    IF Referenced(e) # {} /\ Referenced(e) \subseteq ColumnsOf(side) THEN WithoutPrefix(e, side)
    ELSE CASE e.e = "and" -> Both(SideFilter(e.l, side), SideFilter(e.r, side))
           [] e.e = "or" -> SideFilterOr(SideFilter(e.l, side), SideFilter(e.r, side))
           [] OTHER -> Null
PushedTo(side, filter) == IF filter = Null THEN Null ELSE SideFilter(filter, side)

\* join_working_projection; Null is *.
Working(q, plan) ==
    IF q.cols = Null THEN Null
    ELSE q.cols \cup ColumnsIn(plan.filter) \cup ColumnsIn(plan.expression)
         \cup IF q.order = Null THEN {} ELSE {q.order.col}

\* join_side_projection: what the scan of a side delivers.
SideColumns(side, keys, working) ==
    IF working = Null THEN DOMAIN Qualified[side]
    ELSE {key[IF side = "left" THEN 1 ELSE 2] : key \in Range(keys)}
         \cup {Stripped(side, c) : c \in working \cap ColumnsOf(side)}

-----------------------------------------------------------------------------
(* execute_explicit_join_query                                             *)

Prefixed(row, side) ==
    [c \in {Qualified[side][b] : b \in DOMAIN row} |-> row[Stripped(side, c)]]
Padding(cols, side) == [c \in {Qualified[side][b] : b \in cols} |-> Null]
SameKeys(l, r, keys) == \A key \in Range(keys) : l[key[1]] = r[key[2]] /\ l[key[1]] # Null

\* The rows of the join operator, with the columns each side delivers.
Joined(type, left, right, keys, leftCols, rightCols) ==
    LET Partners(l) == SelectSeq(right, LAMBDA r : SameKeys(l, r, keys))
        OfLeft(l) ==
            IF type = "semi" THEN IF Partners(l) = <<>> THEN <<>> ELSE <<Prefixed(l, "left")>>
            ELSE IF Partners(l) = <<>>
            THEN IF type \in {"left", "full"}
                 THEN <<Prefixed(l, "left") @@ Padding(rightCols, "right")>> ELSE <<>>
            ELSE [i \in DOMAIN Partners(l) |->
                    Prefixed(l, "left") @@ Prefixed(Partners(l)[i], "right")]
        lonely == SelectSeq(right, LAMBDA r : \A l \in Range(left) : ~SameKeys(l, r, keys))
    IN  FlattenSeq([i \in DOMAIN left |-> OfLeft(left[i])])
        \o IF type \in {"right", "full"}
           THEN [i \in DOMAIN lonely |-> Padding(leftCols, "left") @@ Prefixed(lonely[i], "right")]
           ELSE <<>>

ProjectTo(rows, cols) == IF cols = Null THEN rows ELSE Project(rows, cols)

ExecuteJoin(q, join) ==
    LET plan == FilterPlan(join.where)
        working == Working(q, plan)
        leftCols == SideColumns("left", join.keys, working)
        rightCols == SideColumns("right", join.keys, working)
        left == Project(Filtered(q.left, PushedTo("left", plan.filter)), leftCols)
        right == Project(Filtered(q.right, Both(PushedTo("right", plan.filter), join.rightFilter)),
                         rightCols)
        joined == Joined(join.type, left, right, join.keys, leftCols, rightCols)
        \* pushed_join_output_projection
        output == IF q.distinct \/ join.type \notin {"inner", "semi"} THEN Null ELSE working
        filtered == Filtered(Filtered(ProjectTo(joined, output), plan.filter),
                             IF plan.expression = Null THEN Null ELSE Plainly(plan.expression))
    IN  IF q.distinct
        THEN OrderLimit(DistinctRows(ProjectTo(filtered, q.cols)), q.order, q.limit, q.offset)
        ELSE ProjectTo(OrderLimit(filtered, q.order, q.limit, q.offset), q.cols)

RunJoinQuery(q) ==
    LET join == IF q.on = Null THEN CommaJoin(q.where) ELSE OnJoin(q.type, q.on, q.where)
    IN  IF join = Error THEN Error ELSE ExecuteJoin(q, join)

-----------------------------------------------------------------------------
(* What SQL says.                                                          *)

JoinSays(q) ==
    LET All(rows, side) == [i \in DOMAIN rows |-> Prefixed(rows[i], side)]
        left == All(q.left, "left")
        right == All(q.right, "right")
        On(l, r) == q.on = Null \/ SqlSays(l @@ r, Plainly(q.on)) = TRUE
        pairs == FlattenSeq([i \in DOMAIN left |->
                    LET found == SelectSeq(right, LAMBDA r : On(left[i], r))
                    IN  [j \in DOMAIN found |-> left[i] @@ found[j]]])
        lonelyLeft == SelectSeq(left, LAMBDA l : \A r \in Range(right) : ~On(l, r))
        lonelyRight == SelectSeq(right, LAMBDA r : \A l \in Range(left) : ~On(l, r))
        none(side) == Padding(DOMAIN Qualified[side], side)
        rows == IF q.type = "semi"
                THEN SelectSeq(left, LAMBDA l : \E r \in Range(right) : On(l, r))
                ELSE pairs
                     \o (IF q.type \in {"left", "full"}
                         THEN [i \in DOMAIN lonelyLeft |-> lonelyLeft[i] @@ none("right")] ELSE <<>>)
                     \o (IF q.type \in {"right", "full"}
                         THEN [i \in DOMAIN lonelyRight |-> none("left") @@ lonelyRight[i]] ELSE <<>>)
        wanted == SelectSeq(rows, LAMBDA row : q.where = Null \/ SqlSays(row, Plainly(q.where)) = TRUE)
    IN  IF q.distinct THEN DistinctRows(ProjectTo(wanted, q.cols)) ELSE wanted

\* An answer to a query that all these rows qualify for: of the right number, and with the
\* keys that ORDER BY, LIMIT and OFFSET ask for.
Answers(out, q, all) ==
    LET shown == ProjectTo(all, q.cols)
        wanted == OrderLimit(all, q.order, q.limit, q.offset)
    IN  /\ Len(out) = Len(wanted)
        /\ \A row \in Range(out) : Count(out, row) <= Count(shown, row)
        /\ q.order # Null /\ (q.cols = Null \/ q.order.col \in q.cols) =>
                \A i \in DOMAIN out : out[i][q.order.col] = wanted[i][q.order.col]

\* What plan_join_inputs evaluates below an outer join must not be true of the NULLs that
\* the join fills in on that side.
NullSupplying(type) == CASE type = "left" -> {"right"}
                         [] type = "right" -> {"left"}
                         [] type = "full" -> {"left", "right"}
                         [] OTHER -> {}
RejectsNulls(q) ==
    \A side \in NullSupplying(q.type) :
        LET pushed == PushedTo(side, FilterPlan(q.where).filter)
        IN  pushed # Null => SqlSays([c \in DOMAIN Qualified[side] |-> Null], pushed) # TRUE
=============================================================================
