----------------------------- MODULE InSubquery -----------------------------
(***************************************************************************)
(* SELECT over one table with subqueries in WHERE.  The rules are tried in *)
(* this order: a correlated EXISTS as a semi join and an EXISTS alone      *)
(* (src/src/sql/semijoin_exists.rs), one IN as a semi join with a set of   *)
(* keys, and else every subquery is replaced by its result                 *)
(* (src/src/sql/semijoin.rs, src/src/sql/subquery_rewrite.rs).             *)
(*                                                                         *)
(* Besides the conditions of JoinQuery, WHERE has "insub" (col [NOT] IN    *)
(* (sub)), "scalar" (col op (sub)) and "exists".  A subquery selects one   *)
(* column of a table; its key is <<inner, outer>> for an EXISTS with that  *)
(* equation in its WHERE, else Null.  Keys are of the outer column's type. *)
(* Pairs of columns, aggregates and other correlated subqueries are left   *)
(* out.                                                                    *)
(***************************************************************************)
EXTENDS JoinQuery

CONSTANT RowFilterKeys  \* small_dynamic_in_list_row_filter_limit, 64 by default

-----------------------------------------------------------------------------
(* Conditions.                                                             *)

\* expr_contains_materializable_subquery
RECURSIVE HasSubquery(_)
HasSubquery(e) == CASE e.e = "not" -> HasSubquery(e.x)
                    [] e.e \in {"and", "or"} -> HasSubquery(e.l) \/ HasSubquery(e.r)
                    [] OTHER -> e.e \in {"insub", "scalar", "exists"}

\* predicate_requires_expression_path
RECURSIVE NeedsExpression(_)
NeedsExpression(e) == CASE e.e = "not" -> NeedsExpression(e.x)
                        [] e.e \in {"and", "or"} -> NeedsExpression(e.l) \/ NeedsExpression(e.r)
                        [] OTHER -> e.e \in {"coalesce", "opaque", "scalar"}

\* predicate_expression_columns; the column of an IN is not among them.
RECURSIVE PredicateColumns(_)
PredicateColumns(e) == CASE e.e \in {"insub", "exists"} -> {}
                         [] e.e = "not" -> PredicateColumns(e.x)
                         [] e.e \in {"and", "or"} -> PredicateColumns(e.l) \cup PredicateColumns(e.r)
                         [] OTHER -> Referenced(e)

\* sql_in_subquery_parts and top_level_exists_subquery: the subquery under any number of
\* NOTs.
RECURSIVE Parts(_, _)
Parts(e, kind) == CASE e.e = kind -> e
                    [] e.e = "not" -> LET inner == Parts(e.x, kind)
                                      IN  IF inner = Null THEN Null ELSE [inner EXCEPT !.negated = ~@]
                    [] OTHER -> Null

\* The first conjunct of that kind, and the others.
FirstOf(conjuncts, kind) ==
    LET found == SelectSeq(Indices(conjuncts), LAMBDA i : Parts(conjuncts[i], kind) # Null)
    IN  IF found = <<>> THEN 0 ELSE found[1]
Others(conjuncts, at) == Pick(conjuncts, SelectSeq(Indices(conjuncts), LAMBDA i : i # at))

\* The subquery as a query of its own.
SubRows(sub) ==
    LET rows == Filtered(AllRows(sub.path), IF sub.filter = Null THEN Null ELSE Plainly(sub.filter))
        out == Project(rows, {sub.col})
    IN  OrderLimit(IF sub.distinct THEN DistinctRows(out) ELSE out, sub.order, sub.limit, 0)
SubValues(sub) == [i \in DOMAIN SubRows(sub) |-> SubRows(sub)[i][sub.col]]
Literal(col, v) ==
    IF v = Null THEN NullLiteral ELSE IF ColumnType[col] = "float" THEN FloatLit(v) ELSE IntLit(v)

\* parse_filter_with_subqueries: subqueries replaced by what they return.  A condition on
\* other scalar expressions gives Null, which is left out.
RECURSIVE Materialized(_)
Materialized(e) ==
    CASE e.e = "exists" -> [e |-> "bool", v |-> (SubRows(e.sub) # <<>>) # e.negated]
      [] e.e = "insub" ->
           LET found == SelectSeq(SubValues(e.sub), LAMBDA v : v # Null)
           IN  [e |-> "in", col |-> e.col, vals |-> [i \in DOMAIN found |-> Literal(e.sub.col, found[i])],
                negated |-> e.negated, hasNull |-> Null \in Range(SubValues(e.sub))]
      [] e.e = "scalar" ->
           LET found == SubValues(e.sub)
           IN  IF Len(found) > 1 THEN Error
               ELSE Comparison(e.col, e.op,
                               IF found = <<>> THEN NullLiteral ELSE Literal(e.sub.col, found[1]))
      [] e.e = "not" -> LET x == Materialized(e.x)
                        IN  IF x \in {Null, Error} THEN x ELSE [e EXCEPT !.x = x]
      [] e.e \in {"and", "or"} ->
           LET l == Materialized(e.l)
               r == Materialized(e.r)
           IN  CASE Error \in {l, r} -> Error
                 [] l = Null -> r
                 [] r = Null -> l
                 [] OTHER -> Junction(e.e, l, r)
      [] OTHER -> IF NeedsExpression(e) THEN Null ELSE Parsed(e)

\* split_subquery_and_expression_filters: a filter for the scan, and expressions for the
\* rows it returns.
ForRows(e) == NeedsExpression(e) /\ ~HasSubquery(e)
Split(where) ==
    LET conjuncts == SqlConjuncts(where)
        filters == [i \in DOMAIN conjuncts |->
                      IF ForRows(conjuncts[i]) THEN SafePushdown(conjuncts[i])
                      ELSE Materialized(conjuncts[i])]
    IN  [filter |-> IF Error \in Range(filters) THEN Error
                    ELSE Conjoined(SelectSeq(filters, LAMBDA f : f # Null)),
         expression |-> Conjoined(SelectSeq(conjuncts, ForRows))]
Plain(where) == [filter |-> Materialized(where), expression |-> Null]

-----------------------------------------------------------------------------
(* Sets of keys.                                                           *)

\* collect_semijoin_key_set
KeySet(path, col, filter) ==
    LET rows == Filtered(AllRows(path), filter)
        found == {rows[i][col] : i \in DOMAIN rows}
    IN  [empty |-> rows = <<>>, values |-> found \ {Null}, hasNull |-> Null \in found]

\* membership_mask; types without a loop of their own go through contains_column_value.
Membership(keys, col, v) ==
    CASE keys.empty -> FALSE
      [] ~keys.empty /\ v = Null -> IF ColumnType[col] = "float" THEN FALSE ELSE Null
      [] OTHER -> v \in keys.values

\* Mutant: NOT IN as the complement of IN, whatever NULLs the subquery returns.
AntiMembershipIgnoringNulls(keys, col, v) == NotMask(Membership(keys, col, v))

\* anti_membership_mask
AntiMembership(keys, col, v) == IF keys.hasNull THEN FALSE ELSE NotMask(Membership(keys, col, v))

\* to_small_int64_in_list_expr
IsSmall(keys, col) ==
    keys.empty \/ (ColumnType[col] # "float" /\ Cardinality(keys.values) <= RowFilterKeys)
InListOf(keys, in) ==
    LET vals == SetToSortSeq(keys.values, <)
    IN  [e |-> "in", col |-> in.col, vals |-> [i \in DOMAIN vals |-> IntLit(vals[i])],
         negated |-> in.negated, hasNull |-> keys.hasNull]

-----------------------------------------------------------------------------
(* ORDER BY col LIMIT n over row groups in the order of the column.         *)

\* monotonic_stream_limit_column and parquet_row_groups_monotonic_by_column
StreamsInOrder(q) ==
    /\ q.order # Null /\ q.limit # Null
    /\ ~q.order.desc
    /\ RowGroupsMonotonic(q.path, q.order.col)

\* collect_verified_monotonic_order_limit_batches, with a batch per row group
VerifiedInOrder(q, filter, cols) ==
    LET groups == Tables[q.path]
        Passing(g) == Filtered(groups[g].rows, filter)
        Ahead(g) == FoldLeft(LAMBDA n, k : n + Len(Passing(k)), 0, SubSeq(Indices(groups), 1, g - 1))
        read == SelectSeq(Indices(groups), LAMBDA g : Ahead(g) < q.limit)
        rows == FlattenSeq([n \in DOMAIN read |-> Passing(read[n])])
    IN  CASE rows # <<>> /\ q.order.col \notin cols -> Error
          [] rows # <<>> /\ q.order.col \in cols /\ ~Ascending(rows, q.order.col) -> NoPlan
          [] OTHER -> Project(LimitRows(rows, q.limit, 0), q.cols)

-----------------------------------------------------------------------------
(* The rules.                                                              *)

\* try_execute_correlated_exists_semijoin_sql
ExistsSemijoin(q) ==
    LET conjuncts == SqlConjuncts(q.where)
        at == FirstOf(conjuncts, "exists")
        exists == Parts(conjuncts[at], "exists")
        sub == exists.sub
        keys == KeySet(sub.path, sub.key[1], IF sub.filter = Null THEN Null ELSE Parsed(sub.filter))
        rest == Conjoined(Others(conjuncts, at))
        split == CASE rest = Null -> [filter |-> Null, expression |-> Null]
                   [] rest # Null /\ (NeedsExpression(rest) \/ HasSubquery(rest)) -> Split(rest)
                   [] OTHER -> Plain(rest)
        scanned == Filtered(Filtered(AllRows(q.path), split.filter),
                            IF split.expression = Null THEN Null ELSE Plainly(split.expression))
        Mask(row) == LET mask == Membership(keys, sub.key[2], row[sub.key[2]])
                     IN  IF exists.negated THEN NotMask(mask) ELSE mask
    IN  IF at = 0 THEN NoPlan
        ELSE IF sub.key = Null \/ sub.distinct THEN NoPlan
        ELSE IF split.filter = Error THEN Error
        ELSE Project(OrderLimit(SelectSeq(scanned, LAMBDA row : Mask(row) = TRUE), q.order, q.limit, 0),
                     q.cols)

\* The scans behind WHERE: scan_parquet_distinct_batches, scan_parquet_ordered_batches_by and
\* scan_parquet_batches.
Scanned(q, filter, cols) ==
    LET rows == Filtered(AllRows(q.path), filter)
    IN  IF q.distinct THEN OrderLimit(DistinctRows(Project(rows, cols)), q.order, q.limit, 0)
        ELSE Project(OrderLimit(rows, q.order, q.limit, 0), cols)

\* try_execute_exists_subquery_sql
ExistsAlone(q, exists) ==
    IF (SubRows(exists.sub) # <<>>) = exists.negated THEN <<>> ELSE Scanned(q, Null, q.cols)

\* rewrite_same_source_distinct_in_subquery: every column value is among the column's values.
OwnValues(sub, path, col) ==
    /\ sub.path = path /\ sub.col = col
    /\ sub.distinct /\ sub.order = Null /\ sub.limit = Null
    /\ sub.filter = NullCheck(col, TRUE)
RECURSIVE Rewritten(_, _)
Rewritten(e, path) ==
    CASE e.e = "insub" -> IF ~e.negated /\ OwnValues(e.sub, path, e.col) THEN NullCheck(e.col, TRUE) ELSE e
      [] e.e = "and" -> Junction("and", Rewritten(e.l, path), Rewritten(e.r, path))
      [] OTHER -> e

\* The subquery's WHERE, as far as try_execute_uncorrelated_in_key_semijoin_sql takes it.
InnerFilter(filter) ==
    IF filter = Null THEN Null ELSE IF NeedsExpression(filter) THEN Null ELSE Parsed(filter)

\* try_execute_uncorrelated_in_key_semijoin_sql
KeySemijoin(q, where) ==
    LET conjuncts == SqlConjuncts(where)
        at == FirstOf(conjuncts, "insub")
        in == Parts(conjuncts[at], "insub")
        keys == KeySet(in.sub.path, in.sub.col, InnerFilter(in.sub.filter))
        others == Others(conjuncts, at)
        filter == IF others = <<>> THEN Null ELSE Parsed(Conjoined(others))
        Mask(row) == IF in.negated THEN AntiMembership(keys, in.col, row[in.col])
                     ELSE Membership(keys, in.col, row[in.col])
        kept == SelectSeq(Filtered(AllRows(q.path), filter), LAMBDA row : Mask(row) = TRUE)
        limited == Project(OrderLimit(kept, q.order, q.limit, q.offset), q.cols)
    IN  IF at = 0 \/ \E e \in Range(others) : NeedsExpression(e) \/ HasSubquery(e) THEN NoPlan
        ELSE IF ~q.distinct /\ q.offset = 0 /\ StreamsInOrder(q)
        THEN Project(LimitRows(IF filter = Null /\ IsSmall(keys, in.sub.col)
                               THEN Filtered(AllRows(q.path), InListOf(keys, in)) ELSE kept,
                               q.limit, 0), q.cols)
        ELSE IF q.distinct THEN DistinctRows(limited) ELSE limited

\* The rest of try_execute_in_subquery_sql.
Replaced(q, where) ==
    LET split == IF NeedsExpression(where) THEN Split(where) ELSE Plain(where)
        cols == q.cols \cup IF NeedsExpression(where) THEN PredicateColumns(where) ELSE {}
        streamed == IF ~q.distinct /\ split.expression = Null /\ StreamsInOrder(q)
                    THEN VerifiedInOrder(q, split.filter, cols) ELSE NoPlan
        expression == IF split.expression = Null THEN Null ELSE Plainly(split.expression)
    IN  IF split.filter = Error THEN Error
        ELSE IF streamed # NoPlan THEN streamed
        ELSE Project(Filtered(Scanned(q, split.filter, cols), expression), q.cols)

\* try_execute_registered_sql_rules: the rules in the order of sql_rule_registry, which
\* sorting by cost keeps among these; the first that takes the query gives the answer.
Taken(rule, rows) == [rule |-> rule, rows |-> rows]
RunSubqueries(q) ==
    LET correlated == ExistsSemijoin(q)
        exists == Parts(q.where, "exists")
        where == Rewritten(q.where, q.path)
        keyed == KeySemijoin(q, where)
    IN  IF correlated # NoPlan THEN Taken("correlated", correlated)
        ELSE IF exists # Null THEN Taken("exists", ExistsAlone(q, exists))
        ELSE IF keyed # NoPlan THEN Taken("keys", keyed)
        ELSE Taken("replaced", Replaced(q, where))

-----------------------------------------------------------------------------
(* What SQL says.                                                          *)

SubSays(sub, outer) ==
    LET Wanted(row) ==
            /\ sub.filter = Null \/ SqlSays(row, Plainly(sub.filter)) = TRUE
            /\ sub.key = Null \/ (row[sub.key[1]] = outer[sub.key[2]] /\ outer[sub.key[2]] # Null)
        out == Project(SelectSeq(AllRows(sub.path), Wanted), {sub.col})
        top == OrderLimit(IF sub.distinct THEN DistinctRows(out) ELSE out, sub.order, sub.limit, 0)
    IN  [i \in DOMAIN top |-> top[i][sub.col]]

RECURSIVE WhereSays(_, _)
WhereSays(row, e) ==
    CASE e.e = "exists" -> (SubSays(e.sub, row) # <<>>) # e.negated
      [] e.e = "insub" ->
           LET values == Range(SubSays(e.sub, row))
               found == CASE values = {} -> FALSE
                          [] values # {} /\ row[e.col] = Null -> Null
                          [] row[e.col] # Null /\ row[e.col] \in values -> TRUE
                          [] OTHER -> IF Null \in values THEN Null ELSE FALSE
           IN  IF e.negated THEN NotMask(found) ELSE found
      [] e.e = "scalar" ->
           LET values == SubSays(e.sub, row)
           IN  IF values = <<>> THEN Null
               ELSE IF Null \in {values[1], row[e.col]} THEN Null
               ELSE Compare(ColumnType[e.col], e.op, row[e.col], values[1])
      [] e.e = "not" -> NotMask(WhereSays(row, e.x))
      [] e.e = "and" -> AndMasks(WhereSays(row, e.l), WhereSays(row, e.r))
      [] e.e = "or" -> OrMasks(WhereSays(row, e.l), WhereSays(row, e.r))
      [] OTHER -> SqlSays(row, Plainly(e))

SubqueriesSay(q) ==
    LET wanted == SelectSeq(AllRows(q.path), LAMBDA row : WhereSays(row, q.where) = TRUE)
    IN  IF q.distinct THEN DistinctRows(Project(wanted, q.cols)) ELSE wanted

\* A scalar subquery with several rows.
RECURSIVE ScalarFails(_)
ScalarFails(e) == CASE e.e = "scalar" -> Len(SubSays(e.sub, <<>>)) > 1
                    [] e.e = "not" -> ScalarFails(e.x)
                    [] e.e \in {"and", "or"} -> ScalarFails(e.l) \/ ScalarFails(e.r)
                    [] OTHER -> FALSE
=============================================================================
