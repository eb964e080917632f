--------------------------- MODULE FilteredScan ---------------------------
(***************************************************************************)
(* A filtered scan of a table of Parquet files: the engine drops partition *)
(* directories that the filter rules out (prune_table_source_partitions),  *)
(* splits the rest of the filter (PredicateSet), skips row groups by their *)
(* statistics while it plans the read of each file, and filters the rows   *)
(* it reads.                                                               *)
(*                                                                         *)
(* A fragment is a file: the values its directory gives to partition       *)
(* columns, and its row groups, each with its rows and whether its         *)
(* statistics are "exact", truncated ("inexact") or "none".                *)
(***************************************************************************)
EXTENDS Predicates

-----------------------------------------------------------------------------
(* Splitting a filter.                                                     *)

\* collect_conjuncts returns nothing for these conditions.
Dropped(e) == e.e \in {"bool", "not", "in", "isnull"}
RECURSIVE Conjuncts(_)
Conjuncts(e) ==
    CASE e.e = "and" -> Conjuncts(e.l) \o Conjuncts(e.r)
      [] Dropped(e) -> <<>>
      [] OTHER -> <<e>>

\* exprs_to_filter: Null is no filter.
ExprsToFilter(exprs) ==
    IF exprs = <<>> THEN Null
    ELSE FoldLeft(LAMBDA left, right : [e |-> "and", l |-> left, r |-> right], exprs[1], Tail(exprs))

\* like_prefix_pruning_range and ascii_prefix_upper_bound: the strings that start with the
\* prefix are at least the prefix and below the bound.
HasPrefixRange(pattern, escape) ==
    /\ escape = Null /\ ~Has(pattern, Underscore)
    /\ Len(pattern) > 1 /\ pattern[Len(pattern)] = Percent
    /\ \A i \in 1 .. Len(pattern) - 1 : pattern[i] # Percent /\ pattern[i] <= MaxAscii
LikePrefix(pattern) == SubSeq(pattern, 1, Len(pattern) - 1)
UpperBound(prefix) == [prefix EXCEPT ![Len(prefix)] = @ + 1]

RECURSIVE SupportsRowGroupPruning(_)
SupportsRowGroupPruning(e) ==
    CASE e.e = "cmp" -> e.op # "<>"
      [] e.e \in {"and", "or"} -> SupportsRowGroupPruning(e.l) /\ SupportsRowGroupPruning(e.r)
      [] e.e = "like" -> ~e.negated /\ ~e.insensitive /\ HasPrefixRange(e.pattern, e.escape)
      [] OTHER -> FALSE

\* PredicateSet::new; the whole filter stays as the residual.
Pushdown(filter) == IF filter = Null THEN <<>> ELSE SelectSeq(Conjuncts(filter), SupportsRowGroupPruning)

-----------------------------------------------------------------------------
(* Row groups.                                                             *)

\* The statistics a writer keeps of a column chunk: NULL and NaN do not count, and without
\* any other value there is neither minimum nor maximum.
Statistics(group, col) ==
    LET vals == {group.rows[i][col] : i \in DOMAIN group.rows} \ {Null, NaN}
    IN IF vals = {} THEN [min |-> Null, max |-> Null]
       ELSE [min |-> CHOOSE v \in vals : \A w \in vals : ~Less(ColumnType[col], w, v),
             max |-> CHOOSE v \in vals : \A w \in vals : ~Less(ColumnType[col], v, w)]

\* Mutant: the minimum itself is left out of <=.
ComparisonMayMatchStrict(type, stats, op, v) ==
    LET low == stats.min = Null \/ ~Less(type, v, stats.min)
        high == stats.max = Null \/ ~Less(type, stats.max, v)
    IN CASE op = "=" -> low /\ high
         [] op = "<>" -> TRUE
         [] op \in {"<", "<="} -> stats.min = Null \/ Less(type, stats.min, v)
         [] op = ">" -> stats.max = Null \/ Less(type, v, stats.max)
         [] op = ">=" -> high

\* comparison_may_match and its copies for bytes and floats.
ComparisonMayMatch(type, stats, op, v) ==
    LET low == stats.min = Null \/ ~Less(type, v, stats.min)
        high == stats.max = Null \/ ~Less(type, stats.max, v)
    IN CASE op = "=" -> low /\ high
         [] op = "<>" -> TRUE
         [] op = "<" -> stats.min = Null \/ Less(type, stats.min, v)
         [] op = "<=" -> low
         [] op = ">" -> stats.max = Null \/ Less(type, v, stats.max)
         [] op = ">=" -> high

\* may_contain_comparison: a column the file does not have is a partition column.
MayContainComparison(group, e) ==
    IF e.lit = NullLiteral \/ e.col \notin Columns \/ group.stats # "exact" THEN TRUE
    ELSE LET v == AsType(ColumnType[e.col], e.lit)
         IN CASE v = Error -> Error
              [] v # Error /\ v = NaN -> TRUE
              [] OTHER -> ComparisonMayMatch(ColumnType[e.col], Statistics(group, e.col), e.op, v)

RowGroupMayMatchLike(group, e) ==
    \/ e.insensitive \/ e.negated \/ ~HasPrefixRange(e.pattern, e.escape)
    \/ e.col \notin Columns \/ ColumnType[e.col] # "string" \/ group.stats # "exact"
    \/ LET stats == Statistics(group, e.col)
           prefix == LikePrefix(e.pattern)
       IN /\ stats.max = Null \/ ~LexLess(stats.max, prefix)
          /\ stats.min = Null \/ LexLess(stats.min, UpperBound(prefix))

\* The second operand is not looked at when the first decides.
RECURSIVE RowGroupMayMatch(_, _)
RowGroupMayMatch(group, e) ==
    CASE e.e = "cmp" -> MayContainComparison(group, e)
      [] e.e = "and" -> LET left == RowGroupMayMatch(group, e.l)
                        IN IF left = TRUE THEN RowGroupMayMatch(group, e.r) ELSE left
      [] e.e = "or" -> LET left == RowGroupMayMatch(group, e.l)
                       IN IF left = FALSE THEN RowGroupMayMatch(group, e.r) ELSE left
      [] e.e = "like" -> RowGroupMayMatchLike(group, e)
      [] OTHER -> TRUE

\* prune_row_groups: every predicate is evaluated for every group, and one error is
\* enough.
PruneRowGroups(groups, predicates) ==
    LET verdicts == [g \in DOMAIN groups |->
                        {RowGroupMayMatch(groups[g], predicates[i]) : i \in DOMAIN predicates}]
    IN IF \E g \in DOMAIN groups : Error \in verdicts[g] THEN Error
       ELSE SelectSeq([g \in DOMAIN groups |-> g], LAMBDA g : FALSE \notin verdicts[g])

-----------------------------------------------------------------------------
(* Partition directories.                                                  *)

PartitionColumns(fragments) == UNION {DOMAIN fragments[i].parts : i \in DOMAIN fragments}

PartitionPredicateSupported(e, cols) ==
    \/ e.e = "cmp" /\ e.col \in cols /\ e.op = "=" /\ e.lit # NullLiteral
    \/ e.e = "in" /\ e.col \in cols /\ ~e.negated /\ ~e.hasNull /\ e.vals # <<>>

\* literal_partition_value is the literal's text.
PartitionPredicateMatches(e, parts) ==
    /\ e.col \in DOMAIN parts
    /\ parts[e.col] \in IF e.e = "cmp" THEN {AsType("string", e.lit)}
                        ELSE {AsType("string", e.vals[i]) : i \in DOMAIN e.vals}

\* prune_table_source_partitions: the fragments that are left and the filter for their rows.
PruneTableSourcePartitions(fragments, filter) ==
    LET cols == PartitionColumns(fragments)
        Supported(e) == PartitionPredicateSupported(e, cols)
        predicates == SelectSeq(Conjuncts(filter), Supported)
        residual == SelectSeq(Conjuncts(filter), LAMBDA e : ~Supported(e))
        Kept(f) == \A i \in DOMAIN predicates : PartitionPredicateMatches(predicates[i], f.parts)
    IN IF filter = Null \/ cols = {} THEN <<fragments, filter>>
       ELSE IF predicates = <<>> THEN <<fragments, filter>>
       ELSE <<SelectSeq(fragments, Kept), ExprsToFilter(residual)>>

-----------------------------------------------------------------------------
(* The scan.                                                               *)

\* A row as the scan delivers it, partition columns filled in.
Materialize(row, parts) == [c \in DOMAIN row \cup DOMAIN parts |->
                                IF c \in DOMAIN row THEN row[c] ELSE parts[c]]
RowsIn(fragment, groups) ==
    UNION {{Materialize(row, fragment.parts) : row \in Range(fragment.groups[g].rows)} :
               g \in Range(groups)}

AllGroups(fragment) == [g \in DOMAIN fragment.groups |-> g]

\* plan_parquet_scan_tasks and FilterStream, for all fragments: the rows that pass, or an
\* error of planning or of filtering.
ScanRows(fragments, filter) ==
    LET pruned == PruneTableSourcePartitions(fragments, filter)
        left == pruned[1]
        residual == pruned[2]
        planned == [f \in DOMAIN left |->
                       IF Pushdown(residual) = <<>> THEN AllGroups(left[f])
                       ELSE PruneRowGroups(left[f].groups, Pushdown(residual))]
        read == UNION {RowsIn(left[f], planned[f]) : f \in DOMAIN left}
        Mask(row) == IF residual = Null THEN TRUE ELSE EvaluateFilter(row, residual)
    IN IF \E f \in DOMAIN left : planned[f] = Error THEN Error
       ELSE IF \E row \in read : Mask(row) = Error THEN Error
       ELSE {row \in read : Mask(row) = TRUE}

\* The rows the WHERE clause selects.
RowsSelected(fragments, filter) ==
    {row \in UNION {RowsIn(fragments[f], AllGroups(fragments[f])) : f \in DOMAIN fragments} :
        filter = Null \/ SqlSays(row, filter) = TRUE}
=============================================================================
