------------------------- MODULE MCExecutionGraph -------------------------
(* Plans over tables of two fragments, of one and of none.                 *)
EXTENDS ExecutionGraph

Row(k, v) == [k |-> k, v |-> v]
MCFiles == [two |-> <<<<Row(1, 2), Row(2, 1)>>, <<Row(1, 2)>>>>,
            one |-> <<<<Row(Null, 1), Row(1, 3), Row(3, 1)>>>>,
            none |-> <<>>]
MCHash == (Null :> 0) @@ [k \in 0..3 |-> k]

\* One more operation on top of each plan.
Over(plans) ==
    UNION {{FilterOf(p, {[col |-> "k", val |-> 1]}), ProjectionOf(p, {"v"}), ProjectionOf(p, {"k", "v"}),
            ProjectionOf(p, None), SortOf(p, "v", None), SortOf(p, "v", 2), LimitOf(p, 1), LimitOf(p, 2),
            DistinctOf(p), AggregateOf(p, {}), AggregateOf(p, {"k"})} : p \in plans}

\* The columns of a plan's output, {} when a column is missing below.
RECURSIVE Output(_)
Output(p) ==
    CASE p.op = "scan" -> {"k", "v"}
      [] p.op = "filter" -> IF {c.col : c \in p.filter} \subseteq Output(p.input) THEN Output(p.input) ELSE {}
      [] p.op = "projection" -> IF p.columns = None THEN Output(p.input)
                                ELSE IF p.columns \subseteq Output(p.input) THEN p.columns ELSE {}
      [] p.op = "sort" -> IF p.order \in Output(p.input) THEN Output(p.input) ELSE {}
      [] p.op = "aggregate" -> IF Output(p.input) # {} /\ p.by \subseteq Output(p.input)
                               THEN p.by \cup {"count"} ELSE {}
      [] p.op = "join" -> IF "k" \in Output(p.left) \cap Output(p.right) THEN {"l.k"} ELSE {}
      [] OTHER -> Output(p.input)
Valid(plans) == {p \in plans : Output(p) # {}}

Alone(exchanges) == [exchanges |-> exchanges, shuffle |-> 2, join |-> "fixed", partitions |-> 0, memory |-> 1]
Options == {[exchanges |-> x, shuffle |-> s, join |-> j.join, partitions |-> j.partitions, memory |-> j.memory] :
              x \in BOOLEAN, s \in 1..3,
              j \in {[join |-> "fixed", partitions |-> 0, memory |-> 1],
                     [join |-> "fixed", partitions |-> 2, memory |-> 1],
                     [join |-> "auto", partitions |-> 0, memory |-> 1]}}

Stacks == LET one == Valid(Over({ScanOf("two")}))
              two == Valid(Over(one))
          IN  {ScanOf(t) : t \in {"two", "one", "none"}} \cup one \cup two \cup Valid(Over(two))
Joins == LET left == {ScanOf("two"), LimitOf(ScanOf("two"), 2), AggregateOf(ScanOf("two"), {"k"}),
                      DistinctOf(ScanOf("two"))}
             right == {ScanOf("one"), ScanOf("none")}
             joins == {JoinOf(l, r, type, "k") : l \in left, r \in right, type \in {"inner", "semi"}}
         IN  joins \cup UNION {{LimitOf(j, 1), SortOf(j, "l.k", None), AggregateOf(j, {}),
                               AggregateOf(j, {"l.k"})} : j \in joins}

\* The scans that the engine plans itself: everything a scan can do is in the scan, but
\* DISTINCT rows are not sorted by a column that was not selected.
EngineScans ==
    {scan \in [op : {"scan"}, table : {"two", "one", "none"}, columns : {None, {"k"}, {"k", "v"}},
               filter : {{}, {[col |-> "v", val |-> 2]}}, order : {None, "v"},
               limit : {None, 0, 2}, distinct : BOOLEAN] :
        scan.distinct /\ scan.columns # None => scan.order \in scan.columns \cup {None}}

MCQueries == [plan : Stacks \cup EngineScans, opt : {Alone(x) : x \in BOOLEAN}, reversed : BOOLEAN]
             \cup [plan : {AggregateOf(ScanOf(t), {"k"}) : t \in {"two", "one", "none"}} \cup Joins,
                   opt : Options, reversed : BOOLEAN]
=============================================================================
