-------------------------- MODULE ExecutionGraph --------------------------
(***************************************************************************)
(* How a logical plan becomes stages and tasks (PhysicalPlanner,           *)
(* StagePlanner and TaskPlanner of src/src/plan.rs) and how                *)
(* execute_execution_graph_locally of src/src/engine.rs runs them, one     *)
(* task after the other, with shuffle files in between.  What the single   *)
(* operators compute is the subject of other modules; here each is a       *)
(* function of streams.                                                    *)
(***************************************************************************)
EXTENDS LogicalPlans

CONSTANTS
    Queries,     \* a plan, the options of the planner, and how the stages are listed
    Hash,        \* hash_physical_row of a key
    BatchRows,   \* rows of a record batch
    FileTarget,  \* shuffle_file_target_bytes, counted in rows
    Error        \* the outcome of a task that fails

VARIABLES
    query,
    graph,      \* the ExecutionGraphPlan
    at,         \* the place in the list of stages of the current pass
    next,       \* the next task of the stage there
    executed,   \* executed_stages, and completed_stages
    progressed,
    store,      \* LocalShuffleStore: the files of each partition written
    streams,    \* the output of the tasks nobody reads
    metrics,    \* rows written to and read from the store
    status      \* "planning", "running", "done", or the error: "failed", "cyclic"
vars == <<query, graph, at, next, executed, progressed, store, streams, metrics, status>>

-----------------------------------------------------------------------------
(* PhysicalPlanner: nodes with their children and their partitioning.      *)

Unknown == [kind |-> "unknown", keys |-> {}, n |-> 1]
Single == [kind |-> "single", keys |-> {}, n |-> 1]
Hashed(keys, n) == [kind |-> "hash", keys |-> keys, n |-> n]
FileRange(n) == [kind |-> "files", keys |-> {}, n |-> n]

\* PhysicalPlanNode; arg is its PhysicalExecutionConfig.
Node(op, arg, children, part) ==
    [op |-> op, arg |-> arg, children |-> children, part |-> part]
Exchange(input, part) == Node("exchange", None, <<input>>, part)

\* Mutant: a scan is never gathered.
EnsureSingleUnlessScan(opt, input) ==
    IF opt.exchanges /\ input.part.kind \notin {"single", "files"}
    THEN Exchange(input, Single) ELSE input
EnsureSingle(opt, input) ==
    IF opt.exchanges /\ input.part.kind # "single" THEN Exchange(input, Single) ELSE input

EnsureHash(opt, input, keys, n) ==
    IF opt.exchanges /\ input.part # Hashed(keys, n)
    THEN Exchange(input, Hashed(keys, n)) ELSE input

\* logical_scan_projection: what the scan reads besides its output.
ScanProjection(scan) ==
    IF scan.columns = None THEN None
    ELSE scan.columns \cup {c.col : c \in scan.filter}
         \cup IF scan.distinct \/ scan.order = None THEN {} ELSE {scan.order}

PlanScan(opt, scan) ==
    LET read == ScanProjection(scan)
        fragments == Files[scan.table]
        base == Node("scan", [fragments |-> fragments, columns |-> read], <<>>,
                     FileRange(IF fragments = <<>> THEN 1 ELSE Len(fragments)))
        filtered == IF scan.filter = {} THEN base
                    ELSE Node("filter", scan.filter, <<base>>, base.part)
        Output(input) == IF read = scan.columns THEN input
                         ELSE Node("projection", scan.columns, <<input>>, input.part)
        distinct == IF scan.distinct
                    THEN Node("distinct", None, <<EnsureSingle(opt, Output(filtered))>>, Single)
                    ELSE filtered
        sorted == IF scan.order = None THEN distinct
                  ELSE Node("sort", [order |-> scan.order, limit |-> scan.limit],
                            <<EnsureSingle(opt, distinct)>>, Unknown)
        output == IF scan.distinct THEN sorted ELSE Output(sorted)
    IN  IF scan.limit = None THEN output
        ELSE Node("limit", scan.limit, <<EnsureSingle(opt, output)>>, Single)

\* estimated_logical_bytes, counted in rows
RECURSIVE Estimate(_)
Estimate(plan) == CASE plan.op = "scan" -> Len(FlattenSeq(Files[plan.table]))
                    [] plan.op = "join" -> Estimate(plan.left) + Estimate(plan.right)
                    [] OTHER -> Estimate(plan.input)

\* choose_join_strategy with cost::partition_count: 0 for a hash join, or the partitions.
JoinPartitions(opt, plan) ==
    LET build == IF plan.type = "semi" \/ Estimate(plan.left) > Estimate(plan.right)
                 THEN Estimate(plan.right) ELSE Estimate(plan.left)
        n == (build + opt.memory - 1) \div opt.memory
    IN  IF opt.join # "auto" THEN opt.partitions
        ELSE IF build <= opt.memory THEN 0 ELSE IF n < 2 THEN 2 ELSE n

RECURSIVE PlanNode(_, _)
PlanNode(opt, plan) ==
    CASE plan.op = "scan" -> PlanScan(opt, plan)
      [] plan.op = "filter" ->
           LET input == PlanNode(opt, plan.input)
           IN  Node("filter", plan.filter, <<input>>, input.part)
      [] plan.op = "projection" ->
           LET input == PlanNode(opt, plan.input)
           IN  Node("projection", plan.columns, <<input>>, input.part)
      [] plan.op = "sort" ->
           Node("sort", [order |-> plan.order, limit |-> plan.limit],
                <<EnsureSingle(opt, PlanNode(opt, plan.input))>>, Unknown)
      [] plan.op = "limit" ->
           Node("limit", plan.limit, <<EnsureSingle(opt, PlanNode(opt, plan.input))>>, Single)
      [] plan.op = "distinct" ->
           Node("distinct", None, <<EnsureSingle(opt, PlanNode(opt, plan.input))>>, Single)
      [] plan.op = "aggregate" ->
           LET input == PlanNode(opt, plan.input)
               spread == IF plan.by = {} THEN EnsureSingle(opt, input)
                         ELSE EnsureHash(opt, input, plan.by, opt.shuffle)
           IN  Node("merge", plan.by, <<Node("fold", plan.by, <<spread>>, Unknown)>>, Unknown)
      [] plan.op = "join" ->
           LET n == JoinPartitions(opt, plan)
               arg == [type |-> plan.type, key |-> plan.key]
               left == PlanNode(opt, plan.left)
               right == PlanNode(opt, plan.right)
           IN  IF n = 0 THEN Node("join", arg, <<left, right>>, Unknown)
               ELSE Node("join", arg, <<EnsureHash(opt, left, {plan.key}, n),
                                        EnsureHash(opt, right, {plan.key}, n)>>,
                         Hashed({plan.key}, n))

-----------------------------------------------------------------------------
(* StagePlanner and TaskPlanner.                                           *)

StageOf(id, root, inputs, part) == [id |-> id, root |-> root, inputs |-> inputs, part |-> part]

\* rewrite_exchange_inputs: an exchange becomes a leaf that names the stage below it.  The
\* result has the rewritten node, the stages it reads and the stages made so far.
RECURSIVE Rewrite(_, _)
Rewrite(node, stages) ==
    IF node.op = "exchange"
    THEN LET below == Rewrite(node.children[1], stages)
             id == Len(below.stages)
         IN  [node |-> Node("exchange", id, <<>>, node.part),
              inputs |-> {id},
              stages |-> Append(below.stages, StageOf(id, below.node, below.inputs, node.part))]
    ELSE LET Add(done, child) ==
                 LET r == Rewrite(child, done.stages)
                 IN  [children |-> Append(done.children, r.node),
                      inputs |-> done.inputs \cup r.inputs, stages |-> r.stages]
             all == FoldLeft(Add, [children |-> <<>>, inputs |-> {}, stages |-> stages],
                             node.children)
         IN  [node |-> [node EXCEPT !.children = all.children],
              inputs |-> all.inputs, stages |-> all.stages]

Split(root) ==
    LET r == Rewrite(root, <<>>)
    IN  Append(r.stages, StageOf(Len(r.stages), r.node, r.inputs, r.node.part))

\* The nodes of a stage, and collect_scan_fragments.
RECURSIVE Nodes(_)
Nodes(node) == <<node>> \o FlattenSeq([i \in DOMAIN node.children |-> Nodes(node.children[i])])
Scans(node) == SelectSeq(Nodes(node), LAMBDA x : x.op = "scan")
Fragments(node) ==
    LET scans == Scans(node) IN FlattenSeq([i \in DOMAIN scans |-> scans[i].arg.fragments])

TaskOf(stage, partition, fragments, inputs) ==
    [stage |-> stage.id, partition |-> partition, root |-> stage.root,
     fragments |-> fragments, inputs |-> inputs]

\* The partitions of the input stages that task p of n reads: of each stage all of them
\* when the task is alone, and otherwise the one of its own number, or the last.
ShuffleInputs(stages, stage, p, n) ==
    UNION {LET m == stages[i + 1].part.n
           IN  IF n = 1 THEN {<<i, q>> : q \in 0..m - 1} ELSE {<<i, IF p < m THEN p ELSE m - 1>>}
             : i \in stage.inputs}

StageTasks(stages, stage) ==
    LET fragments == Fragments(stage.root)
        n == stage.part.n
    IN  IF fragments # <<>> /\ stage.inputs = {}
        THEN IF stage.part.kind = "single" THEN <<TaskOf(stage, 0, fragments, {})>>
             ELSE [f \in DOMAIN fragments |-> TaskOf(stage, f - 1, <<fragments[f]>>, {})]
        ELSE [p \in 1..n |-> TaskOf(stage, p - 1, <<>>, ShuffleInputs(stages, stage, p - 1, n))]

PlanGraph(q) ==
    LET stages == Split(PlanNode(q.opt, Optimize(q.plan)))
    IN  [stages |-> IF q.reversed THEN Reverse(stages) ELSE stages,
         tasks |-> FlattenSeq([s \in DOMAIN stages |-> StageTasks(stages, stages[s])])]

-----------------------------------------------------------------------------
(* LocalShuffleStore.                                                      *)

\* The record batches of an output.
Batches(rows) ==
    [b \in 1..(Len(rows) + BatchRows - 1) \div BatchRows |->
        SubSeq(rows, (b - 1) * BatchRows + 1,
               IF b * BatchRows < Len(rows) THEN b * BatchRows ELSE Len(rows))]

\* repartition_batches_by_hash: the pieces that partition p gets.
Pieces(batches, key, n, p) ==
    LET Mine(batch) == SelectSeq(batch, LAMBDA row : Hash[row[key]] % n = p)
        pieces == [b \in DOMAIN batches |-> Mine(batches[b])]
    IN  SelectSeq(pieces, LAMBDA b : b # <<>>)

\* Mutant: a new file goes before the ones written.
RolledBack(batches) ==
    FoldLeft(LAMBDA files, batch :
                IF files # <<>> /\ Len(Head(files)) + Len(batch) <= FileTarget
                THEN <<Head(files) \o batch>> \o Tail(files) ELSE <<batch>> \o files,
             <<>>, batches)
\* write_partition: a file is closed when the next batch would exceed the target.
Rolled(batches) ==
    FoldLeft(LAMBDA files, batch :
                IF files # <<>> /\ Len(Last(files)) + Len(batch) <= FileTarget
                THEN Front(files) \o <<Last(files) \o batch>> ELSE Append(files, batch),
             <<>>, batches)

Written(s, stage, p) == IF <<stage, p>> \in DOMAIN s THEN s[<<stage, p>>] ELSE <<>>
\* Mutant: a partition without a row is not entered in the store.
WritePartitionIfAny(s, stage, p, batches) ==
    IF batches = <<>> THEN s
    ELSE (<<stage, p>> :> Written(s, stage, p) \o Rolled(batches)) @@ s
WritePartition(s, stage, p, batches) ==
    (<<stage, p>> :> Written(s, stage, p) \o Rolled(batches)) @@ s

\* What a task leaves in the store.
Shuffled(s, stage, task, rows) ==
    LET batches == Batches(rows)
        key == CHOOSE k \in stage.part.keys : TRUE
        Put(acc, p) ==
            WritePartition(acc, stage.id, p, Pieces(batches, key, stage.part.n, p))
    IN  IF stage.part.kind = "hash"
        THEN FoldLeft(Put, s, [p \in 1..stage.part.n |-> p - 1])
        ELSE WritePartition(s, stage.id, task.partition, batches)

-----------------------------------------------------------------------------
(* execute_task_plan_with_shuffle_metrics                                  *)

\* Mutant: an exchange reads the inputs of every exchange of the stage.
MatchingAny(node, inputs) ==
    SetToSortSeq(inputs, LAMBDA x, y : x[1] < y[1] \/ (x[1] = y[1] /\ x[2] < y[2]))
\* exchange_matching_inputs: the partitions an exchange reads, by number.
Matching(node, inputs) ==
    SetToSortSeq({i \in inputs : i[1] = node.arg}, LAMBDA x, y : x[2] < y[2])

ReadPartitions(node, task) ==
    LET inputs == Matching(node, task.inputs)
    IN  FlattenSeq([i \in DOMAIN inputs |-> FlattenSeq(store[inputs[i]])])

\* execute_physical_plan_node on a stage whose scans read fragments, unless there are none
\* among the task's inputs, and whose exchanges read the store.
RECURSIVE Rows(_, _, _)
Rows(node, task, fragments) ==
    LET In(i) == Rows(node.children[i], task, fragments)
    IN  CASE node.op = "scan" ->
               Projected(FlattenSeq(IF task.fragments = <<>> THEN node.arg.fragments ELSE fragments),
                         node.arg.columns)
          [] node.op = "exchange" -> ReadPartitions(node, task)
          [] node.op = "filter" -> Selected(In(1), node.arg)
          [] node.op = "projection" -> Projected(In(1), node.arg)
          [] node.op = "sort" ->
               Truncated(SortSeq(In(1), LAMBDA x, y : x[node.arg.order] < y[node.arg.order]),
                         node.arg.limit)
          [] node.op = "limit" -> Truncated(In(1), node.arg)
          [] node.op = "distinct" -> Dedup(In(1))
          [] node.op = "fold" -> In(1)
          [] node.op = "merge" -> Groups(In(1), node.arg)
          [] node.op = "join" -> JoinRows(In(1), In(2), node.arg.type, node.arg.key)

\* physical_plan_with_scan_fragments, replace_shuffle_inputs and partition_artifacts.
CanRun(task) ==
    /\ task.fragments # <<>> => Len(Scans(task.root)) = 1
    /\ \A i \in DOMAIN Nodes(task.root) :
            LET node == Nodes(task.root)[i]
            IN  node.op = "exchange" => Matching(node, task.inputs) # <<>>
    /\ task.inputs \subseteq DOMAIN store

\* The outcomes of a task: a scan may deliver its fragments in any order.
Outcomes(task) ==
    IF CanRun(task)
    THEN {<<Rows(task.root, task, fragments)>> : fragments \in Orders(task.fragments)}
    ELSE {<<Error>>}

\* Rows read by a task, as LocalShuffleReadMetrics counts them: once per exchange.
RowsRead(task) ==
    LET exchanges == SelectSeq(Nodes(task.root), LAMBDA x : x.op = "exchange")
    IN  Len(FlattenSeq([i \in DOMAIN exchanges |-> ReadPartitions(exchanges[i], task)]))

-----------------------------------------------------------------------------
(* execute_execution_graph_locally_with_options                            *)

Init == /\ query \in Queries
        /\ graph = None
        /\ at = 1 /\ next = 1
        /\ executed = {} /\ progressed = FALSE
        /\ store = <<>> /\ streams = <<>>
        /\ metrics = [written |-> 0, read |-> 0]
        /\ status = "planning"

Plan == /\ status = "planning"
        /\ graph' = PlanGraph(query)
        /\ status' = "running"
        /\ UNCHANGED <<query, at, next, executed, progressed, store, streams, metrics>>

Stage == graph.stages[at]
Tasks == SelectSeq(graph.tasks, LAMBDA t : t.stage = Stage.id)
InPass == status = "running" /\ at <= Len(graph.stages)
Ready == Stage.id \notin executed /\ Stage.inputs \subseteq executed
IsRead(stage) == \E s \in Range(graph.stages) : stage.id \in s.inputs

SkipStage == /\ InPass /\ ~Ready
             /\ at' = at + 1
             /\ UNCHANGED <<query, graph, next, executed, progressed, store, streams, metrics,
                            status>>

RunTask == /\ InPass /\ Ready /\ next <= Len(Tasks)
           /\ LET task == Tasks[next]
              IN  \E outcome \in Outcomes(task) \ {<<Error>>} :
                    LET rows == outcome[1]
                    IN  IF IsRead(Stage)
                        THEN /\ store' = Shuffled(store, Stage, task, rows)
                             /\ metrics' = [written |-> metrics.written + Len(rows),
                                            read |-> metrics.read + RowsRead(task)]
                             /\ UNCHANGED streams
                        ELSE /\ streams' = Append(streams, rows)
                             /\ metrics' = [metrics EXCEPT !.read = @ + RowsRead(task)]
                             /\ UNCHANGED store
           /\ next' = next + 1
           /\ UNCHANGED <<query, graph, at, executed, progressed, status>>

TaskFails == /\ InPass /\ Ready /\ next <= Len(Tasks)
             /\ <<Error>> \in Outcomes(Tasks[next])
             /\ status' = "failed"
             /\ store' = <<>> /\ streams' = <<>>
             /\ UNCHANGED <<query, graph, at, next, executed, progressed, metrics>>

FinishStage == /\ InPass /\ Ready /\ next > Len(Tasks)
               /\ executed' = executed \cup {Stage.id}
               /\ progressed' = TRUE
               /\ at' = at + 1 /\ next' = 1
               /\ UNCHANGED <<query, graph, store, streams, metrics, status>>

EndOfPass == /\ status = "running" /\ at > Len(graph.stages)
             /\ status' = IF ~progressed THEN "cyclic"
                          ELSE IF executed = {s.id : s \in Range(graph.stages)} THEN "done"
                          ELSE "running"
             /\ at' = 1 /\ progressed' = FALSE
             /\ UNCHANGED <<query, graph, next, executed, store, streams, metrics>>

\* The call has returned.
Returned == status \in {"done", "failed", "cyclic"} /\ UNCHANGED vars

Next == Plan \/ SkipStage \/ RunTask \/ TaskFails \/ FinishStage \/ EndOfPass \/ Returned
Spec == Init /\ [][Next]_vars

-----------------------------------------------------------------------------
(* Properties.                                                             *)

\* The plans that the engine's own to_logical_plan builds: a scan, an aggregate over a
\* scan, or a join of two scans, where only the first may sort, limit or drop duplicates.
Plain(plan) == /\ plan.op = "scan"
               /\ plan.order = None /\ plan.limit = None /\ ~plan.distinct
FromEngine(plan) == \/ plan.op = "scan"
                    \/ plan.op = "aggregate" /\ Plain(plan.input)
                    \/ plan.op = "join" /\ Plain(plan.left) /\ Plain(plan.right)

\* A stage of which each task may run alone: it is the only one, or the tasks divide the
\* fragments of one scan row by row, or the partitions of inputs that are as many.
RowWise == {"scan", "filter", "projection"}
Divided(stage) ==
    LET tasks == SelectSeq(graph.tasks, LAMBDA t : t.stage = stage.id)
        ops == {node.op : node \in Range(Nodes(stage.root))}
    IN  \/ Len(tasks) = 1
        \/ stage.inputs = {} /\ ops \subseteq RowWise
        \/ stage.inputs # {} /\ "scan" \notin ops
           /\ \A s \in Range(graph.stages) : s.id \in stage.inputs => s.part.n = Len(tasks)
Sound == \A stage \in Range(graph.stages) : Divided(stage)

\* A join in memory of two scans lies in one stage, which cannot be run by fragments.
TwoScans == \E s \in Range(graph.stages) :
                s.inputs = {} /\ Len(Scans(s.root)) > 1 /\ Fragments(s.root) # <<>>

\* optimize_logical_node changes no answer: what it pushes into a scan, below a
\* projection, a sort, a limit or DISTINCT means the same there.
OptimizerExact ==
    status = "planning" => Meanings(Optimize(query.plan)) = Meanings(query.plan)

\* The streams of a finished graph, one after the other, are an answer of the plan, as long
\* as every stage divides its work properly.
GraphExact == status = "done" /\ Sound => FlattenSeq(streams) \in Meanings(query.plan)

\* With exchanges, the planner divides the work of every plan of the engine properly.
EnginePlansSound ==
    status # "planning" /\ query.opt.exchanges /\ FromEngine(query.plan) => Sound \/ TwoScans

\* Every row that is shuffled is read exactly once (shuffle_write_rows and
\* shuffle_read_rows of the metrics): no partition is left behind or read twice.
ShuffledOnce == status = "done" /\ Sound => metrics.read = metrics.written

\* A task fails only for the scans of its stage, never for want of a shuffle partition, and
\* the stages never wait for each other, in whatever order they are listed.
GraphRunsToEnd == status # "cyclic" /\ (status = "failed" => TwoScans)
=============================================================================
