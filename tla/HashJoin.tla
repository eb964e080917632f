------------------------------ MODULE HashJoin ------------------------------
(***************************************************************************)
(* The in-memory hash join of src/src/execution/physical.rs                *)
(* (HashJoinStream): it reads one input whole into a hash table and then   *)
(* probes it with the other, batch by batch.  Outer joins note which build *)
(* rows were matched (MatchedBuildTracker), as a set of rows or, when the  *)
(* build keys are distinct 32-bit integers of a narrow range, as one flag  *)
(* per key, and produce the others at the end.                             *)
(***************************************************************************)
EXTENDS JoinSemantics

CONSTANTS
    Queries  \* the joins tried: records [left, right, type, side, i32]

ASSUME QueriesAssumption ==
    \A q \in Queries :
        /\ q.left \in Seq(AnyBatch) /\ q.right \in Seq(AnyBatch)
        /\ q.type \in {"Inner", "Left", "Right", "Full", "Semi"}
        /\ q.side \in {"left", "right"} /\ q.i32 \in BOOLEAN
        /\ q.type = "Semi" => q.side = "right"

VARIABLES
    query,      \* the join: inputs, type, build side, and whether its key is one Int32
    pc,         \* "build", "probe", "done" or "error"
    build,      \* all_rows: the rows of the build side
    probe,      \* batches of the probe side not read yet
    seen,       \* has a probe batch given probe_template?
    matched,    \* the tracker, as the set of build rows it calls matched
    emitted,    \* emitted_unmatched_build
    out         \* rows handed to the operator above, as a bag

vars == <<query, pc, build, probe, seen, matched, emitted, out>>

BuildInput == IF query.side = "left" THEN query.left ELSE query.right
ProbeInput == IF query.side = "left" THEN query.right ELSE query.left
ProbeSide == IF query.side = "left" THEN "right" ELSE "left"

\* DenseI32BuildRows: the build rows the table has a slot for.
Slots == {b \in build : Key(b) # Null}

\* MatchedBuildTracker::for_build: flags per key when every key occurs once.
Dense ==
    /\ query.i32 /\ query.type # "Semi"
    /\ Slots # {}
    /\ \A a, b \in Slots : Key(a) = Key(b) => a = b

-----------------------------------------------------------------------------
Init ==
    /\ query \in Queries
    /\ pc = "build"
    /\ build = {}
    /\ probe = ProbeInput
    /\ seen = FALSE
    /\ matched = {}
    /\ emitted = FALSE
    /\ out = EmptyBag

\* collect_non_empty_batches, build_hash_join_input.
Build ==
    /\ pc = "build" /\ Broken \notin Range(BuildInput)
    /\ build' = RowsOf(BatchesOf(query.side, BuildInput))
    /\ pc' = IF build' = {} THEN "done" ELSE "probe"
    /\ UNCHANGED <<query, probe, seen, matched, emitted, out>>

BuildFails ==
    /\ pc = "build" /\ Broken \in Range(BuildInput)
    /\ pc' = "error"
    /\ UNCHANGED <<query, build, probe, seen, matched, emitted, out>>

\* Mutant: the tracker marks by batch and loses the marks of the batch before.
ProbeMarksAfresh ==
    /\ pc = "probe" /\ probe # <<>> /\ Head(probe) # Broken
    /\ LET b == 1 + Len(ProbeInput) - Len(probe)
           batch == BatchOf(ProbeSide, Head(probe), b)
       IN  /\ out' = out (+) SetToBag(Probed(query.type, build, batch, query.side))
           /\ matched' = MatchedBuild(build, batch)
    /\ seen' = TRUE
    /\ probe' = Tail(probe)
    /\ UNCHANGED <<query, pc, build, emitted>>

\* One probe batch; an empty one still gives the template for the NULLs.
Probe ==
    /\ pc = "probe" /\ probe # <<>> /\ Head(probe) # Broken
    /\ LET b == 1 + Len(ProbeInput) - Len(probe)
           batch == BatchOf(ProbeSide, Head(probe), b)
       IN  /\ out' = out (+) SetToBag(Probed(query.type, build, batch, query.side))
           /\ matched' = matched \cup MatchedBuild(build, batch)
    /\ seen' = TRUE
    /\ probe' = Tail(probe)
    /\ UNCHANGED <<query, pc, build, emitted>>

ProbeFails ==
    /\ pc = "probe" /\ probe # <<>> /\ Head(probe) = Broken
    /\ pc' = "error"
    /\ UNCHANGED <<query, build, probe, seen, matched, emitted, out>>

\* The build rows emit_unmatched_build_if_needed finds unmatched: with flags per key, only
\* the rows that have a slot are looked at.
UnmatchedRefs == (IF Dense THEN Slots ELSE build) \ matched

\* emit_unmatched_build_if_needed: nothing without a probe batch to take the schema from.
EmitUnmatched ==
    /\ pc = "probe" /\ probe = <<>> /\ ~emitted
    /\ KeepsBuild(query.type, query.side)
    /\ emitted' = TRUE
    /\ out' = out (+) SetToBag(IF seen THEN UnmatchedBuild(UnmatchedRefs, query.side) ELSE {})
    /\ UNCHANGED <<query, pc, build, probe, seen, matched>>

End ==
    /\ pc = "probe" /\ probe = <<>>
    /\ KeepsBuild(query.type, query.side) => emitted
    /\ pc' = "done"
    /\ UNCHANGED <<query, build, probe, seen, matched, emitted, out>>

Next == Build \/ BuildFails \/ Probe \/ ProbeFails \/ EmitUnmatched \/ End

Spec == Init /\ [][Next]_vars

-----------------------------------------------------------------------------
\* The join is exact: a stream that ends without an error has read its inputs whole (the
\* probe side only if there is a build row to probe), and has produced every row of the
\* SQL join exactly once and no other, whichever side it was built from and however the
\* batches of the two inputs were cut.
JoinExact ==
    pc = "done" =>
        /\ Broken \notin Range(BuildInput)
        /\ build # {} => Broken \notin Range(ProbeInput)
        /\ out = SetToBag(SqlJoin(query.type, query.left, query.right))
=============================================================================
