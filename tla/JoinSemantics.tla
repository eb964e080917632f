--------------------------- MODULE JoinSemantics ---------------------------
(***************************************************************************)
(* Rows, batches and what it means to join them: shared by the models of   *)
(* the hash joins of src/src/execution/physical.rs.  A row is its side,    *)
(* its place in the input and its join key.  An input is a sequence of     *)
(* batches; a batch is a sequence of keys, or Broken when reading it is an *)
(* error.  An output row is a pair of a left and a right row, one of them  *)
(* NullRow where an outer join fills in NULLs, or for a semi join the left *)
(* row alone.                                                              *)
(***************************************************************************)
EXTENDS Integers, FiniteSets, SequencesExt, BagsExt

CONSTANTS
    Keys, Null,  \* join keys; Null is the SQL NULL
    Broken       \* a batch whose read fails

AnyBatch == Seq(Keys \cup {Null}) \cup {Broken}

Key(row) == row[4]
NullRow == <<Null>>
BatchOf(side, keys, b) ==
    IF keys = Broken THEN {} ELSE {<<side, b, i, keys[i]>> : i \in DOMAIN keys}
BatchesOf(side, input) == [b \in DOMAIN input |-> BatchOf(side, input[b], b)]
RowsOf(batches) == UNION Range(batches)

\* The batches that have rows, in order.
NonEmpty(batches) ==
    LET kept[n \in 0..Len(batches)] ==
            IF n = 0 THEN <<>>
            ELSE IF batches[n] = {} THEN kept[n - 1] ELSE Append(kept[n - 1], batches[n])
    IN  kept[Len(batches)]

-----------------------------------------------------------------------------
(* Probing: what one probe batch yields against the rows of a hash table.  *)

\* The lookup of HashJoinBuild, in whichever table it keeps: a NULL key has no entry and
\* finds none.
Matches(build, row) == {b \in build : Key(b) = Key(row) /\ Key(row) # Null}
MatchedBuild(build, batch) == UNION {Matches(build, p) : p \in batch}

\* A left row and a right row in output order.
Pair(buildSide, b, p) == IF buildSide = "left" THEN <<b, p>> ELSE <<p, b>>

\* push_hash_join_matches, push_semi_join_match, push_unmatched_probe_if_outer and
\* materialize_unmatched_build_rows.
Joined(build, batch, buildSide) ==
    UNION {{Pair(buildSide, b, p) : b \in Matches(build, p)} : p \in batch}
SemiRows(build, batch) == {<<p>> : p \in {q \in batch : Matches(build, q) # {}}}
UnmatchedProbe(build, batch, buildSide) ==
    {Pair(buildSide, NullRow, p) : p \in {q \in batch : Matches(build, q) = {}}}
UnmatchedBuild(rows, buildSide) == {Pair(buildSide, b, NullRow) : b \in rows}

KeepsProbe(joinType, buildSide) ==
    \/ joinType = "Full"
    \/ joinType = "Left" /\ buildSide = "right"
    \/ joinType = "Right" /\ buildSide = "left"

\* should_emit_unmatched_build
KeepsBuild(joinType, buildSide) ==
    \/ joinType = "Full"
    \/ joinType = "Left" /\ buildSide = "left"
    \/ joinType = "Right" /\ buildSide = "right"

\* probe_hash_join_batches
Probed(joinType, build, batch, buildSide) ==
    IF joinType = "Semi" THEN SemiRows(build, batch)
    ELSE Joined(build, batch, buildSide)
         \cup IF KeepsProbe(joinType, buildSide)
              THEN UnmatchedProbe(build, batch, buildSide) ELSE {}

-----------------------------------------------------------------------------
(* What SQL asks for.                                                      *)
SqlJoin(joinType, left, right) ==
    LET leftRows == RowsOf(BatchesOf("left", left))
        rightRows == RowsOf(BatchesOf("right", right))
        pairs == {lr \in leftRows \X rightRows :
                    Key(lr[1]) = Key(lr[2]) /\ Key(lr[1]) # Null}
        lonelyLeft == {<<l, NullRow>> : l \in {x \in leftRows : \A lr \in pairs : lr[1] # x}}
        lonelyRight == {<<NullRow, r>> : r \in {x \in rightRows : \A lr \in pairs : lr[2] # x}}
    IN  CASE joinType = "Inner" -> pairs
          [] joinType = "Semi" -> {<<lr[1]>> : lr \in pairs}
          [] joinType = "Left" -> pairs \cup lonelyLeft
          [] joinType = "Right" -> pairs \cup lonelyRight
          [] joinType = "Full" -> pairs \cup lonelyLeft \cup lonelyRight
=============================================================================
