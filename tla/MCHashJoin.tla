----------------------------- MODULE MCHashJoin -----------------------------
(* Inputs of at most two batches over two keys and NULL.                    *)
EXTENDS HashJoin
MCKeys == {1, 2}
UpToTwo(Batches) ==
    {<<>>} \cup {<<a>> : a \in Batches} \cup {<<a, b>> : a, b \in Batches}
AnyInput == UpToTwo({<<>>, <<1>>, <<1, 1>>, <<1, 2>>, <<2, Null>>})
            \cup {<<<<1>>, Broken>>, <<Broken>>}
All == [left : AnyInput, right : AnyInput, type : {"Inner", "Left", "Right", "Full"},
        side : {"left", "right"}, i32 : BOOLEAN]
       \cup [left : AnyInput, right : AnyInput, type : {"Semi"}, side : {"right"},
             i32 : BOOLEAN]

BuildOf(q) == IF q.side = "left" THEN q.left ELSE q.right
ProbeOf(q) == IF q.side = "left" THEN q.right ELSE q.left
HasRows(input) == RowsOf(BatchesOf("left", input)) # {}
HasNull(input) == \E row \in RowsOf(BatchesOf("left", input)) : Key(row) = Null
Outer(q) == q.type \in {"Left", "Right", "Full"}

\* Every inner and semi join, and the outer joins whose inputs both have a row and whose
\* build side, when its key is a 32-bit integer, has no NULL key.
MCQueries ==
    {q \in All : Outer(q) => /\ HasRows(BuildOf(q)) /\ ProbeOf(q) # <<>>
                             /\ q.i32 => ~HasNull(BuildOf(q))}
\* Outer joins whose build side has no row.
MCEmptyBuild == {q \in All : Outer(q) /\ ~HasRows(BuildOf(q))}
\* Outer joins whose build side has rows, one of them with a NULL key.
MCNullBuild == {q \in All : Outer(q) /\ HasNull(BuildOf(q)) /\ ProbeOf(q) # <<>>}
=============================================================================
