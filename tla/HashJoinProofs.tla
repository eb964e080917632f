--------------------------- MODULE HashJoinProofs ---------------------------
(***************************************************************************)
(* What the in-memory hash join produces, for every input: the argument    *)
(* follows the probe side batch by batch.  Probing is additive and batches *)
(* have no row in common, so the bag of rows handed on holds each row of   *)
(* the batches read so far once; after the last batch it is the SQL join,  *)
(* except for the outer joins that LeftShort names.                        *)
(***************************************************************************)
EXTENDS HashJoin, TLAPS

(* Rows, batches and bags.                                                 *)

\* The bag of one copy of each row of two disjoint sets.
LEMMA DisjointUnion ==
    ASSUME NEW A, NEW B, A \cap B = {}
    PROVE  SetToBag(A) (+) SetToBag(B) = SetToBag(A \cup B)
  BY DEF SetToBag, (+)

\* A row read from an input is never the row of NULLs that an outer join fills in.
LEMMA RowIsNotNull ==
    ASSUME NEW side, NEW keys, NEW b, NEW row \in BatchOf(side, keys, b)
    PROVE  row # NullRow /\ row[2] = b /\ row[1] = side
  BY DEF BatchOf, NullRow

\* Probing is additive: the rows of two batches are those of each.
LEMMA ProbedUnion ==
    ASSUME NEW type, NEW side, NEW B, NEW P, NEW Q
    PROVE  Probed(type, B, P \cup Q, side)
             = Probed(type, B, P, side) \cup Probed(type, B, Q, side)
<1>1. Joined(B, P \cup Q, side) = Joined(B, P, side) \cup Joined(B, Q, side)
  BY DEF Joined
<1>2. SemiRows(B, P \cup Q) = SemiRows(B, P) \cup SemiRows(B, Q)
  BY DEF SemiRows
<1>3. UnmatchedProbe(B, P \cup Q, side)
        = UnmatchedProbe(B, P, side) \cup UnmatchedProbe(B, Q, side)
  BY DEF UnmatchedProbe
<1> QED
  BY <1>1, <1>2, <1>3 DEF Probed

\* The row of the probe side an output row was made of.
ProbeRow(type, side, row) ==
    IF type = "Semi" THEN row[1] ELSE IF side = "left" THEN row[2] ELSE row[1]

\* Every row that probing produces was made of a row of the batch.
LEMMA ProbedFrom ==
    ASSUME NEW type, NEW side, NEW B, NEW P, NEW row \in Probed(type, B, P, side)
    PROVE  ProbeRow(type, side, row) \in P
<1>1. CASE type = "Semi"
  BY <1>1 DEF Probed, SemiRows, ProbeRow
<1>2. CASE type # "Semi"
  <2>1. CASE row \in Joined(B, P, side)
    BY <1>2, <2>1 DEF Joined, ProbeRow, Pair
  <2>2. CASE row \in UnmatchedProbe(B, P, side)
    BY <1>2, <2>2 DEF UnmatchedProbe, ProbeRow, Pair
  <2> QED
    BY <1>2, <2>1, <2>2 DEF Probed
<1> QED
  BY <1>1, <1>2

\* So two batches without a common row produce no common row.
LEMMA ProbedDisjoint ==
    ASSUME NEW type, NEW side, NEW B, NEW P, NEW Q, P \cap Q = {}
    PROVE  Probed(type, B, P, side) \cap Probed(type, B, Q, side) = {}
  BY ProbedFrom

-----------------------------------------------------------------------------
(* Build and probe against SQL.                                            *)
Types == {"Inner", "Left", "Right", "Full", "Semi"}
SideRows(side, input) == RowsOf(BatchesOf(side, input))

\* LEFT SEMI joins build their right side; the others may build either.
SidesOK(type, side) == side \in {"left", "right"} /\ (type = "Semi" => side = "right")

\* What a hash join makes of a whole build side and a whole probe side.
Answer(type, B, P, side) ==
    Probed(type, B, P, side)
        \cup IF KeepsBuild(type, side) THEN UnmatchedBuild(B \ MatchedBuild(B, P), side) ELSE {}

\* The pairs of rows that join, and the rows of one side that are in none.
Pairs(L, R) == {lr \in L \X R : Key(lr[1]) = Key(lr[2]) /\ Key(lr[1]) # Null}
Lonely(side, L, R) ==
    IF side = "left"
    THEN {<<l, NullRow>> : l \in {x \in L : \A lr \in Pairs(L, R) : lr[1] # x}}
    ELSE {<<NullRow, r>> : r \in {x \in R : \A lr \in Pairs(L, R) : lr[2] # x}}

\* Either side may be built: the matches are the pairs of SQL, in output order.
LEMMA JoinedIsPairs ==
    ASSUME NEW L, NEW R
    PROVE  Joined(L, R, "left") = Pairs(L, R) /\ Joined(R, L, "right") = Pairs(L, R)
<1>1. Joined(L, R, "left") = Pairs(L, R)
  <2>1. \A x \in Joined(L, R, "left") : x \in Pairs(L, R)
    BY DEF Joined, Pairs, Matches, Pair
  <2>2. \A x \in Pairs(L, R) : x \in Joined(L, R, "left")
    <3> TAKE x \in Pairs(L, R)
    <3>1. x[1] \in Matches(L, x[2]) /\ x[2] \in R /\ x = <<x[1], x[2]>>
      BY DEF Pairs, Matches
    <3> QED BY <3>1 DEF Joined, Pair
  <2> QED BY <2>1, <2>2
<1>2. Joined(R, L, "right") = Pairs(L, R)
  <2>1. \A x \in Joined(R, L, "right") : x \in Pairs(L, R)
    BY DEF Joined, Pairs, Matches, Pair
  <2>2. \A x \in Pairs(L, R) : x \in Joined(R, L, "right")
    <3> TAKE x \in Pairs(L, R)
    <3>1. x[2] \in Matches(R, x[1]) /\ x[1] \in L /\ x = <<x[1], x[2]>>
      BY DEF Pairs, Matches
    <3> QED BY <3>1 DEF Joined, Pair
  <2> QED BY <2>1, <2>2
<1> QED BY <1>1, <1>2

\* The unmatched rows of either side, found while probing or left over afterwards.
LEMMA LonelyRows ==
    ASSUME NEW L, NEW R
    PROVE  /\ UnmatchedProbe(R, L, "right") = Lonely("left", L, R)
           /\ UnmatchedProbe(L, R, "left") = Lonely("right", L, R)
           /\ UnmatchedBuild(L \ MatchedBuild(L, R), "left") = Lonely("left", L, R)
           /\ UnmatchedBuild(R \ MatchedBuild(R, L), "right") = Lonely("right", L, R)
<1>1. \A l \in L, r \in R : r \in Matches(R, l) <=> <<l, r>> \in Pairs(L, R)
  BY DEF Matches, Pairs
<1>2. \A l \in L, r \in R : l \in Matches(L, r) <=> <<l, r>> \in Pairs(L, R)
  BY DEF Matches, Pairs
<1>3. \A lr \in Pairs(L, R) : lr = <<lr[1], lr[2]>> /\ lr[1] \in L /\ lr[2] \in R
  BY DEF Pairs
<1>4. \A x, A : Matches(A, x) \subseteq A
  BY DEF Matches
<1>5. \A x \in L : (\A lr \in Pairs(L, R) : lr[1] # x) <=> Matches(R, x) = {}
  <2> TAKE x \in L
  <2>1. ASSUME NEW r \in Matches(R, x) PROVE <<x, r>> \in Pairs(L, R)
    BY <1>1, <1>4
  <2>2. ASSUME NEW lr \in Pairs(L, R), lr[1] = x PROVE lr[2] \in Matches(R, x)
    BY <1>1, <1>3, <2>2
  <2> QED BY <2>1, <2>2
<1>6. \A x \in R : (\A lr \in Pairs(L, R) : lr[2] # x) <=> Matches(L, x) = {}
  <2> TAKE x \in R
  <2>1. ASSUME NEW l \in Matches(L, x) PROVE <<l, x>> \in Pairs(L, R)
    BY <1>2, <1>4
  <2>2. ASSUME NEW lr \in Pairs(L, R), lr[2] = x PROVE lr[1] \in Matches(L, x)
    BY <1>2, <1>3, <2>2
  <2> QED BY <2>1, <2>2
<1>7. \A x \in L : (\A lr \in Pairs(L, R) : lr[1] # x) <=> x \notin MatchedBuild(L, R)
  <2> TAKE x \in L
  <2>1. ASSUME NEW r \in R, x \in Matches(L, r) PROVE <<x, r>> \in Pairs(L, R)
    BY <1>2, <2>1
  <2>2. ASSUME NEW lr \in Pairs(L, R), lr[1] = x PROVE lr[2] \in R /\ x \in Matches(L, lr[2])
    BY <1>2, <1>3, <2>2
  <2> QED BY <2>1, <2>2 DEF MatchedBuild
<1>8. \A x \in R : (\A lr \in Pairs(L, R) : lr[2] # x) <=> x \notin MatchedBuild(R, L)
  <2> TAKE x \in R
  <2>1. ASSUME NEW l \in L, x \in Matches(R, l) PROVE <<l, x>> \in Pairs(L, R)
    BY <1>1, <2>1
  <2>2. ASSUME NEW lr \in Pairs(L, R), lr[2] = x PROVE lr[1] \in L /\ x \in Matches(R, lr[1])
    BY <1>1, <1>3, <2>2
  <2> QED BY <2>1, <2>2 DEF MatchedBuild
<1>9. UnmatchedProbe(R, L, "right") = Lonely("left", L, R)
  BY <1>5 DEF UnmatchedProbe, Lonely, Pair
<1>10. UnmatchedProbe(L, R, "left") = Lonely("right", L, R)
  BY <1>6 DEF UnmatchedProbe, Lonely, Pair
<1>11. UnmatchedBuild(L \ MatchedBuild(L, R), "left") = Lonely("left", L, R)
  BY <1>7 DEF UnmatchedBuild, Lonely, Pair
<1>12. UnmatchedBuild(R \ MatchedBuild(R, L), "right") = Lonely("right", L, R)
  BY <1>8 DEF UnmatchedBuild, Lonely, Pair
<1> QED
  BY <1>9, <1>10, <1>11, <1>12

\* SqlJoin in those terms.
LEMMA SqlJoinIs ==
    ASSUME NEW type \in Types, NEW left, NEW right
    PROVE  LET L == SideRows("left", left)
               R == SideRows("right", right)
           IN  SqlJoin(type, left, right) =
                 IF type = "Semi" THEN {<<lr[1]>> : lr \in Pairs(L, R)}
                 ELSE Pairs(L, R)
                      \cup (IF type \in {"Left", "Full"} THEN Lonely("left", L, R) ELSE {})
                      \cup (IF type \in {"Right", "Full"} THEN Lonely("right", L, R) ELSE {})
<1>1. CASE type = "Semi"
  BY <1>1 DEF SqlJoin, Pairs, Lonely, SideRows
<1>2. CASE type = "Inner"
  BY <1>2 DEF SqlJoin, Pairs, Lonely, SideRows
<1>3. CASE type = "Left"
  BY <1>3 DEF SqlJoin, Pairs, Lonely, SideRows
<1>4. CASE type = "Right"
  BY <1>4 DEF SqlJoin, Pairs, Lonely, SideRows
<1>5. CASE type = "Full"
  BY <1>5 DEF SqlJoin, Pairs, Lonely, SideRows
<1> QED
  BY <1>1, <1>2, <1>3, <1>4, <1>5 DEF Types

\* A semi join, built from its right side, keeps the left rows that are in a pair.
LEMMA SemiIsPairs ==
    ASSUME NEW L, NEW R
    PROVE  SemiRows(R, L) = {<<lr[1]>> : lr \in Pairs(L, R)}
<1>1. \A l \in L : Matches(R, l) # {} <=> \E lr \in Pairs(L, R) : lr[1] = l
  <2> TAKE l \in L
  <2>1. ASSUME NEW r \in Matches(R, l) PROVE <<l, r>> \in Pairs(L, R)
    BY DEF Matches, Pairs
  <2>2. ASSUME NEW lr \in Pairs(L, R), lr[1] = l PROVE lr[2] \in Matches(R, l)
    BY <2>2 DEF Matches, Pairs
  <2> QED BY <2>1, <2>2
<1>2. \A lr \in Pairs(L, R) : lr[1] \in L
  BY DEF Pairs
<1> QED BY <1>1, <1>2 DEF SemiRows

\* A hash join of whole inputs is the SQL join.
LEMMA AnswerIsSql ==
    ASSUME NEW type \in Types, NEW side, SidesOK(type, side), NEW left, NEW right
    PROVE  LET L == SideRows("left", left)
               R == SideRows("right", right)
           IN  SqlJoin(type, left, right)
                 = IF side = "left" THEN Answer(type, L, R, side) ELSE Answer(type, R, L, side)
<1> DEFINE L == SideRows("left", left)
           R == SideRows("right", right)
<1> HIDE DEF L, R
<1>1. SqlJoin(type, left, right) =
                 IF type = "Semi" THEN {<<lr[1]>> : lr \in Pairs(L, R)}
                 ELSE Pairs(L, R)
                      \cup (IF type \in {"Left", "Full"} THEN Lonely("left", L, R) ELSE {})
                      \cup (IF type \in {"Right", "Full"} THEN Lonely("right", L, R) ELSE {})
  BY SqlJoinIs DEF L, R
<1>2. CASE side = "left"
  <2>1. Joined(L, R, side) = Pairs(L, R)
    BY <1>2, JoinedIsPairs
  <2>2. /\ UnmatchedProbe(L, R, side) = Lonely("right", L, R)
        /\ UnmatchedBuild(L \ MatchedBuild(L, R), side) = Lonely("left", L, R)
    BY <1>2, LonelyRows
  <2> QED
    BY <1>1, <1>2, <2>1, <2>2 DEF SidesOK, Types, Answer, Probed, KeepsBuild, KeepsProbe, L, R
<1>3. CASE side = "right"
  <2>1. Joined(R, L, side) = Pairs(L, R) /\ SemiRows(R, L) = {<<lr[1]>> : lr \in Pairs(L, R)}
    BY <1>3, JoinedIsPairs, SemiIsPairs
  <2>2. /\ UnmatchedProbe(R, L, side) = Lonely("left", L, R)
        /\ UnmatchedBuild(R \ MatchedBuild(R, L), side) = Lonely("right", L, R)
    BY <1>3, LonelyRows
  <2> QED
    BY <1>1, <1>3, <2>1, <2>2 DEF SidesOK, Types, Answer, Probed, KeepsBuild, KeepsProbe, L, R
<1> QED
  BY <1>2, <1>3 DEF L, R, SidesOK

-----------------------------------------------------------------------------
(* The inductive invariant.                                                *)

\* How many probe batches were read, and the rows of the first n.
BatchesRead == Len(ProbeInput) - Len(probe)
ProbeRows(n) == UNION {BatchOf(ProbeSide, ProbeInput[b], b) : b \in 1..n}
BuildRows == SideRows(query.side, BuildInput)

TypeInv ==
    /\ query \in Queries
    /\ pc \in {"build", "probe", "done", "error"}
    /\ probe \in Seq(AnyBatch)
    /\ Len(probe) <= Len(ProbeInput)
    /\ seen \in BOOLEAN
    /\ emitted \in BOOLEAN

\* What is left of the probe side is its tail, and none of the batches read was Broken.
ReadInv ==
    /\ \A i \in 1..Len(probe) : probe[i] = ProbeInput[BatchesRead + i]
    /\ \A b \in 1..BatchesRead : ProbeInput[b] # Broken
    /\ seen <=> BatchesRead > 0
    /\ emitted => probe = <<>> /\ KeepsBuild(query.type, query.side)
    
\* What each phase has behind it.
PhaseInv ==
    /\ pc = "build" => build = {} /\ BatchesRead = 0 /\ ~emitted
    /\ pc \in {"probe", "done"} => Broken \notin Range(BuildInput) /\ build = BuildRows
    /\ pc = "probe" => build # {}
    /\ pc = "done" => \/ build = {} /\ BatchesRead = 0 /\ ~emitted
                      \/ /\ build # {} /\ probe = <<>>
                         /\ KeepsBuild(query.type, query.side) => emitted

\* The rows produced so far, each once, and the tracker, are those of the batches read.
OutInv ==
    /\ matched = MatchedBuild(build, ProbeRows(BatchesRead))
    /\ out = SetToBag(Probed(query.type, build, ProbeRows(BatchesRead), query.side)
                      \cup IF emitted /\ seen THEN UnmatchedBuild(UnmatchedRefs, query.side)
                           ELSE {})

IInv == TypeInv /\ ReadInv /\ PhaseInv /\ OutInv

-----------------------------------------------------------------------------
\* The inputs are sequences and the build side suits the join type.
LEMMA InputTypes ==
    ASSUME query \in Queries
    PROVE  /\ ProbeInput \in Seq(AnyBatch) /\ BuildInput \in Seq(AnyBatch)
           /\ query.type \in Types /\ SidesOK(query.type, query.side)
  BY QueriesAssumption DEF ProbeInput, BuildInput, Types, SidesOK

\* Before the first batch there are no probe rows, and they match nothing.
LEMMA NothingRead == ProbeRows(0) = {}
  BY DEF ProbeRows

LEMMA NothingProbed ==
    ASSUME NEW type, NEW B, NEW side
    PROVE  Probed(type, B, {}, side) = {} /\ MatchedBuild(B, {}) = {}
  BY DEF Probed, SemiRows, Joined, UnmatchedProbe, MatchedBuild

\* Reading one more batch adds its rows, all of them new.
LEMMA OneMoreBatch ==
    ASSUME NEW n \in Nat
    PROVE  /\ ProbeRows(n + 1) = ProbeRows(n) \cup BatchOf(ProbeSide, ProbeInput[n + 1], n + 1)
           /\ ProbeRows(n) \cap BatchOf(ProbeSide, ProbeInput[n + 1], n + 1) = {}
<1>1. 1..(n + 1) = 1..n \cup {n + 1}
  OBVIOUS
<1>2. ProbeRows(n + 1) = ProbeRows(n) \cup BatchOf(ProbeSide, ProbeInput[n + 1], n + 1)
  BY <1>1 DEF ProbeRows
<1>3. \A row \in ProbeRows(n) : row[2] \in 1..n
  BY RowIsNotNull DEF ProbeRows
<1> QED
  BY <1>2, <1>3, RowIsNotNull

\* The tracker is additive, as probing is.
LEMMA MatchedUnion ==
    ASSUME NEW B, NEW P, NEW Q
    PROVE  MatchedBuild(B, P \cup Q) = MatchedBuild(B, P) \cup MatchedBuild(B, Q)
  BY DEF MatchedBuild

\* No output row of a probe row is one of an unmatched build row.
LEMMA UnmatchedIsNew ==
    ASSUME NEW type \in Types, NEW side, SidesOK(type, side), NEW B, NEW U, NEW n,
           KeepsBuild(type, side)
    PROVE  Probed(type, B, ProbeRows(n), side) \cap UnmatchedBuild(U, side) = {}
<1>1. type # "Semi"
  BY DEF KeepsBuild, Types
<1>2. \A row \in UnmatchedBuild(U, side) : ProbeRow(type, side, row) = NullRow
  BY <1>1 DEF UnmatchedBuild, ProbeRow, Pair
<1>3. \A row \in ProbeRows(n) : row # NullRow
  BY RowIsNotNull DEF ProbeRows
<1> QED
  BY <1>2, <1>3, ProbedFrom

-----------------------------------------------------------------------------
\* The invariant holds at first, and every step keeps it.
LEMMA InitInv == Init => IInv
<1> SUFFICES ASSUME Init PROVE IInv
  OBVIOUS
<1>1. query \in Queries /\ ProbeInput \in Seq(AnyBatch) /\ probe = ProbeInput
  BY InputTypes DEF Init
<1>2. BatchesRead = 0
  BY <1>1 DEF BatchesRead
<1>3. TypeInv
  <2>1. Len(probe) <= Len(ProbeInput)
    BY <1>1, <1>2 DEF BatchesRead
  <2> QED
    BY <1>1, <2>1 DEF Init, TypeInv
<1>4. ReadInv
  BY <1>1, <1>2 DEF Init, ReadInv
<1>5. PhaseInv
  BY <1>2 DEF Init, PhaseInv
<1>6. OutInv
  BY <1>2, NothingRead, NothingProbed DEF Init, OutInv, EmptyBag
<1> QED
  BY <1>3, <1>4, <1>5, <1>6 DEF IInv

LEMMA BuildStep ==
    ASSUME IInv, Build
    PROVE  IInv'
<1> USE DEF Build, IInv
<1>1. UNCHANGED <<ProbeInput, BuildInput, ProbeSide, BatchesRead, BuildRows>>
  BY DEF ProbeInput, BuildInput, ProbeSide, BatchesRead, BuildRows
<1>2. TypeInv'
  BY <1>1 DEF TypeInv
<1>3. ReadInv'
  BY <1>1 DEF ReadInv
<1>4. PhaseInv'
  BY <1>1 DEF PhaseInv, BuildRows, SideRows
<1>5. BatchesRead = 0 /\ BatchesRead' = 0 /\ ~emitted /\ ~emitted'
  BY <1>1 DEF PhaseInv
<1>6. ProbeRows(0) = {} /\ ProbeRows(0)' = {}
  BY DEF ProbeRows
<1>7. OutInv'
  BY <1>5, <1>6, NothingProbed DEF OutInv
<1> QED
  BY <1>2, <1>3, <1>4, <1>7

LEMMA FailStep ==
    ASSUME IInv, BuildFails \/ ProbeFails
    PROVE  IInv'
<1> USE DEF BuildFails, ProbeFails, IInv
<1>1. UNCHANGED <<ProbeInput, BuildInput, ProbeSide, BatchesRead, BuildRows, UnmatchedRefs>>
  BY DEF ProbeInput, BuildInput, ProbeSide, BatchesRead, BuildRows, UnmatchedRefs, Dense, Slots
<1>2. TypeInv'
  BY <1>1 DEF TypeInv
<1>3. ReadInv'
  BY <1>1 DEF ReadInv
<1>4. PhaseInv'
  BY <1>1 DEF PhaseInv
<1>5. /\ UNCHANGED <<query, build, seen, matched, emitted, out>>
      /\ ProbeRows(BatchesRead)' = ProbeRows(BatchesRead)
  BY <1>1 DEF ProbeRows
<1>6. OutInv'
  <2> HIDE DEF BuildFails, ProbeFails
  <2> QED
    BY <1>1, <1>5 DEF OutInv
<1> QED
  BY <1>2, <1>3, <1>4, <1>6

LEMMA ProbeStep ==
    ASSUME IInv, Probe
    PROVE  IInv'
<1> USE DEF IInv
<1> DEFINE n == BatchesRead
           batch == BatchOf(ProbeSide, ProbeInput[n + 1], n + 1)
<1>1. UNCHANGED <<query, pc, build, emitted, ProbeInput, BuildInput, ProbeSide, BuildRows>>
  BY DEF Probe, ProbeInput, BuildInput, ProbeSide, BuildRows
<1>2. /\ probe # <<>> /\ Head(probe) # Broken /\ probe' = Tail(probe) /\ seen' = TRUE
      /\ pc = "probe"
  BY DEF Probe
<1>3. /\ probe \in Seq(AnyBatch) /\ ProbeInput \in Seq(AnyBatch)
      /\ Len(probe) <= Len(ProbeInput)
  BY InputTypes DEF TypeInv
<1>4. /\ probe' \in Seq(AnyBatch) /\ Len(probe') = Len(probe) - 1 /\ Len(probe) > 0
      /\ \A i \in 1..Len(probe') : probe'[i] = probe[i + 1]
      /\ Head(probe) = probe[1]
  BY <1>2, <1>3
<1>5. n \in Nat /\ BatchesRead' = n + 1 /\ n + 1 \in 1..Len(ProbeInput)
  BY <1>1, <1>3, <1>4 DEF BatchesRead
<1>6. Head(probe) = ProbeInput[n + 1]
  BY <1>4 DEF ReadInv
<1>7. /\ out' = out (+) SetToBag(Probed(query.type, build, batch, query.side))
      /\ matched' = matched \cup MatchedBuild(build, batch)
  BY <1>5, <1>6, <1>3 DEF Probe, BatchesRead
<1>8. ~emitted
  BY <1>2 DEF ReadInv
<1>9. TypeInv'
  BY <1>1, <1>2, <1>3, <1>4 DEF TypeInv
<1>10. ReadInv'
  <2>1. \A i \in 1..Len(probe') : probe'[i] = ProbeInput[n + 1 + i]
    BY <1>3, <1>4, <1>5 DEF ReadInv
  <2>2. \A b \in 1..(n + 1) : ProbeInput[b] # Broken
    BY <1>2, <1>5, <1>6 DEF ReadInv
  <2> QED
    BY <1>1, <1>2, <1>5, <1>8, <2>1, <2>2 DEF ReadInv
<1>11. PhaseInv'
  BY <1>1, <1>2 DEF PhaseInv
<1>12. ProbeRows(BatchesRead)' = ProbeRows(n) \cup batch /\ ProbeRows(n) \cap batch = {}
  <2>1. ProbeRows(BatchesRead)' = ProbeRows(n + 1)
    BY <1>1, <1>5 DEF ProbeRows
  <2> QED
    BY <2>1, <1>5, OneMoreBatch
<1>13. matched' = MatchedBuild(build, ProbeRows(BatchesRead)')
  BY <1>7, <1>12, MatchedUnion DEF OutInv
<1>14. out' = SetToBag(Probed(query.type, build, ProbeRows(BatchesRead)', query.side))
  <2> DEFINE A == Probed(query.type, build, ProbeRows(n), query.side)
             B == Probed(query.type, build, batch, query.side)
  <2>1. out = SetToBag(A)
    BY <1>8 DEF OutInv
  <2>2. A \cap B = {}
    BY <1>12, ProbedDisjoint
  <2>3. Probed(query.type, build, ProbeRows(BatchesRead)', query.side) = A \cup B
    BY <1>12, ProbedUnion
  <2> HIDE DEF A, B
  <2>4. out' = SetToBag(A \cup B)
    BY <1>7, <2>1, <2>2, DisjointUnion DEF B
  <2> QED
    BY <2>3, <2>4
<1>15. OutInv'
  BY <1>1, <1>8, <1>13, <1>14 DEF OutInv
<1> QED
  BY <1>9, <1>10, <1>11, <1>15

LEMMA EmitStep ==
    ASSUME IInv, EmitUnmatched
    PROVE  IInv'
<1> USE DEF IInv
<1>1. UNCHANGED <<query, pc, build, probe, seen, matched, ProbeInput, BuildInput, ProbeSide,
                  BatchesRead, BuildRows, UnmatchedRefs>>
  BY DEF EmitUnmatched, ProbeInput, BuildInput, ProbeSide, BatchesRead, BuildRows,
         UnmatchedRefs, Dense, Slots
<1>2. /\ pc = "probe" /\ probe = <<>> /\ ~emitted /\ emitted' = TRUE
      /\ KeepsBuild(query.type, query.side)
      /\ out' = out (+) SetToBag(IF seen THEN UnmatchedBuild(UnmatchedRefs, query.side) ELSE {})
  BY DEF EmitUnmatched
<1>3. TypeInv'
  BY <1>1, <1>2 DEF TypeInv
<1>4. ReadInv'
  BY <1>1, <1>2 DEF ReadInv
<1>5. PhaseInv'
  BY <1>1, <1>2 DEF PhaseInv
<1>6. ProbeRows(BatchesRead)' = ProbeRows(BatchesRead)
  BY <1>1 DEF ProbeRows
<1>7. OutInv'
  <2> DEFINE A == Probed(query.type, build, ProbeRows(BatchesRead), query.side)
             U == IF seen THEN UnmatchedBuild(UnmatchedRefs, query.side) ELSE {}
  <2>1. out = SetToBag(A)
    BY <1>2 DEF OutInv
  <2>2. A \cap U = {}
    BY <1>2, UnmatchedIsNew, InputTypes DEF TypeInv
  <2>3. out' = SetToBag(A \cup U)
    <3> HIDE DEF A, U
    <3> QED BY <1>2, <2>1, <2>2, DisjointUnion DEF U
  <2> QED
    BY <1>1, <1>2, <1>6, <2>3 DEF OutInv
<1> QED
  BY <1>3, <1>4, <1>5, <1>7

LEMMA EndStep ==
    ASSUME IInv, End
    PROVE  IInv'
<1> USE DEF IInv, End
<1>1. UNCHANGED <<ProbeInput, BuildInput, ProbeSide, BatchesRead, BuildRows, UnmatchedRefs>>
  BY DEF ProbeInput, BuildInput, ProbeSide, BatchesRead, BuildRows, UnmatchedRefs, Dense, Slots
<1>2. TypeInv'
  BY <1>1 DEF TypeInv
<1>3. ReadInv'
  BY <1>1 DEF ReadInv
<1>4. PhaseInv'
  BY <1>1 DEF PhaseInv
<1>5. ProbeRows(BatchesRead)' = ProbeRows(BatchesRead)
  BY <1>1 DEF ProbeRows
<1>6. OutInv'
  BY <1>1, <1>5 DEF OutInv
<1> QED
  BY <1>2, <1>3, <1>4, <1>6

LEMMA StutterStep ==
    ASSUME IInv, UNCHANGED vars
    PROVE  IInv'
<1> USE DEF IInv, vars
<1>1. UNCHANGED <<ProbeInput, BuildInput, ProbeSide, BatchesRead, BuildRows, UnmatchedRefs>>
  BY DEF ProbeInput, BuildInput, ProbeSide, BatchesRead, BuildRows, UnmatchedRefs, Dense, Slots
<1>2. TypeInv'
  BY <1>1 DEF TypeInv
<1>3. ReadInv'
  BY <1>1 DEF ReadInv
<1>4. PhaseInv'
  BY <1>1 DEF PhaseInv
<1>5. ProbeRows(BatchesRead)' = ProbeRows(BatchesRead)
  BY <1>1 DEF ProbeRows
<1>6. OutInv'
  BY <1>1, <1>5 DEF OutInv
<1> QED
  BY <1>2, <1>3, <1>4, <1>6

\* The rows handed on are, at every step, exactly those the probe batches read so far call
\* for, each once, whatever the inputs and however they are cut into batches.
THEOREM Invariance == Spec => []IInv
<1>1. IInv /\ [Next]_vars => IInv'
  BY BuildStep, FailStep, ProbeStep, EmitStep, EndStep, StutterStep DEF Next
<1> QED
  BY InitInv, <1>1, PTL DEF Spec

-----------------------------------------------------------------------------
(* The answer.                                                             *)

\* The outer joins the code leaves short: no build row to probe; no probe batch to take
\* the NULLs' schema from; a NULL key that the flags per key have no slot for.
LeftShort ==
    \/ /\ KeepsProbe(query.type, query.side)
       /\ build = {} /\ ProbeRows(Len(ProbeInput)) # {}
    \/ /\ KeepsBuild(query.type, query.side)
       /\ build # {} /\ (ProbeInput = <<>> \/ (Dense /\ Slots # build))

\* After the last batch, every probe row was read.
LEMMA ProbeRowsAreAll ==
    ASSUME query \in Queries
    PROVE  ProbeRows(Len(ProbeInput)) = SideRows(ProbeSide, ProbeInput)
<1>1. ProbeInput \in Seq(AnyBatch)
  BY InputTypes
<1>2. DOMAIN ProbeInput = 1..Len(ProbeInput)
  BY <1>1
<1> QED
  BY <1>2 DEF ProbeRows, SideRows, RowsOf, BatchesOf, Range

\* The SQL join of the query, from its build and probe rows.
LEMMA SqlJoinOfInputs ==
    ASSUME query \in Queries
    PROVE  SqlJoin(query.type, query.left, query.right)
             = Answer(query.type, BuildRows, ProbeRows(Len(ProbeInput)), query.side)
  BY InputTypes, ProbeRowsAreAll, AnswerIsSql
     DEF BuildRows, BuildInput, ProbeInput, ProbeSide, SidesOK

\* A build row that matches has a slot.
LEMMA NullsNeverMatch ==
    ASSUME NEW P
    PROVE  MatchedBuild(build, P) \subseteq Slots
  BY DEF MatchedBuild, Matches, Slots

\* At the end, outside those cases, the rows produced are the SQL join.
LEMMA DoneExact ==
    ASSUME IInv, pc = "done", ~LeftShort
    PROVE  JoinExact
<1> DEFINE P == ProbeRows(Len(ProbeInput))
<1>1. query \in Queries /\ ProbeInput \in Seq(AnyBatch)
  BY InputTypes DEF IInv, TypeInv
<1>2. build = BuildRows /\ Broken \notin Range(BuildInput)
  BY DEF IInv, PhaseInv
<1>3. SqlJoin(query.type, query.left, query.right) = Answer(query.type, build, P, query.side)
  BY <1>1, <1>2, SqlJoinOfInputs
<1>4. CASE build = {} /\ BatchesRead = 0 /\ ~emitted
  <2>1. out = SetToBag({})
    BY <1>4, NothingRead, NothingProbed DEF IInv, OutInv
  <2>2. Probed(query.type, {}, P, query.side) = {}
    <3>1. Joined({}, P, query.side) = {} /\ SemiRows({}, P) = {}
      BY DEF Joined, SemiRows, Matches
    <3>2. KeepsProbe(query.type, query.side) => UnmatchedProbe({}, P, query.side) = {}
      BY <1>4 DEF LeftShort, UnmatchedProbe
    <3> QED BY <3>1, <3>2 DEF Probed
  <2>3. UnmatchedBuild({} \ MatchedBuild({}, P), query.side) = {}
    BY DEF UnmatchedBuild
  <2> QED
    BY <1>2, <1>3, <1>4, <2>1, <2>2, <2>3 DEF JoinExact, Answer
<1>5. CASE build # {} /\ probe = <<>> /\ (KeepsBuild(query.type, query.side) => emitted)
  <2>1. BatchesRead = Len(ProbeInput)
    BY <1>1, <1>5 DEF BatchesRead
  <2>2. Broken \notin Range(ProbeInput)
    BY <1>1, <2>1 DEF IInv, ReadInv, Range
  <2>3. KeepsBuild(query.type, query.side) => seen /\ UnmatchedRefs = build \ matched
    <3> SUFFICES ASSUME KeepsBuild(query.type, query.side)
                 PROVE  seen /\ UnmatchedRefs = build \ matched
      OBVIOUS
    <3>1. ProbeInput # <<>> /\ (Dense => Slots = build)
      BY <1>5 DEF LeftShort
    <3>2. Len(ProbeInput) > 0
      BY <3>1, <1>1
    <3> QED
      BY <3>1, <3>2, <2>1 DEF IInv, ReadInv, UnmatchedRefs
  <2>4. emitted => KeepsBuild(query.type, query.side)
    BY DEF IInv, ReadInv
  <2>5. out = SetToBag(Answer(query.type, build, P, query.side))
    BY <1>5, <2>1, <2>3, <2>4 DEF IInv, OutInv, Answer
  <2> QED
    BY <1>2, <1>3, <2>2, <2>5 DEF JoinExact
<1> QED
  BY <1>4, <1>5 DEF IInv, PhaseInv

\* The rows missing from the answer are the unmatched rows of the side the join keeps.
LEMMA DoneShort ==
    ASSUME IInv, pc = "done", LeftShort
    PROVE  ~JoinExact
<1> DEFINE P == ProbeRows(Len(ProbeInput))
           Q == SqlJoin(query.type, query.left, query.right)
<1>1. /\ query \in Queries /\ ProbeInput \in Seq(AnyBatch)
      /\ query.type \in Types /\ SidesOK(query.type, query.side)
  BY InputTypes DEF IInv, TypeInv
<1>2. Q = Answer(query.type, build, P, query.side)
  BY <1>1, SqlJoinOfInputs DEF IInv, PhaseInv
<1> HIDE DEF Q
<1>3. SUFFICES \E row \in Q : row \notin DOMAIN out
  <2>1. DOMAIN SetToBag(Q) = Q
    BY DEF SetToBag
  <2> QED
    BY <2>1 DEF JoinExact, Q
<1>4. CASE KeepsProbe(query.type, query.side) /\ build = {} /\ P # {}
  <2>1. DOMAIN out = {}
    BY <1>4, NothingRead, NothingProbed DEF IInv, PhaseInv, OutInv, SetToBag
  <2>2. PICK p \in P : TRUE
    BY <1>4
  <2>3. Pair(query.side, NullRow, p) \in UnmatchedProbe(build, P, query.side)
    BY <1>4 DEF UnmatchedProbe, Matches
  <2>4. query.type # "Semi"
    BY <1>1, <1>4 DEF KeepsProbe
  <2> QED
    BY <1>2, <1>4, <2>1, <2>3, <2>4 DEF Answer, Probed
<1>5. ASSUME KeepsBuild(query.type, query.side), build # {}
      PROVE  /\ BatchesRead = Len(ProbeInput) /\ emitted
             /\ \A b \in build \ MatchedBuild(build, P) : Pair(query.side, b, NullRow) \in Q
             /\ \A b \in build : Pair(query.side, b, NullRow) \in DOMAIN out =>
                    seen /\ b \in UnmatchedRefs
  <2>1. BatchesRead = Len(ProbeInput) /\ emitted
    BY <1>1, <1>5 DEF IInv, PhaseInv, BatchesRead
  <2>2. \A b \in build \ MatchedBuild(build, P) : Pair(query.side, b, NullRow) \in Q
    BY <1>2, <1>5 DEF Answer, UnmatchedBuild
  <2>3. ASSUME NEW b \in build, Pair(query.side, b, NullRow) \in DOMAIN out
        PROVE  seen /\ b \in UnmatchedRefs
    <3>1. Pair(query.side, b, NullRow) \in UnmatchedBuild({b}, query.side)
      BY DEF UnmatchedBuild
    <3>2. Pair(query.side, b, NullRow) \notin Probed(query.type, build, P, query.side)
      BY <1>1, <1>5, <3>1, UnmatchedIsNew
    <3>3. seen /\ Pair(query.side, b, NullRow) \in UnmatchedBuild(UnmatchedRefs, query.side)
      BY <2>1, <2>3, <3>2 DEF IInv, OutInv, SetToBag
    <3> QED
      BY <3>3 DEF UnmatchedBuild, Pair
  <2> QED
    BY <2>1, <2>2, <2>3
<1>6. CASE KeepsBuild(query.type, query.side) /\ build # {} /\ ProbeInput = <<>>
  <2>1. ~seen /\ P = {}
    BY <1>5, <1>6, NothingRead DEF IInv, ReadInv
  <2>2. PICK b \in build : TRUE
    BY <1>6
  <2> QED
    BY <1>5, <1>6, <2>1, <2>2, NothingProbed
<1>7. CASE KeepsBuild(query.type, query.side) /\ build # {} /\ Dense /\ Slots # build
  <2>1. PICK b \in build : b \notin Slots
    BY <1>7 DEF Slots
  <2>2. b \notin MatchedBuild(build, P)
    BY <2>1, NullsNeverMatch
  <2>3. b \notin UnmatchedRefs
    BY <1>7, <2>1 DEF UnmatchedRefs
  <2> QED
    BY <1>5, <1>7, <2>1, <2>2, <2>3
<1> QED
  BY <1>4, <1>6, <1>7 DEF LeftShort

\* A hash join that ends without an error has produced the SQL join, each row once, unless
\* it is one of the outer joins of LeftShort.
THEOREM HashJoinExact == Spec => [](~LeftShort => JoinExact)
<1>1. IInv => (~LeftShort => JoinExact)
  BY DoneExact DEF JoinExact
<1> QED
  BY Invariance, <1>1, PTL

\* Inner and semi joins are exact without exception.
THEOREM InnerSemiExact == Spec => [](query.type \in {"Inner", "Semi"} => JoinExact)
<1>1. IInv => (query.type \in {"Inner", "Semi"} => JoinExact)
  <2>1. query.type \in {"Inner", "Semi"} => ~LeftShort
    BY DEF LeftShort, KeepsBuild, KeepsProbe
  <2> QED
    BY <2>1, DoneExact DEF JoinExact
<1> QED
  BY Invariance, <1>1, PTL

\* Every outer join of LeftShort loses rows: the exception above is as small as it can be.
THEOREM ShortAlways == Spec => [](pc = "done" /\ LeftShort => ~JoinExact)
<1>1. IInv => (pc = "done" /\ LeftShort => ~JoinExact)
  BY DoneShort
<1> QED
  BY Invariance, <1>1, PTL
=============================================================================
