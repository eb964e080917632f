--------------------- MODULE PartitionedHashJoinProofs ---------------------
(***************************************************************************)
(* Proofs about PartitionedHashJoin, for every query, hash, memory limit,  *)
(* number of partitions and repartition depth.                             *)
(*                                                                         *)
(* The argument is a ledger.  Every task and every join state owes a set   *)
(* of output rows, which its fields determine; the invariant is that these *)
(* sets and the rows already produced are pairwise disjoint and, for inner *)
(* and semi joins, together are the SQL join.  An action moves rows within *)
(* the ledger: a spill, a repartition and the preparation of a partition   *)
(* split what is owed, a step of a state pays part of it.  For FULL joins  *)
(* this ledger has only disjointness, which is enough for NoRowTwice.      *)
(*                                                                         *)
(* A FULL state does not owe all it could produce: whether a row is        *)
(* unmatched depends on batches still to come.  FullInv is a second ledger *)
(* of what is owed exactly, for the FULL joins that fit (FullFits).        *)
(*                                                                         *)
(* BuildFits needs a second invariant: every spill file holds rows of one  *)
(* input batch.                                                            *)
(***************************************************************************)
EXTENDS PartitionedHashJoin, TLAPS

\* Under names of their own: they define operators of the community modules again.
WF == INSTANCE WellFoundedInduction
FS == INSTANCE FiniteSetTheorems

\* Every nonempty set of naturals has a least element.
LEMMA NatLeast ==
    ASSUME NEW S, S \subseteq Nat, S # {}
    PROVE  \E n \in S : \A m \in S : n <= m
<1> DEFINE R == WF!OpToRel(<, Nat)
<1>1. WF!IsWellFoundedOn(R, Nat)
  BY WF!NatLessThanWellFounded
<1> HIDE DEF R
<1>2. PICK n \in S : \A m \in S : ~(<<m, n>> \in R)
  BY <1>1, WF!WFMin
<1>3. \A m \in S : ~(m < n)
  BY <1>2 DEF R, WF!OpToRel
<1> QED
  BY <1>3

\* Induction over the naturals, for a set.
LEMMA NatInd ==
    ASSUME NEW S, 0 \in S, \A n \in Nat : n \in S => n + 1 \in S
    PROVE  Nat \subseteq S
<1> SUFFICES ASSUME Nat \ S # {} PROVE FALSE
  OBVIOUS
<1>1. PICK n \in Nat \ S : \A m \in Nat \ S : n <= m
  BY NatLeast
<1> QED
  BY <1>1

-----------------------------------------------------------------------------
(* Files.                                                                  *)
\* The join types the planner gives this operator.
Types == {"Inner", "Full", "Semi"}

\* No two elements of a sequence of sets share a member.
PairwiseDisjoint(fs) == \A i, j \in DOMAIN fs : i # j => fs[i] \cap fs[j] = {}

\* What NonEmpty computes, up to the n-th batch.
Kept(bs, f, n) ==
    f = [m \in 0..n |-> IF m = 0 THEN <<>>
                        ELSE IF bs[m] = {} THEN f[m - 1] ELSE Append(f[m - 1], bs[m])]

\* For every n there is a function that keeps the batches with rows up to the n-th.
LEMMA KeptExists ==
    ASSUME NEW bs
    PROVE  \A n \in Nat : \E f : Kept(bs, f, n)
<1> DEFINE S == {n \in Nat : \E f : Kept(bs, f, n)}
<1>1. 0 \in S
  <2> DEFINE f == [m \in 0..0 |-> <<>>]
  <2>1. Kept(bs, f, 0)
    BY DEF Kept
  <2> QED BY <2>1
<1>2. ASSUME NEW n \in Nat, n \in S PROVE n + 1 \in S
  <2>1. PICK f : Kept(bs, f, n)
    BY <1>2
  <2> DEFINE g == [m \in 0..(n + 1) |->
                     IF m <= n THEN f[m]
                     ELSE IF bs[n + 1] = {} THEN f[n] ELSE Append(f[n], bs[n + 1])]
  <2>2. \A m \in 0..n : f[m] = IF m = 0 THEN <<>>
                        ELSE IF bs[m] = {} THEN f[m - 1] ELSE Append(f[m - 1], bs[m])
    BY <2>1 DEF Kept
  <2>3. \A m \in 0..(n + 1) :
            g[m] = IF m = 0 THEN <<>>
                   ELSE IF bs[m] = {} THEN g[m - 1] ELSE Append(g[m - 1], bs[m])
    <3> TAKE m \in 0..(n + 1)
    <3>1. CASE m <= n
      BY <3>1, <2>2
    <3>2. CASE m = n + 1
      BY <3>2
    <3> QED BY <3>1, <3>2
  <2> HIDE DEF g
  <2>4. DOMAIN g = 0..(n + 1) /\ g = [m \in DOMAIN g |-> g[m]]
    BY DEF g
  <2>5. Kept(bs, g, n + 1)
    BY <2>3, <2>4 DEF Kept
  <2> QED BY <2>5
<1> HIDE DEF S
<1>3. Nat \subseteq S
  BY <1>1, <1>2, NatInd
<1> QED BY <1>3 DEF S

\* NonEmpty ends with the n-th value of such a function, n the number of batches.
LEMMA NonEmptyIs ==
    ASSUME NEW T, NEW bs \in Seq(SUBSET T)
    PROVE  \E f : Kept(bs, f, Len(bs)) /\ NonEmpty(bs) = f[Len(bs)]
<1> DEFINE f == CHOOSE f : Kept(bs, f, Len(bs))
<1>1. Kept(bs, f, Len(bs))
  BY KeptExists
<1>2. NonEmpty(bs) = f[Len(bs)]
  BY DEF NonEmpty, Kept
<1> QED
  BY <1>1, <1>2

\* Dropping the empty batches keeps the rows and the order, and files without common rows.
LEMMA NonEmptyFiles ==
    ASSUME NEW T, NEW bs \in Seq(SUBSET T)
    PROVE  /\ NonEmpty(bs) \in Seq(SUBSET T)
           /\ RowsOf(NonEmpty(bs)) = RowsOf(bs)
           /\ \A i \in DOMAIN NonEmpty(bs) : \E j \in DOMAIN bs : NonEmpty(bs)[i] = bs[j]
           /\ PairwiseDisjoint(bs) => PairwiseDisjoint(NonEmpty(bs))
<1>1. PICK f : Kept(bs, f, Len(bs)) /\ NonEmpty(bs) = f[Len(bs)]
  BY NonEmptyIs
<1>2. \A m \in 0..Len(bs) : f[m] = IF m = 0 THEN <<>>
                        ELSE IF bs[m] = {} THEN f[m - 1] ELSE Append(f[m - 1], bs[m])
  BY <1>1 DEF Kept
<1> DEFINE OK(n) == /\ f[n] \in Seq(SUBSET T)
                    /\ \A j \in 1..n : bs[j] # {} => \E i \in DOMAIN f[n] : f[n][i] = bs[j]
                    /\ \A i \in DOMAIN f[n] : \E j \in 1..n : f[n][i] = bs[j]
                    /\ PairwiseDisjoint(bs) => PairwiseDisjoint(f[n])
           S == {n \in Nat : n <= Len(bs) => OK(n)}
<1>3. 0 \in S
  <2>1. f[0] = <<>>
    BY <1>2
  <2>2. PairwiseDisjoint(f[0])
    BY <2>1 DEF PairwiseDisjoint
  <2>3. OK(0)
    BY <2>1, <2>2
  <2> QED BY <2>3
<1>4. ASSUME NEW n \in Nat, n \in S PROVE n + 1 \in S
  <2> SUFFICES ASSUME n + 1 <= Len(bs) PROVE OK(n + 1)
    OBVIOUS
  <2>1. OK(n)
    BY <1>4
  <2>2. f[n + 1] = IF bs[n + 1] = {} THEN f[n] ELSE Append(f[n], bs[n + 1])
    BY <1>2
  <2>3. bs[n + 1] \in SUBSET T /\ n + 1 \in DOMAIN bs
    OBVIOUS
  <2>4. CASE bs[n + 1] = {}
    <3>1. f[n + 1] = f[n]
      BY <2>2, <2>4
    <3>2. \A j \in 1..(n + 1) : j \in 1..n \/ j = n + 1
      OBVIOUS
    <3> QED BY <2>1, <2>4, <3>1, <3>2
  <2>5. CASE bs[n + 1] # {}
    <3> DEFINE g == Append(f[n], bs[n + 1])
               k == Len(f[n])
    <3>1. /\ f[n + 1] = g /\ g \in Seq(SUBSET T) /\ k \in Nat
          /\ DOMAIN g = 1..(k + 1) /\ DOMAIN f[n] = 1..k
          /\ g[k + 1] = bs[n + 1] /\ \A i \in 1..k : g[i] = f[n][i]
      BY <2>1, <2>2, <2>3, <2>5
    <3> HIDE DEF g, k
    <3>2. \A j \in 1..(n + 1) : \E i \in 1..(k + 1) : bs[j] # {} => g[i] = bs[j]
      <4> TAKE j \in 1..(n + 1)
      <4>1. CASE j = n + 1
        BY <4>1, <3>1
      <4>2. CASE j \in 1..n
        <5>1. CASE bs[j] = {}
          BY <5>1, <3>1
        <5>2. CASE bs[j] # {}
          <6>1. PICK i \in 1..k : f[n][i] = bs[j]
            BY <4>2, <5>2, <2>1, <3>1
          <6> QED BY <6>1, <3>1
        <5> QED BY <5>1, <5>2
      <4> QED BY <4>1, <4>2
    <3>3. \A i \in 1..(k + 1) : \E j \in 1..(n + 1) : g[i] = bs[j]
      <4> TAKE i \in 1..(k + 1)
      <4>1. CASE i = k + 1
        BY <4>1, <3>1
      <4>2. CASE i \in 1..k
        <5>1. PICK j \in 1..n : f[n][i] = bs[j]
          BY <4>2, <2>1, <3>1
        <5> QED BY <5>1, <4>2, <3>1
      <4> QED BY <4>1, <4>2, <3>1
    <3>4. PairwiseDisjoint(bs) => PairwiseDisjoint(g)
      <4> SUFFICES ASSUME PairwiseDisjoint(bs), NEW i \in 1..(k + 1), NEW j \in 1..(k + 1), i < j
                   PROVE  g[i] \cap g[j] = {}
        <5>1. k \in Nat /\ DOMAIN g = 1..(k + 1)
          BY <3>1
        <5> SUFFICES ASSUME PairwiseDisjoint(bs), NEW i \in 1..(k + 1), NEW j \in 1..(k + 1), i # j,
                            \A a, b \in 1..(k + 1) : a < b => g[a] \cap g[b] = {}
                     PROVE  g[i] \cap g[j] = {}
          BY <5>1 DEF PairwiseDisjoint
        <5>2. i < j \/ j < i
          BY <5>1
        <5> QED BY <5>2
      <4>1. i \in 1..k
        BY <3>1
      <4>2. CASE j \in 1..k
        <5>1. PairwiseDisjoint(f[n]) /\ i \in DOMAIN f[n] /\ j \in DOMAIN f[n] /\ i # j
          BY <4>1, <4>2, <3>1, <2>1
        <5>2. f[n][i] \cap f[n][j] = {}
          BY <5>1 DEF PairwiseDisjoint
        <5> QED BY <5>2, <4>1, <4>2, <3>1
      <4>3. CASE j = k + 1
        <5>1. PICK m \in 1..n : f[n][i] = bs[m]
          BY <4>1, <2>1, <3>1
        <5>2. m \in DOMAIN bs /\ m # n + 1
          OBVIOUS
        <5> QED BY <5>1, <5>2, <4>1, <4>3, <3>1, <2>3 DEF PairwiseDisjoint
      <4> QED BY <4>2, <4>3, <3>1
    <3> QED BY <3>1, <3>2, <3>3, <3>4
  <2> QED BY <2>4, <2>5
<1>5. OK(Len(bs))
  <2> HIDE DEF S
  <2>1. Nat \subseteq S
    BY <1>3, <1>4, NatInd
  <2> QED BY <2>1 DEF S
<1>6. DOMAIN bs = 1..Len(bs)
  OBVIOUS
<1>7. RowsOf(NonEmpty(bs)) = RowsOf(bs)
  <2>1. \A j \in DOMAIN NonEmpty(bs) : \E m \in DOMAIN bs : NonEmpty(bs)[j] = bs[m]
    BY <1>1, <1>5, <1>6
  <2>2. \A m \in DOMAIN bs :
            bs[m] = {} \/ \E j \in DOMAIN NonEmpty(bs) : NonEmpty(bs)[j] = bs[m]
    BY <1>1, <1>5, <1>6
  <2> QED BY <2>1, <2>2 DEF RowsOf, Range
<1> QED
  BY <1>1, <1>5, <1>6, <1>7

-----------------------------------------------------------------------------
(* Output rows.                                                            *)
\* The pairs of an inner join.
Pairs(L, R) == {lr \in L \X R : Key(lr[1]) = Key(lr[2]) /\ Key(lr[1]) # Null}

\* The rows that a join of the rows L with the rows R may produce; for inner and semi
\* joins, those it has to produce.
Rel(type, L, R) ==
    IF type = "Inner" THEN Pairs(L, R)
    ELSE IF type = "Semi" THEN {<<lr[1]>> : lr \in Pairs(L, R)}
    ELSE Pairs(L, R) \cup {<<l, NullRow>> : l \in L} \cup {<<NullRow, r>> : r \in R}

\* More input rows never take an output row away.
LEMMA RelMono ==
    ASSUME NEW type, NEW L, NEW R, NEW L1, NEW R1, L1 \subseteq L, R1 \subseteq R
    PROVE  Rel(type, L1, R1) \subseteq Rel(type, L, R)
<1>1. Pairs(L1, R1) \subseteq Pairs(L, R)
  BY DEF Pairs
<1> QED BY <1>1 DEF Rel

\* Inputs without a common row produce no common output row.
LEMMA RelDisjoint ==
    ASSUME NEW type, NEW L, NEW R, NEW L1, NEW R1, L1 \cap L = {}, R1 \cap R = {},
           NullRow \notin L \cup R \cup L1 \cup R1
    PROVE  Rel(type, L1, R1) \cap Rel(type, L, R) = {}
<1>1. \A A, B : \A x \in Pairs(A, B) : x[1] \in A /\ x[2] \in B
  BY DEF Pairs
<1>2. CASE type = "Inner"
  BY <1>1, <1>2 DEF Rel
<1>3. CASE type = "Semi"
  <2>1. \A A, B : \A x \in Rel(type, A, B) : x[1] \in A
    BY <1>1, <1>3 DEF Rel
  <2> QED BY <2>1
<1>4. CASE type \notin {"Inner", "Semi"}
  <2>1. \A A, B : \A x \in Rel(type, A, B) : \/ x[1] \in A /\ x[2] \in B
                                             \/ x[1] \in A /\ x[2] = NullRow
                                             \/ x[1] = NullRow /\ x[2] \in B
    BY <1>1, <1>4 DEF Rel
  <2> QED BY <2>1
<1> QED BY <1>2, <1>3, <1>4

\* A row of an inner or semi join is due to one left and one right row with the same key.
LEMMA RelCover ==
    ASSUME NEW type \in {"Inner", "Semi"}, NEW L, NEW R, NEW x \in Rel(type, L, R)
    PROVE  \E l \in L, r \in R : /\ Key(l) = Key(r) /\ Key(l) # Null
                                 /\ x \in Rel(type, {l}, {r})
<1>1. PICK lr \in Pairs(L, R) : x = IF type = "Inner" THEN lr ELSE <<lr[1]>>
  BY DEF Rel
<1>2. /\ lr[1] \in L /\ lr[2] \in R /\ Key(lr[1]) = Key(lr[2]) /\ Key(lr[1]) # Null
      /\ lr \in Pairs({lr[1]}, {lr[2]})
  BY DEF Pairs
<1> QED BY <1>1, <1>2 DEF Rel

\* An inner or semi join with an empty side has no rows.
LEMMA RelEmpty ==
    ASSUME NEW type \in {"Inner", "Semi"}, NEW L, NEW R, L = {} \/ R = {}
    PROVE  Rel(type, L, R) = {}
  BY RelCover

-----------------------------------------------------------------------------
(* The ledger: every output row is produced or owed by one task or state. *)
Ledger(type, O, P, A, Target) ==
    /\ PairwiseDisjoint(P) /\ PairwiseDisjoint(A)
    /\ \A i \in DOMAIN P : P[i] \cap O = {} /\ \A j \in DOMAIN A : P[i] \cap A[j] = {}
    /\ \A j \in DOMAIN A : A[j] \cap O = {}
    /\ type # "Full" => Target = O \cup RowsOf(P) \cup RowsOf(A)

\* E is produced and F still owed of what was owed before.
Pays(type, E, F, G) ==
    /\ E \cup F \subseteq G /\ E \cap F = {}
    /\ type # "Full" => E \cup F = G

\* The first state produces rows.
LEMMA LedgerEmit ==
    ASSUME NEW type, NEW O, NEW P, NEW A, NEW Target, Ledger(type, O, P, A, Target),
           NEW E, NEW F, 1 \in DOMAIN A, Pays(type, E, F, A[1]),
           NEW A2, DOMAIN A2 = DOMAIN A, A2[1] = F,
           \A j \in DOMAIN A : j # 1 => A2[j] = A[j]
    PROVE  Ledger(type, O \cup E, P, A2, Target) /\ O \cap E = {}
<1>1. \A j \in DOMAIN A : A2[j] \subseteq A[j] /\ (j # 1 => A2[j] \cap E = {})
  BY DEF Pays, Ledger, PairwiseDisjoint
<1>2. PairwiseDisjoint(A2)
  BY <1>1 DEF Ledger, PairwiseDisjoint
<1>3. \A i \in DOMAIN P : P[i] \cap (O \cup E) = {} /\ \A j \in DOMAIN A2 : P[i] \cap A2[j] = {}
  BY <1>1 DEF Ledger, Pays
<1>4. \A j \in DOMAIN A2 : A2[j] \cap (O \cup E) = {}
  BY <1>1 DEF Ledger, Pays
<1>5. type # "Full" => O \cup RowsOf(P) \cup RowsOf(A) = (O \cup E) \cup RowsOf(P) \cup RowsOf(A2)
  <2> SUFFICES ASSUME type # "Full" PROVE RowsOf(A) = E \cup RowsOf(A2)
    OBVIOUS
  <2>1. RowsOf(A) = UNION {A[j] : j \in DOMAIN A} /\ RowsOf(A2) = UNION {A2[j] : j \in DOMAIN A}
    BY DEF RowsOf, Range
  <2>2. A[1] = E \cup A2[1]
    BY DEF Pays
  <2> QED BY <2>1, <2>2
<1> QED BY <1>2, <1>3, <1>4, <1>5 DEF Ledger, Pays

\* The first state is dropped, when it owes nothing.
LEMMA LedgerDrop ==
    ASSUME NEW type, NEW O, NEW P, NEW A, NEW Target, Ledger(type, O, P, A, Target),
           NEW n \in Nat, DOMAIN A = 1..(n + 1), type # "Full" => A[1] = {},
           NEW A2, DOMAIN A2 = 1..n, \A j \in 1..n : A2[j] = A[j + 1]
    PROVE  Ledger(type, O, P, A2, Target)
<1>1. \A j \in 1..n : j + 1 \in DOMAIN A
  OBVIOUS
<1>2. PairwiseDisjoint(A2)
  BY <1>1 DEF Ledger, PairwiseDisjoint
<1>3. type # "Full" => RowsOf(A2) = RowsOf(A)
  <2>1. RowsOf(A) = UNION {A[j] : j \in DOMAIN A} /\ RowsOf(A2) = UNION {A2[j] : j \in 1..n}
    BY DEF RowsOf, Range
  <2>2. \A j \in 1..(n + 1) : j = 1 \/ (j - 1 \in 1..n /\ j = (j - 1) + 1)
    OBVIOUS
  <2>3. \A j \in 1..(n + 1) : j = 1 \/ \E i \in 1..n : A[j] = A2[i]
    BY <2>2
  <2>4. \A j \in 1..n : \E i \in DOMAIN A : A2[j] = A[i]
    BY <1>1
  <2>5. ASSUME type # "Full", NEW x \in RowsOf(A) PROVE x \in RowsOf(A2)
    <3>1. PICK j \in 1..(n + 1) : x \in A[j]
      BY <2>1
    <3>2. j # 1
      BY <2>5, <3>1
    <3> QED BY <2>1, <2>3, <3>1, <3>2
  <2> QED BY <2>1, <2>4, <2>5
<1> QED BY <1>1, <1>2, <1>3 DEF Ledger

\* The first task is replaced by states, or by tasks at the end, which together owe what it did.
LEMMA LedgerOpen ==
    ASSUME NEW type, NEW O, NEW P, NEW A, NEW Target, Ledger(type, O, P, A, Target),
           DOMAIN A = {}, NEW n \in Nat, DOMAIN P = 1..(n + 1),
           NEW P2, DOMAIN P2 = 1..n, \A j \in 1..n : P2[j] = P[j + 1],
           NEW A2, PairwiseDisjoint(A2), RowsOf(A2) \subseteq P[1],
           type # "Full" => RowsOf(A2) = P[1]
    PROVE  Ledger(type, O, P2, A2, Target)
<1>1. \A j \in 1..n : j + 1 \in DOMAIN P /\ j + 1 # 1
  OBVIOUS
<1>2. PairwiseDisjoint(P2)
  <2>1. \A j \in 1..n : \A k \in 1..n : j # k => P[j + 1] \cap P[k + 1] = {}
    BY <1>1 DEF Ledger, PairwiseDisjoint
  <2> QED BY <2>1 DEF PairwiseDisjoint
<1>3. \A i \in DOMAIN A2 : A2[i] \subseteq P[1]
  BY DEF RowsOf, Range
<1>4. 1 \in DOMAIN P
  OBVIOUS
<1>5. \A i \in DOMAIN P2 : P2[i] \cap O = {} /\ \A j \in DOMAIN A2 : P2[i] \cap A2[j] = {}
  BY <1>1, <1>3, <1>4 DEF Ledger, PairwiseDisjoint
<1>6. \A j \in DOMAIN A2 : A2[j] \cap O = {}
  BY <1>3, <1>4 DEF Ledger
<1>7. type # "Full" => O \cup RowsOf(P) \cup RowsOf(A) = O \cup RowsOf(P2) \cup RowsOf(A2)
  <2> SUFFICES ASSUME type # "Full" PROVE RowsOf(P) \cup RowsOf(A) = RowsOf(P2) \cup RowsOf(A2)
    OBVIOUS
  <2>1. /\ RowsOf(P) = UNION {P[j] : j \in DOMAIN P} /\ RowsOf(P2) = UNION {P2[j] : j \in 1..n}
        /\ RowsOf(A) = {}
    BY DEF RowsOf, Range
  <2>2. \A j \in 1..(n + 1) : j = 1 \/ (j - 1 \in 1..n /\ j = (j - 1) + 1)
    OBVIOUS
  <2>3. \A j \in 1..(n + 1) : j = 1 \/ \E i \in 1..n : P[j] = P2[i]
    BY <2>2
  <2>4. \A j \in 1..n : \E i \in DOMAIN P : P2[j] = P[i]
    BY <1>1
  <2>5. RowsOf(P) \subseteq RowsOf(P2) \cup P[1]
    BY <2>1, <2>3
  <2>6. RowsOf(P2) \subseteq RowsOf(P) /\ P[1] \subseteq RowsOf(P)
    BY <1>4, <2>1, <2>4
  <2> QED BY <2>1, <2>5, <2>6
<1> QED BY <1>2, <1>5, <1>6, <1>7 DEF Ledger

\* P2 is P without its first element, then Q.
Appended(P2, P, Q, n, m) ==
    /\ n \in Nat /\ m \in Nat
    /\ DOMAIN P = 1..(n + 1) /\ DOMAIN Q = 1..m /\ DOMAIN P2 = 1..(n + m)
    /\ \A j \in 1..n : P2[j] = P[j + 1]
    /\ \A j \in 1..m : P2[n + j] = Q[j]

\* The first task is replaced by tasks at the end of the queue that owe what it owed.
LEMMA LedgerSplit ==
    ASSUME NEW type, NEW O, NEW P, NEW A, NEW Target, Ledger(type, O, P, A, Target),
           DOMAIN A = {}, NEW n, NEW m, NEW Q, NEW P2, Appended(P2, P, Q, n, m),
           PairwiseDisjoint(Q), RowsOf(Q) \subseteq P[1], type # "Full" => RowsOf(Q) = P[1]
    PROVE  Ledger(type, O, P2, A, Target)
<1> USE DEF Appended
<1>1. \A j \in 1..n : j + 1 \in DOMAIN P /\ j + 1 # 1
  OBVIOUS
<1>2. 1 \in DOMAIN P
  OBVIOUS
<1>3. \A i \in DOMAIN Q : Q[i] \subseteq P[1]
  BY DEF RowsOf, Range
<1>4. \A j \in 1..(n + m) : \/ j \in 1..n /\ P2[j] = P[j + 1]
                            \/ j - n \in 1..m /\ P2[j] = Q[j - n]
  <2> TAKE j \in 1..(n + m)
  <2>1. CASE j <= n
    BY <2>1
  <2>2. CASE j > n
    <3>1. j - n \in 1..m /\ j = n + (j - n)
      BY <2>2
    <3> QED BY <3>1
  <2> QED BY <2>1, <2>2
<1>5. PairwiseDisjoint(P2)
  <2> SUFFICES ASSUME NEW i \in 1..(n + m), NEW j \in 1..(n + m), i # j
               PROVE  P2[i] \cap P2[j] = {}
    BY DEF PairwiseDisjoint
  <2>1. CASE i \in 1..n /\ j \in 1..n
    <3>1. P2[i] = P[i + 1] /\ P2[j] = P[j + 1] /\ i + 1 # j + 1
      BY <2>1
    <3> QED BY <3>1, <2>1, <1>1 DEF Ledger, PairwiseDisjoint
  <2>2. CASE i \in 1..n /\ j \notin 1..n
    <3>1. P2[i] = P[i + 1] /\ P2[j] \subseteq P[1]
      BY <2>2, <1>3, <1>4
    <3> QED BY <3>1, <2>2, <1>1, <1>2 DEF Ledger, PairwiseDisjoint
  <2>3. CASE i \notin 1..n /\ j \in 1..n
    <3>1. P2[j] = P[j + 1] /\ P2[i] \subseteq P[1]
      BY <2>3, <1>3, <1>4
    <3> QED BY <3>1, <2>3, <1>1, <1>2 DEF Ledger, PairwiseDisjoint
  <2>4. CASE i \notin 1..n /\ j \notin 1..n
    <3>1. P2[i] = Q[i - n] /\ P2[j] = Q[j - n] /\ i - n # j - n /\ i - n \in 1..m /\ j - n \in 1..m
      BY <2>4, <1>4
    <3> QED BY <3>1 DEF PairwiseDisjoint
  <2> QED BY <2>1, <2>2, <2>3, <2>4
<1>6. \A i \in DOMAIN P2 : P2[i] \cap O = {}
  <2> TAKE i \in DOMAIN P2
  <2>1. P2[i] \subseteq P[1] \/ \E j \in DOMAIN P : P2[i] = P[j]
    BY <1>1, <1>3, <1>4
  <2> QED BY <2>1, <1>2 DEF Ledger
<1>7. type # "Full" => RowsOf(P) = RowsOf(P2)
  <2> SUFFICES ASSUME type # "Full" PROVE RowsOf(P) = RowsOf(P2)
    OBVIOUS
  <2>1. /\ RowsOf(P) = UNION {P[j] : j \in DOMAIN P} /\ RowsOf(P2) = UNION {P2[j] : j \in DOMAIN P2}
        /\ RowsOf(Q) = UNION {Q[j] : j \in 1..m}
    BY DEF RowsOf, Range
  <2>2. ASSUME NEW x \in RowsOf(P) PROVE x \in RowsOf(P2)
    <3>1. PICK j \in 1..(n + 1) : x \in P[j]
      BY <2>1
    <3>2. CASE j = 1
      <4>1. PICK k \in 1..m : x \in Q[k]
        BY <3>1, <3>2, <2>1
      <4>2. n + k \in DOMAIN P2 /\ x \in P2[n + k]
        BY <4>1
      <4> QED BY <4>2, <2>1
    <3>3. CASE j # 1
      <4>1. j - 1 \in 1..n /\ P2[j - 1] = P[(j - 1) + 1] /\ (j - 1) + 1 = j /\ j - 1 \in DOMAIN P2
        BY <3>3
      <4> QED BY <4>1, <3>1, <2>1
    <3> QED BY <3>2, <3>3
  <2>3. ASSUME NEW x \in RowsOf(P2) PROVE x \in RowsOf(P)
    <3>1. PICK j \in DOMAIN P2 : x \in P2[j]
      BY <2>1
    <3>2. P2[j] \subseteq P[1] \/ \E k \in DOMAIN P : P2[j] = P[k]
      BY <1>1, <1>3, <1>4
    <3> QED BY <3>1, <3>2, <2>1, <1>2
  <2> QED BY <2>2, <2>3
<1> QED BY <1>5, <1>6, <1>7 DEF Ledger

-----------------------------------------------------------------------------
(* Tasks.                                                                  *)
\* Sequences of files; files filtered by U; files without common rows; rows with a key
\* or NULL; rows whose key is not NULL.
FileSeq(T, fs) == fs \in Seq(SUBSET T)
Filtered(gs, fs, U) == DOMAIN gs = DOMAIN fs /\ \A b \in DOMAIN fs : gs[b] = fs[b] \cap U
FilesOK(T, fs) == fs \in Seq(SUBSET T) /\ PairwiseDisjoint(fs)
RowSet(T) == NullRow \notin T /\ \A row \in T : Key(row) \in Keys \cup {Null}
WithKey(T) == {row \in T : Key(row) # Null}

\* Keeping some rows of each file, and the files that still have any.
LEMMA FilterFiles ==
    ASSUME NEW W, NEW fs, PairwiseDisjoint(fs), NEW U,
           NEW gs, FileSeq(W, gs), Filtered(gs, fs, U)
    PROVE  /\ FilesOK(W, NonEmpty(gs))
           /\ RowsOf(NonEmpty(gs)) = RowsOf(fs) \cap U
           /\ \A i \in DOMAIN NonEmpty(gs) : \E j \in DOMAIN fs : NonEmpty(gs)[i] \subseteq fs[j]
<1>1. PairwiseDisjoint(gs)
  BY DEF Filtered, PairwiseDisjoint
<1>2. RowsOf(gs) = RowsOf(fs) \cap U
  BY DEF Filtered, RowsOf, Range
<1>3. /\ NonEmpty(gs) \in Seq(SUBSET W) /\ RowsOf(NonEmpty(gs)) = RowsOf(gs)
      /\ PairwiseDisjoint(NonEmpty(gs))
      /\ \A i \in DOMAIN NonEmpty(gs) : \E j \in DOMAIN gs : NonEmpty(gs)[i] = gs[j]
  BY <1>1, NonEmptyFiles DEF FileSeq
<1>4. \A i \in DOMAIN NonEmpty(gs) : \E j \in DOMAIN fs : NonEmpty(gs)[i] \subseteq fs[j]
  BY <1>3 DEF Filtered
<1> QED BY <1>2, <1>3, <1>4 DEF FilesOK

\* Tasks of rows of T, and the output rows they owe.
TaskSet(T) == [left : Seq(SUBSET T), right : Seq(SUBSET T), depth : 0..MaxDepth]
TaskOK(T, t) == t \in TaskSet(T) /\ PairwiseDisjoint(t.left) /\ PairwiseDisjoint(t.right)
TasksOK(T) == {t \in TaskSet(T) : TaskOK(T, t)}
TaskFuture(type, t) == Rel(type, RowsOf(t.left), RowsOf(t.right))
Owed(type, tasks) == [i \in DOMAIN tasks |-> TaskFuture(type, tasks[i])]

\* One task per partition, which share out the rows G.
Splits(type, T, tasks, G) ==
    /\ tasks \in Seq(TasksOK(T)) /\ Len(tasks) = Partitions
    /\ PairwiseDisjoint(Owed(type, tasks))
    /\ RowsOf(Owed(type, tasks)) \subseteq G
    /\ type # "Full" => RowsOf(Owed(type, tasks)) = G

\* The rows of partition p.
InPartition(T, p, salt) == {row \in T : Key(row) # Null /\ hash[salt][Key(row)] % Partitions = p}

\* The files of a partition: the rows whose salted hash is p, each file part of one
\* that was partitioned.
LEMMA PartitionedFiles ==
    ASSUME NEW T, NEW fs, FilesOK(T, fs), NEW p, NEW salt
    PROVE  /\ FilesOK(WithKey(T), PartitionFiles(fs, p, salt))
           /\ RowsOf(PartitionFiles(fs, p, salt)) = RowsOf(fs) \cap InPartition(T, p, salt)
           /\ \A i \in DOMAIN PartitionFiles(fs, p, salt) :
                 \E j \in DOMAIN fs : PartitionFiles(fs, p, salt)[i] \subseteq fs[j]
<1> DEFINE U == InPartition(T, p, salt)
           W == WithKey(T)
           gs == [b \in DOMAIN fs |-> PartitionBatch(fs[b], p, salt)]
<1>1. /\ \A b \in DOMAIN fs : fs[b] \subseteq T
      /\ DOMAIN fs = 1..Len(fs) /\ Len(fs) \in Nat /\ PairwiseDisjoint(fs)
  BY DEF FilesOK
<1>2. \A b \in DOMAIN fs : gs[b] = fs[b] \cap U /\ gs[b] \subseteq W
  BY <1>1 DEF PartitionBatch, InPartition, WithKey
<1>3. PartitionFiles(fs, p, salt) = NonEmpty(gs) /\ DOMAIN gs = DOMAIN fs
  BY DEF PartitionFiles
<1> HIDE DEF U, W
<1>4. FileSeq(W, gs)
  BY <1>1, <1>2 DEF FileSeq
<1> HIDE DEF gs
<1>5. PairwiseDisjoint(fs) /\ Filtered(gs, fs, U)
  BY <1>1, <1>2, <1>3 DEF Filtered
<1>6. /\ FilesOK(W, NonEmpty(gs)) /\ RowsOf(NonEmpty(gs)) = RowsOf(fs) \cap U
      /\ \A i \in DOMAIN NonEmpty(gs) : \E j \in DOMAIN fs : NonEmpty(gs)[i] \subseteq fs[j]
  BY <1>4, <1>5, FilterFiles
<1> QED BY <1>3, <1>6 DEF U, W

\* Every row with a key is in one partition.
LEMMA OnePartition ==
    ASSUME hash \in Hashes, NEW T, RowSet(T), NEW salt \in 0..MaxDepth, NEW row \in WithKey(T)
    PROVE  hash[salt][Key(row)] % Partitions \in 0..(Partitions - 1)
<1>1. Key(row) \in Keys
  BY DEF RowSet, WithKey
<1>2. hash[salt][Key(row)] \in Nat /\ Partitions \in Nat \ {0}
  BY <1>1, JoinAssumption
<1> QED BY <1>2

\* The tasks of the next depth owe what the files they were made from do.
LEMMA TasksSplit ==
    ASSUME NEW type \in Types, hash \in Hashes, NEW T, RowSet(T), NEW lf, NEW rf,
           FilesOK(T, lf), FilesOK(T, rf), NEW d \in 0..MaxDepth
    PROVE  Splits(type, WithKey(T), TasksOf(lf, rf, d), Rel(type, RowsOf(lf), RowsOf(rf)))
<1> DEFINE Q == Owed(type, TasksOf(lf, rf, d))
           L(p) == RowsOf(PartitionFiles(lf, p - 1, d))
           R(p) == RowsOf(PartitionFiles(rf, p - 1, d))
           t(p) == [left |-> PartitionFiles(lf, p - 1, d), right |-> PartitionFiles(rf, p - 1, d),
                    depth |-> d]
<1>0. Partitions \in Nat \ {0}
  BY JoinAssumption
<1>1. \A p \in 1..Partitions : TaskOK(WithKey(T), t(p)) /\ TasksOf(lf, rf, d)[p] = t(p)
  BY PartitionedFiles DEF TaskOK, TaskSet, FilesOK, TasksOf
<1>2. TasksOf(lf, rf, d) \in Seq(TasksOK(WithKey(T))) /\ Len(TasksOf(lf, rf, d)) = Partitions
  <2>1. \A p \in 1..Partitions : t(p) \in TasksOK(WithKey(T))
    BY <1>1 DEF TaskOK, TasksOK
  <2> HIDE DEF t
  <2>2. TasksOf(lf, rf, d) = [p \in 1..Partitions |-> t(p)]
    BY DEF TasksOf, t
  <2> QED BY <1>0, <2>1, <2>2
<1>3. DOMAIN Q = 1..Partitions /\ \A p \in 1..Partitions : Q[p] = Rel(type, L(p), R(p))
  <2>1. DOMAIN TasksOf(lf, rf, d) = 1..Partitions
    BY DEF TasksOf
  <2>2. DOMAIN Q = 1..Partitions /\ \A p \in 1..Partitions : Q[p] = TaskFuture(type, t(p))
    BY <1>1, <2>1 DEF Owed
  <2> HIDE DEF Q
  <2> QED BY <2>2 DEF TaskFuture
<1>4. \A p \in 1..Partitions : L(p) = RowsOf(lf) \cap InPartition(T, p - 1, d)
                            /\ R(p) = RowsOf(rf) \cap InPartition(T, p - 1, d)
  BY PartitionedFiles
<1>5. RowsOf(lf) \subseteq T /\ RowsOf(rf) \subseteq T
  BY DEF FilesOK, RowsOf, Range
<1> HIDE DEF L, R, t, Q
<1>6. PairwiseDisjoint(Q)
  <2> SUFFICES ASSUME NEW p \in 1..Partitions, NEW q \in 1..Partitions, p # q
               PROVE  Q[p] \cap Q[q] = {}
    BY <1>3 DEF PairwiseDisjoint
  <2>1. p - 1 # q - 1
    BY <1>0
  <2>2. InPartition(T, p - 1, d) \cap InPartition(T, q - 1, d) = {}
    BY <2>1 DEF InPartition
  <2>3. L(p) \cap L(q) = {} /\ R(p) \cap R(q) = {}
    BY <2>2, <1>4
  <2>4. NullRow \notin L(p) \cup L(q) \cup R(p) \cup R(q)
    BY <1>4, <1>5 DEF RowSet
  <2> QED BY <2>3, <2>4, <1>3, RelDisjoint
<1>7. RowsOf(Q) \subseteq Rel(type, RowsOf(lf), RowsOf(rf))
  <2>1. \A p \in 1..Partitions : Q[p] \subseteq Rel(type, RowsOf(lf), RowsOf(rf))
    <3> TAKE p \in 1..Partitions
    <3>1. L(p) \subseteq RowsOf(lf) /\ R(p) \subseteq RowsOf(rf)
      BY <1>4
    <3> QED BY <3>1, <1>3, RelMono
  <2> QED BY <1>3, <2>1 DEF RowsOf, Range
<1>8. ASSUME type \in {"Inner", "Semi"}, NEW x \in Rel(type, RowsOf(lf), RowsOf(rf))
      PROVE  x \in RowsOf(Q)
  <2>1. PICK l \in RowsOf(lf), r \in RowsOf(rf) :
            Key(l) = Key(r) /\ Key(l) # Null /\ x \in Rel(type, {l}, {r})
    BY <1>8, RelCover
  <2> DEFINE h == hash[d][Key(l)] % Partitions
  <2>2. l \in WithKey(T) /\ r \in WithKey(T)
    BY <2>1, <1>5 DEF WithKey
  <2>3. h \in 0..(Partitions - 1)
    BY <2>2, OnePartition
  <2>4. l \in InPartition(T, h, d) /\ r \in InPartition(T, h, d)
    BY <2>1, <2>2 DEF InPartition, WithKey
  <2> HIDE DEF h
  <2>5. h + 1 \in 1..Partitions /\ (h + 1) - 1 = h
    BY <2>3, <1>0
  <2>6. l \in L(h + 1) /\ r \in R(h + 1)
    BY <2>4, <2>5, <1>4
  <2>7. x \in Q[h + 1]
    BY <2>1, <2>5, <2>6, <1>3, RelMono
  <2> QED BY <1>3, <2>5, <2>7 DEF RowsOf, Range
<1>9. type \in {"Inner", "Semi"} => RowsOf(Q) = Rel(type, RowsOf(lf), RowsOf(rf))
  BY <1>7, <1>8
<1> QED BY <1>2, <1>6, <1>7, <1>9 DEF Splits, Types, Q

-----------------------------------------------------------------------------
(* States.                                                                 *)
\* The build side; the build row and the probe row of an output row; all probe rows of P
\* filled in with NULLs.
Sides == {"left", "right"}
BuildPart(side, x) == IF side = "left" THEN x[1] ELSE x[2]
ProbePart(side, x) == IF side = "left" THEN x[2] ELSE x[1]
UnmatchedPairs(P, side) == {Pair(side, NullRow, p) : p \in P}

\* Which part of an output row is a build row, which a probe row and which NULL.
LEMMA Parts ==
    ASSUME NEW side, NEW B, NEW P
    PROVE  /\ \A x \in Joined(B, P, side) : BuildPart(side, x) \in B /\ ProbePart(side, x) \in P
           /\ \A x \in UnmatchedBuild(B, side) :
                  BuildPart(side, x) \in B /\ ProbePart(side, x) = NullRow
           /\ \A x \in UnmatchedPairs(P, side) :
                  BuildPart(side, x) = NullRow /\ ProbePart(side, x) \in P
           /\ \A x \in UnmatchedProbe(B, P, side) : x \in UnmatchedPairs(P, side)
<1>1. \A x \in Joined(B, P, side) : BuildPart(side, x) \in B /\ ProbePart(side, x) \in P
  BY DEF Joined, Matches, Pair, BuildPart, ProbePart
<1>2. \A x \in UnmatchedBuild(B, side) : BuildPart(side, x) \in B /\ ProbePart(side, x) = NullRow
  BY DEF UnmatchedBuild, Pair, BuildPart, ProbePart
<1>3. \A x \in UnmatchedPairs(P, side) : BuildPart(side, x) = NullRow /\ ProbePart(side, x) \in P
  BY DEF UnmatchedPairs, Pair, BuildPart, ProbePart
<1>4. \A x \in UnmatchedProbe(B, P, side) : x \in UnmatchedPairs(P, side)
  BY DEF UnmatchedProbe, UnmatchedPairs
<1> QED BY <1>1, <1>2, <1>3, <1>4

\* A hash table filled with two sets of rows finds what two tables would find.
LEMMA JoinedUnion ==
    ASSUME NEW B, NEW C, NEW P, NEW side
    PROVE  Joined(B \cup C, P, side) = Joined(B, P, side) \cup Joined(C, P, side)
<1>1. \A x : x \in Joined(B \cup C, P, side) =>
                x \in Joined(B, P, side) \/ x \in Joined(C, P, side)
  BY DEF Joined, Matches
<1>2. \A x : x \in Joined(B, P, side) \/ x \in Joined(C, P, side) =>
                x \in Joined(B \cup C, P, side)
  BY DEF Joined, Matches
<1> QED BY <1>1, <1>2

\* The unmatched build rows of a union.
LEMMA UnmatchedUnion ==
    ASSUME NEW B, NEW C, NEW side
    PROVE  UnmatchedBuild(B \cup C, side) = UnmatchedBuild(B, side) \cup UnmatchedBuild(C, side)
  BY DEF UnmatchedBuild

\* Nothing is made of no rows.
LEMMA NoRows ==
    /\ \A P, side : Joined({}, P, side) = {}
    /\ \A B, side : Joined(B, {}, side) = {}
    /\ \A P : SemiRows({}, P) = {}
    /\ \A B : SemiRows(B, {}) = {}
    /\ \A side : UnmatchedBuild({}, side) = {}
    /\ \A side : UnmatchedPairs({}, side) = {}
    /\ \A P : MatchedBuild({}, P) = {}
    /\ \A B : MatchedBuild(B, {}) = {}
<1>1. \A P, side : Joined({}, P, side) = {}
  BY DEF Joined, Matches
<1>2. \A B, side : Joined(B, {}, side) = {}
  BY DEF Joined
<1>3. (\A P : SemiRows({}, P) = {}) /\ (\A B : SemiRows(B, {}) = {})
  BY DEF SemiRows, Matches
<1>4. (\A P : MatchedBuild({}, P) = {}) /\ (\A B : MatchedBuild(B, {}) = {})
  BY DEF MatchedBuild, Matches
<1>5. (\A side : UnmatchedBuild({}, side) = {}) /\ (\A side : UnmatchedPairs({}, side) = {})
  BY DEF UnmatchedBuild, UnmatchedPairs
<1> QED BY <1>1, <1>2, <1>3, <1>4, <1>5

\* The first file and the others.
LEMMA HeadTail ==
    ASSUME NEW T, NEW fs, FilesOK(T, fs), fs # <<>>
    PROVE  /\ Head(fs) \subseteq T /\ FilesOK(T, Tail(fs))
           /\ RowsOf(fs) = Head(fs) \cup RowsOf(Tail(fs))
           /\ Head(fs) \cap RowsOf(Tail(fs)) = {}
<1> DEFINE n == Len(fs)
           g == Tail(fs)
<1>1. /\ fs \in Seq(SUBSET T) /\ n \in Nat /\ n > 0 /\ DOMAIN fs = 1..n
      /\ Head(fs) = fs[1] /\ fs[1] \in SUBSET T
      /\ g \in Seq(SUBSET T) /\ DOMAIN g = 1..(n - 1)
      /\ \A i \in 1..(n - 1) : g[i] = fs[i + 1]
  BY DEF FilesOK
<1>2. \A i \in 1..(n - 1) : i + 1 \in 1..n /\ i + 1 # 1
  BY <1>1
<1>3. PairwiseDisjoint(g)
  <2> SUFFICES ASSUME NEW i \in 1..(n - 1), NEW j \in 1..(n - 1), i # j PROVE g[i] \cap g[j] = {}
    BY <1>1 DEF PairwiseDisjoint
  <2>1. i + 1 # j + 1 /\ i + 1 \in DOMAIN fs /\ j + 1 \in DOMAIN fs
    BY <1>1
  <2> QED BY <1>1, <2>1 DEF FilesOK, PairwiseDisjoint
<1>4. RowsOf(fs) = UNION {fs[i] : i \in 1..n} /\ RowsOf(g) = UNION {g[i] : i \in 1..(n - 1)}
  BY <1>1 DEF RowsOf, Range
<1>5. Head(fs) \cap RowsOf(g) = {}
  <2>1. \A i \in 1..(n - 1) : fs[1] \cap g[i] = {}
    BY <1>1, <1>2 DEF FilesOK, PairwiseDisjoint
  <2> QED BY <1>1, <1>4, <2>1
<1>6. \A j \in 1..n : j = 1 \/ \E i \in 1..(n - 1) : fs[j] = g[i]
  <2> TAKE j \in 1..n
  <2>1. CASE j # 1
    <3>1. j - 1 \in 1..(n - 1) /\ (j - 1) + 1 = j
      BY <1>1, <2>1
    <3> QED BY <3>1, <1>1
  <2> QED BY <2>1
<1>7. RowsOf(fs) \subseteq Head(fs) \cup RowsOf(g)
  BY <1>1, <1>4, <1>6
<1>8. Head(fs) \cup RowsOf(g) \subseteq RowsOf(fs)
  <2>1. 1 \in 1..n /\ \A i \in 1..(n - 1) : \E j \in 1..n : g[i] = fs[j]
    BY <1>1, <1>2
  <2> QED BY <1>1, <1>4, <2>1
<1> QED BY <1>1, <1>3, <1>5, <1>7, <1>8 DEF FilesOK

\* No files have no rows.
LEMMA NoFiles ==
    RowsOf(<<>>) = {}
  BY DEF RowsOf, Range

\* The rows of files of rows of T are rows of T.
LEMMA RowsIn ==
    ASSUME NEW T, NEW fs, FilesOK(T, fs)
    PROVE  RowsOf(fs) \subseteq T
  BY DEF FilesOK, RowsOf, Range

\* A prefix and the rest.
LEMMA Prefix ==
    ASSUME NEW T, NEW fs, FilesOK(T, fs), NEW k \in 1..Len(fs)
    PROVE  LET a == SubSeq(fs, 1, k)
               b == SubSeq(fs, k + 1, Len(fs))
           IN  /\ FilesOK(T, a) /\ FilesOK(T, b)
               /\ RowsOf(fs) = RowsOf(a) \cup RowsOf(b) /\ RowsOf(a) \cap RowsOf(b) = {}
<1> DEFINE n == Len(fs)
           a == SubSeq(fs, 1, k)
           b == SubSeq(fs, k + 1, Len(fs))
<1>1. /\ fs \in Seq(SUBSET T) /\ n \in Nat /\ DOMAIN fs = 1..n /\ k \in Nat /\ k <= n /\ k >= 1
      /\ \A i \in 1..n : fs[i] \in SUBSET T
  BY DEF FilesOK
<1>2. a \in Seq(SUBSET T) /\ DOMAIN a = 1..k /\ \A i \in 1..k : a[i] = fs[i]
  BY <1>1
<1>3. b \in Seq(SUBSET T) /\ DOMAIN b = 1..(n - k) /\ \A i \in 1..(n - k) : b[i] = fs[k + i]
  BY <1>1
<1> HIDE DEF n, a, b
<1>4. /\ \A i \in 1..k : i \in 1..n
      /\ \A i \in 1..(n - k) : k + i \in 1..n /\ k + i \notin 1..k
      /\ \A i \in 1..n : i \in 1..k \/ (i - k \in 1..(n - k) /\ k + (i - k) = i)
  BY <1>1
<1>5. PairwiseDisjoint(fs)
  BY DEF FilesOK
<1>6. PairwiseDisjoint(a)
  BY <1>1, <1>2, <1>4, <1>5 DEF PairwiseDisjoint
<1>7. PairwiseDisjoint(b)
  <2> SUFFICES ASSUME NEW i \in 1..(n - k), NEW j \in 1..(n - k), i # j PROVE b[i] \cap b[j] = {}
    BY <1>3 DEF PairwiseDisjoint
  <2>1. k + i # k + j /\ k + i \in DOMAIN fs /\ k + j \in DOMAIN fs
    BY <1>1, <1>4
  <2> QED BY <1>3, <1>5, <2>1 DEF PairwiseDisjoint
<1>8. /\ RowsOf(fs) = UNION {fs[i] : i \in 1..n} /\ RowsOf(a) = UNION {a[i] : i \in 1..k}
      /\ RowsOf(b) = UNION {b[i] : i \in 1..(n - k)}
  BY <1>1, <1>2, <1>3 DEF RowsOf, Range
<1>9. RowsOf(a) \cap RowsOf(b) = {}
  <2>1. \A i \in 1..k, j \in 1..(n - k) : a[i] \cap b[j] = {}
    <3> TAKE i \in 1..k, j \in 1..(n - k)
    <3>1. i # k + j /\ i \in DOMAIN fs /\ k + j \in DOMAIN fs
      BY <1>1, <1>4
    <3> QED BY <3>1, <1>2, <1>3, <1>5 DEF PairwiseDisjoint
  <2>2. ASSUME NEW x \in RowsOf(a), x \in RowsOf(b) PROVE FALSE
    <3>1. PICK i \in 1..k : x \in a[i]
      BY <1>8
    <3>2. PICK j \in 1..(n - k) : x \in b[j]
      BY <1>8, <2>2
    <3> QED BY <2>1, <3>1, <3>2
  <2> QED BY <2>2
<1>10. RowsOf(fs) \subseteq RowsOf(a) \cup RowsOf(b)
  <2>1. \A i \in 1..n : (\E j \in 1..k : fs[i] = a[j]) \/ (\E j \in 1..(n - k) : fs[i] = b[j])
    BY <1>2, <1>3, <1>4
  <2>2. ASSUME NEW x \in RowsOf(fs) PROVE x \in RowsOf(a) \cup RowsOf(b)
    <3>1. PICK i \in 1..n : x \in fs[i]
      BY <1>8
    <3> QED BY <1>8, <2>1, <3>1
  <2> QED BY <2>2
<1>11. RowsOf(a) \cup RowsOf(b) \subseteq RowsOf(fs)
  <2>1. /\ \A j \in 1..k : \E i \in 1..n : fs[i] = a[j]
        /\ \A j \in 1..(n - k) : \E i \in 1..n : fs[i] = b[j]
    BY <1>2, <1>3, <1>4
  <2> QED BY <1>8, <2>1
<1> QED BY <1>2, <1>3, <1>6, <1>7, <1>9, <1>10, <1>11 DEF FilesOK, a, b

\* HashPartitionJoinState, and the output rows it may still produce.
HashStates(T) ==
    [kind : {"Hash"}, build : SUBSET T, probe : Seq(SUBSET T), side : Sides,
     matched : SUBSET T, emitted : BOOLEAN]
HashOK(type, T, s) ==
    /\ s \in HashStates(T) /\ PairwiseDisjoint(s.probe)
    /\ type = "Semi" => s.side = "right"
HashFuture(type, s) ==
    Probed(type, s.build, RowsOf(s.probe), s.side)
        \cup (IF type = "Full" /\ ~s.emitted THEN UnmatchedBuild(s.build, s.side) ELSE {})

\* What probe_hash_join_batches yields for each join type of this operator.
LEMMA ProbedIs ==
    ASSUME NEW type \in Types, NEW B, NEW P, NEW side \in Sides
    PROVE  /\ type = "Semi" => Probed(type, B, P, side) = SemiRows(B, P)
           /\ type = "Inner" => Probed(type, B, P, side) = Joined(B, P, side)
           /\ type = "Full" => Probed(type, B, P, side)
                                 = Joined(B, P, side) \cup UnmatchedProbe(B, P, side)
  BY DEF Probed, KeepsProbe, Types

\* Probing is additive, and batches without common rows produce no common rows.
LEMMA ProbedSplit ==
    ASSUME NEW type \in Types, NEW B, NEW P, NEW Q, NEW side \in Sides, P \cap Q = {}
    PROVE  /\ Probed(type, B, P \cup Q, side)
                 = Probed(type, B, P, side) \cup Probed(type, B, Q, side)
           /\ Probed(type, B, P, side) \cap Probed(type, B, Q, side) = {}
<1>1. Probed(type, B, P \cup Q, side) = Probed(type, B, P, side) \cup Probed(type, B, Q, side)
  <2>1. Joined(B, P \cup Q, side) = Joined(B, P, side) \cup Joined(B, Q, side)
    BY DEF Joined
  <2>2. SemiRows(B, P \cup Q) = SemiRows(B, P) \cup SemiRows(B, Q)
    BY DEF SemiRows
  <2>3. UnmatchedProbe(B, P \cup Q, side)
          = UnmatchedProbe(B, P, side) \cup UnmatchedProbe(B, Q, side)
    BY DEF UnmatchedProbe
  <2> QED BY <2>1, <2>2, <2>3 DEF Probed
<1>2. CASE type = "Semi"
  <2>1. \A A : \A x \in Probed(type, B, A, side) : x[1] \in A
    BY <1>2 DEF Probed, SemiRows
  <2> QED BY <1>1, <2>1
<1>3. CASE type \in {"Inner", "Full"}
  <2>1. \A A : \A x \in Probed(type, B, A, side) : ProbePart(side, x) \in A
    BY <1>3, ProbedIs, Parts
  <2> QED BY <1>1, <2>1
<1> QED BY <1>2, <1>3 DEF Types

\* No row made of a probe row is the row of an unmatched build row.
LEMMA ProbedNotUnmatched ==
    ASSUME NEW type \in {"Inner", "Full"}, NEW B, NEW P, NEW side \in Sides, NEW U, NullRow \notin P
    PROVE  Probed(type, B, P, side) \cap UnmatchedBuild(U, side) = {}
<1>1. \A x \in Probed(type, B, P, side) : ProbePart(side, x) \in P
  BY ProbedIs, Parts DEF Types
<1>2. \A x \in UnmatchedBuild(U, side) : ProbePart(side, x) = NullRow
  BY Parts
<1> QED BY <1>1, <1>2

\* HashPartitionJoinState, one probe batch: what it yields is no longer owed.
LEMMA HashProbeStep ==
    ASSUME NEW type \in Types, NEW T, NullRow \notin T, NEW s, HashOK(type, T, s), s.probe # <<>>,
           NEW s2, s2 = [s EXCEPT !.probe = Tail(@),
                                  !.matched = @ \cup MatchedBuild(s.build, Head(s.probe))]
    PROVE  /\ HashOK(type, T, s2)
           /\ Pays(type, Probed(type, s.build, Head(s.probe), s.side),
                   HashFuture(type, s2), HashFuture(type, s))
<1>1. FilesOK(T, s.probe) /\ s.side \in Sides /\ s.build \subseteq T
  BY DEF HashOK, HashStates, FilesOK
<1>2. /\ Head(s.probe) \subseteq T /\ FilesOK(T, Tail(s.probe))
      /\ RowsOf(s.probe) = Head(s.probe) \cup RowsOf(Tail(s.probe))
      /\ Head(s.probe) \cap RowsOf(Tail(s.probe)) = {}
  BY <1>1, HeadTail
<1>3. MatchedBuild(s.build, Head(s.probe)) \subseteq T
  BY <1>1 DEF MatchedBuild, Matches
<1>4. /\ s2.probe = Tail(s.probe) /\ s2.build = s.build /\ s2.side = s.side
      /\ s2.emitted = s.emitted /\ s2 \in HashStates(T)
  BY <1>2, <1>3 DEF HashOK, HashStates, FilesOK
<1>5. HashOK(type, T, s2)
  BY <1>2, <1>4 DEF HashOK, FilesOK
<1> DEFINE E == Probed(type, s.build, Head(s.probe), s.side)
           F == Probed(type, s.build, RowsOf(Tail(s.probe)), s.side)
           U == IF type = "Full" /\ ~s.emitted THEN UnmatchedBuild(s.build, s.side) ELSE {}
<1>6. HashFuture(type, s2) = F \cup U
  BY <1>4 DEF HashFuture
<1>7. HashFuture(type, s) = (E \cup F) \cup U /\ E \cap F = {}
  <2>1. Probed(type, s.build, Head(s.probe) \cup RowsOf(Tail(s.probe)), s.side) = E \cup F
    BY <1>1, <1>2, ProbedSplit
  <2>2. E \cap F = {}
    BY <1>1, <1>2, ProbedSplit
  <2> QED BY <1>2, <2>1, <2>2 DEF HashFuture
<1>8. E \cap U = {}
  <2>1. CASE type = "Full"
    <3>1. NullRow \notin Head(s.probe)
      BY <1>2
    <3> QED BY <1>1, <2>1, <3>1, ProbedNotUnmatched
  <2> QED BY <2>1
<1> QED BY <1>5, <1>6, <1>7, <1>8 DEF Pays

\* HashPartitionJoinState of a FULL join emits unmatched build rows once.
LEMMA HashEmitStep ==
    ASSUME NEW T, NullRow \notin T, NEW s, HashOK("Full", T, s), s.probe = <<>>, ~s.emitted,
           NEW U, U \subseteq s.build, NEW s2, s2 = [s EXCEPT !.emitted = TRUE]
    PROVE  /\ HashOK("Full", T, s2)
           /\ Pays("Full", UnmatchedBuild(U, s.side), HashFuture("Full", s2), HashFuture("Full", s))
<1>1. /\ s2 \in HashStates(T) /\ s2.probe = s.probe /\ s2.side = s.side /\ s2.build = s.build
      /\ s2.emitted /\ s.side \in Sides
  BY DEF HashOK, HashStates
<1>2. HashOK("Full", T, s2)
  BY <1>1 DEF HashOK
<1>3. Probed("Full", s.build, {}, s.side) = {}
  BY DEF Probed, Joined, UnmatchedProbe
<1>4. HashFuture("Full", s2) = {}
  BY <1>1, <1>3, NoFiles DEF HashFuture
<1>5. UnmatchedBuild(U, s.side) \subseteq UnmatchedBuild(s.build, s.side)
  BY DEF UnmatchedBuild
<1> QED BY <1>2, <1>4, <1>5 DEF Pays, HashFuture

\* A HashPartitionJoinState of an inner or semi join without probe batches owes nothing.
LEMMA HashDone ==
    ASSUME NEW type \in {"Inner", "Semi"}, NEW T, NEW s, HashOK(type, T, s), s.probe = <<>>
    PROVE  HashFuture(type, s) = {}
<1>1. Probed(type, s.build, {}, s.side) = {}
  BY DEF Probed, Joined, SemiRows, UnmatchedProbe
<1> QED BY <1>1, NoFiles DEF HashFuture

\* Matched keys of a chunk, when its probe batches will all have been read.
FreshRows(s) == {p \in RowsOf(s.probe) : Key(p) \notin s.matchedKeys}
ChunkKeys(s) == s.currentKeys \cup {Key(b) : b \in MatchedBuild(s.build, FreshRows(s))}
LaterRows(s) == {p \in RowsOf(s.probeFiles) : Key(p) \notin s.matchedKeys \cup ChunkKeys(s)}

\* The keys of T.
KeysIn(T) == {Key(row) : row \in T}
\* FileHashPartitionJoinState, and the output rows it may still produce: for a semi join
\* those of the current chunk, then those of the later chunks without the keys this one matches.
FileHashStates(T) ==
    [kind : {"FileHash"}, files : Seq(SUBSET T), probeFiles : Seq(SUBSET T), side : Sides,
     build : SUBSET T, probe : Seq(SUBSET T), matched : SUBSET T,
     currentKeys : SUBSET KeysIn(T), matchedKeys : SUBSET KeysIn(T), emitted : BOOLEAN]
FileHashOK(type, T, s) ==
    /\ s \in FileHashStates(T)
    /\ PairwiseDisjoint(s.files) /\ PairwiseDisjoint(s.probeFiles) /\ PairwiseDisjoint(s.probe)
    /\ s.build \cap RowsOf(s.files) = {}
    /\ type = "Semi" => /\ s.side = "right"
                        /\ s.build = {} => s.currentKeys \subseteq s.matchedKeys
SemiFuture(s) == SemiRows(s.build, FreshRows(s)) \cup SemiRows(RowsOf(s.files), LaterRows(s))
JoinFuture(s) ==
    Joined(s.build, RowsOf(s.probe), s.side)
        \cup Joined(RowsOf(s.files), RowsOf(s.probeFiles), s.side)
FullFuture(s) ==
    UnmatchedBuild(s.build, s.side) \cup UnmatchedBuild(RowsOf(s.files), s.side)
        \cup (IF s.emitted THEN {} ELSE UnmatchedPairs(RowsOf(s.probeFiles), s.side))
FileHashFuture(type, s) ==
    IF type = "Semi" THEN SemiFuture(s)
    ELSE IF type = "Inner" THEN JoinFuture(s) ELSE JoinFuture(s) \cup FullFuture(s)

\* The types of a FileHash state, for the lemmas about its steps.
LEMMA FileHashFiles ==
    ASSUME NEW type, NEW T, NEW s, FileHashOK(type, T, s)
    PROVE  /\ FilesOK(T, s.files) /\ FilesOK(T, s.probeFiles) /\ FilesOK(T, s.probe)
           /\ s.build \subseteq T /\ s.side \in Sides
           /\ RowsOf(s.files) \subseteq T /\ RowsOf(s.probeFiles) \subseteq T
           /\ RowsOf(s.probe) \subseteq T
<1>1. /\ FilesOK(T, s.files) /\ FilesOK(T, s.probeFiles) /\ FilesOK(T, s.probe)
      /\ s.build \subseteq T /\ s.side \in Sides
  BY DEF FileHashOK, FileHashStates, FilesOK
<1> QED BY <1>1, RowsIn

\* The next chunk: k files are read, and the probe files from the start.
LEMMA FileHashChunkStep ==
    ASSUME NEW type \in Types, NEW T, NullRow \notin T, NEW s, FileHashOK(type, T, s),
           s.build = {}, NEW k \in 1..Len(s.files),
           NEW s2, s2 = [s EXCEPT !.build = RowsOf(SubSeq(s.files, 1, k)),
                                  !.files = SubSeq(@, k + 1, Len(@)),
                                  !.probe = s.probeFiles,
                                  !.matched = {}, !.currentKeys = {}]
    PROVE  /\ FileHashOK(type, T, s2)
           /\ Pays(type, {}, FileHashFuture(type, s2), FileHashFuture(type, s))
<1> DEFINE a == SubSeq(s.files, 1, k)
           b == SubSeq(s.files, k + 1, Len(s.files))
           C == RowsOf(a)
           D == RowsOf(b)
           P == RowsOf(s.probeFiles)
<1>1. /\ FilesOK(T, s.files) /\ FilesOK(T, s.probeFiles) /\ s.side \in Sides
  BY FileHashFiles
<1>2. /\ FilesOK(T, a) /\ FilesOK(T, b) /\ RowsOf(s.files) = C \cup D /\ C \cap D = {}
  BY <1>1, Prefix
<1>3. C \subseteq T /\ a \in Seq(SUBSET T) /\ b \in Seq(SUBSET T)
  BY <1>2, RowsIn DEF FilesOK
<1> HIDE DEF a, b, C, D
<1>4. s2 = [s EXCEPT !.build = C, !.files = b, !.probe = s.probeFiles,
                     !.matched = {}, !.currentKeys = {}]
  BY DEF a, b, C
<1>5. /\ s2 \in FileHashStates(T) /\ s2.build = C /\ s2.files = b /\ s2.probe = s.probeFiles
      /\ s2.probeFiles = s.probeFiles /\ s2.side = s.side /\ s2.currentKeys = {}
      /\ s2.matchedKeys = s.matchedKeys /\ s2.emitted = s.emitted
  BY <1>3, <1>4 DEF FileHashOK, FileHashStates
<1>6. FileHashOK(type, T, s2)
  BY <1>2, <1>5 DEF FileHashOK, FilesOK, D
<1>7. Joined({}, RowsOf(s.probe), s.side) = {} /\ UnmatchedBuild({}, s.side) = {}
  BY NoRows
<1>8. JoinFuture(s) = JoinFuture(s2)
  <2>1. JoinFuture(s) = Joined(C \cup D, P, s.side)
    BY <1>2, <1>7 DEF JoinFuture
  <2>2. JoinFuture(s2) = Joined(C, P, s.side) \cup Joined(D, P, s.side)
    BY <1>5 DEF JoinFuture, D
  <2>3. Joined(C \cup D, P, s.side) = Joined(C, P, s.side) \cup Joined(D, P, s.side)
    BY JoinedUnion
  <2> QED BY <2>1, <2>2, <2>3
<1>9. FullFuture(s) = FullFuture(s2)
  <2>1. UnmatchedBuild(C \cup D, s.side) = UnmatchedBuild(C, s.side) \cup UnmatchedBuild(D, s.side)
    BY UnmatchedUnion
  <2> QED BY <1>2, <1>5, <1>7, <2>1 DEF FullFuture, D
<1>10. type = "Semi" => SemiFuture(s) = SemiFuture(s2)
  <2> SUFFICES ASSUME type = "Semi" PROVE SemiFuture(s) = SemiFuture(s2)
    OBVIOUS
  <2> DEFINE N == {p \in P : Key(p) \notin s.matchedKeys}
             K == {Key(r) : r \in MatchedBuild(C, N)}
             M == {p \in P : Key(p) \notin s.matchedKeys \cup K}
  <2>1. SemiRows({}, FreshRows(s)) = {} /\ MatchedBuild({}, FreshRows(s)) = {}
    BY NoRows
  <2>2. ChunkKeys(s) = s.currentKeys /\ s.currentKeys \subseteq s.matchedKeys
    BY <2>1 DEF ChunkKeys, FileHashOK
  <2>3. LaterRows(s) = N
    BY <2>2 DEF LaterRows
  <2>4. SemiFuture(s) = SemiRows(C \cup D, N)
    BY <1>2, <2>1, <2>3 DEF SemiFuture
  <2>5. FreshRows(s2) = N /\ ChunkKeys(s2) = K /\ LaterRows(s2) = M
    BY <1>5 DEF FreshRows, ChunkKeys, LaterRows
  <2>6. SemiFuture(s2) = SemiRows(C, N) \cup SemiRows(D, M)
    BY <1>5, <2>5 DEF SemiFuture, D
  <2>7. \A p \in N : Matches(C \cup D, p) # {} <=> Matches(C, p) # {} \/ Matches(D, p) # {}
    BY DEF Matches
  <2>8. \A p \in N : Matches(C, p) = {} => p \in M
    BY DEF Matches, MatchedBuild
  <2>9. M \subseteq N
    OBVIOUS
  <2> HIDE DEF M, N, K
  <2> QED BY <2>4, <2>6, <2>7, <2>8, <2>9 DEF SemiRows
<1> QED BY <1>6, <1>8, <1>9, <1>10 DEF Pays, FileHashFuture, Types

\* One probe batch against the chunk: a semi join.
LEMMA FileHashSemiStep ==
    ASSUME NEW T, NullRow \notin T, NEW s, FileHashOK("Semi", T, s), s.build # {}, s.probe # <<>>,
           NEW N, N = {p \in Head(s.probe) : Key(p) \notin s.matchedKeys},
           NEW s2, s2 = [s EXCEPT !.probe = Tail(@),
                  !.matched = @ \cup MatchedBuild(s.build, N),
                  !.currentKeys = @ \cup {Key(b) : b \in MatchedBuild(s.build, N)}]
    PROVE  /\ FileHashOK("Semi", T, s2)
           /\ Pays("Semi", SemiRows(s.build, N), FileHashFuture("Semi", s2),
                   FileHashFuture("Semi", s))
<1> DEFINE B == MatchedBuild(s.build, N)
           K == {Key(b) : b \in B}
           M == {p \in RowsOf(Tail(s.probe)) : Key(p) \notin s.matchedKeys}
<1>1. FilesOK(T, s.probe) /\ s.build \subseteq T
  BY FileHashFiles
<1>2. /\ FilesOK(T, Tail(s.probe)) /\ RowsOf(s.probe) = Head(s.probe) \cup RowsOf(Tail(s.probe))
      /\ Head(s.probe) \cap RowsOf(Tail(s.probe)) = {}
  BY <1>1, HeadTail
<1>3. B \subseteq T
  BY <1>1 DEF MatchedBuild, Matches
<1>4. K \subseteq KeysIn(T)
  BY <1>3 DEF KeysIn
<1> HIDE DEF B, K
<1>5. s2 = [s EXCEPT !.probe = Tail(@), !.matched = @ \cup B, !.currentKeys = @ \cup K]
  BY DEF B, K
<1>6. Tail(s.probe) \in Seq(SUBSET T) /\ PairwiseDisjoint(Tail(s.probe))
  BY <1>2 DEF FilesOK
<1>7. /\ s2 \in FileHashStates(T) /\ s2.probe = Tail(s.probe) /\ s2.build = s.build
      /\ s2.files = s.files /\ s2.probeFiles = s.probeFiles /\ s2.side = s.side
      /\ s2.matchedKeys = s.matchedKeys /\ s2.currentKeys = s.currentKeys \cup K
  <2>1. s \in FileHashStates(T)
    BY DEF FileHashOK
  <2>2. /\ s2.probe = Tail(s.probe) /\ s2.build = s.build /\ s2.matched = s.matched \cup B
        /\ s2.files = s.files /\ s2.probeFiles = s.probeFiles /\ s2.side = s.side
        /\ s2.matchedKeys = s.matchedKeys /\ s2.currentKeys = s.currentKeys \cup K
    BY <1>5, <2>1 DEF FileHashStates
  <2>3. s2 \in FileHashStates(T)
    <3>1. s.matched \cup B \in SUBSET T /\ s.currentKeys \cup K \in SUBSET KeysIn(T)
      BY <1>3, <1>4, <2>1 DEF FileHashStates
    <3>2. s2 = [s EXCEPT !.probe = Tail(s.probe), !.matched = s.matched \cup B,
                         !.currentKeys = s.currentKeys \cup K]
      BY <1>5
    <3> QED BY <1>6, <2>1, <3>1, <3>2 DEF FileHashStates
  <2> QED BY <2>2, <2>3
<1>8. FileHashOK("Semi", T, s2)
  BY <1>6, <1>7 DEF FileHashOK
<1>9. FreshRows(s2) = M /\ FreshRows(s) = N \cup M /\ N \cap M = {}
  BY <1>2, <1>7 DEF FreshRows
<1> HIDE DEF M
<1>10. MatchedBuild(s.build, N \cup M) = B \cup MatchedBuild(s.build, M)
  BY DEF MatchedBuild, B
<1>11. ChunkKeys(s2) = ChunkKeys(s)
  <2>1. ChunkKeys(s) = s.currentKeys \cup {Key(b) : b \in B \cup MatchedBuild(s.build, M)}
    BY <1>9, <1>10 DEF ChunkKeys
  <2>2. ChunkKeys(s2) = (s.currentKeys \cup K) \cup {Key(b) : b \in MatchedBuild(s.build, M)}
    BY <1>7, <1>9 DEF ChunkKeys
  <2> QED BY <2>1, <2>2 DEF K
<1>12. LaterRows(s2) = LaterRows(s)
  BY <1>7, <1>11 DEF LaterRows
<1> DEFINE E == SemiRows(s.build, N)
           F == SemiRows(s.build, M)
           G == SemiRows(RowsOf(s.files), LaterRows(s))
<1>13. SemiFuture(s2) = F \cup G
  BY <1>7, <1>9, <1>12 DEF SemiFuture
<1>14. SemiFuture(s) = (E \cup F) \cup G
  <2>1. SemiRows(s.build, N \cup M) = E \cup F
    BY DEF SemiRows
  <2> QED BY <1>9, <2>1 DEF SemiFuture
<1>15. E \cap F = {}
  BY <1>9 DEF SemiRows
<1>16. E \cap G = {}
  <2>1. K \subseteq ChunkKeys(s)
    BY <1>9, <1>10 DEF ChunkKeys, K
  <2>2. \A p \in N : Matches(s.build, p) # {} => Key(p) \in K
    BY DEF K, B, MatchedBuild, Matches
  <2>3. \A p \in LaterRows(s) : Key(p) \notin ChunkKeys(s)
    BY DEF LaterRows
  <2> QED BY <2>1, <2>2, <2>3 DEF SemiRows
<1> HIDE DEF E, F, G
<1>17. Pays("Semi", E, SemiFuture(s2), SemiFuture(s))
  BY <1>13, <1>14, <1>15, <1>16 DEF Pays
<1> QED BY <1>8, <1>17 DEF FileHashFuture, E

\* Rows of distinct build rows, distinct probe rows, or of a row and of NULL, differ.
LEMMA JoinedApart ==
    ASSUME NEW side, NEW B, NEW P, NullRow \notin B, NullRow \notin P
    PROVE  /\ \A C, Q : B \cap C = {} => Joined(B, P, side) \cap Joined(C, Q, side) = {}
           /\ \A C, Q : P \cap Q = {} => Joined(B, P, side) \cap Joined(C, Q, side) = {}
           /\ \A C : Joined(B, P, side) \cap UnmatchedBuild(C, side) = {}
           /\ \A Q : Joined(B, P, side) \cap UnmatchedPairs(Q, side) = {}
<1>1. \A x \in Joined(B, P, side) : BuildPart(side, x) \in B /\ ProbePart(side, x) \in P
  BY Parts
<1>2. ASSUME NEW C, NEW Q, B \cap C = {} \/ P \cap Q = {}
      PROVE  Joined(B, P, side) \cap Joined(C, Q, side) = {}
  <2>1. \A x \in Joined(C, Q, side) : BuildPart(side, x) \in C /\ ProbePart(side, x) \in Q
    BY Parts
  <2> QED BY <1>1, <1>2, <2>1
<1>3. ASSUME NEW C PROVE Joined(B, P, side) \cap UnmatchedBuild(C, side) = {}
  <2>1. \A x \in UnmatchedBuild(C, side) : ProbePart(side, x) = NullRow
    BY Parts
  <2> QED BY <1>1, <2>1
<1>4. ASSUME NEW Q PROVE Joined(B, P, side) \cap UnmatchedPairs(Q, side) = {}
  <2>1. \A x \in UnmatchedPairs(Q, side) : BuildPart(side, x) = NullRow
    BY Parts
  <2> QED BY <1>1, <2>1
<1> QED BY <1>2, <1>3, <1>4

\* A build row with NULLs is none of a pair, a probe row with NULLs or another's.
LEMMA UnmatchedApart ==
    ASSUME NEW side, NEW U, NullRow \notin U
    PROVE  /\ \A C : U \cap C = {} => UnmatchedBuild(U, side) \cap UnmatchedBuild(C, side) = {}
           /\ \A Q : UnmatchedBuild(U, side) \cap UnmatchedPairs(Q, side) = {}
           /\ \A C, P : NullRow \notin P =>
                 UnmatchedBuild(U, side) \cap Joined(C, P, side) = {}
<1>1. \A x \in UnmatchedBuild(U, side) : BuildPart(side, x) \in U /\ ProbePart(side, x) = NullRow
  BY Parts
<1>2. ASSUME NEW C, U \cap C = {} PROVE UnmatchedBuild(U, side) \cap UnmatchedBuild(C, side) = {}
  <2>1. \A x \in UnmatchedBuild(C, side) : BuildPart(side, x) \in C
    BY Parts
  <2> QED BY <1>1, <1>2, <2>1
<1>3. ASSUME NEW Q PROVE UnmatchedBuild(U, side) \cap UnmatchedPairs(Q, side) = {}
  <2>1. \A x \in UnmatchedPairs(Q, side) : BuildPart(side, x) = NullRow
    BY Parts
  <2> QED BY <1>1, <2>1
<1>4. ASSUME NEW C, NEW P, NullRow \notin P
      PROVE UnmatchedBuild(U, side) \cap Joined(C, P, side) = {}
  <2>1. \A x \in Joined(C, P, side) : ProbePart(side, x) \in P
    BY Parts
  <2> QED BY <1>1, <1>4, <2>1
<1> QED BY <1>2, <1>3, <1>4

\* One probe batch against the chunk: an inner or a full join.
LEMMA FileHashJoinStep ==
    ASSUME NEW type \in {"Inner", "Full"}, NEW T, NullRow \notin T, NEW s,
           FileHashOK(type, T, s), s.probe # <<>>,
           NEW s2, s2 = [s EXCEPT !.probe = Tail(@),
                  !.matched = @ \cup MatchedBuild(s.build, Head(s.probe)),
                  !.currentKeys = @ \cup {Key(b) : b \in MatchedBuild(s.build, Head(s.probe))}]
    PROVE  /\ FileHashOK(type, T, s2)
           /\ Pays(type, Joined(s.build, Head(s.probe), s.side), FileHashFuture(type, s2),
                   FileHashFuture(type, s))
<1> DEFINE H == Head(s.probe)
           R == RowsOf(Tail(s.probe))
           B == MatchedBuild(s.build, H)
           K == {Key(b) : b \in B}
<1>1. FilesOK(T, s.probe) /\ s.build \subseteq T /\ s.side \in Sides
  BY FileHashFiles
<1>2. /\ FilesOK(T, Tail(s.probe)) /\ RowsOf(s.probe) = H \cup R /\ H \cap R = {} /\ H \subseteq T
  BY <1>1, HeadTail
<1>3. B \subseteq T
  BY <1>1 DEF MatchedBuild, Matches
<1>4. K \subseteq KeysIn(T)
  BY <1>3 DEF KeysIn
<1> HIDE DEF B, K
<1>5. s2 = [s EXCEPT !.probe = Tail(@), !.matched = @ \cup B, !.currentKeys = @ \cup K]
  BY DEF B, K
<1>6. Tail(s.probe) \in Seq(SUBSET T) /\ PairwiseDisjoint(Tail(s.probe))
  BY <1>2 DEF FilesOK
<1>7. /\ s2 \in FileHashStates(T) /\ s2.probe = Tail(s.probe) /\ s2.build = s.build
      /\ s2.files = s.files /\ s2.probeFiles = s.probeFiles /\ s2.side = s.side
      /\ s2.emitted = s.emitted
  <2>1. s \in FileHashStates(T)
    BY DEF FileHashOK
  <2>2. s.matched \cup B \in SUBSET T /\ s.currentKeys \cup K \in SUBSET KeysIn(T)
    BY <1>3, <1>4, <2>1 DEF FileHashStates
  <2>3. s2 = [s EXCEPT !.probe = Tail(s.probe), !.matched = s.matched \cup B,
                       !.currentKeys = s.currentKeys \cup K]
    BY <1>5
  <2> QED BY <1>6, <2>1, <2>2, <2>3 DEF FileHashStates
<1>8. FileHashOK(type, T, s2)
  BY <1>6, <1>7 DEF FileHashOK
<1> DEFINE E == Joined(s.build, H, s.side)
           F == Joined(s.build, R, s.side)
           G == Joined(RowsOf(s.files), RowsOf(s.probeFiles), s.side)
<1>9. JoinFuture(s2) = F \cup G
  BY <1>7 DEF JoinFuture
<1>10. JoinFuture(s) = (E \cup F) \cup G
  <2>1. Joined(s.build, H \cup R, s.side) = E \cup F
    BY DEF Joined
  <2> QED BY <1>2, <2>1 DEF JoinFuture
<1>11. NullRow \notin s.build /\ NullRow \notin H /\ s.build \cap RowsOf(s.files) = {}
  BY <1>1, <1>2 DEF FileHashOK
<1>12. E \cap F = {} /\ E \cap G = {}
  BY <1>2, <1>11, JoinedApart
<1>13. FullFuture(s2) = FullFuture(s)
  BY <1>7 DEF FullFuture
<1>14. E \cap FullFuture(s) = {}
  <2>1. /\ E \cap UnmatchedBuild(s.build, s.side) = {}
        /\ E \cap UnmatchedBuild(RowsOf(s.files), s.side) = {}
        /\ E \cap UnmatchedPairs(RowsOf(s.probeFiles), s.side) = {}
    BY <1>11, JoinedApart
  <2> HIDE DEF E
  <2> QED BY <2>1 DEF FullFuture
<1> HIDE DEF E, F, G
<1>15. FileHashFuture(type, s2) = IF type = "Inner" THEN F \cup G ELSE (F \cup G) \cup FullFuture(s)
  BY <1>9, <1>13 DEF FileHashFuture
<1>16. FileHashFuture(type, s) =
          IF type = "Inner" THEN (E \cup F) \cup G ELSE ((E \cup F) \cup G) \cup FullFuture(s)
  BY <1>10 DEF FileHashFuture
<1>17. Pays(type, E, FileHashFuture(type, s2), FileHashFuture(type, s))
  BY <1>12, <1>14, <1>15, <1>16 DEF Pays
<1> QED BY <1>8, <1>17 DEF E

\* The chunk is done: its unmatched build rows are emitted, or its keys remembered.
LEMMA FileHashUnmatchedStep ==
    ASSUME NEW T, NullRow \notin T, NEW s, FileHashOK("Full", T, s), s.probe = <<>>,
           NEW U, U \subseteq s.build, NEW s2, s2 = [s EXCEPT !.build = {}]
    PROVE  /\ FileHashOK("Full", T, s2)
           /\ Pays("Full", UnmatchedBuild(U, s.side), FileHashFuture("Full", s2),
                   FileHashFuture("Full", s))
<1>1. /\ s2 \in FileHashStates(T) /\ s2.build = {} /\ s2.files = s.files /\ s2.probe = s.probe
      /\ s2.probeFiles = s.probeFiles /\ s2.side = s.side /\ s2.emitted = s.emitted
  BY DEF FileHashOK, FileHashStates
<1>2. FileHashOK("Full", T, s2)
  BY <1>1 DEF FileHashOK
<1>3. /\ s.build \subseteq T /\ RowsOf(s.probeFiles) \subseteq T
      /\ s.build \cap RowsOf(s.files) = {}
  <2>1. s.build \subseteq T /\ RowsOf(s.probeFiles) \subseteq T
    BY FileHashFiles
  <2>2. s.build \cap RowsOf(s.files) = {}
    BY DEF FileHashOK
  <2> QED BY <2>1, <2>2
<1> DEFINE E == UnmatchedBuild(U, s.side)
           D == UnmatchedBuild(s.build, s.side)
           F == UnmatchedBuild(RowsOf(s.files), s.side)
           Q == IF s.emitted THEN {} ELSE UnmatchedPairs(RowsOf(s.probeFiles), s.side)
           G == Joined(RowsOf(s.files), RowsOf(s.probeFiles), s.side)
<1>4. /\ \A S : Joined(S, {}, s.side) = {} /\ Joined({}, S, s.side) = {}
      /\ UnmatchedBuild({}, s.side) = {}
  BY NoRows
<1>5. FileHashFuture("Full", s2) = G \cup (F \cup Q)
  BY <1>1, <1>4, NoFiles DEF FileHashFuture, JoinFuture, FullFuture
<1>6. FileHashFuture("Full", s) = G \cup ((D \cup F) \cup Q)
  BY <1>4, NoFiles DEF FileHashFuture, JoinFuture, FullFuture
<1>7. E \subseteq D
  BY DEF UnmatchedBuild
<1>8. NullRow \notin U /\ U \cap RowsOf(s.files) = {} /\ NullRow \notin RowsOf(s.probeFiles)
  BY <1>3
<1>9. E \cap F = {} /\ E \cap G = {} /\ E \cap UnmatchedPairs(RowsOf(s.probeFiles), s.side) = {}
  BY <1>8, UnmatchedApart
<1>10. E \cap Q = {}
  BY <1>9
<1> HIDE DEF D, E, F, Q, G
<1>11. Pays("Full", E, FileHashFuture("Full", s2), FileHashFuture("Full", s))
  BY <1>5, <1>6, <1>7, <1>9, <1>10 DEF Pays
<1> QED BY <1>2, <1>11 DEF E

\* The end of a chunk: the keys it matched are those a semi join passes over later.
LEMMA FileHashChunkEndStep ==
    ASSUME NEW type \in Types, NEW T, NullRow \notin T, NEW s, FileHashOK(type, T, s),
           s.probe = <<>>,
           NEW s2, s2 = [s EXCEPT !.build = {}, !.matchedKeys = @ \cup s.currentKeys]
    PROVE  /\ FileHashOK(type, T, s2)
           /\ Pays(type, {}, FileHashFuture(type, s2), FileHashFuture(type, s))
<1>1. /\ s2 \in FileHashStates(T) /\ s2.build = {} /\ s2.files = s.files /\ s2.probe = s.probe
      /\ s2.probeFiles = s.probeFiles /\ s2.side = s.side /\ s2.emitted = s.emitted
      /\ s2.matchedKeys = s.matchedKeys \cup s.currentKeys /\ s2.currentKeys = s.currentKeys
  BY DEF FileHashOK, FileHashStates
<1>2. FileHashOK(type, T, s2)
  BY <1>1 DEF FileHashOK
<1>3. /\ \A S : Joined(S, {}, s.side) = {} /\ Joined({}, S, s.side) = {}
      /\ UnmatchedBuild({}, s.side) = {}
  BY NoRows
<1>4. JoinFuture(s2) = JoinFuture(s)
  BY <1>1, <1>3, NoFiles DEF JoinFuture
<1>5. FullFuture(s2) \subseteq FullFuture(s)
  BY <1>1, <1>3 DEF FullFuture
<1>6. SemiFuture(s2) = SemiFuture(s)
  <2>1. FreshRows(s) = {} /\ FreshRows(s2) = {}
    BY <1>1, NoFiles DEF FreshRows
  <2>2. \A B : MatchedBuild(B, {}) = {} /\ SemiRows(B, {}) = {}
    BY NoRows
  <2>3. ChunkKeys(s) = s.currentKeys /\ ChunkKeys(s2) = s.currentKeys
    BY <1>1, <2>1, <2>2 DEF ChunkKeys
  <2>4. LaterRows(s2) = LaterRows(s)
    BY <1>1, <2>3 DEF LaterRows
  <2> QED BY <1>1, <2>1, <2>2, <2>4 DEF SemiFuture
<1> QED BY <1>2, <1>4, <1>5, <1>6 DEF Pays, FileHashFuture, Types

\* No build file is left: the unmatched probe rows, once.
LEMMA FileHashEmitStep ==
    ASSUME NEW T, NEW s, FileHashOK("Full", T, s), s.build = {}, s.files = <<>>, ~s.emitted,
           NEW P, P \subseteq RowsOf(s.probeFiles), NEW s2, s2 = [s EXCEPT !.emitted = TRUE]
    PROVE  /\ FileHashOK("Full", T, s2)
           /\ Pays("Full", {Pair(s.side, NullRow, p) : p \in P}, FileHashFuture("Full", s2),
                   FileHashFuture("Full", s))
<1>1. /\ s2 \in FileHashStates(T) /\ s2.build = {} /\ s2.files = <<>> /\ s2.probe = s.probe
      /\ s2.probeFiles = s.probeFiles /\ s2.side = s.side /\ s2.emitted
  BY DEF FileHashOK, FileHashStates
<1>2. FileHashOK("Full", T, s2)
  BY <1>1 DEF FileHashOK
<1>3. (\A S : Joined({}, S, s.side) = {}) /\ UnmatchedBuild({}, s.side) = {}
  BY NoRows
<1>4. FileHashFuture("Full", s2) = {}
  BY <1>1, <1>3, NoFiles DEF FileHashFuture, JoinFuture, FullFuture
<1>5. FileHashFuture("Full", s) = UnmatchedPairs(RowsOf(s.probeFiles), s.side)
  BY <1>3, NoFiles DEF FileHashFuture, JoinFuture, FullFuture
<1>6. {Pair(s.side, NullRow, p) : p \in P} \subseteq UnmatchedPairs(RowsOf(s.probeFiles), s.side)
  BY DEF UnmatchedPairs
<1> QED BY <1>2, <1>4, <1>5, <1>6 DEF Pays

\* A FileHashPartitionJoinState of an inner or semi join that has read its build files
\* owes nothing.
LEMMA FileHashDone ==
    ASSUME NEW type \in {"Inner", "Semi"}, NEW T, NEW s, FileHashOK(type, T, s),
           s.build = {}, s.files = <<>>
    PROVE  FileHashFuture(type, s) = {}
<1>1. /\ \A S : Joined({}, S, s.side) = {} /\ SemiRows({}, S) = {}
  BY NoRows
<1> QED BY <1>1, NoFiles DEF FileHashFuture, JoinFuture, SemiFuture

\* BlockNestedLoopJoinState, and the output rows it may still produce.
BlockStates(T) == [kind : {"Block"}, left : Seq(SUBSET T), right : Seq(SUBSET T)]
BlockOK(type, T, s) ==
    s \in BlockStates(T) /\ type = "Inner" /\ PairwiseDisjoint(s.left)
BlockFuture(s) == Joined(RowsOf(s.left), RowsOf(s.right), "left")

\* One left batch against all right files.
LEMMA BlockJoinStep ==
    ASSUME NEW type, NEW T, NullRow \notin T, NEW s, BlockOK(type, T, s), s.left # <<>>,
           NEW s2, s2 = [s EXCEPT !.left = Tail(@)]
    PROVE  /\ BlockOK(type, T, s2)
           /\ Pays(type, Joined(Head(s.left), RowsOf(s.right), "left"), BlockFuture(s2),
                   BlockFuture(s))
<1> DEFINE H == Head(s.left)
           R == RowsOf(Tail(s.left))
           Q == RowsOf(s.right)
<1>1. FilesOK(T, s.left) /\ s.right \in Seq(SUBSET T)
  BY DEF BlockOK, BlockStates, FilesOK
<1>2. /\ FilesOK(T, Tail(s.left)) /\ RowsOf(s.left) = H \cup R /\ H \cap R = {} /\ H \subseteq T
  BY <1>1, HeadTail
<1>3. /\ s2 \in BlockStates(T) /\ s2.left = Tail(s.left) /\ s2.right = s.right
  BY <1>2 DEF BlockOK, BlockStates, FilesOK
<1>4. BlockOK(type, T, s2)
  BY <1>2, <1>3 DEF BlockOK, FilesOK
<1>5. Q \subseteq T
  BY <1>1 DEF RowsOf, Range
<1>6. Joined(H \cup R, Q, "left") = Joined(H, Q, "left") \cup Joined(R, Q, "left")
  BY JoinedUnion
<1>7. NullRow \notin H /\ NullRow \notin Q
  BY <1>2, <1>5
<1>8. Joined(H, Q, "left") \cap Joined(R, Q, "left") = {}
  BY <1>2, <1>7, JoinedApart
<1>9. BlockFuture(s) = Joined(H \cup R, Q, "left") /\ BlockFuture(s2) = Joined(R, Q, "left")
  BY <1>2, <1>3 DEF BlockFuture
<1> QED BY <1>4, <1>6, <1>8, <1>9 DEF Pays

\* A BlockNestedLoopJoinState without left batches owes nothing.
LEMMA BlockDone ==
    ASSUME NEW s, s.left = <<>>
    PROVE  BlockFuture(s) = {}
<1>1. \A P : Joined({}, P, "left") = {}
  BY NoRows
<1> QED BY <1>1, NoFiles DEF BlockFuture

\* UnmatchedSideJoinState, and the output rows it may still produce.
UnmatchedSideStates(T) == [kind : {"UnmatchedSide"}, files : Seq(SUBSET T), side : Sides]
UnmatchedSideOK(type, T, s) ==
    s \in UnmatchedSideStates(T) /\ type = "Full" /\ PairwiseDisjoint(s.files)
UnmatchedSideFuture(s) == UnmatchedBuild(RowsOf(s.files), s.side)

\* One batch of the only side.
LEMMA UnmatchedSideBatchStep ==
    ASSUME NEW type, NEW T, NullRow \notin T, NEW s, UnmatchedSideOK(type, T, s), s.files # <<>>,
           NEW s2, s2 = [s EXCEPT !.files = Tail(@)]
    PROVE  /\ UnmatchedSideOK(type, T, s2)
           /\ Pays(type, UnmatchedBuild(Head(s.files), s.side), UnmatchedSideFuture(s2),
                   UnmatchedSideFuture(s))
<1> DEFINE H == Head(s.files)
           R == RowsOf(Tail(s.files))
<1>1. FilesOK(T, s.files)
  BY DEF UnmatchedSideOK, UnmatchedSideStates, FilesOK
<1>2. /\ FilesOK(T, Tail(s.files)) /\ RowsOf(s.files) = H \cup R /\ H \cap R = {} /\ H \subseteq T
  BY <1>1, HeadTail
<1>3. /\ s2 \in UnmatchedSideStates(T) /\ s2.files = Tail(s.files) /\ s2.side = s.side
  BY <1>2 DEF UnmatchedSideOK, UnmatchedSideStates, FilesOK
<1>4. UnmatchedSideOK(type, T, s2)
  BY <1>2, <1>3 DEF UnmatchedSideOK, FilesOK
<1>5. UnmatchedBuild(H \cup R, s.side) = UnmatchedBuild(H, s.side) \cup UnmatchedBuild(R, s.side)
  BY UnmatchedUnion
<1>6. NullRow \notin H
  BY <1>2
<1>7. UnmatchedBuild(H, s.side) \cap UnmatchedBuild(R, s.side) = {}
  BY <1>2, <1>6, UnmatchedApart
<1>8. /\ UnmatchedSideFuture(s) = UnmatchedBuild(H \cup R, s.side)
      /\ UnmatchedSideFuture(s2) = UnmatchedBuild(R, s.side)
  BY <1>2, <1>3 DEF UnmatchedSideFuture
<1> QED BY <1>4, <1>5, <1>7, <1>8 DEF Pays

-----------------------------------------------------------------------------
(* The states of a partition.                                              *)
\* A join state of any kind, and what it owes.
StateOK(type, T, s) ==
    \/ HashOK(type, T, s) \/ FileHashOK(type, T, s)
    \/ BlockOK(type, T, s) \/ UnmatchedSideOK(type, T, s)
AllStates(T) == HashStates(T) \cup FileHashStates(T) \cup BlockStates(T) \cup UnmatchedSideStates(T)
JoinStateSet(type, T) == {s \in AllStates(T) : StateOK(type, T, s)}
StateFuture(type, s) ==
    IF s.kind = "Hash" THEN HashFuture(type, s)
    ELSE IF s.kind = "FileHash" THEN FileHashFuture(type, s)
    ELSE IF s.kind = "Block" THEN BlockFuture(s) ELSE UnmatchedSideFuture(s)

\* A state of each kind is a join state and owes what that kind owes.
LEMMA StateKinds ==
    ASSUME NEW type, NEW T, NEW s
    PROVE  /\ HashOK(type, T, s) =>
                 s \in JoinStateSet(type, T) /\ StateFuture(type, s) = HashFuture(type, s)
           /\ FileHashOK(type, T, s) =>
                 s \in JoinStateSet(type, T) /\ StateFuture(type, s) = FileHashFuture(type, s)
           /\ BlockOK(type, T, s) =>
                 s \in JoinStateSet(type, T) /\ StateFuture(type, s) = BlockFuture(s)
           /\ UnmatchedSideOK(type, T, s) =>
                 s \in JoinStateSet(type, T) /\ StateFuture(type, s) = UnmatchedSideFuture(s)
<1>1. /\ \A x \in HashStates(T) : x.kind = "Hash"
      /\ \A x \in FileHashStates(T) : x.kind = "FileHash"
      /\ \A x \in BlockStates(T) : x.kind = "Block"
      /\ \A x \in UnmatchedSideStates(T) : x.kind = "UnmatchedSide"
  BY DEF HashStates, FileHashStates, BlockStates, UnmatchedSideStates
<1>2. /\ HashOK(type, T, s) => s \in HashStates(T)
      /\ FileHashOK(type, T, s) => s \in FileHashStates(T)
      /\ BlockOK(type, T, s) => s \in BlockStates(T)
      /\ UnmatchedSideOK(type, T, s) => s \in UnmatchedSideStates(T)
  BY DEF HashOK, FileHashOK, BlockOK, UnmatchedSideOK
<1> QED BY <1>1, <1>2 DEF JoinStateSet, AllStates, StateOK, StateFuture

\* The kind of a join state determines its fields.
LEMMA KindOfState ==
    ASSUME NEW type, NEW T, NEW s \in JoinStateSet(type, T)
    PROVE  /\ s.kind = "Hash" => HashOK(type, T, s)
           /\ s.kind = "FileHash" => FileHashOK(type, T, s)
           /\ s.kind = "Block" => BlockOK(type, T, s)
           /\ s.kind = "UnmatchedSide" => UnmatchedSideOK(type, T, s)
<1>1. /\ HashOK(type, T, s) => s.kind = "Hash"
      /\ FileHashOK(type, T, s) => s.kind = "FileHash"
      /\ BlockOK(type, T, s) => s.kind = "Block"
      /\ UnmatchedSideOK(type, T, s) => s.kind = "UnmatchedSide"
  BY DEF HashOK, FileHashOK, BlockOK, UnmatchedSideOK,
         HashStates, FileHashStates, BlockStates, UnmatchedSideStates
<1> QED BY <1>1 DEF JoinStateSet, StateOK

\* What each state of a sequence owes.
Owing(type, states) == [j \in DOMAIN states |-> StateFuture(type, states[j])]

\* The running state makes a step.
LEMMA StateStep ==
    ASSUME NEW type, NEW T, NEW O, NEW P, NEW states \in Seq(JoinStateSet(type, T)),
           states # <<>>, NEW Target, Ledger(type, O, P, Owing(type, states), Target),
           NEW s2 \in JoinStateSet(type, T), NEW E,
           Pays(type, E, StateFuture(type, s2), StateFuture(type, Head(states)))
    PROVE  /\ [states EXCEPT ![1] = s2] \in Seq(JoinStateSet(type, T))
           /\ Ledger(type, O \cup E, P, Owing(type, [states EXCEPT ![1] = s2]), Target)
           /\ O \cap E = {}
<1> DEFINE next == [states EXCEPT ![1] = s2]
           A == Owing(type, states)
           A2 == Owing(type, next)
<1>1. /\ next \in Seq(JoinStateSet(type, T)) /\ DOMAIN next = DOMAIN states
      /\ 1 \in DOMAIN states /\ Head(states) = states[1] /\ next[1] = s2
      /\ \A j \in DOMAIN states : j # 1 => next[j] = states[j]
  OBVIOUS
<1> HIDE DEF next
<1>2. /\ DOMAIN A = DOMAIN states /\ DOMAIN A2 = DOMAIN states
      /\ A[1] = StateFuture(type, states[1]) /\ A2[1] = StateFuture(type, s2)
      /\ \A j \in DOMAIN A : j # 1 => A2[j] = A[j]
  BY <1>1 DEF Owing
<1> HIDE DEF A, A2
<1>3. Ledger(type, O, P, A, Target)
  BY DEF A
<1>4. Ledger(type, O \cup E, P, A2, Target) /\ O \cap E = {}
  BY <1>1, <1>2, <1>3, LedgerEmit
<1> QED BY <1>1, <1>4 DEF A2, next

\* The running state is dropped.
LEMMA StateDrop ==
    ASSUME NEW type, NEW T, NEW O, NEW P, NEW states \in Seq(JoinStateSet(type, T)),
           states # <<>>, NEW Target, Ledger(type, O, P, Owing(type, states), Target),
           type # "Full" => StateFuture(type, Head(states)) = {}
    PROVE  /\ Tail(states) \in Seq(JoinStateSet(type, T))
           /\ Ledger(type, O, P, Owing(type, Tail(states)), Target)
<1> DEFINE next == Tail(states)
           A == Owing(type, states)
           A2 == Owing(type, next)
           n == Len(states) - 1
<1>1. /\ next \in Seq(JoinStateSet(type, T)) /\ DOMAIN next = 1..n /\ n \in Nat
      /\ DOMAIN states = 1..(n + 1) /\ Head(states) = states[1]
      /\ \A j \in 1..n : next[j] = states[j + 1] /\ j + 1 \in 1..(n + 1)
  OBVIOUS
<1> HIDE DEF next, n
<1>2. /\ DOMAIN A = 1..(n + 1) /\ DOMAIN A2 = 1..n
      /\ A[1] = StateFuture(type, states[1])
      /\ \A j \in 1..n : A2[j] = A[j + 1]
  BY <1>1 DEF Owing
<1> HIDE DEF A, A2
<1>3. Ledger(type, O, P, A, Target) /\ (type # "Full" => A[1] = {})
  BY <1>1, <1>2 DEF A
<1>4. Ledger(type, O, P, A2, Target)
  BY <1>1, <1>2, <1>3, LedgerDrop
<1> QED BY <1>1, <1>4 DEF A2, next

-----------------------------------------------------------------------------
(* Preparing a partition.                                                  *)

\* Rel for the rows of the build side and those of the probe side.
SideRel(type, side, B, P) == IF side = "left" THEN Rel(type, B, P) ELSE Rel(type, P, B)

\* The pairs a probe yields are those of the join, whichever side was built.
LEMMA JoinedIsPairs ==
    ASSUME NEW B, NEW P
    PROVE  /\ Joined(B, P, "left") = Pairs(B, P)
           /\ Joined(B, P, "right") = Pairs(P, B)
           /\ SemiRows(B, P) = {<<lr[1]>> : lr \in Pairs(P, B)}
<1>1. \A x : x \in Joined(B, P, "left") <=>
                \E p \in P, b \in B : Key(b) = Key(p) /\ Key(p) # Null /\ x = <<b, p>>
  BY DEF Joined, Matches, Pair
<1>2. \A x : x \in Joined(B, P, "right") <=>
                \E p \in P, b \in B : Key(b) = Key(p) /\ Key(p) # Null /\ x = <<p, b>>
  BY DEF Joined, Matches, Pair
<1>3. \A x : x \in SemiRows(B, P) <=>
                \E p \in P, b \in B : Key(b) = Key(p) /\ Key(p) # Null /\ x = <<p>>
  BY DEF SemiRows, Matches
<1>4. \A X, Y, x : x \in Pairs(X, Y) <=>
                \E a \in X, b \in Y : Key(a) = Key(b) /\ Key(a) # Null /\ x = <<a, b>>
  BY DEF Pairs
<1>5. Joined(B, P, "left") = Pairs(B, P)
  BY <1>1, <1>4
<1>6. Joined(B, P, "right") = Pairs(P, B)
  BY <1>2, <1>4
<1>7. SemiRows(B, P) = {<<lr[1]>> : lr \in Pairs(P, B)}
  <2>1. ASSUME NEW x \in SemiRows(B, P) PROVE x \in {<<lr[1]>> : lr \in Pairs(P, B)}
    <3>1. PICK p \in P, b \in B : Key(b) = Key(p) /\ Key(p) # Null /\ x = <<p>>
      BY <1>3, <2>1
    <3>2. <<p, b>> \in Pairs(P, B) /\ x = <<<<p, b>>[1]>>
      BY <1>4, <3>1
    <3> QED BY <3>2
  <2>2. ASSUME NEW lr \in Pairs(P, B) PROVE <<lr[1]>> \in SemiRows(B, P)
    <3>1. PICK a \in P, b \in B : Key(a) = Key(b) /\ Key(a) # Null /\ lr = <<a, b>>
      BY <1>4, <2>2
    <3> QED BY <1>3, <3>1
  <2> QED BY <2>1, <2>2
<1> QED BY <1>5, <1>6, <1>7

\* What may be produced for a partition is produced by a state made for it.
LEMMA SideRelIs ==
    ASSUME NEW side \in Sides, NEW B, NEW P
    PROVE  /\ SideRel("Inner", side, B, P) = Joined(B, P, side)
           /\ side = "right" => SideRel("Semi", side, B, P) = SemiRows(B, P)
           /\ SideRel("Full", side, B, P)
                 = Joined(B, P, side) \cup UnmatchedBuild(B, side) \cup UnmatchedPairs(P, side)
<1>1. CASE side = "left"
  <2>1. /\ UnmatchedBuild(B, side) = {<<l, NullRow>> : l \in B}
        /\ UnmatchedPairs(P, side) = {<<NullRow, r>> : r \in P}
    BY <1>1 DEF UnmatchedBuild, UnmatchedPairs, Pair
  <2> QED BY <1>1, <2>1, JoinedIsPairs DEF SideRel, Rel
<1>2. CASE side = "right"
  <2>1. /\ UnmatchedBuild(B, side) = {<<NullRow, r>> : r \in B}
        /\ UnmatchedPairs(P, side) = {<<l, NullRow>> : l \in P}
    BY <1>2 DEF UnmatchedBuild, UnmatchedPairs, Pair
  <2>2. Joined(B, P, side) = Pairs(P, B) /\ SemiRows(B, P) = {<<lr[1]>> : lr \in Pairs(P, B)}
    BY <1>2, JoinedIsPairs
  <2> QED BY <1>2, <2>1, <2>2 DEF SideRel, Rel
<1> QED BY <1>1, <1>2 DEF Sides

\* A new HashPartitionJoinState owes what its two sides join to.
LEMMA FreshHash ==
    ASSUME NEW type \in Types, NEW T, NEW side \in Sides, type = "Semi" => side = "right",
           NEW b, NEW p, FilesOK(T, b), FilesOK(T, p)
    PROVE  /\ HashState(b, p, side) \in JoinStateSet(type, T)
           /\ StateFuture(type, HashState(b, p, side))
                 \subseteq SideRel(type, side, RowsOf(b), RowsOf(p))
           /\ type # "Full" => StateFuture(type, HashState(b, p, side))
                                 = SideRel(type, side, RowsOf(b), RowsOf(p))
<1> DEFINE s == HashState(b, p, side)
           B == RowsOf(b)
           P == RowsOf(p)
<1>1. B \subseteq T /\ p \in Seq(SUBSET T) /\ PairwiseDisjoint(p)
  BY RowsIn DEF FilesOK
<1>2. HashOK(type, T, s)
  BY <1>1 DEF HashState, HashOK, HashStates
<1>3. s \in JoinStateSet(type, T) /\ StateFuture(type, s) = HashFuture(type, s)
  BY <1>2, StateKinds
<1>4. HashFuture(type, s) = Probed(type, B, P, side)
          \cup (IF type = "Full" THEN UnmatchedBuild(B, side) ELSE {})
  BY DEF HashFuture, HashState
<1>5. UnmatchedProbe(B, P, side) \subseteq UnmatchedPairs(P, side)
  BY Parts
<1> HIDE DEF s, B, P
<1>6. CASE type = "Inner"
  BY <1>3, <1>4, <1>6, ProbedIs, SideRelIs DEF s, B, P
<1>7. CASE type = "Semi"
  BY <1>3, <1>4, <1>7, ProbedIs, SideRelIs DEF s, B, P
<1>8. CASE type = "Full"
  <2>1. Probed(type, B, P, side) = Joined(B, P, side) \cup UnmatchedProbe(B, P, side)
    BY <1>8, ProbedIs
  <2>2. SideRel("Full", side, B, P)
          = Joined(B, P, side) \cup UnmatchedBuild(B, side) \cup UnmatchedPairs(P, side)
    BY SideRelIs
  <2>3. HashFuture(type, s) \subseteq SideRel(type, side, B, P)
    BY <1>4, <1>5, <1>8, <2>1, <2>2
  <2> QED BY <1>3, <1>8, <2>3 DEF s, B, P
<1> QED BY <1>6, <1>7, <1>8 DEF Types

\* A new FileHashPartitionJoinState owes what its two sides join to.
LEMMA FreshFileHash ==
    ASSUME NEW type \in Types, NEW T, NEW side \in Sides, type = "Semi" => side = "right",
           NEW b, NEW p, FilesOK(T, b), FilesOK(T, p)
    PROVE  /\ FileHashState(b, p, side) \in JoinStateSet(type, T)
           /\ StateFuture(type, FileHashState(b, p, side))
                 = SideRel(type, side, RowsOf(b), RowsOf(p))
<1> DEFINE s == FileHashState(b, p, side)
           B == RowsOf(b)
           P == RowsOf(p)
<1>1. /\ b \in Seq(SUBSET T) /\ PairwiseDisjoint(b) /\ p \in Seq(SUBSET T) /\ PairwiseDisjoint(p)
      /\ <<>> \in Seq(SUBSET T) /\ PairwiseDisjoint(<<>>)
  BY DEF FilesOK, PairwiseDisjoint
<1>2. FileHashOK(type, T, s)
  BY <1>1 DEF FileHashState, FileHashOK, FileHashStates
<1>3. s \in JoinStateSet(type, T) /\ StateFuture(type, s) = FileHashFuture(type, s)
  BY <1>2, StateKinds
<1>4. /\ s.files = b /\ s.probeFiles = p /\ s.side = side /\ s.build = {} /\ s.probe = <<>>
      /\ s.currentKeys = {} /\ s.matchedKeys = {} /\ s.emitted = FALSE
  BY DEF FileHashState
<1> HIDE DEF s
<1>5. /\ \A S : Joined({}, S, side) = {} /\ SemiRows({}, S) = {} /\ MatchedBuild({}, S) = {}
      /\ UnmatchedBuild({}, side) = {}
  BY NoRows
<1>6. LaterRows(s) = P
  <2>1. ChunkKeys(s) = {}
    BY <1>4, <1>5 DEF ChunkKeys
  <2> QED BY <1>4, <2>1 DEF LaterRows
<1>7. SemiFuture(s) = SemiRows(B, P)
  BY <1>4, <1>5, <1>6 DEF SemiFuture
<1>8. JoinFuture(s) = Joined(B, P, side)
  BY <1>4, <1>5 DEF JoinFuture
<1>9. FullFuture(s) = UnmatchedBuild(B, side) \cup UnmatchedPairs(P, side)
  BY <1>4, <1>5 DEF FullFuture
<1>10. FileHashFuture(type, s) = SideRel(type, side, B, P)
  <2>1. CASE type = "Inner"
    BY <1>8, <2>1, SideRelIs DEF FileHashFuture
  <2>2. CASE type = "Semi"
    BY <1>7, <2>2, SideRelIs DEF FileHashFuture
  <2>3. CASE type = "Full"
    <3>1. SideRel("Full", side, B, P)
            = Joined(B, P, side) \cup UnmatchedBuild(B, side) \cup UnmatchedPairs(P, side)
      BY SideRelIs
    <3> QED BY <1>8, <1>9, <2>3, <3>1 DEF FileHashFuture
  <2> QED BY <2>1, <2>2, <2>3 DEF Types
<1> QED BY <1>3, <1>10 DEF s

\* A new BlockNestedLoopJoinState owes what its two sides join to.
LEMMA FreshBlock ==
    ASSUME NEW T, NEW side \in Sides, NEW b, NEW p, FilesOK(T, b), FilesOK(T, p)
    PROVE  /\ BlockOf(b, p, side) \in JoinStateSet("Inner", T)
           /\ StateFuture("Inner", BlockOf(b, p, side))
                 = SideRel("Inner", side, RowsOf(b), RowsOf(p))
<1> DEFINE s == BlockOf(b, p, side)
<1>1. /\ b \in Seq(SUBSET T) /\ PairwiseDisjoint(b) /\ p \in Seq(SUBSET T) /\ PairwiseDisjoint(p)
  BY DEF FilesOK
<1>2. s = IF side = "left" THEN BlockState(b, p) ELSE BlockState(p, b)
  BY DEF BlockOf
<1>3. BlockOK("Inner", T, s)
  BY <1>1, <1>2 DEF BlockState, BlockOK, BlockStates
<1>4. s \in JoinStateSet("Inner", T) /\ StateFuture("Inner", s) = BlockFuture(s)
  BY <1>3, StateKinds
<1>5. BlockFuture(s) = IF side = "left" THEN Pairs(RowsOf(b), RowsOf(p))
                       ELSE Pairs(RowsOf(p), RowsOf(b))
  BY <1>2, JoinedIsPairs DEF BlockFuture, BlockState
<1>6. SideRel("Inner", side, RowsOf(b), RowsOf(p)) = BlockFuture(s)
  BY <1>5 DEF SideRel, Rel
<1> QED BY <1>4, <1>6

\* The state of an oversized partition or of its heavy rows, for each join type.
LEMMA FreshOversized ==
    ASSUME joinType \in Types, NEW T, NEW side \in Sides, joinType = "Semi" => side = "right",
           NEW b, NEW p, FilesOK(T, b), FilesOK(T, p)
    PROVE  /\ OversizedState(b, p, side) \in JoinStateSet(joinType, T)
           /\ StateFuture(joinType, OversizedState(b, p, side))
                 = SideRel(joinType, side, RowsOf(b), RowsOf(p))
<1>1. CASE joinType \in {"Full", "Semi"}
  BY <1>1, FreshFileHash DEF OversizedState
<1>2. CASE joinType = "Inner"
  <2>1. OversizedState(b, p, side) = BlockOf(b, p, side)
    BY <1>2 DEF OversizedState
  <2>2. /\ BlockOf(b, p, side) \in JoinStateSet("Inner", T)
        /\ StateFuture("Inner", BlockOf(b, p, side))
              = SideRel("Inner", side, RowsOf(b), RowsOf(p))
    BY FreshBlock
  <2> QED BY <1>2, <2>1, <2>2
<1> QED BY <1>1, <1>2 DEF Types

\* A sequence of states that shares out what a partition owes.
Shares(type, T, states, G) ==
    /\ states \in Seq(JoinStateSet(type, T))
    /\ PairwiseDisjoint(Owing(type, states))
    /\ RowsOf(Owing(type, states)) \subseteq G
    /\ type # "Full" => RowsOf(Owing(type, states)) = G

\* A single state that owes G.
LEMMA OneShare ==
    ASSUME NEW type, NEW T, NEW s \in JoinStateSet(type, T), NEW G,
           StateFuture(type, s) \subseteq G, type # "Full" => StateFuture(type, s) = G
    PROVE  Shares(type, T, <<s>>, G)
<1> DEFINE states == <<s>>
           A == Owing(type, states)
<1>1. states \in Seq(JoinStateSet(type, T)) /\ DOMAIN states = {1} /\ states[1] = s
  OBVIOUS
<1> HIDE DEF states
<1>2. DOMAIN A = {1} /\ A[1] = StateFuture(type, s)
  BY <1>1 DEF Owing
<1> HIDE DEF A
<1>3. PairwiseDisjoint(A) /\ RowsOf(A) = A[1]
  BY <1>2 DEF PairwiseDisjoint, RowsOf, Range
<1> QED BY <1>1, <1>2, <1>3 DEF Shares, states, A

\* No state, when nothing is owed.
LEMMA NoShare ==
    ASSUME NEW type, NEW T, NEW G, type # "Full" => G = {}
    PROVE  Shares(type, T, <<>>, G)
<1> DEFINE A == Owing(type, <<>>)
<1>1. DOMAIN A = {}
  BY DEF Owing
<1> HIDE DEF A
<1>2. PairwiseDisjoint(A) /\ RowsOf(A) = {}
  BY <1>1 DEF PairwiseDisjoint, RowsOf, Range
<1>3. <<>> \in Seq(JoinStateSet(type, T))
  OBVIOUS
<1>4. PairwiseDisjoint(Owing(type, <<>>)) /\ RowsOf(Owing(type, <<>>)) = {}
  BY <1>2 DEF A
<1>5. RowsOf(Owing(type, <<>>)) \subseteq G /\ (type # "Full" => RowsOf(Owing(type, <<>>)) = G)
  BY <1>4
<1> QED BY <1>3, <1>4, <1>5 DEF Shares

\* G and H share out D.
Halves(type, D, G, H) ==
    G \cap H = {} /\ G \cup H \subseteq D /\ (type # "Full" => G \cup H = D)

\* The states of two parts of a partition, one after the other.
LEMMA TwoShares ==
    ASSUME NEW type, NEW T, NEW a, NEW b, NEW G, NEW H, NEW D,
           Shares(type, T, a, G), Shares(type, T, b, H), Halves(type, D, G, H)
    PROVE  Shares(type, T, a \o b, D)
<1> DEFINE c == a \o b
           A == Owing(type, a)
           B == Owing(type, b)
           C == Owing(type, c)
           n == Len(a)
           m == Len(b)
<1>1. /\ a \in Seq(JoinStateSet(type, T)) /\ b \in Seq(JoinStateSet(type, T))
      /\ PairwiseDisjoint(A) /\ PairwiseDisjoint(B) /\ RowsOf(A) \subseteq G
      /\ RowsOf(B) \subseteq H
      /\ type # "Full" => RowsOf(A) = G /\ RowsOf(B) = H
  BY DEF Shares
<1>2. /\ c \in Seq(JoinStateSet(type, T)) /\ n \in Nat /\ m \in Nat /\ DOMAIN c = 1..(n + m)
      /\ DOMAIN a = 1..n /\ DOMAIN b = 1..m
      /\ \A i \in 1..n : c[i] = a[i] /\ i \in 1..(n + m)
      /\ \A i \in 1..m : c[n + i] = b[i] /\ n + i \in 1..(n + m)
  BY <1>1
<1> HIDE DEF c, n, m
<1>3. /\ DOMAIN A = 1..n /\ DOMAIN B = 1..m /\ DOMAIN C = 1..(n + m)
      /\ \A i \in 1..n : C[i] = A[i]
      /\ \A i \in 1..m : C[n + i] = B[i]
  BY <1>2 DEF Owing
<1> HIDE DEF A, B, C
<1>4. \A i \in 1..(n + m) : \/ i \in 1..n /\ C[i] = A[i]
                            \/ i - n \in 1..m /\ C[i] = B[i - n]
  <2> TAKE i \in 1..(n + m)
  <2>1. CASE i <= n
    BY <1>2, <1>3, <2>1
  <2>2. CASE i > n
    <3>1. i - n \in 1..m /\ n + (i - n) = i
      BY <1>2, <2>2
    <3> QED BY <1>3, <3>1
  <2> QED BY <1>2, <2>1, <2>2
<1>5. /\ \A i \in DOMAIN A : A[i] \subseteq G
      /\ \A i \in DOMAIN B : B[i] \subseteq H
  BY <1>1 DEF RowsOf, Range
<1>6. PairwiseDisjoint(C)
  <2> SUFFICES ASSUME NEW i \in 1..(n + m), NEW j \in 1..(n + m), i # j
               PROVE  C[i] \cap C[j] = {}
    BY <1>3 DEF PairwiseDisjoint
  <2>1. CASE i \in 1..n /\ j \in 1..n
    BY <1>1, <1>3, <2>1 DEF PairwiseDisjoint
  <2>2. CASE i \in 1..n /\ j \notin 1..n
    <3>1. C[i] \subseteq G /\ C[j] \subseteq H
      BY <1>3, <1>4, <1>5, <2>2
    <3> QED BY <3>1 DEF Halves
  <2>3. CASE i \notin 1..n /\ j \in 1..n
    <3>1. C[j] \subseteq G /\ C[i] \subseteq H
      BY <1>3, <1>4, <1>5, <2>3
    <3> QED BY <3>1 DEF Halves
  <2>4. CASE i \notin 1..n /\ j \notin 1..n
    <3>1. /\ C[i] = B[i - n] /\ C[j] = B[j - n] /\ i - n # j - n
          /\ i - n \in DOMAIN B /\ j - n \in DOMAIN B
      BY <1>2, <1>3, <1>4, <2>4
    <3> QED BY <1>1, <3>1 DEF PairwiseDisjoint
  <2> QED BY <2>1, <2>2, <2>3, <2>4
<1>7. RowsOf(C) = RowsOf(A) \cup RowsOf(B)
  <2>1. /\ RowsOf(A) = UNION {A[i] : i \in 1..n} /\ RowsOf(B) = UNION {B[i] : i \in 1..m}
        /\ RowsOf(C) = UNION {C[i] : i \in 1..(n + m)}
    BY <1>3 DEF RowsOf, Range
  <2>2. ASSUME NEW x \in RowsOf(C) PROVE x \in RowsOf(A) \cup RowsOf(B)
    <3>1. PICK i \in 1..(n + m) : x \in C[i]
      BY <2>1
    <3> QED BY <1>4, <2>1, <3>1
  <2>3. ASSUME NEW x \in RowsOf(A) PROVE x \in RowsOf(C)
    <3>1. PICK i \in 1..n : x \in A[i]
      BY <2>1
    <3> QED BY <1>2, <1>3, <2>1, <3>1
  <2>4. ASSUME NEW x \in RowsOf(B) PROVE x \in RowsOf(C)
    <3>1. PICK i \in 1..m : x \in B[i]
      BY <2>1
    <3>2. n + i \in 1..(n + m) /\ x \in C[n + i]
      BY <1>2, <1>3, <3>1
    <3> QED BY <2>1, <3>2
  <2> QED BY <2>2, <2>3, <2>4
<1>8. RowsOf(C) \subseteq D /\ (type # "Full" => RowsOf(C) = D)
  BY <1>1, <1>7 DEF Halves
<1> QED BY <1>2, <1>6, <1>8 DEF Shares, C, c

\* A state made only when both its sides have files.
LEMMA ShareIfBoth ==
    ASSUME NEW type \in Types, NEW T, NEW side \in Sides, NEW b, NEW p,
           FilesOK(T, b), FilesOK(T, p), NEW s \in JoinStateSet(type, T),
           StateFuture(type, s) \subseteq SideRel(type, side, RowsOf(b), RowsOf(p)),
           type # "Full" => StateFuture(type, s) = SideRel(type, side, RowsOf(b), RowsOf(p))
    PROVE  Shares(type, T, IfBoth(s, b, p), SideRel(type, side, RowsOf(b), RowsOf(p)))
<1> DEFINE G == SideRel(type, side, RowsOf(b), RowsOf(p))
<1>1. CASE b = <<>> \/ p = <<>>
  <2>1. RowsOf(b) = {} \/ RowsOf(p) = {}
    BY <1>1, NoFiles
  <2>2. type # "Full" => G = {}
    BY <2>1, RelEmpty DEF SideRel, Types
  <2>3. IfBoth(s, b, p) = <<>>
    BY <1>1 DEF IfBoth
  <2> HIDE DEF G
  <2> QED BY <2>2, <2>3, NoShare DEF G
<1>2. CASE b # <<>> /\ p # <<>>
  <2>1. IfBoth(s, b, p) = <<s>>
    BY <1>2 DEF IfBoth
  <2> QED BY <2>1, OneShare
<1> QED BY <1>1, <1>2

\* The rows of heavy keys and the other rows with a key.
WithKeyIn(T, K) == {row \in T : Key(row) \in K}
WithKeyNotIn(T, K) == {row \in T : Key(row) \notin K \cup {Null}}

\* Rows of heavy keys and the others, apart.
LEMMA HeavyFiles ==
    ASSUME NEW T, NEW fs, FilesOK(T, fs), NEW K
    PROVE  /\ FilesOK(T, HeavyPart(fs, K))
           /\ RowsOf(HeavyPart(fs, K)) = RowsOf(fs) \cap WithKeyIn(T, K)
           /\ \A i \in DOMAIN HeavyPart(fs, K) :
                 \E j \in DOMAIN fs : HeavyPart(fs, K)[i] \subseteq fs[j]
<1> DEFINE U == WithKeyIn(T, K)
           gs == [b \in DOMAIN fs |-> {row \in fs[b] : Key(row) \in K}]
<1>1. /\ \A b \in DOMAIN fs : fs[b] \subseteq T
      /\ DOMAIN fs = 1..Len(fs) /\ Len(fs) \in Nat /\ PairwiseDisjoint(fs)
  BY DEF FilesOK
<1>2. \A b \in DOMAIN fs : gs[b] = fs[b] \cap U /\ gs[b] \subseteq T
  BY <1>1 DEF WithKeyIn
<1>3. HeavyPart(fs, K) = NonEmpty(gs) /\ DOMAIN gs = DOMAIN fs
  BY DEF HeavyPart
<1> HIDE DEF U
<1>4. FileSeq(T, gs)
  BY <1>1, <1>2 DEF FileSeq
<1> HIDE DEF gs
<1>5. PairwiseDisjoint(fs) /\ Filtered(gs, fs, U)
  BY <1>1, <1>2, <1>3 DEF Filtered
<1>6. /\ FilesOK(T, NonEmpty(gs)) /\ RowsOf(NonEmpty(gs)) = RowsOf(fs) \cap U
      /\ \A i \in DOMAIN NonEmpty(gs) : \E j \in DOMAIN fs : NonEmpty(gs)[i] \subseteq fs[j]
  BY <1>4, <1>5, FilterFiles
<1> QED BY <1>3, <1>6 DEF U

\* split_files_by_key_set: the rows whose key is neither heavy nor NULL.
LEMMA NormalFiles ==
    ASSUME NEW T, NEW fs, FilesOK(T, fs), NEW K
    PROVE  /\ FilesOK(T, NormalPart(fs, K))
           /\ RowsOf(NormalPart(fs, K)) = RowsOf(fs) \cap WithKeyNotIn(T, K)
           /\ \A i \in DOMAIN NormalPart(fs, K) :
                 \E j \in DOMAIN fs : NormalPart(fs, K)[i] \subseteq fs[j]
<1> DEFINE U == WithKeyNotIn(T, K)
           gs == [b \in DOMAIN fs |-> {row \in fs[b] : Key(row) \notin K \cup {Null}}]
<1>1. /\ \A b \in DOMAIN fs : fs[b] \subseteq T
      /\ DOMAIN fs = 1..Len(fs) /\ Len(fs) \in Nat /\ PairwiseDisjoint(fs)
  BY DEF FilesOK
<1>2. \A b \in DOMAIN fs : gs[b] = fs[b] \cap U /\ gs[b] \subseteq T
  BY <1>1 DEF WithKeyNotIn
<1>3. NormalPart(fs, K) = NonEmpty(gs) /\ DOMAIN gs = DOMAIN fs
  BY DEF NormalPart
<1> HIDE DEF U
<1>4. FileSeq(T, gs)
  BY <1>1, <1>2 DEF FileSeq
<1> HIDE DEF gs
<1>5. PairwiseDisjoint(fs) /\ Filtered(gs, fs, U)
  BY <1>1, <1>2, <1>3 DEF Filtered
<1>6. /\ FilesOK(T, NonEmpty(gs)) /\ RowsOf(NonEmpty(gs)) = RowsOf(fs) \cap U
      /\ \A i \in DOMAIN NonEmpty(gs) : \E j \in DOMAIN fs : NonEmpty(gs)[i] \subseteq fs[j]
  BY <1>4, <1>5, FilterFiles
<1> QED BY <1>3, <1>6 DEF U

\* A row of the join is made of two heavy rows or of two others.
LEMMA SplitRel ==
    ASSUME NEW type \in Types, NEW side \in Sides, NEW T, NullRow \notin T, NEW K,
           NEW B, NEW P, B \subseteq T, P \subseteq T
    PROVE  Halves(type, SideRel(type, side, B, P),
                  SideRel(type, side, B \cap WithKeyNotIn(T, K), P \cap WithKeyNotIn(T, K)),
                  SideRel(type, side, B \cap WithKeyIn(T, K), P \cap WithKeyIn(T, K)))
<1> DEFINE G == SideRel(type, side, B \cap WithKeyNotIn(T, K), P \cap WithKeyNotIn(T, K))
           H == SideRel(type, side, B \cap WithKeyIn(T, K), P \cap WithKeyIn(T, K))
           L == IF side = "left" THEN B ELSE P
           R == IF side = "left" THEN P ELSE B
           M == WithKeyNotIn(T, K)
           W == WithKeyIn(T, K)
<1>1. /\ G = Rel(type, L \cap M, R \cap M) /\ H = Rel(type, L \cap W, R \cap W)
      /\ SideRel(type, side, B, P) = Rel(type, L, R) /\ L \subseteq T /\ R \subseteq T
  BY DEF SideRel
<1>2. \A row \in T : Key(row) # Null => row \in M \/ row \in W
  BY DEF WithKeyIn, WithKeyNotIn
<1>3. M \cap W = {}
  BY DEF WithKeyIn, WithKeyNotIn
<1>4. \A l \in T, r \in T : Key(l) = Key(r) => (l \in W <=> r \in W)
  BY DEF WithKeyIn
<1> HIDE DEF L, R, M, W, G, H
<1>5. G \cap H = {}
  BY <1>1, <1>3, RelDisjoint
<1>6. G \cup H \subseteq Rel(type, L, R)
  <2>1. L \cap M \subseteq L /\ R \cap M \subseteq R /\ L \cap W \subseteq L /\ R \cap W \subseteq R
    OBVIOUS
  <2>2. Rel(type, L \cap M, R \cap M) \subseteq Rel(type, L, R)
    BY <2>1, RelMono
  <2>3. Rel(type, L \cap W, R \cap W) \subseteq Rel(type, L, R)
    BY <2>1, RelMono
  <2> QED BY <1>1, <2>2, <2>3
<1>7. ASSUME type # "Full", NEW x \in Rel(type, L, R) PROVE x \in G \cup H
  <2>1. PICK l \in L, r \in R : Key(l) = Key(r) /\ Key(l) # Null /\ x \in Rel(type, {l}, {r})
    BY <1>7, RelCover DEF Types
  <2>2. l \in T /\ r \in T
    BY <1>1
  <2>3. (l \in L \cap M /\ r \in R \cap M) \/ (l \in L \cap W /\ r \in R \cap W)
    BY <1>2, <1>4, <2>1, <2>2
  <2>4. \A X, Y : l \in X /\ r \in Y => x \in Rel(type, X, Y)
    <3> TAKE X, Y
    <3> HAVE l \in X /\ r \in Y
    <3>1. Rel(type, {l}, {r}) \subseteq Rel(type, X, Y)
      BY RelMono
    <3> QED BY <2>1, <3>1
  <2> QED BY <1>1, <2>3, <2>4
<1>8. Halves(type, SideRel(type, side, B, P), G, H)
  BY <1>1, <1>5, <1>6, <1>7 DEF Halves
<1> QED BY <1>8 DEF G, H

\* The states made for a partition share out its rows.
LEMMA JoinStatesShare ==
    ASSUME joinType \in Types, NEW T, NullRow \notin T, NEW side \in Sides,
           joinType = "Semi" => side = "right", NEW b, NEW p, FilesOK(T, b), FilesOK(T, p),
           NEW oversized \in BOOLEAN
    PROVE  Shares(joinType, T, JoinStates(b, p, side, oversized),
                  SideRel(joinType, side, RowsOf(b), RowsOf(p)))
<1> DEFINE D == SideRel(joinType, side, RowsOf(b), RowsOf(p))
           K == HeavyKeys(b)
           nb == NormalPart(b, K)
           np == NormalPart(p, K)
           hb == HeavyPart(b, K)
           hp == HeavyPart(p, K)
           normal == IF oversized THEN FileHashState(nb, np, side) ELSE HashState(nb, np, side)
           heavy == OversizedState(hb, hp, side)
           G == SideRel(joinType, side, RowsOf(nb), RowsOf(np))
           H == SideRel(joinType, side, RowsOf(hb), RowsOf(hp))
<1>1. CASE K = {} /\ oversized
  <2>1. JoinStates(b, p, side, oversized) = <<OversizedState(b, p, side)>>
    BY <1>1 DEF JoinStates
  <2> HIDE DEF K, D
  <2>2. /\ OversizedState(b, p, side) \in JoinStateSet(joinType, T)
        /\ StateFuture(joinType, OversizedState(b, p, side))
              = SideRel(joinType, side, RowsOf(b), RowsOf(p))
    BY ONLY FreshOversized, SMTT(20), joinType \in Types, side \in Sides,
            joinType = "Semi" => side = "right", FilesOK(T, b), FilesOK(T, p)
  <2>3. StateFuture(joinType, OversizedState(b, p, side)) = D
    BY <2>2 DEF D
  <2>4. Shares(joinType, T, <<OversizedState(b, p, side)>>, D)
    BY <2>2, <2>3, OneShare
  <2> QED BY <2>1, <2>4 DEF D
<1>2. CASE K = {} /\ ~oversized
  <2>1. JoinStates(b, p, side, oversized) = <<HashState(b, p, side)>>
    BY <1>2 DEF JoinStates
  <2>2. /\ HashState(b, p, side) \in JoinStateSet(joinType, T)
        /\ StateFuture(joinType, HashState(b, p, side)) \subseteq D
        /\ joinType # "Full" => StateFuture(joinType, HashState(b, p, side)) = D
    BY FreshHash
  <2> HIDE DEF D
  <2>3. Shares(joinType, T, <<HashState(b, p, side)>>, D)
    BY <2>2, OneShare
  <2> QED BY <2>1, <2>3 DEF D
<1>3. CASE K # {}
  <2>1. JoinStates(b, p, side, oversized) = IfBoth(normal, nb, np) \o IfBoth(heavy, hb, hp)
    BY <1>3 DEF JoinStates
  <2>2. FilesOK(T, nb) /\ FilesOK(T, np) /\ FilesOK(T, hb) /\ FilesOK(T, hp)
    BY HeavyFiles, NormalFiles
  <2>3. /\ RowsOf(nb) = RowsOf(b) \cap WithKeyNotIn(T, K)
        /\ RowsOf(np) = RowsOf(p) \cap WithKeyNotIn(T, K)
        /\ RowsOf(hb) = RowsOf(b) \cap WithKeyIn(T, K)
        /\ RowsOf(hp) = RowsOf(p) \cap WithKeyIn(T, K)
    BY HeavyFiles, NormalFiles
  <2> HIDE DEF nb, np, hb, hp, K
  <2>4. /\ normal \in JoinStateSet(joinType, T) /\ StateFuture(joinType, normal) \subseteq G
        /\ joinType # "Full" => StateFuture(joinType, normal) = G
    <3>1. CASE oversized
      BY <2>2, <3>1, FreshFileHash
    <3>2. CASE ~oversized
      BY <2>2, <3>2, FreshHash
    <3> QED BY <3>1, <3>2
  <2>5. heavy \in JoinStateSet(joinType, T) /\ StateFuture(joinType, heavy) = H
    BY <2>2, FreshOversized
  <2> HIDE DEF normal, heavy
  <2>6. Shares(joinType, T, IfBoth(normal, nb, np), G)
    BY <2>2, <2>4, ShareIfBoth
  <2>7. Shares(joinType, T, IfBoth(heavy, hb, hp), H)
    BY <2>2, <2>5, ShareIfBoth
  <2>8. RowsOf(b) \subseteq T /\ RowsOf(p) \subseteq T
    BY RowsIn
  <2>9. Halves(joinType, D,
               SideRel(joinType, side, RowsOf(b) \cap WithKeyNotIn(T, K),
                       RowsOf(p) \cap WithKeyNotIn(T, K)),
               SideRel(joinType, side, RowsOf(b) \cap WithKeyIn(T, K),
                       RowsOf(p) \cap WithKeyIn(T, K)))
    BY <2>8, SplitRel
  <2>10. Halves(joinType, D, G, H)
    BY <2>3, <2>9
  <2> HIDE DEF D, G, H
  <2>11. Shares(joinType, T, IfBoth(normal, nb, np) \o IfBoth(heavy, hb, hp), D)
    BY <2>6, <2>7, <2>10, TwoShares
  <2> QED BY <2>1, <2>11 DEF D
<1> QED BY <1>1, <1>2, <1>3

\* prepare_partition_join of a partition both sides of which have files.
LEMMA PreparedShare ==
    ASSUME joinType \in Types, NEW T, NullRow \notin T, NEW t, TaskOK(T, t)
    PROVE  Shares(joinType, T, PreparedStates(t), TaskFuture(joinType, t))
<1>1. FilesOK(T, t.left) /\ FilesOK(T, t.right)
  BY DEF TaskOK, TaskSet, FilesOK
<1> DEFINE oversized == SmallerSide(t) > memoryLimit
<1>2. oversized \in BOOLEAN
  OBVIOUS
<1> HIDE DEF oversized
<1>3. CASE BuildSide(t) = "left"
  <2>1. PreparedStates(t) = JoinStates(t.left, t.right, "left", oversized) /\ joinType # "Semi"
    BY <1>3 DEF PreparedStates, oversized, BuildSide
  <2>2. Shares(joinType, T, JoinStates(t.left, t.right, "left", oversized),
               SideRel(joinType, "left", RowsOf(t.left), RowsOf(t.right)))
    BY <1>1, <1>2, <2>1, JoinStatesShare DEF Sides
  <2> QED BY <2>1, <2>2 DEF SideRel, TaskFuture
<1>4. CASE BuildSide(t) # "left"
  <2>1. PreparedStates(t) = JoinStates(t.right, t.left, "right", oversized)
    BY <1>4 DEF PreparedStates, oversized
  <2>2. Shares(joinType, T, JoinStates(t.right, t.left, "right", oversized),
               SideRel(joinType, "right", RowsOf(t.right), RowsOf(t.left)))
    BY <1>1, <1>2, JoinStatesShare DEF Sides
  <2> QED BY <2>1, <2>2 DEF SideRel, TaskFuture
<1> QED BY <1>3, <1>4

-----------------------------------------------------------------------------
(* The inputs.                                                             *)
LEMMA InputFiles ==
    ASSUME NEW side \in Sides, NEW input \in Seq(AnyBatch)
    PROVE  /\ RowSet(RowsOf(BatchesOf(side, input)))
           /\ FilesOK(RowsOf(BatchesOf(side, input)), BatchesOf(side, input))
<1> DEFINE fs == BatchesOf(side, input)
           T == RowsOf(fs)
<1>1. /\ DOMAIN fs = 1..Len(input) /\ Len(input) \in Nat
      /\ \A b \in 1..Len(input) : fs[b] = BatchOf(side, input[b], b) /\ input[b] \in AnyBatch
  BY DEF BatchesOf
<1>2. \A b \in 1..Len(input) : \A row \in fs[b] :
          /\ row[2] = b /\ row # NullRow /\ row[4] \in Keys \cup {Null}
  <2> TAKE b \in 1..Len(input)
  <2>1. CASE input[b] = Broken
    BY <1>1, <2>1 DEF BatchOf
  <2>2. CASE input[b] # Broken
    <3>1. input[b] \in Seq(Keys \cup {Null})
      BY <1>1, <2>2 DEF AnyBatch
    <3>2. \A i \in DOMAIN input[b] : input[b][i] \in Keys \cup {Null}
      BY <3>1
    <3>3. fs[b] = {<<side, b, i, input[b][i]>> : i \in DOMAIN input[b]}
      BY <1>1, <2>2 DEF BatchOf
    <3> QED BY <3>2, <3>3 DEF NullRow
  <2> QED BY <2>1, <2>2
<1>3. \A b \in 1..Len(input) : fs[b] \subseteq T
  BY <1>1 DEF RowsOf, Range
<1>4. fs \in Seq(SUBSET T)
  <2>1. fs = [b \in 1..Len(input) |-> fs[b]]
    BY <1>1 DEF BatchesOf
  <2> HIDE DEF fs, T
  <2> QED BY <1>1, <1>3, <2>1
<1>5. PairwiseDisjoint(fs)
  BY <1>1, <1>2 DEF PairwiseDisjoint
<1>6. \A row \in T : \E b \in 1..Len(input) : row \in fs[b]
  BY <1>1 DEF RowsOf, Range
<1>7. RowSet(T)
  BY <1>2, <1>6 DEF RowSet, Key
<1> QED BY <1>4, <1>5, <1>7 DEF FilesOK

\* Files of rows of T are files of rows of any larger set.
LEMMA WiderFiles ==
    ASSUME NEW T, NEW fs, FilesOK(T, fs), NEW S, T \subseteq S
    PROVE  FilesOK(S, fs)
<1>1. fs \in Seq(SUBSET T) /\ PairwiseDisjoint(fs)
  BY DEF FilesOK
<1>2. fs \in Seq(SUBSET S)
  BY <1>1
<1> QED BY <1>1, <1>2 DEF FilesOK

\* The SQL join of the inputs is Rel of their rows.
LEMMA SqlJoinIs ==
    ASSUME NEW type \in {"Inner", "Semi"}, NEW l, NEW r
    PROVE  SqlJoin(type, l, r) = Rel(type, RowsOf(BatchesOf("left", l)),
                                     RowsOf(BatchesOf("right", r)))
<1>1. CASE type = "Inner"
  BY <1>1 DEF SqlJoin, Rel, Pairs
<1>2. CASE type = "Semi"
  BY <1>2 DEF SqlJoin, Rel, Pairs
<1> QED BY <1>1, <1>2

\* Handing on rows that were not handed on before.
LEMMA BagEmit ==
    ASSUME NEW O, NEW E, O \cap E = {}
    PROVE  SetToBag(O) (+) SetToBag(E) = SetToBag(O \cup E)
  BY DEF SetToBag, (+)

\* next_build_batch_chunk takes at least one file, and more than one only if they fit.
LEMMA ChunkLengthIn ==
    ASSUME NEW T, NEW fs \in Seq(SUBSET T), fs # <<>>
    PROVE  /\ ChunkLength(fs) \in 1..Len(fs)
           /\ ChunkLength(fs) = 1 \/ Bytes(SubSeq(fs, 1, ChunkLength(fs))) <= memoryLimit
<1> DEFINE fits(n) == n = 1 \/ Bytes(SubSeq(fs, 1, n)) <= memoryLimit
           P(n) == (\A m \in 1..n : fits(m)) /\ (n = Len(fs) \/ ~fits(n + 1))
           S == {n \in 1..Len(fs) : n = Len(fs) \/ ~fits(n + 1)}
<1>1. Len(fs) \in Nat /\ Len(fs) >= 1
  OBVIOUS
<1>2. \E n \in 1..Len(fs) : P(n)
  <2>1. S \subseteq Nat /\ Len(fs) \in S
    BY <1>1
  <2> HIDE DEF fits
  <2>2. PICK n \in S : \A m \in S : n <= m
    <3> HIDE DEF S
    <3> QED BY <2>1, NatLeast
  <2>3. fits(1)
    BY DEF fits
  <2>4. \A m \in 1..n : fits(m)
    <3> TAKE m \in 1..n
    <3>1. CASE m = 1
      BY <2>3, <3>1
    <3>2. CASE m # 1
      <4>1. m - 1 \in 1..Len(fs) /\ m - 1 < n /\ m - 1 # Len(fs) /\ (m - 1) + 1 = m
        BY <1>1, <2>2, <3>2
      <4>2. m - 1 \notin S
        <5> HIDE DEF S
        <5>1. n \in Nat
          BY <2>1, <2>2
        <5> QED BY <2>2, <4>1, <5>1
      <4> QED BY <4>1, <4>2
    <3> QED BY <3>1, <3>2
  <2> QED BY <2>2, <2>4
<1>3. ChunkLength(fs) = CHOOSE n \in 1..Len(fs) : P(n)
  BY DEF ChunkLength
<1> HIDE DEF P
<1>4. ChunkLength(fs) \in 1..Len(fs) /\ P(ChunkLength(fs))
  BY <1>2, <1>3
<1> QED BY <1>1, <1>4 DEF P

\* The first task is replaced by states.
LEMMA TaskOpen ==
    ASSUME NEW type, NEW T, NEW O, NEW tasks \in Seq(TasksOK(T)), tasks # <<>>, NEW Target,
           Ledger(type, O, Owed(type, tasks), Owing(type, <<>>), Target),
           NEW states, Shares(type, T, states, TaskFuture(type, Head(tasks)))
    PROVE  /\ Tail(tasks) \in Seq(TasksOK(T)) /\ states \in Seq(JoinStateSet(type, T))
           /\ Ledger(type, O, Owed(type, Tail(tasks)), Owing(type, states), Target)
<1> DEFINE next == Tail(tasks)
           P == Owed(type, tasks)
           P2 == Owed(type, next)
           A == Owing(type, <<>>)
           A2 == Owing(type, states)
           n == Len(tasks) - 1
<1>1. /\ next \in Seq(TasksOK(T)) /\ DOMAIN next = 1..n /\ n \in Nat
      /\ DOMAIN tasks = 1..(n + 1) /\ Head(tasks) = tasks[1]
      /\ \A j \in 1..n : next[j] = tasks[j + 1] /\ j + 1 \in 1..(n + 1)
  OBVIOUS
<1> HIDE DEF next, n
<1>2. /\ DOMAIN P = 1..(n + 1) /\ DOMAIN P2 = 1..n /\ DOMAIN A = {}
      /\ P[1] = TaskFuture(type, tasks[1])
      /\ \A j \in 1..n : P2[j] = P[j + 1]
  BY <1>1 DEF Owed, Owing
<1> HIDE DEF P, P2, A, A2
<1>3. Ledger(type, O, P, A, Target)
  BY DEF P, A
<1>4. /\ PairwiseDisjoint(A2) /\ RowsOf(A2) \subseteq P[1] /\ (type # "Full" => RowsOf(A2) = P[1])
      /\ states \in Seq(JoinStateSet(type, T))
  BY <1>1, <1>2 DEF Shares, A2
<1>5. Ledger(type, O, P2, A2, Target)
  BY <1>1, <1>2, <1>3, <1>4, LedgerOpen
<1> QED BY <1>1, <1>4, <1>5 DEF P2, A2, next

\* Rows without a NULL key stay what they are when NULL keys are dropped again.
LEMMA WithKeyOnce ==
    ASSUME NEW T
    PROVE  WithKey(WithKey(T)) = WithKey(T) /\ (RowSet(T) => RowSet(WithKey(T)))
  BY DEF WithKey, RowSet

\* The elements of a concatenation.
LEMMA Concat ==
    ASSUME NEW S, NEW a \in Seq(S), NEW b \in Seq(S)
    PROVE  /\ a \o b \in Seq(S) /\ DOMAIN (a \o b) = 1..(Len(a) + Len(b))
           /\ \A j \in 1..Len(a) : (a \o b)[j] = a[j] /\ j \in 1..(Len(a) + Len(b))
           /\ \A j \in 1..Len(b) :
                 (a \o b)[Len(a) + j] = b[j] /\ Len(a) + j \in 1..(Len(a) + Len(b))
  OBVIOUS

\* The first task is replaced by the tasks of its partitions, at the end.
LEMMA TaskRepartition ==
    ASSUME NEW type \in Types, hash \in Hashes, NEW T, RowSet(T), WithKey(T) = T, NEW O,
           NEW tasks \in Seq(TasksOK(T)), tasks # <<>>, NEW Target,
           Ledger(type, O, Owed(type, tasks), Owing(type, <<>>), Target),
           NEW t, t = Head(tasks), t.depth < MaxDepth
    PROVE  /\ Tail(tasks) \o TasksOf(t.left, t.right, t.depth + 1) \in Seq(TasksOK(T))
           /\ Ledger(type, O,
                     Owed(type, Tail(tasks) \o TasksOf(t.left, t.right, t.depth + 1)),
                     Owing(type, <<>>), Target)
<1> DEFINE d == t.depth + 1
           new == TasksOf(t.left, t.right, d)
           rest == Tail(tasks)
           next == rest \o new
           P == Owed(type, tasks)
           P2 == Owed(type, next)
           Q == Owed(type, new)
           A == Owing(type, <<>>)
           n == Len(tasks) - 1
<1>1. /\ rest \in Seq(TasksOK(T)) /\ Len(rest) = n /\ n \in Nat
      /\ DOMAIN tasks = 1..(n + 1) /\ t = tasks[1] /\ t \in TasksOK(T)
      /\ \A j \in 1..n : rest[j] = tasks[j + 1] /\ j + 1 \in 1..(n + 1)
  OBVIOUS
<1>2. FilesOK(T, t.left) /\ FilesOK(T, t.right) /\ t.depth \in 0..MaxDepth
  BY <1>1 DEF TasksOK, TaskOK, TaskSet, FilesOK
<1>3. d \in 0..MaxDepth /\ MaxDepth \in Nat /\ Partitions \in Nat
  BY <1>2, JoinAssumption
<1> HIDE DEF d, n
<1>4. Splits(type, T, new, Rel(type, RowsOf(t.left), RowsOf(t.right)))
  BY <1>2, <1>3, TasksSplit
<1> HIDE DEF new, rest
<1>5. new \in Seq(TasksOK(T)) /\ Len(new) = Partitions
  BY <1>4 DEF Splits
<1>6. /\ DOMAIN Q = 1..Partitions /\ PairwiseDisjoint(Q)
      /\ RowsOf(Q) \subseteq Rel(type, RowsOf(t.left), RowsOf(t.right))
      /\ type # "Full" => RowsOf(Q) = Rel(type, RowsOf(t.left), RowsOf(t.right))
  BY <1>4, <1>5 DEF Splits, Owed
<1>7. Len(rest) = n /\ n \in Nat
  BY <1>1
<1>8. /\ next \in Seq(TasksOK(T)) /\ DOMAIN next = 1..(n + Partitions)
      /\ \A j \in 1..n : next[j] = tasks[j + 1] /\ j \in 1..(n + Partitions)
      /\ \A j \in 1..Partitions : next[n + j] = new[j] /\ n + j \in 1..(n + Partitions)
  <2>1. rest \in Seq(TasksOK(T)) /\ new \in Seq(TasksOK(T)) /\ Partitions \in Nat
    BY <1>1, <1>3, <1>5
  <2>2. /\ next \in Seq(TasksOK(T)) /\ DOMAIN next = 1..(n + Partitions)
        /\ \A j \in 1..n : next[j] = rest[j] /\ j \in 1..(n + Partitions)
        /\ \A j \in 1..Partitions : next[n + j] = new[j] /\ n + j \in 1..(n + Partitions)
    <3>1. /\ next \in Seq(TasksOK(T)) /\ DOMAIN next = 1..(Len(rest) + Len(new))
          /\ \A j \in 1..Len(rest) : next[j] = rest[j] /\ j \in 1..(Len(rest) + Len(new))
          /\ \A j \in 1..Len(new) :
                next[Len(rest) + j] = new[j] /\ Len(rest) + j \in 1..(Len(rest) + Len(new))
      BY <2>1, Concat
    <3> HIDE DEF next
    <3> QED BY <1>5, <1>7, <3>1
  <2> HIDE DEF next
  <2> QED BY <1>1, <2>2
<1> HIDE DEF next
<1>9. /\ DOMAIN P = 1..(n + 1) /\ DOMAIN P2 = 1..(n + Partitions) /\ DOMAIN A = {}
      /\ P[1] = TaskFuture(type, t)
      /\ \A j \in 1..n : P2[j] = P[j + 1]
      /\ \A j \in 1..Partitions : P2[n + j] = Q[j]
  <2>1. /\ DOMAIN P = 1..(n + 1) /\ DOMAIN P2 = 1..(n + Partitions) /\ DOMAIN A = {}
        /\ P[1] = TaskFuture(type, t)
    BY <1>1, <1>8 DEF Owed, Owing
  <2>2. \A j \in 1..n : P2[j] = P[j + 1]
    BY <1>1, <1>8 DEF Owed
  <2>3. \A j \in 1..Partitions : P2[n + j] = Q[j]
    BY <1>5, <1>8 DEF Owed
  <2> QED BY <2>1, <2>2, <2>3
<1> HIDE DEF P, P2, A, Q
<1>10. Ledger(type, O, P, A, Target)
  BY DEF P, A
<1>11. RowsOf(Q) \subseteq P[1] /\ (type # "Full" => RowsOf(Q) = P[1])
  BY <1>6, <1>9 DEF TaskFuture
<1>12. Ledger(type, O, P2, A, Target)
  <2>1. Appended(P2, P, Q, n, Partitions)
    BY <1>3, <1>6, <1>7, <1>9 DEF Appended
  <2> QED BY <1>6, <1>9, <1>10, <1>11, <2>1, LedgerSplit
<1> QED BY <1>8, <1>12 DEF P2, A, next, rest, new, d

-----------------------------------------------------------------------------
(* The inductive invariant.                                                *)
\* The rows of the inputs, and those that are spilled.
Rows == RowsOf(BatchesOf("left", left)) \cup RowsOf(BatchesOf("right", right))
Keyed == WithKey(Rows)

\* The types of the variables that are not in the ledger.
TypeInv ==
    /\ left \in Seq(AnyBatch) /\ right \in Seq(AnyBatch)
    /\ joinType \in Types /\ memoryLimit \in Nat \ {0} /\ hash \in Hashes
    /\ spilled \in BOOLEAN /\ status \in {"running", "done", "error"}

\* Nothing happens before the inputs are spilled; the stream ends when nothing is left.
PhaseInv ==
    /\ ~spilled => pending = <<>> /\ active = <<>> /\ out = SetToBag({}) /\ status = "running"
    /\ status = "done" => spilled /\ pending = <<>> /\ active = <<>>

\* No row is in the output twice.
OutInv == out = SetToBag(DOMAIN out)

\* The tasks and states are well formed and keep the ledger of the SQL join.
LedgerInv ==
    /\ pending \in Seq(TasksOK(Keyed))
    /\ active \in Seq(JoinStateSet(joinType, Keyed))
    /\ Ledger(joinType, DOMAIN out, Owed(joinType, pending), Owing(joinType, active),
              SqlJoin(joinType, left, right))

\* The inductive invariant.
IInv == TypeInv /\ PhaseInv /\ OutInv /\ (spilled /\ status # "error" => LedgerInv)

\* The inputs as files of rows.
LEMMA InputRows ==
    ASSUME TypeInv
    PROVE  /\ RowSet(Rows) /\ RowSet(Keyed) /\ NullRow \notin Keyed /\ WithKey(Keyed) = Keyed
           /\ FilesOK(Rows, BatchesOf("left", left)) /\ FilesOK(Rows, BatchesOf("right", right))
<1> DEFINE L == RowsOf(BatchesOf("left", left))
           R == RowsOf(BatchesOf("right", right))
<1>1. /\ RowSet(L) /\ FilesOK(L, BatchesOf("left", left))
      /\ RowSet(R) /\ FilesOK(R, BatchesOf("right", right))
  BY InputFiles DEF TypeInv, Sides
<1> HIDE DEF L, R
<1>2. Rows = L \cup R
  BY DEF Rows, L, R
<1>3. RowSet(Rows)
  BY <1>1, <1>2 DEF RowSet
<1>4. FilesOK(Rows, BatchesOf("left", left)) /\ FilesOK(Rows, BatchesOf("right", right))
  BY <1>1, <1>2, WiderFiles
<1>5. RowSet(Keyed) /\ WithKey(Keyed) = Keyed
  BY <1>3, WithKeyOnce DEF Keyed
<1> QED BY <1>3, <1>4, <1>5 DEF RowSet

\* The invariant holds before the inputs are read.
LEMMA InitInv ==
    Init => IInv
<1> SUFFICES ASSUME Init PROVE IInv
  OBVIOUS
<1>1. PICK q \in Queries : /\ left = q.left /\ right = q.right
                           /\ joinType = q.type /\ memoryLimit = q.limit
  BY DEF Init
<1>2. TypeInv
  BY <1>1, JoinAssumption DEF Init, TypeInv, Types
<1>3. out = SetToBag({})
  BY DEF Init, EmptyBag
<1>4. OutInv
  BY <1>3 DEF OutInv, SetToBag
<1> QED BY <1>2, <1>3, <1>4 DEF Init, IInv, PhaseInv

\* The running state replaces itself and hands on the rows E.
LEMMA EmitPreserves ==
    ASSUME IInv, status = "running", active # <<>>, NEW s2 \in JoinStateSet(joinType, Keyed), NEW E,
           Pays(joinType, E, StateFuture(joinType, s2), StateFuture(joinType, Head(active))),
           active' = [active EXCEPT ![1] = s2],
           out' = out (+) SetToBag(E) \/ (E = {} /\ out' = out),
           UNCHANGED <<query, spilled, pending, status>>
    PROVE  IInv'
<1>1. spilled /\ LedgerInv /\ OutInv /\ TypeInv
  BY DEF IInv, PhaseInv, TypeInv
<1> DEFINE O == DOMAIN out
           P == Owed(joinType, pending)
           G == SqlJoin(joinType, left, right)
<1>2. /\ active \in Seq(JoinStateSet(joinType, Keyed))
      /\ Ledger(joinType, O, P, Owing(joinType, active), G)
  BY <1>1 DEF LedgerInv
<1> HIDE DEF O, P, G
<1>3. /\ active' \in Seq(JoinStateSet(joinType, Keyed))
      /\ Ledger(joinType, O \cup E, P, Owing(joinType, active'), G)
      /\ O \cap E = {}
  BY <1>2, StateStep
<1>4. out = SetToBag(O)
  BY <1>1 DEF OutInv, O
<1>5. out' = SetToBag(O \cup E)
  <2>1. CASE out' = out (+) SetToBag(E)
    BY <1>3, <1>4, <2>1, BagEmit
  <2>2. CASE E = {} /\ out' = out
    BY <1>4, <2>2
  <2> QED BY <2>1, <2>2
<1>6. DOMAIN out' = O \cup E
  BY <1>5 DEF SetToBag
<1>7. /\ left' = left /\ right' = right /\ joinType' = joinType /\ memoryLimit' = memoryLimit
      /\ hash' = hash /\ spilled' = spilled /\ pending' = pending /\ status' = status
  BY DEF query
<1>8. Keyed' = Keyed
  BY <1>7 DEF Keyed, Rows
<1>9. TypeInv'
  BY <1>1, <1>7 DEF TypeInv
<1>10. PhaseInv' /\ OutInv'
  BY <1>1, <1>5, <1>6, <1>7 DEF PhaseInv, OutInv
<1>11. LedgerInv'
  <2>1. pending' \in Seq(TasksOK(Keyed)') /\ active' \in Seq(JoinStateSet(joinType, Keyed)')
    BY <1>1, <1>3, <1>7, <1>8 DEF LedgerInv
  <2>2. Ledger(joinType', DOMAIN out', Owed(joinType', pending'), Owing(joinType', active'),
               SqlJoin(joinType', left', right'))
    BY <1>3, <1>6, <1>7 DEF P, G
  <2> QED BY <2>1, <2>2 DEF LedgerInv
<1> QED BY <1>9, <1>10, <1>11 DEF IInv

\* The running state is dropped.
LEMMA DropPreserves ==
    ASSUME IInv, status = "running", active # <<>>,
           joinType # "Full" => StateFuture(joinType, Head(active)) = {},
           active' = Tail(active), UNCHANGED <<query, spilled, pending, status, out>>
    PROVE  IInv'
<1>1. spilled /\ LedgerInv /\ OutInv /\ TypeInv
  BY DEF IInv, PhaseInv, TypeInv
<1> DEFINE O == DOMAIN out
           P == Owed(joinType, pending)
           G == SqlJoin(joinType, left, right)
<1>2. /\ active \in Seq(JoinStateSet(joinType, Keyed))
      /\ Ledger(joinType, O, P, Owing(joinType, active), G)
  BY <1>1 DEF LedgerInv
<1> HIDE DEF O, P, G
<1>3. /\ active' \in Seq(JoinStateSet(joinType, Keyed))
      /\ Ledger(joinType, O, P, Owing(joinType, active'), G)
  BY <1>2, StateDrop
<1>7. /\ left' = left /\ right' = right /\ joinType' = joinType /\ memoryLimit' = memoryLimit
      /\ hash' = hash /\ spilled' = spilled /\ pending' = pending /\ status' = status
      /\ out' = out
  BY DEF query
<1>8. Keyed' = Keyed
  BY <1>7 DEF Keyed, Rows
<1>9. TypeInv'
  BY <1>1, <1>7 DEF TypeInv
<1>10. PhaseInv' /\ OutInv'
  BY <1>1, <1>7 DEF PhaseInv, OutInv
<1>11. LedgerInv'
  <2>1. pending' \in Seq(TasksOK(Keyed)') /\ active' \in Seq(JoinStateSet(joinType, Keyed)')
    BY <1>1, <1>3, <1>7, <1>8 DEF LedgerInv
  <2>2. Ledger(joinType', DOMAIN out', Owed(joinType', pending'), Owing(joinType', active'),
               SqlJoin(joinType', left', right'))
    BY <1>3, <1>7 DEF P, G, O
  <2> QED BY <2>1, <2>2 DEF LedgerInv
<1> QED BY <1>9, <1>10, <1>11 DEF IInv

\* The running state, which one of them it is.
LEMMA RunningState ==
    ASSUME IInv, NEW kind, Running(kind)
    PROVE  /\ status = "running" /\ active # <<>> /\ joinType \in Types
           /\ NullRow \notin Keyed /\ State \in JoinStateSet(joinType, Keyed)
           /\ State = Head(active) /\ State.kind = kind
<1>1. status = "running" /\ active # <<>> /\ State = Head(active) /\ State.kind = kind
  BY DEF Running, State
<1>2. TypeInv /\ LedgerInv
  BY <1>1 DEF IInv, PhaseInv, TypeInv
<1>3. joinType \in Types /\ NullRow \notin Keyed
  BY <1>2, InputRows DEF TypeInv
<1>4. active \in Seq(JoinStateSet(joinType, Keyed))
  BY <1>2 DEF LedgerInv
<1>5. Head(active) \in JoinStateSet(joinType, Keyed)
  BY <1>1, <1>4
<1> QED BY <1>1, <1>3, <1>5

\* HashPartitionJoinState reads one probe batch.
LEMMA HashProbePreserves ==
    IInv /\ HashProbe => IInv'
<1> SUFFICES ASSUME IInv, HashProbe PROVE IInv'
  OBVIOUS
<1> DEFINE s == State
           E == Probed(joinType, s.build, Head(s.probe), s.side)
           s2 == [s EXCEPT !.probe = Tail(@),
                           !.matched = @ \cup MatchedBuild(s.build, Head(s.probe))]
<1>1. /\ Running("Hash") /\ s.probe # <<>> /\ out' = out (+) SetToBag(E)
      /\ active' = [active EXCEPT ![1] = s2] /\ UNCHANGED <<query, spilled, pending, status>>
  BY DEF HashProbe, Emit, Replace
<1>2. /\ status = "running" /\ active # <<>> /\ joinType \in Types /\ NullRow \notin Keyed
      /\ s \in JoinStateSet(joinType, Keyed) /\ s = Head(active) /\ s.kind = "Hash"
  BY <1>1, RunningState
<1> HIDE DEF s
<1>3. HashOK(joinType, Keyed, s)
  BY <1>2, KindOfState
<1>4. /\ HashOK(joinType, Keyed, s2)
      /\ Pays(joinType, E, HashFuture(joinType, s2), HashFuture(joinType, s))
  BY <1>1, <1>2, <1>3, HashProbeStep
<1> HIDE DEF s2, E
<1>5. /\ s2 \in JoinStateSet(joinType, Keyed)
      /\ StateFuture(joinType, s2) = HashFuture(joinType, s2)
      /\ StateFuture(joinType, s) = HashFuture(joinType, s)
  BY <1>3, <1>4, StateKinds
<1> QED BY <1>1, <1>2, <1>4, <1>5, EmitPreserves

\* HashPartitionJoinState after its last probe batch: a FULL join emits, others finish.
LEMMA HashEndPreserves ==
    IInv /\ HashEnd => IInv'
<1> SUFFICES ASSUME IInv, HashEnd PROVE IInv'
  OBVIOUS
<1> DEFINE s == State
           U == s.build \ s.matched
           E == UnmatchedBuild(U, s.side)
           s2 == [s EXCEPT !.emitted = TRUE]
<1>1. /\ Running("Hash") /\ s.probe = <<>> /\ UNCHANGED <<query, spilled, pending, status>>
      /\ \/ /\ joinType = "Full" /\ ~s.emitted /\ out' = out (+) SetToBag(E)
            /\ active' = [active EXCEPT ![1] = s2]
         \/ ~(joinType = "Full" /\ ~s.emitted) /\ active' = Tail(active) /\ out' = out
  BY DEF HashEnd, Emit, Replace, Finish
<1>2. /\ status = "running" /\ active # <<>> /\ joinType \in Types /\ NullRow \notin Keyed
      /\ s \in JoinStateSet(joinType, Keyed) /\ s = Head(active) /\ s.kind = "Hash"
  BY <1>1, RunningState
<1> HIDE DEF s
<1>3. HashOK(joinType, Keyed, s) /\ StateFuture(joinType, s) = HashFuture(joinType, s)
  BY <1>2, KindOfState, StateKinds
<1>4. CASE /\ joinType = "Full" /\ ~s.emitted /\ out' = out (+) SetToBag(E)
           /\ active' = [active EXCEPT ![1] = s2]
  <2>1. U \subseteq s.build
    OBVIOUS
  <2> HIDE DEF U
  <2>2. HashOK("Full", Keyed, s2) /\ Pays("Full", E, HashFuture("Full", s2), HashFuture("Full", s))
    BY <1>1, <1>2, <1>3, <1>4, <2>1, HashEmitStep
  <2> HIDE DEF s2, E
  <2>3. /\ s2 \in JoinStateSet(joinType, Keyed)
        /\ StateFuture(joinType, s2) = HashFuture(joinType, s2)
    BY <1>4, <2>2, StateKinds
  <2> QED BY <1>1, <1>2, <1>3, <1>4, <2>2, <2>3, EmitPreserves
<1>5. CASE ~(joinType = "Full" /\ ~s.emitted) /\ active' = Tail(active) /\ out' = out
  <2>1. joinType # "Full" => HashFuture(joinType, s) = {}
    BY <1>1, <1>2, <1>3, HashDone DEF Types
  <2> QED BY <1>1, <1>2, <1>3, <1>5, <2>1, DropPreserves
<1> QED BY <1>1, <1>4, <1>5

\* FileHashPartitionJoinState reads the next chunk of its build side.
LEMMA FileHashChunkPreserves ==
    IInv /\ FileHashChunk => IInv'
<1> SUFFICES ASSUME IInv, FileHashChunk PROVE IInv'
  OBVIOUS
<1> DEFINE s == State
           k == ChunkLength(s.files)
           s2 == [s EXCEPT !.build = RowsOf(SubSeq(s.files, 1, k)),
                           !.files = SubSeq(@, k + 1, Len(@)),
                           !.probe = s.probeFiles,
                           !.matched = {}, !.currentKeys = {}]
<1>1. /\ Running("FileHash") /\ s.build = {} /\ s.files # <<>> /\ out' = out
      /\ active' = [active EXCEPT ![1] = s2] /\ UNCHANGED <<query, spilled, pending, status>>
  BY DEF FileHashChunk, Replace
<1>2. /\ status = "running" /\ active # <<>> /\ joinType \in Types /\ NullRow \notin Keyed
      /\ s \in JoinStateSet(joinType, Keyed) /\ s = Head(active) /\ s.kind = "FileHash"
  BY <1>1, RunningState
<1> HIDE DEF s
<1>3. FileHashOK(joinType, Keyed, s) /\ StateFuture(joinType, s) = FileHashFuture(joinType, s)
  BY <1>2, KindOfState, StateKinds
<1>4. k \in 1..Len(s.files)
  <2>1. s.files \in Seq(SUBSET Keyed)
    BY <1>3, FileHashFiles DEF FilesOK
  <2> QED BY <1>1, <2>1, ChunkLengthIn
<1> HIDE DEF k
<1>5. /\ FileHashOK(joinType, Keyed, s2)
      /\ Pays(joinType, {}, FileHashFuture(joinType, s2), FileHashFuture(joinType, s))
  BY <1>1, <1>2, <1>3, <1>4, FileHashChunkStep
<1> HIDE DEF s2
<1>6. /\ s2 \in JoinStateSet(joinType, Keyed)
      /\ StateFuture(joinType, s2) = FileHashFuture(joinType, s2)
  BY <1>5, StateKinds
<1> QED BY <1>1, <1>2, <1>3, <1>5, <1>6, EmitPreserves

\* FileHashPartitionJoinState reads one probe batch.
LEMMA FileHashProbePreserves ==
    IInv /\ FileHashProbe => IInv'
<1> SUFFICES ASSUME IInv, FileHashProbe PROVE IInv'
  OBVIOUS
<1> DEFINE s == State
           N == {p \in Head(s.probe) : Key(p) \notin s.matchedKeys}
           Q == IF joinType = "Semi" THEN N ELSE Head(s.probe)
           E == Probed(IF joinType = "Semi" THEN "Semi" ELSE "Inner", s.build, Q, s.side)
           s2 == [s EXCEPT !.probe = Tail(@),
                  !.matched = @ \cup MatchedBuild(s.build, Q),
                  !.currentKeys = @ \cup {Key(b) : b \in MatchedBuild(s.build, Q)}]
<1>1. /\ Running("FileHash") /\ s.build # {} /\ s.probe # <<>> /\ out' = out (+) SetToBag(E)
      /\ active' = [active EXCEPT ![1] = s2] /\ UNCHANGED <<query, spilled, pending, status>>
  BY DEF FileHashProbe, Emit, Replace
<1>2. /\ status = "running" /\ active # <<>> /\ joinType \in Types /\ NullRow \notin Keyed
      /\ s \in JoinStateSet(joinType, Keyed) /\ s = Head(active) /\ s.kind = "FileHash"
  BY <1>1, RunningState
<1> HIDE DEF s
<1>3. FileHashOK(joinType, Keyed, s) /\ StateFuture(joinType, s) = FileHashFuture(joinType, s)
  BY <1>2, KindOfState, StateKinds
<1>4. s.side \in Sides
  BY <1>3, FileHashFiles
<1>5. /\ FileHashOK(joinType, Keyed, s2)
      /\ Pays(joinType, E, FileHashFuture(joinType, s2), FileHashFuture(joinType, s))
  <2>1. CASE joinType = "Semi"
    <3>1. /\ E = SemiRows(s.build, N)
          /\ s2 = [s EXCEPT !.probe = Tail(@),
                  !.matched = @ \cup MatchedBuild(s.build, N),
                  !.currentKeys = @ \cup {Key(b) : b \in MatchedBuild(s.build, N)}]
      BY <2>1 DEF Probed
    <3> HIDE DEF E, s2
    <3>2. N = {p \in Head(s.probe) : Key(p) \notin s.matchedKeys}
      OBVIOUS
    <3> HIDE DEF N
    <3> QED BY <1>1, <1>2, <1>3, <2>1, <3>1, <3>2, FileHashSemiStep
  <2>2. CASE joinType \in {"Inner", "Full"}
    <3>1. /\ E = Joined(s.build, Head(s.probe), s.side)
          /\ s2 = [s EXCEPT !.probe = Tail(@),
                  !.matched = @ \cup MatchedBuild(s.build, Head(s.probe)),
                  !.currentKeys = @ \cup {Key(b) : b \in MatchedBuild(s.build, Head(s.probe))}]
      <4>1. Q = Head(s.probe)
        BY <2>2
      <4> HIDE DEF Q
      <4>2. E = Joined(s.build, Q, s.side)
        <5>1. E = Probed("Inner", s.build, Q, s.side)
          BY <2>2
        <5> QED BY <1>4, <5>1, ProbedIs DEF Types
      <4> QED BY <4>1, <4>2
    <3> HIDE DEF E, s2
    <3> QED BY <1>1, <1>2, <1>3, <2>2, <3>1, FileHashJoinStep
  <2> QED BY <1>2, <2>1, <2>2 DEF Types
<1> HIDE DEF s2, E
<1>6. /\ s2 \in JoinStateSet(joinType, Keyed)
      /\ StateFuture(joinType, s2) = FileHashFuture(joinType, s2)
  BY <1>5, StateKinds
<1> QED BY <1>1, <1>2, <1>3, <1>5, <1>6, EmitPreserves

\* FileHashPartitionJoinState ends a chunk.
LEMMA FileHashChunkEndPreserves ==
    IInv /\ FileHashChunkEnd => IInv'
<1> SUFFICES ASSUME IInv, FileHashChunkEnd PROVE IInv'
  OBVIOUS
<1> DEFINE s == State
           U == s.build \ s.matched
           E == UnmatchedBuild(U, s.side)
           s2 == [s EXCEPT !.build = {}]
           s3 == [s EXCEPT !.build = {}, !.matchedKeys = @ \cup s.currentKeys]
<1>1. /\ Running("FileHash") /\ s.probe = <<>> /\ UNCHANGED <<query, spilled, pending, status>>
      /\ \/ /\ joinType = "Full" /\ out' = out (+) SetToBag(E)
            /\ active' = [active EXCEPT ![1] = s2]
         \/ active' = [active EXCEPT ![1] = s3] /\ out' = out
  BY DEF FileHashChunkEnd, Emit, Replace
<1>2. /\ status = "running" /\ active # <<>> /\ joinType \in Types /\ NullRow \notin Keyed
      /\ s \in JoinStateSet(joinType, Keyed) /\ s = Head(active) /\ s.kind = "FileHash"
  BY <1>1, RunningState
<1> HIDE DEF s
<1>3. FileHashOK(joinType, Keyed, s) /\ StateFuture(joinType, s) = FileHashFuture(joinType, s)
  BY <1>2, KindOfState, StateKinds
<1>4. CASE /\ joinType = "Full" /\ out' = out (+) SetToBag(E)
           /\ active' = [active EXCEPT ![1] = s2]
  <2>1. U \subseteq s.build
    OBVIOUS
  <2> HIDE DEF U
  <2>2. /\ FileHashOK("Full", Keyed, s2)
        /\ Pays("Full", E, FileHashFuture("Full", s2), FileHashFuture("Full", s))
    BY <1>1, <1>2, <1>3, <1>4, <2>1, FileHashUnmatchedStep
  <2> HIDE DEF s2, E
  <2>3. /\ s2 \in JoinStateSet(joinType, Keyed)
        /\ StateFuture(joinType, s2) = FileHashFuture(joinType, s2)
    BY <1>4, <2>2, StateKinds
  <2>4. /\ Pays(joinType, E, StateFuture(joinType, s2), StateFuture(joinType, Head(active)))
        /\ UNCHANGED <<query, spilled, pending, status>>
    BY <1>1, <1>2, <1>3, <1>4, <2>2, <2>3
  <2> QED BY <1>2, <1>4, <2>3, <2>4, EmitPreserves
<1>5. CASE active' = [active EXCEPT ![1] = s3] /\ out' = out
  <2>1. /\ FileHashOK(joinType, Keyed, s3)
        /\ Pays(joinType, {}, FileHashFuture(joinType, s3), FileHashFuture(joinType, s))
    BY <1>1, <1>2, <1>3, FileHashChunkEndStep
  <2> HIDE DEF s3
  <2>2. /\ s3 \in JoinStateSet(joinType, Keyed)
        /\ StateFuture(joinType, s3) = FileHashFuture(joinType, s3)
    BY <2>1, StateKinds
  <2> QED BY <1>1, <1>2, <1>3, <1>5, <2>1, <2>2, EmitPreserves
<1> QED BY <1>1, <1>4, <1>5

\* FileHashPartitionJoinState after its last chunk: a FULL join emits, others finish.
LEMMA FileHashEndPreserves ==
    IInv /\ FileHashEnd => IInv'
<1> SUFFICES ASSUME IInv, FileHashEnd PROVE IInv'
  OBVIOUS
<1> DEFINE s == State
           U == {q \in RowsOf(s.probeFiles) : Key(q) = Null \/ Key(q) \notin s.matchedKeys}
           E == {Pair(s.side, NullRow, p) : p \in U}
           s2 == [s EXCEPT !.emitted = TRUE]
<1>1. /\ Running("FileHash") /\ s.build = {} /\ s.files = <<>>
      /\ UNCHANGED <<query, spilled, pending, status>>
      /\ \/ /\ joinType = "Full" /\ ~s.emitted /\ out' = out (+) SetToBag(E)
            /\ active' = [active EXCEPT ![1] = s2]
         \/ ~(joinType = "Full" /\ ~s.emitted) /\ active' = Tail(active) /\ out' = out
  BY DEF FileHashEnd, Emit, Replace, Finish
<1>2. /\ status = "running" /\ active # <<>> /\ joinType \in Types /\ NullRow \notin Keyed
      /\ s \in JoinStateSet(joinType, Keyed) /\ s = Head(active) /\ s.kind = "FileHash"
  BY <1>1, RunningState
<1> HIDE DEF s
<1>3. FileHashOK(joinType, Keyed, s) /\ StateFuture(joinType, s) = FileHashFuture(joinType, s)
  BY <1>2, KindOfState, StateKinds
<1>4. CASE /\ joinType = "Full" /\ ~s.emitted /\ out' = out (+) SetToBag(E)
           /\ active' = [active EXCEPT ![1] = s2]
  <2>1. U \subseteq RowsOf(s.probeFiles)
    OBVIOUS
  <2> HIDE DEF U
  <2>2. /\ FileHashOK("Full", Keyed, s2)
        /\ Pays("Full", E, FileHashFuture("Full", s2), FileHashFuture("Full", s))
    BY <1>1, <1>3, <1>4, <2>1, FileHashEmitStep
  <2> HIDE DEF s2, E
  <2>3. /\ s2 \in JoinStateSet(joinType, Keyed)
        /\ StateFuture(joinType, s2) = FileHashFuture(joinType, s2)
    BY <1>4, <2>2, StateKinds
  <2> QED BY <1>1, <1>2, <1>3, <1>4, <2>2, <2>3, EmitPreserves
<1>5. CASE ~(joinType = "Full" /\ ~s.emitted) /\ active' = Tail(active) /\ out' = out
  <2>1. joinType # "Full" => FileHashFuture(joinType, s) = {}
    BY <1>1, <1>2, <1>3, FileHashDone DEF Types
  <2> QED BY <1>1, <1>2, <1>3, <1>5, <2>1, DropPreserves
<1> QED BY <1>1, <1>4, <1>5

\* BlockNestedLoopJoinState joins one left batch or finishes.
LEMMA BlockStepPreserves ==
    IInv /\ BlockStep => IInv'
<1> SUFFICES ASSUME IInv, BlockStep PROVE IInv'
  OBVIOUS
<1> DEFINE s == State
           E == Joined(Head(s.left), RowsOf(s.right), "left")
           s2 == [s EXCEPT !.left = Tail(@)]
<1>1. /\ Running("Block") /\ UNCHANGED <<query, spilled, pending, status>>
      /\ \/ /\ s.left # <<>> /\ out' = out (+) SetToBag(E)
            /\ active' = [active EXCEPT ![1] = s2]
         \/ s.left = <<>> /\ active' = Tail(active) /\ out' = out
  BY DEF BlockStep, Emit, Replace, Finish
<1>2. /\ status = "running" /\ active # <<>> /\ joinType \in Types /\ NullRow \notin Keyed
      /\ s \in JoinStateSet(joinType, Keyed) /\ s = Head(active) /\ s.kind = "Block"
  BY <1>1, RunningState
<1> HIDE DEF s
<1>3. BlockOK(joinType, Keyed, s) /\ StateFuture(joinType, s) = BlockFuture(s)
  BY <1>2, KindOfState, StateKinds
<1>4. CASE /\ s.left # <<>> /\ out' = out (+) SetToBag(E)
           /\ active' = [active EXCEPT ![1] = s2]
  <2>1. BlockOK(joinType, Keyed, s2) /\ Pays(joinType, E, BlockFuture(s2), BlockFuture(s))
    BY <1>2, <1>3, <1>4, BlockJoinStep
  <2> HIDE DEF s2, E
  <2>2. s2 \in JoinStateSet(joinType, Keyed) /\ StateFuture(joinType, s2) = BlockFuture(s2)
    BY <2>1, StateKinds
  <2> QED BY <1>1, <1>2, <1>3, <1>4, <2>1, <2>2, EmitPreserves
<1>5. CASE s.left = <<>> /\ active' = Tail(active) /\ out' = out
  <2>1. BlockFuture(s) = {}
    BY <1>5, BlockDone
  <2> QED BY <1>1, <1>2, <1>3, <1>5, <2>1, DropPreserves
<1> QED BY <1>1, <1>4, <1>5

\* UnmatchedSideJoinState passes one batch through or finishes.
LEMMA UnmatchedSideStepPreserves ==
    IInv /\ UnmatchedSideStep => IInv'
<1> SUFFICES ASSUME IInv, UnmatchedSideStep PROVE IInv'
  OBVIOUS
<1> DEFINE s == State
           E == UnmatchedBuild(Head(s.files), s.side)
           s2 == [s EXCEPT !.files = Tail(@)]
<1>1. /\ Running("UnmatchedSide") /\ UNCHANGED <<query, spilled, pending, status>>
      /\ \/ /\ s.files # <<>> /\ out' = out (+) SetToBag(E)
            /\ active' = [active EXCEPT ![1] = s2]
         \/ s.files = <<>> /\ active' = Tail(active) /\ out' = out
  BY DEF UnmatchedSideStep, Emit, Replace, Finish
<1>2. /\ status = "running" /\ active # <<>> /\ joinType \in Types /\ NullRow \notin Keyed
      /\ s \in JoinStateSet(joinType, Keyed) /\ s = Head(active) /\ s.kind = "UnmatchedSide"
  BY <1>1, RunningState
<1> HIDE DEF s
<1>3. UnmatchedSideOK(joinType, Keyed, s) /\ StateFuture(joinType, s) = UnmatchedSideFuture(s)
  BY <1>2, KindOfState, StateKinds
<1>4. CASE /\ s.files # <<>> /\ out' = out (+) SetToBag(E)
           /\ active' = [active EXCEPT ![1] = s2]
  <2>1. /\ UnmatchedSideOK(joinType, Keyed, s2)
        /\ Pays(joinType, E, UnmatchedSideFuture(s2), UnmatchedSideFuture(s))
    BY <1>2, <1>3, <1>4, UnmatchedSideBatchStep
  <2> HIDE DEF s2, E
  <2>2. /\ s2 \in JoinStateSet(joinType, Keyed)
        /\ StateFuture(joinType, s2) = UnmatchedSideFuture(s2)
    BY <2>1, StateKinds
  <2> QED BY <1>1, <1>2, <1>3, <1>4, <2>1, <2>2, EmitPreserves
<1>5. CASE s.files = <<>> /\ active' = Tail(active) /\ out' = out
  <2>1. joinType = "Full"
    BY <1>3 DEF UnmatchedSideOK
  <2> QED BY <1>1, <1>2, <1>5, <2>1, DropPreserves
<1> QED BY <1>1, <1>4, <1>5

\* The first task is replaced by its states.
LEMMA OpenPreserves ==
    ASSUME IInv, Ready, NEW states,
           Shares(joinType, Keyed, states, TaskFuture(joinType, Head(pending))),
           pending' = Tail(pending), active' = states, UNCHANGED <<query, spilled, out, status>>
    PROVE  IInv'
<1>1. spilled /\ LedgerInv /\ OutInv /\ TypeInv /\ active = <<>> /\ pending # <<>>
  BY DEF IInv, Ready
<1> DEFINE O == DOMAIN out
           G == SqlJoin(joinType, left, right)
<1>2. /\ pending \in Seq(TasksOK(Keyed))
      /\ Ledger(joinType, O, Owed(joinType, pending), Owing(joinType, <<>>), G)
  BY <1>1 DEF LedgerInv
<1> HIDE DEF O, G
<1>3. /\ pending' \in Seq(TasksOK(Keyed)) /\ active' \in Seq(JoinStateSet(joinType, Keyed))
      /\ Ledger(joinType, O, Owed(joinType, pending'), Owing(joinType, active'), G)
  BY <1>1, <1>2, TaskOpen
<1>4. /\ left' = left /\ right' = right /\ joinType' = joinType /\ memoryLimit' = memoryLimit
      /\ hash' = hash /\ spilled' = spilled /\ status' = status /\ out' = out
      /\ status = "running"
  BY DEF query, Ready
<1>5. Keyed' = Keyed
  BY <1>4 DEF Keyed, Rows
<1>6. TypeInv'
  BY <1>1, <1>4 DEF TypeInv
<1>7. PhaseInv' /\ OutInv'
  BY <1>1, <1>4 DEF PhaseInv, OutInv
<1>8. LedgerInv'
  <2>1. pending' \in Seq(TasksOK(Keyed)') /\ active' \in Seq(JoinStateSet(joinType, Keyed)')
    BY <1>3, <1>4, <1>5
  <2>2. Ledger(joinType', DOMAIN out', Owed(joinType', pending'), Owing(joinType', active'),
               SqlJoin(joinType', left', right'))
    BY <1>3, <1>4 DEF O, G
  <2> QED BY <2>1, <2>2 DEF LedgerInv
<1> QED BY <1>6, <1>7, <1>8 DEF IInv

\* A step that ends the stream with an error and produces nothing.
LEMMA FailPreserves ==
    ASSUME IInv, spilled', status' = "error", UNCHANGED <<query, out>>
    PROVE  IInv'
<1>1. /\ left' = left /\ right' = right /\ joinType' = joinType /\ memoryLimit' = memoryLimit
      /\ hash' = hash /\ out' = out
  BY DEF query
<1>2. TypeInv'
  BY <1>1 DEF IInv, TypeInv
<1>3. PhaseInv' /\ OutInv'
  BY <1>1 DEF IInv, PhaseInv, OutInv
<1> QED BY <1>2, <1>3 DEF IInv

\* An input that cannot be read.
LEMMA SpillFailsPreserves ==
    IInv /\ SpillFails => IInv'
  BY FailPreserves DEF SpillFails

\* The inputs are spilled: the tasks of depth 0 owe the whole join.
LEMMA SpillPreserves ==
    IInv /\ Spill => IInv'
<1> SUFFICES ASSUME IInv, Spill PROVE IInv'
  OBVIOUS
<1> DEFINE L == BatchesOf("left", left)
           R == BatchesOf("right", right)
           tasks == TasksOf(L, R, 0)
           G == SqlJoin(joinType, left, right)
<1>1. /\ ~spilled /\ spilled' = TRUE /\ pending' = tasks /\ status = "running"
      /\ left' = left /\ right' = right /\ joinType' = joinType /\ memoryLimit' = memoryLimit
      /\ hash' = hash /\ active' = active /\ status' = status /\ out' = out
  BY DEF Spill, query
<1>2. TypeInv /\ active = <<>> /\ out = SetToBag({}) /\ OutInv
  BY <1>1 DEF IInv, PhaseInv
<1>3. RowSet(Rows) /\ FilesOK(Rows, L) /\ FilesOK(Rows, R)
  BY <1>2, InputRows
<1>4. hash \in Hashes /\ 0 \in 0..MaxDepth /\ joinType \in Types
  BY <1>2, JoinAssumption DEF TypeInv
<1> HIDE DEF L, R
<1>5. Splits(joinType, Keyed, tasks, Rel(joinType, RowsOf(L), RowsOf(R)))
  BY <1>3, <1>4, TasksSplit DEF Keyed
<1> HIDE DEF tasks
<1>6. joinType # "Full" => G = Rel(joinType, RowsOf(L), RowsOf(R))
  BY <1>4, SqlJoinIs DEF Types, L, R
<1> HIDE DEF G
<1>7. Ledger(joinType, {}, Owed(joinType, tasks), Owing(joinType, <<>>), G)
  <2> DEFINE P == Owed(joinType, tasks)
             A == Owing(joinType, <<>>)
  <2>1. DOMAIN A = {}
    BY DEF Owing
  <2>2. PairwiseDisjoint(P) /\ (joinType # "Full" => RowsOf(P) = G)
    BY <1>5, <1>6 DEF Splits
  <2> HIDE DEF P, A
  <2>3. PairwiseDisjoint(A) /\ RowsOf(A) = {}
    BY <2>1 DEF PairwiseDisjoint, RowsOf, Range
  <2>4. Ledger(joinType, {}, P, A, G)
    BY <2>1, <2>2, <2>3 DEF Ledger
  <2> QED BY <2>4 DEF P, A
<1>8. DOMAIN out = {}
  BY <1>2 DEF SetToBag
<1>9. Keyed' = Keyed
  BY <1>1 DEF Keyed, Rows
<1>10. TypeInv'
  BY <1>1, <1>2 DEF TypeInv
<1>11. PhaseInv' /\ OutInv'
  BY <1>1, <1>2 DEF PhaseInv, OutInv
<1>12. LedgerInv'
  <2>1. pending' \in Seq(TasksOK(Keyed)')
    BY <1>1, <1>5, <1>9 DEF Splits
  <2>2. active' \in Seq(JoinStateSet(joinType, Keyed)')
    BY <1>1, <1>2
  <2>3. Ledger(joinType', DOMAIN out', Owed(joinType', pending'), Owing(joinType', active'),
               SqlJoin(joinType', left', right'))
    BY <1>1, <1>2, <1>7, <1>8 DEF G
  <2> QED BY <2>1, <2>2, <2>3 DEF LedgerInv
<1> QED BY <1>10, <1>11, <1>12 DEF IInv

\* The first task, when no state is running.
LEMMA ReadyTask ==
    ASSUME IInv, Ready
    PROVE  /\ Task = Head(pending) /\ TaskOK(Keyed, Task) /\ joinType \in Types
           /\ NullRow \notin Keyed /\ FilesOK(Keyed, Task.left) /\ FilesOK(Keyed, Task.right)
<1>1. LedgerInv /\ TypeInv /\ pending # <<>>
  BY DEF IInv, Ready
<1>2. Head(pending) \in TasksOK(Keyed)
  BY <1>1 DEF LedgerInv
<1>3. NullRow \notin Keyed /\ joinType \in Types
  BY <1>1, InputRows DEF TypeInv
<1>4. Task = Head(pending)
  BY DEF Task
<1>5. TaskOK(Keyed, Task)
  BY <1>2, <1>4 DEF TasksOK
<1>6. FilesOK(Keyed, Task.left) /\ FilesOK(Keyed, Task.right)
  BY <1>5 DEF TaskOK, TaskSet, FilesOK
<1> QED BY <1>3, <1>4, <1>5, <1>6

\* prepare_partition_join: the states of a partition owe what its task owed.
LEMMA PreparePreserves ==
    IInv /\ Prepare => IInv'
<1> SUFFICES ASSUME IInv, Prepare PROVE IInv'
  OBVIOUS
<1>1. /\ Ready /\ pending' = Tail(pending) /\ active' = PreparedStates(Task)
      /\ UNCHANGED <<query, spilled, out, status>>
  BY DEF Prepare
<1>2. /\ Task = Head(pending) /\ TaskOK(Keyed, Task) /\ joinType \in Types /\ NullRow \notin Keyed
  BY <1>1, ReadyTask
<1>3. Shares(joinType, Keyed, PreparedStates(Task), TaskFuture(joinType, Task))
  BY <1>2, PreparedShare
<1> QED BY <1>1, <1>2, <1>3, OpenPreserves

\* Concatenation with the empty sequence.
LEMMA NothingAppended ==
    ASSUME NEW S, NEW a \in Seq(S)
    PROVE  a \o <<>> = a /\ <<>> \o a = a
  OBVIOUS

\* A partition only one side of which has files is passed through.
LEMMA OneSidedShare ==
    ASSUME NEW T, NEW t, FilesOK(T, t.left), FilesOK(T, t.right), t.left = <<>> \/ t.right = <<>>,
           NEW side, side = IF t.left # <<>> THEN "left" ELSE "right"
    PROVE  Shares("Full", T, <<UnmatchedSideState(t.left \o t.right, side)>>, TaskFuture("Full", t))
<1> DEFINE fs == t.left \o t.right
           s == UnmatchedSideState(fs, side)
<1>1. fs = IF side = "left" THEN t.left ELSE t.right
  <2>1. t.left \in Seq(SUBSET T) /\ t.right \in Seq(SUBSET T)
    BY DEF FilesOK
  <2> QED BY <2>1, NothingAppended
<1>2. side \in Sides
  BY DEF Sides
<1>3. fs \in Seq(SUBSET T) /\ PairwiseDisjoint(fs)
  BY <1>1 DEF FilesOK
<1> HIDE DEF fs
<1>4. UnmatchedSideOK("Full", T, s) /\ s.files = fs /\ s.side = side
  BY <1>2, <1>3 DEF UnmatchedSideState, UnmatchedSideOK, UnmatchedSideStates
<1> HIDE DEF s
<1>5. s \in JoinStateSet("Full", T) /\ StateFuture("Full", s) = UnmatchedBuild(RowsOf(fs), side)
  BY <1>4, StateKinds DEF UnmatchedSideFuture
<1>6. UnmatchedBuild(RowsOf(fs), side) \subseteq TaskFuture("Full", t)
  <2>1. CASE side = "left"
    BY <1>1, <2>1 DEF UnmatchedBuild, Pair, TaskFuture, Rel
  <2>2. CASE side = "right"
    BY <1>1, <2>2 DEF UnmatchedBuild, Pair, TaskFuture, Rel
  <2> QED BY <1>2, <2>1, <2>2 DEF Sides
<1>7. Shares("Full", T, <<s>>, TaskFuture("Full", t))
  BY <1>5, <1>6, OneShare
<1> QED BY <1>7 DEF s, fs

\* A partition one side of which has no file.
LEMMA PrepareOneSidedPreserves ==
    IInv /\ PrepareOneSided => IInv'
<1> SUFFICES ASSUME IInv, PrepareOneSided PROVE IInv'
  OBVIOUS
<1> DEFINE rows == Task.left \o Task.right
           side == IF Task.left # <<>> THEN "left" ELSE "right"
<1>1. /\ Ready /\ (Task.left = <<>> \/ Task.right = <<>>) /\ pending' = Tail(pending)
      /\ UNCHANGED <<query, spilled, out>>
      /\ \/ /\ joinType = "Full" /\ UNCHANGED status
            /\ active' = << UnmatchedSideState(rows, side) >>
         \/ status' = "error"
         \/ (joinType # "Full" \/ rows = <<>>) /\ UNCHANGED <<active, status>>
  BY DEF PrepareOneSided
<1>2. /\ Task = Head(pending) /\ joinType \in Types
      /\ FilesOK(Keyed, Task.left) /\ FilesOK(Keyed, Task.right)
  BY <1>1, ReadyTask
<1>3. CASE joinType = "Full" /\ UNCHANGED status /\ active' = << UnmatchedSideState(rows, side) >>
  <2>1. Shares("Full", Keyed, <<UnmatchedSideState(rows, side)>>, TaskFuture("Full", Task))
    BY <1>1, <1>2, OneSidedShare
  <2> HIDE DEF rows, side
  <2> QED BY <1>1, <1>2, <1>3, <2>1, OpenPreserves
<1>4. CASE status' = "error"
  <2>1. spilled'
    BY <1>1 DEF Ready
  <2> QED BY <1>1, <1>4, <2>1, FailPreserves
<1>5. CASE (joinType # "Full" \/ rows = <<>>) /\ UNCHANGED <<active, status>>
  <2>1. RowsOf(Task.left) = {} \/ RowsOf(Task.right) = {}
    BY <1>1, NoFiles
  <2>2. joinType # "Full" => TaskFuture(joinType, Task) = {}
    BY <1>2, <2>1, RelEmpty DEF TaskFuture, Types
  <2>3. Shares(joinType, Keyed, <<>>, TaskFuture(joinType, Task))
    BY <2>2, NoShare
  <2>4. active' = <<>>
    BY <1>1, <1>5 DEF Ready
  <2> HIDE DEF rows, side
  <2> QED BY <1>1, <1>2, <1>5, <2>3, <2>4, OpenPreserves
<1> QED BY <1>1, <1>3, <1>4, <1>5

\* repartition_partition: the new tasks owe what the oversized one owed.
LEMMA RepartitionPreserves ==
    IInv /\ Repartition => IInv'
<1> SUFFICES ASSUME IInv, Repartition PROVE IInv'
  OBVIOUS
<1> DEFINE t == Task
           tasks == Tail(pending) \o TasksOf(t.left, t.right, t.depth + 1)
           O == DOMAIN out
           G == SqlJoin(joinType, left, right)
<1>1. /\ Ready /\ t.depth < MaxDepth /\ pending' = tasks /\ active = <<>> /\ pending # <<>>
      /\ left' = left /\ right' = right /\ joinType' = joinType /\ memoryLimit' = memoryLimit
      /\ hash' = hash /\ active' = active /\ status' = status /\ out' = out /\ spilled' = spilled
      /\ t = Head(pending) /\ spilled /\ status = "running"
  BY DEF Repartition, TooLarge, Ready, query, Task
<1>2. LedgerInv /\ OutInv /\ TypeInv
  BY <1>1 DEF IInv
<1>3. /\ pending \in Seq(TasksOK(Keyed))
      /\ Ledger(joinType, O, Owed(joinType, pending), Owing(joinType, <<>>), G)
  BY <1>1, <1>2 DEF LedgerInv
<1>4. RowSet(Keyed) /\ WithKey(Keyed) = Keyed /\ joinType \in Types /\ hash \in Hashes
  BY <1>2, InputRows DEF TypeInv
<1> HIDE DEF O, G, t
<1>5. /\ tasks \in Seq(TasksOK(Keyed))
      /\ Ledger(joinType, O, Owed(joinType, tasks), Owing(joinType, <<>>), G)
  BY <1>1, <1>3, <1>4, TaskRepartition
<1> HIDE DEF tasks
<1>6. Keyed' = Keyed
  BY <1>1 DEF Keyed, Rows
<1>7. TypeInv'
  BY <1>1, <1>2 DEF TypeInv
<1>8. PhaseInv' /\ OutInv'
  BY <1>1, <1>2 DEF PhaseInv, OutInv
<1>9. LedgerInv'
  <2>1. pending' \in Seq(TasksOK(Keyed)')
    BY <1>1, <1>5, <1>6
  <2>2. active' \in Seq(JoinStateSet(joinType, Keyed)')
    BY <1>1
  <2>3. Ledger(joinType', DOMAIN out', Owed(joinType', pending'), Owing(joinType', active'),
               SqlJoin(joinType', left', right'))
    BY <1>1, <1>5 DEF O, G
  <2> QED BY <2>1, <2>2, <2>3 DEF LedgerInv
<1> QED BY <1>7, <1>8, <1>9 DEF IInv

\* The stream ends: nothing is pending or active.
LEMMA EndPreserves ==
    IInv /\ End => IInv'
<1> SUFFICES ASSUME IInv, End PROVE IInv'
  OBVIOUS
<1>1. /\ spilled /\ status = "running" /\ status' = "done" /\ pending = <<>> /\ active = <<>>
      /\ left' = left /\ right' = right /\ joinType' = joinType /\ memoryLimit' = memoryLimit
      /\ hash' = hash /\ active' = active /\ out' = out /\ spilled' = spilled
      /\ pending' = pending
  BY DEF End, query
<1>2. TypeInv' /\ PhaseInv' /\ OutInv'
  BY <1>1 DEF IInv, TypeInv, PhaseInv, OutInv
<1>3. Keyed' = Keyed
  BY <1>1 DEF Keyed, Rows
<1>4. LedgerInv
  BY <1>1 DEF IInv
<1>5. LedgerInv'
  <2>1. pending' \in Seq(TasksOK(Keyed)') /\ active' \in Seq(JoinStateSet(joinType, Keyed)')
    BY <1>1, <1>3, <1>4 DEF LedgerInv
  <2>2. Ledger(joinType', DOMAIN out', Owed(joinType', pending'), Owing(joinType', active'),
               SqlJoin(joinType', left', right'))
    BY <1>1, <1>4 DEF LedgerInv
  <2> QED BY <2>1, <2>2 DEF LedgerInv
<1> QED BY <1>2, <1>5 DEF IInv

\* Stuttering steps.
LEMMA StutterPreserves ==
    IInv /\ UNCHANGED vars => IInv'
<1> SUFFICES ASSUME IInv, UNCHANGED vars PROVE IInv'
  OBVIOUS
<1>1. /\ left' = left /\ right' = right /\ joinType' = joinType /\ memoryLimit' = memoryLimit
      /\ hash' = hash /\ active' = active /\ out' = out /\ spilled' = spilled
      /\ pending' = pending /\ status' = status
  BY DEF vars
<1>2. TypeInv' /\ PhaseInv' /\ OutInv'
  BY <1>1 DEF IInv, TypeInv, PhaseInv, OutInv
<1>3. Keyed' = Keyed
  BY <1>1 DEF Keyed, Rows
<1>4. ASSUME LedgerInv PROVE LedgerInv'
  <2>1. pending' \in Seq(TasksOK(Keyed)') /\ active' \in Seq(JoinStateSet(joinType, Keyed)')
    BY <1>1, <1>3, <1>4 DEF LedgerInv
  <2>2. Ledger(joinType', DOMAIN out', Owed(joinType', pending'), Owing(joinType', active'),
               SqlJoin(joinType', left', right'))
    BY <1>1, <1>4 DEF LedgerInv
  <2> QED BY <2>1, <2>2 DEF LedgerInv
<1> QED BY <1>1, <1>2, <1>4 DEF IInv

\* The ledger is kept: after any sequence of spills, repartitions and state steps, every
\* output row is either produced, once, or owed by exactly one pending task or active state;
\* for inner and semi joins nothing the SQL join asks for is missing from the ledger.
THEOREM Invariance ==
    Spec => []IInv
<1>1. IInv /\ [Next]_vars => IInv'
  BY SpillPreserves, SpillFailsPreserves, PrepareOneSidedPreserves, RepartitionPreserves,
     PreparePreserves, HashProbePreserves, HashEndPreserves, FileHashChunkPreserves,
     FileHashProbePreserves, FileHashChunkEndPreserves, FileHashEndPreserves,
     BlockStepPreserves, UnmatchedSideStepPreserves, EndPreserves, StutterPreserves DEF Next
<1> QED BY <1>1, InitInv, PTL DEF Spec

\* No output row is handed to the operator above twice, for INNER, FULL and SEMI joins, any
\* inputs, hashes, memory limit and number of partitions, at any time before the stream ends.
THEOREM RowsOnce ==
    Spec => []NoRowTwice
<1>1. IInv => NoRowTwice
  <2> SUFFICES ASSUME IInv PROVE NoRowTwice
    OBVIOUS
  <2>1. out = [row \in DOMAIN out |-> 1]
    BY DEF IInv, OutInv, SetToBag
  <2> QED BY <2>1 DEF NoRowTwice, BagToSet
<1> QED BY <1>1, Invariance, PTL

\* An inner or semi join whose stream ends has produced the SQL join exactly, however its
\* partitions were split again, whichever side was built and however heavy keys were split off.
THEOREM InnerSemiExact ==
    Spec => [](joinType \in {"Inner", "Semi"} => JoinExact)
<1>1. IInv => (joinType \in {"Inner", "Semi"} => JoinExact)
  <2> SUFFICES ASSUME IInv, joinType \in {"Inner", "Semi"}, status = "done"
               PROVE  out = SetToBag(SqlJoin(joinType, left, right))
    BY DEF JoinExact
  <2>1. LedgerInv /\ pending = <<>> /\ active = <<>> /\ OutInv
    BY DEF IInv, PhaseInv
  <2> DEFINE P == Owed(joinType, pending)
             A == Owing(joinType, active)
             G == SqlJoin(joinType, left, right)
  <2>2. DOMAIN P = {} /\ DOMAIN A = {}
    BY <2>1 DEF Owed, Owing
  <2>3. Ledger(joinType, DOMAIN out, P, A, G)
    BY <2>1 DEF LedgerInv
  <2> HIDE DEF P, A, G
  <2>4. RowsOf(P) = {} /\ RowsOf(A) = {}
    BY <2>2 DEF RowsOf, Range
  <2>5. G = DOMAIN out
    BY <2>3, <2>4 DEF Ledger
  <2> QED BY <2>1, <2>5 DEF G, OutInv
<1> QED BY <1>1, Invariance, PTL

-----------------------------------------------------------------------------
(* The hash tables fit.                                                    *)

\* The library's finite sets are those of the model.
LEMMA SameFiniteSets ==
    /\ \A S : FS!IsFiniteSet(S) <=> IsFiniteSet(S)
    /\ \A S : FS!Cardinality(S) = Cardinality(S)
<1>1. \A S : FS!IsFiniteSet(S) <=> IsFiniteSet(S)
  BY DEF FS!IsFiniteSet, IsFiniteSet
<1>2. \A S : FS!Cardinality(S) = Cardinality(S)
  BY DEF FS!Cardinality, Cardinality
<1> QED BY <1>1, <1>2

\* A subset of a finite set is no larger.
LEMMA SubsetSize ==
    ASSUME NEW S, IsFiniteSet(S), NEW T, T \subseteq S
    PROVE  /\ IsFiniteSet(T) /\ Cardinality(T) \in Nat /\ Cardinality(S) \in Nat
           /\ Cardinality(T) <= Cardinality(S)
<1>1. FS!IsFiniteSet(S)
  BY SameFiniteSets
<1>2. FS!IsFiniteSet(T) /\ FS!Cardinality(T) <= FS!Cardinality(S)
  BY <1>1, FS!FS_Subset
<1>3. FS!Cardinality(T) \in Nat /\ FS!Cardinality(S) \in Nat
  BY <1>1, <1>2, FS!FS_CardinalityType
<1> QED BY <1>2, <1>3, SameFiniteSets

\* The empty set has no elements.
LEMMA NoRowsSize ==
    Cardinality({}) = 0
  BY FS!FS_EmptySet, SameFiniteSets

\* An input has finitely many rows.
LEMMA FiniteInput ==
    ASSUME NEW side, NEW input \in Seq(AnyBatch)
    PROVE  IsFiniteSet(RowsOf(BatchesOf(side, input)))
<1> DEFINE fs == BatchesOf(side, input)
           S == Range(fs)
<1>1. /\ DOMAIN fs = 1..Len(input) /\ Len(input) \in Nat
      /\ \A b \in 1..Len(input) : fs[b] = BatchOf(side, input[b], b) /\ input[b] \in AnyBatch
  BY DEF BatchesOf
<1>2. fs \in Seq(S) /\ Len(fs) = Len(input)
  <2>1. fs = [b \in 1..Len(input) |-> fs[b]] /\ \A b \in 1..Len(input) : fs[b] \in S
    BY <1>1 DEF BatchesOf, Range
  <2> HIDE DEF fs, S
  <2> QED BY <1>1, <2>1
<1>3. IsFiniteSet(S)
  <2>1. \A x \in S : \E n \in 1..Len(fs) : fs[n] = x
    BY <1>1, <1>2 DEF Range
  <2> HIDE DEF fs, S
  <2> QED BY <1>2, <2>1 DEF IsFiniteSet
<1>4. \A X \in S : IsFiniteSet(X)
  <2> TAKE X \in S
  <2>1. PICK b \in 1..Len(input) : X = BatchOf(side, input[b], b) /\ input[b] \in AnyBatch
    BY <1>1 DEF Range
  <2>2. CASE input[b] = Broken
    <3>1. X = {}
      BY <2>1, <2>2 DEF BatchOf
    <3> QED BY <3>1, FS!FS_EmptySet, SameFiniteSets
  <2>3. CASE input[b] # Broken
    <3> DEFINE keys == input[b]
               seq == [i \in 1..Len(keys) |-> <<side, b, i, keys[i]>>]
    <3>1. keys \in Seq(Keys \cup {Null})
      BY <2>1, <2>3 DEF AnyBatch
    <3>2. DOMAIN keys = 1..Len(keys) /\ Len(keys) \in Nat
      BY <3>1
    <3>3. X = {<<side, b, i, keys[i]>> : i \in 1..Len(keys)}
      BY <2>1, <2>3, <3>2 DEF BatchOf
    <3> HIDE DEF keys
    <3>4. seq \in Seq(X) /\ Len(seq) = Len(keys)
      BY <3>2, <3>3
    <3>5. \A x \in X : \E n \in 1..Len(seq) : seq[n] = x
      BY <3>3, <3>4
    <3> HIDE DEF seq
    <3> QED BY <3>4, <3>5 DEF IsFiniteSet
  <2> QED BY <2>2, <2>3
<1> HIDE DEF S
<1>5. FS!IsFiniteSet(S) /\ \A X \in S : FS!IsFiniteSet(X)
  BY <1>3, <1>4, SameFiniteSets
<1>6. FS!IsFiniteSet(UNION S)
  BY <1>5, FS!FS_UNION
<1> QED BY <1>6, SameFiniteSets DEF RowsOf, S

\* The inputs of a query have finitely many rows.
LEMMA FiniteRows ==
    ASSUME TypeInv
    PROVE  IsFiniteSet(Rows) /\ IsFiniteSet(Keyed)
<1> DEFINE L == RowsOf(BatchesOf("left", left))
           R == RowsOf(BatchesOf("right", right))
<1>1. IsFiniteSet(L) /\ IsFiniteSet(R)
  BY FiniteInput DEF TypeInv
<1> HIDE DEF L, R
<1>2. IsFiniteSet(L \cup R)
  <2>1. FS!IsFiniteSet(L \cup R)
    BY <1>1, FS!FS_Union, SameFiniteSets
  <2> QED BY <2>1, SameFiniteSets
<1>3. IsFiniteSet(Rows) /\ Keyed \subseteq Rows
  BY <1>2 DEF Rows, Keyed, WithKey, L, R
<1> QED BY <1>3, SubsetSize

\* Every file holds rows of one input batch.
InOneBatch(S, fs) == \A i \in DOMAIN fs : \E X \in S : fs[i] \subseteq X

\* Files that are parts of files within one input batch are within one, too.
LEMMA FewerRowsPerFile ==
    ASSUME NEW S, NEW fs, InOneBatch(S, fs), NEW gs,
           \A i \in DOMAIN gs : \E j \in DOMAIN fs : gs[i] \subseteq fs[j]
    PROVE  InOneBatch(S, gs)
<1> SUFFICES ASSUME NEW i \in DOMAIN gs PROVE \E X \in S : gs[i] \subseteq X
  BY DEF InOneBatch
<1>1. PICK j \in DOMAIN fs : gs[i] \subseteq fs[j]
  OBVIOUS
<1>2. PICK X \in S : fs[j] \subseteq X
  BY DEF InOneBatch
<1> QED BY <1>1, <1>2

\* Of a task and of a state: what TablesFit needs, S the input batches.
TaskFits(S, t) == InOneBatch(S, t.left) /\ InOneBatch(S, t.right)
StateFits(type, limit, S, s) ==
    /\ s.kind = "Hash" => type = "Semi" \/ Cardinality(s.build) <= limit
    /\ s.kind = "FileHash" => /\ InOneBatch(S, s.files)
                              /\ Cardinality(s.build) <= limit \/ \E X \in S : s.build \subseteq X

\* The batches of both inputs.
InputBatches ==
    {BatchOf("left", left[b], b) : b \in DOMAIN left}
        \cup {BatchOf("right", right[b], b) : b \in DOMAIN right}
\* The invariant behind BuildFits, on top of IInv.
FitInv ==
    /\ \A i \in DOMAIN pending : TaskFits(InputBatches, pending[i])
    /\ \A i \in DOMAIN active : StateFits(joinType, memoryLimit, InputBatches, active[i])

\* Partitioning keeps every file within one input batch.
LEMMA TasksFit ==
    ASSUME NEW S, NEW T, NEW lf, NEW rf, FilesOK(T, lf), FilesOK(T, rf), InOneBatch(S, lf),
           InOneBatch(S, rf), NEW d, NEW p \in 1..Partitions
    PROVE  TaskFits(S, TasksOf(lf, rf, d)[p])
<1> DEFINE l == PartitionFiles(lf, p - 1, d)
           r == PartitionFiles(rf, p - 1, d)
<1>1. /\ \A i \in DOMAIN l : \E j \in DOMAIN lf : l[i] \subseteq lf[j]
      /\ \A i \in DOMAIN r : \E j \in DOMAIN rf : r[i] \subseteq rf[j]
  BY PartitionedFiles
<1>2. TasksOf(lf, rf, d)[p].left = l /\ TasksOf(lf, rf, d)[p].right = r
  BY DEF TasksOf
<1> HIDE DEF l, r
<1>3. InOneBatch(S, l) /\ InOneBatch(S, r)
  BY <1>1, FewerRowsPerFile
<1> QED BY <1>2, <1>3 DEF TaskFits

\* A state as it is made.
LEMMA FreshFits ==
    ASSUME NEW type, NEW limit \in Nat, NEW S, NEW b, NEW p, NEW side
    PROVE  /\ type = "Semi" \/ Bytes(b) <= limit =>
                 StateFits(type, limit, S, HashState(b, p, side))
           /\ InOneBatch(S, b) => StateFits(type, limit, S, FileHashState(b, p, side))
           /\ StateFits(type, limit, S, BlockOf(b, p, side))
<1>1. type = "Semi" \/ Bytes(b) <= limit => StateFits(type, limit, S, HashState(b, p, side))
  BY DEF StateFits, HashState, Bytes
<1>2. InOneBatch(S, b) => StateFits(type, limit, S, FileHashState(b, p, side))
  BY NoRowsSize DEF StateFits, FileHashState
<1>3. StateFits(type, limit, S, BlockOf(b, p, side))
  BY DEF StateFits, BlockOf, BlockState
<1> QED BY <1>1, <1>2, <1>3

\* A new state is within the limit or, when the partition is oversized, still has an empty
\* table and files that are each within one input batch.
LEMMA JoinStatesFit ==
    ASSUME NEW limit \in Nat, NEW T, IsFiniteSet(T), NEW S, NEW b, NEW p, NEW side,
           FilesOK(T, b), FilesOK(T, p), InOneBatch(S, b), NEW oversized \in BOOLEAN,
           oversized \/ joinType = "Semi" \/ Bytes(b) <= limit
    PROVE  \A i \in DOMAIN JoinStates(b, p, side, oversized) :
               StateFits(joinType, limit, S, JoinStates(b, p, side, oversized)[i])
<1> DEFINE K == HeavyKeys(b)
           nb == NormalPart(b, K)
           np == NormalPart(p, K)
           hb == HeavyPart(b, K)
           hp == HeavyPart(p, K)
           normal == IF oversized THEN FileHashState(nb, np, side) ELSE HashState(nb, np, side)
           heavy == OversizedState(hb, hp, side)
           OK(s) == StateFits(joinType, limit, S, s)
<1>1. ASSUME NEW c, NEW q, InOneBatch(S, c) PROVE OK(OversizedState(c, q, side))
  BY <1>1, FreshFits DEF OversizedState
<1>2. CASE K = {}
  <2>1. JoinStates(b, p, side, oversized) =
          IF oversized THEN <<OversizedState(b, p, side)>> ELSE <<HashState(b, p, side)>>
    BY <1>2 DEF JoinStates
  <2>2. oversized \/ OK(HashState(b, p, side))
    BY FreshFits
  <2>3. OK(OversizedState(b, p, side))
    BY <1>1
  <2> HIDE DEF OK
  <2> QED BY <2>1, <2>2, <2>3 DEF OK
<1>3. CASE K # {}
  <2>1. JoinStates(b, p, side, oversized) = IfBoth(normal, nb, np) \o IfBoth(heavy, hb, hp)
    BY <1>3 DEF JoinStates
  <2>2. /\ RowsOf(nb) = RowsOf(b) \cap WithKeyNotIn(T, K)
        /\ \A i \in DOMAIN nb : \E j \in DOMAIN b : nb[i] \subseteq b[j]
    BY NormalFiles
  <2>3. \A i \in DOMAIN hb : \E j \in DOMAIN b : hb[i] \subseteq b[j]
    BY HeavyFiles
  <2> HIDE DEF nb, np, hb, hp, K
  <2>4. InOneBatch(S, nb) /\ InOneBatch(S, hb)
    BY <2>2, <2>3, FewerRowsPerFile
  <2>5. Bytes(nb) <= Bytes(b) /\ Bytes(b) \in Nat /\ Bytes(nb) \in Nat
    <3>1. IsFiniteSet(RowsOf(b)) /\ RowsOf(nb) \subseteq RowsOf(b)
      BY <2>2, RowsIn, SubsetSize
    <3> QED BY <3>1, SubsetSize DEF Bytes
  <2>6. OK(normal)
    <3>1. CASE oversized
      BY <2>4, <3>1, FreshFits
    <3>2. CASE ~oversized
      <4>1. joinType = "Semi" \/ Bytes(nb) <= limit
        BY <2>5, <3>2
      <4> QED BY <3>2, <4>1, FreshFits
    <3> QED BY <3>1, <3>2
  <2>7. OK(heavy)
    BY <1>1, <2>4
  <2> HIDE DEF normal, heavy, OK
  <2>8. \A i \in DOMAIN (IfBoth(normal, nb, np) \o IfBoth(heavy, hb, hp)) :
            (IfBoth(normal, nb, np) \o IfBoth(heavy, hb, hp))[i] \in {normal, heavy}
    BY DEF IfBoth
  <2> QED BY <2>1, <2>6, <2>7, <2>8 DEF OK
<1> QED BY <1>2, <1>3

\* The same of prepare_partition_join, which builds the smaller side unless the join is SEMI.
LEMMA PreparedFit ==
    ASSUME TypeInv, NEW T, IsFiniteSet(T), NEW S, NEW t, TaskOK(T, t), TaskFits(S, t)
    PROVE  \A i \in DOMAIN PreparedStates(t) :
               StateFits(joinType, memoryLimit, S, PreparedStates(t)[i])
<1>1. /\ FilesOK(T, t.left) /\ FilesOK(T, t.right) /\ InOneBatch(S, t.left)
      /\ InOneBatch(S, t.right) /\ memoryLimit \in Nat
  BY DEF TaskOK, TaskSet, FilesOK, TaskFits, TypeInv
<1>2. Bytes(t.left) \in Nat /\ Bytes(t.right) \in Nat
  <2>1. RowsOf(t.left) \subseteq T /\ RowsOf(t.right) \subseteq T
    BY <1>1, RowsIn
  <2> QED BY <2>1, SubsetSize DEF Bytes
<1> DEFINE oversized == SmallerSide(t) > memoryLimit
<1>3. oversized \in BOOLEAN
  OBVIOUS
<1>4. CASE BuildSide(t) = "left"
  <2>1. PreparedStates(t) = JoinStates(t.left, t.right, "left", oversized)
    BY <1>4 DEF PreparedStates
  <2>2. oversized \/ Bytes(t.left) <= memoryLimit
    BY <1>1, <1>2, <1>4 DEF BuildSide, SmallerSide
  <2> HIDE DEF oversized
  <2> QED BY <1>1, <1>3, <2>1, <2>2, JoinStatesFit
<1>5. CASE BuildSide(t) # "left"
  <2>1. PreparedStates(t) = JoinStates(t.right, t.left, "right", oversized)
    BY <1>5 DEF PreparedStates
  <2>2. oversized \/ joinType = "Semi" \/ Bytes(t.right) <= memoryLimit
    BY <1>1, <1>2, <1>5 DEF BuildSide, SmallerSide
  <2> HIDE DEF oversized
  <2> QED BY <1>1, <1>3, <2>1, <2>2, JoinStatesFit
<1> QED BY <1>4, <1>5

\* A chunk fits or is one file.
LEMMA ChunkFits ==
    ASSUME NEW T, NEW S, NEW fs, FilesOK(T, fs), fs # <<>>, InOneBatch(S, fs),
           NEW k, k = ChunkLength(fs)
    PROVE  /\ InOneBatch(S, SubSeq(fs, k + 1, Len(fs)))
           /\ \/ Cardinality(RowsOf(SubSeq(fs, 1, k))) <= memoryLimit
              \/ \E X \in S : RowsOf(SubSeq(fs, 1, k)) \subseteq X
<1>1. /\ fs \in Seq(SUBSET T) /\ k \in 1..Len(fs) /\ Len(fs) \in Nat /\ DOMAIN fs = 1..Len(fs)
      /\ k = 1 \/ Bytes(SubSeq(fs, 1, k)) <= memoryLimit
  BY ChunkLengthIn DEF FilesOK
<1> DEFINE rest == SubSeq(fs, k + 1, Len(fs))
<1>2. \A i \in DOMAIN rest : \E j \in DOMAIN fs : rest[i] \subseteq fs[j]
  <2>1. DOMAIN rest = 1..(Len(fs) - k) /\ \A i \in 1..(Len(fs) - k) : rest[i] = fs[k + i]
    BY <1>1
  <2>2. \A i \in 1..(Len(fs) - k) : k + i \in DOMAIN fs
    BY <1>1
  <2> HIDE DEF rest
  <2> QED BY <2>1, <2>2
<1> HIDE DEF rest
<1>3. InOneBatch(S, rest)
  BY <1>2, FewerRowsPerFile
<1>4. CASE k = 1
  <2> DEFINE a == SubSeq(fs, 1, k)
  <2>1. DOMAIN a = {1} /\ a[1] = fs[1] /\ 1 \in DOMAIN fs
    BY <1>1, <1>4
  <2> HIDE DEF a
  <2>2. RowsOf(a) = fs[1]
    BY <2>1 DEF RowsOf, Range
  <2>3. \E X \in S : fs[1] \subseteq X
    BY <2>1 DEF InOneBatch
  <2> QED BY <1>3, <2>2, <2>3 DEF a, rest
<1>5. CASE Bytes(SubSeq(fs, 1, k)) <= memoryLimit
  BY <1>3, <1>5 DEF Bytes, rest
<1> QED BY <1>1, <1>4, <1>5

\* What a step that keeps the query leaves alone.
LEMMA SameInputs ==
    ASSUME UNCHANGED query
    PROVE  /\ InputBatches' = InputBatches /\ joinType' = joinType /\ memoryLimit' = memoryLimit
  BY DEF query, InputBatches

\* The running state is replaced by one that fits.
LEMMA ReplaceFits ==
    ASSUME IInv, FitInv, status = "running", active # <<>>, NEW s2,
           StateFits(joinType, memoryLimit, InputBatches, s2),
           active' = [active EXCEPT ![1] = s2], UNCHANGED <<query, pending>>
    PROVE  FitInv'
<1>1. active \in Seq(JoinStateSet(joinType, Keyed))
  BY DEF IInv, PhaseInv, LedgerInv, TypeInv
<1>2. /\ DOMAIN active' = DOMAIN active
      /\ \A i \in DOMAIN active : active'[i] = IF i = 1 THEN s2 ELSE active[i]
  BY <1>1
<1>3. \A i \in DOMAIN active' : StateFits(joinType, memoryLimit, InputBatches, active'[i])
  BY <1>2 DEF FitInv
<1> QED BY <1>3, SameInputs DEF FitInv

\* The running state is dropped.
LEMMA FinishFits ==
    ASSUME IInv, FitInv, status = "running", active # <<>>,
           active' = Tail(active), UNCHANGED <<query, pending>>
    PROVE  FitInv'
<1>1. active \in Seq(JoinStateSet(joinType, Keyed))
  BY DEF IInv, PhaseInv, LedgerInv, TypeInv
<1>2. \A i \in DOMAIN active' : i + 1 \in DOMAIN active /\ active'[i] = active[i + 1]
  BY <1>1
<1>3. \A i \in DOMAIN active' : StateFits(joinType, memoryLimit, InputBatches, active'[i])
  BY <1>2 DEF FitInv
<1> QED BY <1>3, SameInputs DEF FitInv

\* The running state fits.
LEMMA RunningFits ==
    ASSUME IInv, FitInv, NEW kind, Running(kind)
    PROVE  StateFits(joinType, memoryLimit, InputBatches, State)
<1>1. active # <<>> /\ active \in Seq(JoinStateSet(joinType, Keyed)) /\ State = Head(active)
  BY DEF IInv, PhaseInv, LedgerInv, TypeInv, Running, State
<1>2. State = active[1] /\ 1 \in DOMAIN active
  BY <1>1
<1> QED BY <1>2 DEF FitInv

\* A HashPartitionJoinState does not change its table.
LEMMA HashFits ==
    ASSUME IInv, FitInv, HashProbe \/ HashEnd
    PROVE  FitInv'
<1> DEFINE s == State
           s2 == [s EXCEPT !.probe = Tail(@),
                           !.matched = @ \cup MatchedBuild(s.build, Head(s.probe))]
           s3 == [s EXCEPT !.emitted = TRUE]
<1>1. /\ Running("Hash") /\ UNCHANGED <<query, pending>>
      /\ \/ active' = [active EXCEPT ![1] = s2]
         \/ active' = [active EXCEPT ![1] = s3]
         \/ active' = Tail(active)
  BY DEF HashProbe, HashEnd, Replace, Finish
<1>2. /\ status = "running" /\ active # <<>> /\ s \in JoinStateSet(joinType, Keyed)
      /\ s.kind = "Hash"
  BY <1>1, RunningState
<1>3. StateFits(joinType, memoryLimit, InputBatches, s)
  BY <1>1, RunningFits
<1> HIDE DEF s
<1>4. s \in HashStates(Keyed)
  BY <1>2, KindOfState DEF HashOK
<1>5. s2.build = s.build /\ s2.kind = "Hash" /\ s3.build = s.build /\ s3.kind = "Hash"
  BY <1>4 DEF HashStates
<1> HIDE DEF s2, s3
<1>6. /\ StateFits(joinType, memoryLimit, InputBatches, s2)
      /\ StateFits(joinType, memoryLimit, InputBatches, s3)
  BY <1>2, <1>3, <1>5 DEF StateFits
<1> QED BY <1>1, <1>2, <1>6, ReplaceFits, FinishFits

\* A FileHashPartitionJoinState only empties its table between two chunks.
LEMMA FileHashFits ==
    ASSUME IInv, FitInv, FileHashProbe \/ FileHashChunkEnd \/ FileHashEnd
    PROVE  FitInv'
<1> DEFINE s == State
           Fits(x) == StateFits(joinType, memoryLimit, InputBatches, x)
<1>1. Running("FileHash") /\ UNCHANGED <<query, pending>>
  BY DEF FileHashProbe, FileHashChunkEnd, FileHashEnd
<1>2. /\ status = "running" /\ active # <<>> /\ s \in JoinStateSet(joinType, Keyed)
      /\ s.kind = "FileHash"
  BY <1>1, RunningState
<1>3. Fits(s) /\ memoryLimit \in Nat
  BY <1>1, RunningFits DEF IInv, TypeInv
<1> HIDE DEF s
<1>4. s \in FileHashStates(Keyed)
  BY <1>2, KindOfState DEF FileHashOK
<1>5. CASE FileHashProbe
  <2> DEFINE N == {p \in Head(s.probe) : Key(p) \notin s.matchedKeys}
             Q == IF joinType = "Semi" THEN N ELSE Head(s.probe)
             s2 == [s EXCEPT !.probe = Tail(@),
                    !.matched = @ \cup MatchedBuild(s.build, Q),
                    !.currentKeys = @ \cup {Key(b) : b \in MatchedBuild(s.build, Q)}]
  <2>1. active' = [active EXCEPT ![1] = s2]
    BY <1>5 DEF FileHashProbe, Replace, s
  <2> HIDE DEF Q
  <2>2. s2.build = s.build /\ s2.files = s.files /\ s2.kind = "FileHash"
    BY <1>4 DEF FileHashStates
  <2> HIDE DEF s2
  <2>3. Fits(s2)
    BY <1>2, <1>3, <2>2 DEF StateFits
  <2> QED BY <1>1, <1>2, <2>1, <2>3, ReplaceFits
<1>6. CASE FileHashChunkEnd
  <2> DEFINE s2 == [s EXCEPT !.build = {}]
             s3 == [s EXCEPT !.build = {}, !.matchedKeys = @ \cup s.currentKeys]
  <2>1. active' = [active EXCEPT ![1] = s2] \/ active' = [active EXCEPT ![1] = s3]
    BY <1>6 DEF FileHashChunkEnd, Replace, s
  <2>2. /\ s2.build = {} /\ s2.files = s.files /\ s2.kind = "FileHash"
        /\ s3.build = {} /\ s3.files = s.files /\ s3.kind = "FileHash"
    BY <1>4 DEF FileHashStates
  <2> HIDE DEF s2, s3
  <2>3. Fits(s2) /\ Fits(s3)
    BY <1>2, <1>3, <2>2, NoRowsSize DEF StateFits
  <2> QED BY <1>1, <1>2, <2>1, <2>3, ReplaceFits
<1>7. CASE FileHashEnd
  <2> DEFINE s2 == [s EXCEPT !.emitted = TRUE]
  <2>1. active' = [active EXCEPT ![1] = s2] \/ active' = Tail(active)
    BY <1>7 DEF FileHashEnd, Replace, Finish, s
  <2>2. s2.build = s.build /\ s2.files = s.files /\ s2.kind = "FileHash"
    BY <1>4 DEF FileHashStates
  <2> HIDE DEF s2
  <2>3. Fits(s2)
    BY <1>2, <1>3, <2>2 DEF StateFits
  <2> QED BY <1>1, <1>2, <2>1, <2>3, ReplaceFits, FinishFits
<1> QED BY <1>5, <1>6, <1>7

\* A chunk of more than one file is within the limit; one file is within an input batch.
LEMMA FileHashChunkFits ==
    ASSUME IInv, FitInv, FileHashChunk
    PROVE  FitInv'
<1> DEFINE s == State
           k == ChunkLength(s.files)
           C == RowsOf(SubSeq(s.files, 1, k))
           fs == SubSeq(s.files, k + 1, Len(s.files))
           s2 == [s EXCEPT !.build = C, !.files = fs, !.probe = s.probeFiles,
                           !.matched = {}, !.currentKeys = {}]
<1>1. /\ Running("FileHash") /\ UNCHANGED <<query, pending>> /\ s.files # <<>>
      /\ active' = [active EXCEPT ![1] = s2]
  BY DEF FileHashChunk, Replace
<1>2. /\ status = "running" /\ active # <<>> /\ s \in JoinStateSet(joinType, Keyed)
      /\ s.kind = "FileHash"
  BY <1>1, RunningState
<1>3. StateFits(joinType, memoryLimit, InputBatches, s)
  BY <1>1, RunningFits
<1> HIDE DEF s
<1>4. FileHashOK(joinType, Keyed, s)
  BY <1>2, KindOfState
<1>5. FilesOK(Keyed, s.files) /\ s \in FileHashStates(Keyed)
  <2>1. FilesOK(Keyed, s.files)
    BY <1>4, FileHashFiles
  <2>2. s \in FileHashStates(Keyed)
    BY <1>4 DEF FileHashOK
  <2> QED BY <2>1, <2>2
<1>6. InOneBatch(InputBatches, s.files)
  BY <1>2, <1>3 DEF StateFits
<1>7. /\ InOneBatch(InputBatches, fs)
      /\ Cardinality(C) <= memoryLimit \/ \E X \in InputBatches : C \subseteq X
  BY <1>1, <1>5, <1>6, ChunkFits
<1> HIDE DEF fs, C
<1>8. s2.build = C /\ s2.files = fs /\ s2.kind = "FileHash"
  BY <1>5 DEF FileHashStates
<1> HIDE DEF s2
<1>9. StateFits(joinType, memoryLimit, InputBatches, s2)
  BY <1>7, <1>8 DEF StateFits
<1> QED BY <1>1, <1>2, <1>9, ReplaceFits

\* The other states have no table.
LEMMA BlockFits ==
    ASSUME IInv, FitInv, BlockStep \/ UnmatchedSideStep
    PROVE  FitInv'
<1> DEFINE s == State
           s2 == [s EXCEPT !.left = Tail(@)]
           s3 == [s EXCEPT !.files = Tail(@)]
<1>1. UNCHANGED <<query, pending>>
  BY DEF BlockStep, UnmatchedSideStep
<1>2. CASE BlockStep
  <2>1. /\ Running("Block")
        /\ active' = [active EXCEPT ![1] = s2] \/ active' = Tail(active)
    BY <1>2 DEF BlockStep, Replace, Finish
  <2>2. /\ status = "running" /\ active # <<>>
        /\ s \in JoinStateSet(joinType, Keyed) /\ s.kind = "Block"
    BY <2>1, RunningState
  <2> HIDE DEF s
  <2>3. s \in BlockStates(Keyed)
    BY <2>2, KindOfState DEF BlockOK
  <2>4. s2.kind = "Block"
    BY <2>3 DEF BlockStates
  <2> HIDE DEF s2
  <2>5. StateFits(joinType, memoryLimit, InputBatches, s2)
    BY <2>4 DEF StateFits
  <2> QED BY <1>1, <2>1, <2>2, <2>5, ReplaceFits, FinishFits
<1>3. CASE UnmatchedSideStep
  <2>1. /\ Running("UnmatchedSide")
        /\ active' = [active EXCEPT ![1] = s3] \/ active' = Tail(active)
    BY <1>3 DEF UnmatchedSideStep, Replace, Finish
  <2>2. /\ status = "running" /\ active # <<>> /\ s \in JoinStateSet(joinType, Keyed)
        /\ s.kind = "UnmatchedSide"
    BY <2>1, RunningState
  <2> HIDE DEF s
  <2>3. s \in UnmatchedSideStates(Keyed)
    BY <2>2, KindOfState DEF UnmatchedSideOK
  <2>4. s3.kind = "UnmatchedSide"
    BY <2>3 DEF UnmatchedSideStates
  <2> HIDE DEF s3
  <2>5. StateFits(joinType, memoryLimit, InputBatches, s3)
    BY <2>4 DEF StateFits
  <2> QED BY <1>1, <2>1, <2>2, <2>5, ReplaceFits, FinishFits
<1> QED BY <1>2, <1>3

\* The task at the head of the queue and those behind it.
LEMMA TaskOfPending ==
    ASSUME IInv, FitInv, Ready
    PROVE  TaskFits(InputBatches, Task) /\ TaskOK(Keyed, Task) /\ pending \in Seq(TasksOK(Keyed))
           /\ \A i \in DOMAIN Tail(pending) : TaskFits(InputBatches, Tail(pending)[i])
<1>1. LedgerInv /\ pending # <<>>
  BY DEF IInv, Ready
<1>2. pending \in Seq(TasksOK(Keyed))
  BY <1>1 DEF LedgerInv
<1>3. Task = pending[1] /\ 1 \in DOMAIN pending
  BY <1>1, <1>2 DEF Task
<1>4. TaskFits(InputBatches, Task)
  BY <1>3 DEF FitInv
<1>5. \A i \in DOMAIN Tail(pending) : i + 1 \in DOMAIN pending /\ Tail(pending)[i] = pending[i + 1]
  BY <1>1, <1>2
<1>6. \A i \in DOMAIN Tail(pending) : TaskFits(InputBatches, Tail(pending)[i])
  BY <1>5 DEF FitInv
<1>7. TaskOK(Keyed, Task)
  BY ReadyTask
<1> QED BY <1>2, <1>4, <1>6, <1>7

\* The inputs' own files are their batches.
LEMMA InputsFit ==
    ASSUME TypeInv
    PROVE  InOneBatch(InputBatches, BatchesOf("left", left))
           /\ InOneBatch(InputBatches, BatchesOf("right", right))
  BY DEF InOneBatch, InputBatches, BatchesOf

\* The steps that make and take tasks.
LEMMA TaskActionsFit ==
    ASSUME IInv, FitInv, Spill \/ SpillFails \/ PrepareOneSided \/ Repartition \/ Prepare \/ End
    PROVE  FitInv'
<1>1. UNCHANGED query /\ TypeInv
  BY DEF Spill, SpillFails, PrepareOneSided, Repartition, Prepare, End, IInv
<1>2. InputBatches' = InputBatches /\ joinType' = joinType /\ memoryLimit' = memoryLimit
  BY <1>1, SameInputs
<1> SUFFICES /\ \A i \in DOMAIN pending' : TaskFits(InputBatches, pending'[i])
             /\ \A i \in DOMAIN active' :
                   StateFits(joinType, memoryLimit, InputBatches, active'[i])
  BY <1>2 DEF FitInv
<1>3. CASE SpillFails \/ End
  <2>1. pending' = pending /\ active' = active
    BY <1>3 DEF SpillFails, End
  <2> QED BY <2>1 DEF FitInv
<1>4. CASE Spill
  <2> DEFINE L == BatchesOf("left", left)
             R == BatchesOf("right", right)
  <2>1. pending' = TasksOf(L, R, 0) /\ active' = active
    BY <1>4 DEF Spill
  <2>2. /\ FilesOK(Rows, L) /\ FilesOK(Rows, R)
        /\ InOneBatch(InputBatches, L) /\ InOneBatch(InputBatches, R)
    BY <1>1, InputRows, InputsFit
  <2>3. DOMAIN TasksOf(L, R, 0) = 1..Partitions
    BY DEF TasksOf
  <2> HIDE DEF L, R
  <2>4. \A i \in 1..Partitions : TaskFits(InputBatches, TasksOf(L, R, 0)[i])
    BY <2>2, TasksFit
  <2> QED BY <2>1, <2>3, <2>4 DEF FitInv
<1>5. CASE Repartition
  <2> DEFINE t == Task
             new == TasksOf(t.left, t.right, t.depth + 1)
             rest == Tail(pending)
  <2>1. Ready /\ pending' = rest \o new /\ active' = active
    BY <1>5 DEF Repartition
  <2>2. /\ TaskFits(InputBatches, t) /\ TaskOK(Keyed, t) /\ pending \in Seq(TasksOK(Keyed))
        /\ \A i \in DOMAIN rest : TaskFits(InputBatches, rest[i])
    BY <2>1, TaskOfPending
  <2>3. /\ FilesOK(Keyed, t.left) /\ FilesOK(Keyed, t.right)
        /\ InOneBatch(InputBatches, t.left) /\ InOneBatch(InputBatches, t.right)
    BY <2>2 DEF TaskOK, TaskSet, FilesOK, TaskFits
  <2>4. DOMAIN new = 1..Partitions
    BY DEF TasksOf
  <2>5. \A i \in 1..Partitions : TaskFits(InputBatches, new[i])
    BY <2>3, TasksFit
  <2>6. rest \in Seq(TasksOK(Keyed))
    BY <2>1, <2>2 DEF Ready
  <2>7. new \in Seq({new[i] : i \in 1..Partitions}) /\ Len(new) = Partitions
    <3>1. Partitions \in Nat /\ new = [i \in 1..Partitions |-> new[i]]
      BY JoinAssumption DEF TasksOf
    <3> HIDE DEF new
    <3> QED BY <3>1
  <2> HIDE DEF t, new, rest
  <2>8. \A i \in DOMAIN (rest \o new) :
            \/ i \in DOMAIN rest /\ (rest \o new)[i] = rest[i]
            \/ i - Len(rest) \in DOMAIN new /\ (rest \o new)[i] = new[i - Len(rest)]
    BY <2>6, <2>7
  <2>9. \A i \in DOMAIN (rest \o new) : TaskFits(InputBatches, (rest \o new)[i])
    BY <2>2, <2>4, <2>5, <2>8
  <2> QED BY <2>1, <2>9 DEF FitInv
<1>6. CASE Prepare
  <2>1. Ready /\ pending' = Tail(pending) /\ active' = PreparedStates(Task)
    BY <1>6 DEF Prepare
  <2>2. /\ TaskFits(InputBatches, Task) /\ TaskOK(Keyed, Task)
        /\ \A i \in DOMAIN Tail(pending) : TaskFits(InputBatches, Tail(pending)[i])
    BY <2>1, TaskOfPending
  <2>3. \A i \in DOMAIN PreparedStates(Task) :
            StateFits(joinType, memoryLimit, InputBatches, PreparedStates(Task)[i])
    BY <1>1, <2>2, FiniteRows, PreparedFit
  <2> QED BY <2>1, <2>2, <2>3
<1>7. CASE PrepareOneSided
  <2>1. /\ Ready /\ pending' = Tail(pending)
        /\ \/ active' = active
           \/ \E fs, side : active' = <<UnmatchedSideState(fs, side)>>
    BY <1>7 DEF PrepareOneSided
  <2>2. \A i \in DOMAIN Tail(pending) : TaskFits(InputBatches, Tail(pending)[i])
    BY <2>1, TaskOfPending
  <2>3. \A i \in DOMAIN active' : StateFits(joinType, memoryLimit, InputBatches, active'[i])
    <3>1. CASE active' = active
      BY <3>1 DEF FitInv
    <3>2. CASE \E fs, side : active' = <<UnmatchedSideState(fs, side)>>
      <4>1. PICK fs, side : active' = <<UnmatchedSideState(fs, side)>>
        BY <3>2
      <4>2. UnmatchedSideState(fs, side).kind = "UnmatchedSide"
        BY DEF UnmatchedSideState
      <4>3. StateFits(joinType, memoryLimit, InputBatches, UnmatchedSideState(fs, side))
        BY <4>2 DEF StateFits
      <4> QED BY <4>1, <4>3
    <3> QED BY <2>1, <3>1, <3>2
  <2> QED BY <2>1, <2>2, <2>3
<1> QED BY <1>3, <1>4, <1>5, <1>6, <1>7

\* The hash table of a state is within memory_limit_bytes, unless it holds rows of one input
\* batch only, which a chunk cannot split, or it is the right side of a semi join.
THEOREM TablesFit ==
    Spec => []BuildFits
<1>1. Init => FitInv
  BY DEF Init, FitInv
<1>2. IInv /\ FitInv /\ [Next]_vars => FitInv'
  <2> SUFFICES ASSUME IInv, FitInv, [Next]_vars PROVE FitInv'
    OBVIOUS
  <2>1. CASE Next
    BY <2>1, TaskActionsFit, HashFits, FileHashFits, FileHashChunkFits, BlockFits DEF Next
  <2>2. CASE UNCHANGED vars
    <3>1. UNCHANGED query /\ pending' = pending /\ active' = active
      BY <2>2 DEF vars, query
    <3> QED BY <3>1, SameInputs DEF FitInv
  <2> QED BY <2>1, <2>2
<1>3. FitInv => BuildFits
  <2> SUFFICES ASSUME FitInv, NEW i \in DOMAIN active, active[i].kind \in {"Hash", "FileHash"}
               PROVE  \/ Cardinality(active[i].build) <= memoryLimit
                      \/ joinType = "Semi" /\ active[i].kind = "Hash"
                      \/ \E b \in DOMAIN left :
                            active[i].build \subseteq BatchOf("left", left[b], b)
                      \/ \E b \in DOMAIN right :
                            active[i].build \subseteq BatchOf("right", right[b], b)
    BY DEF BuildFits
  <2>1. StateFits(joinType, memoryLimit, InputBatches, active[i])
    BY DEF FitInv
  <2>2. CASE \E X \in InputBatches : active[i].build \subseteq X
    BY <2>2 DEF InputBatches
  <2> QED BY <2>1, <2>2 DEF StateFits
<1> QED BY <1>1, <1>2, <1>3, Invariance, PTL DEF Spec

-----------------------------------------------------------------------------
(* FULL joins.                                                             *)
\* The rows of the inputs.
LeftRows == RowsOf(BatchesOf("left", left))
RightRows == RowsOf(BatchesOf("right", right))

\* The rows of A without a partner in B, and the FULL join of rows that all have keys.
Lonely(A, B) == {a \in A : \A b \in B : Key(a) # Key(b)}
FullRel(L, R) ==
    Pairs(L, R) \cup {<<l, NullRow>> : l \in Lonely(L, R)} \cup {<<NullRow, r>> : r \in Lonely(R, L)}
FullSide(side, B, P) == IF side = "left" THEN FullRel(B, P) ELSE FullRel(P, B)

\* Every row has a partner on the other side.
Partnered(L, R) == Lonely(L, R) = {} /\ Lonely(R, L) = {}

\* Two rows that no salt puts into different partitions, at any depth up to d.
SameHash(x, y, d) == hash[d][Key(x)] % Partitions = hash[d][Key(y)] % Partitions
Together(x, y, d) == \A e \in 0..d : SameHash(x, y, e)

\* No key has enough rows to be heavy; the rows of one side that cannot be separated
\* from each other fit in memory.
Light ==
    \A k \in Keys : /\ Cardinality({row \in LeftRows : Key(row) = k}) < HeavyRows
                    /\ Cardinality({row \in RightRows : Key(row) = k}) < HeavyRows
Separable ==
    \A row \in LeftRows :
        \/ Cardinality({x \in LeftRows : Together(x, row, MaxDepth)}) <= memoryLimit
        \/ Cardinality({x \in RightRows : Together(x, row, MaxDepth)}) <= memoryLimit

\* The FULL joins that are exact: no key is NULL, and either every row has a partner or no
\* key is heavy and every partition can be split until it fits.
FullFits ==
    /\ joinType = "Full"
    /\ \A row \in LeftRows \cup RightRows : Key(row) # Null
    /\ Partnered(LeftRows, RightRows) \/ (Light /\ Separable)

\* What a task owes; what holds of the rows of a task.
TaskExact(t) == FullRel(RowsOf(t.left), RowsOf(t.right))
TaskGood(t) ==
    /\ RowsOf(t.left) \subseteq LeftRows /\ RowsOf(t.right) \subseteq RightRows
    /\ Partnered(LeftRows, RightRows) => Partnered(RowsOf(t.left), RowsOf(t.right))
    /\ \A x, y \in RowsOf(t.left) \cup RowsOf(t.right) : Together(x, y, t.depth)

\* What a state owes: a Hash state the pairs and the probe rows without partner of the
\* batches to come, and the build rows that have no partner before or after; a FileHash state,
\* which is made only where it matters that all rows have partners, the pairs to come.
HashExact(s) ==
    Joined(s.build, RowsOf(s.probe), s.side)
        \cup UnmatchedPairs(Lonely(RowsOf(s.probe), s.build), s.side)
        \cup IF s.emitted THEN {} ELSE UnmatchedBuild(Lonely(s.build \ s.matched, RowsOf(s.probe)), s.side)
FileHashGood(s) ==
    /\ Lonely(RowsOf(s.files), RowsOf(s.probeFiles)) = {}
    /\ s.build \subseteq s.matched \cup MatchedBuild(s.build, RowsOf(s.probe))
    /\ \A b \in s.matched : Key(b) \in s.currentKeys
    /\ \A p \in RowsOf(s.probeFiles) :
          Key(p) \in s.matchedKeys \cup KeysIn(s.build) \cup KeysIn(RowsOf(s.files))
StateExact(s) ==
    IF s.kind = "Hash" THEN HashExact(s)
    ELSE IF s.kind = "FileHash" THEN JoinFuture(s) ELSE UnmatchedSideFuture(s)
StateGood(s) == s.kind = "FileHash" => FileHashGood(s)

\* What all tasks and all states owe.
TasksOwe(tasks) == UNION {TaskExact(tasks[i]) : i \in DOMAIN tasks}
StatesOwe(states) == UNION {StateExact(states[j]) : j \in DOMAIN states}

\* What a set of rows without NULL keys joins to, seen from the build side.
LEMMA FullSideIs ==
    ASSUME NEW side \in Sides, NEW B, NEW P
    PROVE  FullSide(side, B, P) = Joined(B, P, side) \cup UnmatchedBuild(Lonely(B, P), side)
                                    \cup UnmatchedPairs(Lonely(P, B), side)
<1>1. CASE side = "left"
  <2>1. /\ UnmatchedBuild(Lonely(B, P), side) = {<<l, NullRow>> : l \in Lonely(B, P)}
        /\ UnmatchedPairs(Lonely(P, B), side) = {<<NullRow, r>> : r \in Lonely(P, B)}
    BY <1>1 DEF UnmatchedBuild, UnmatchedPairs, Pair
  <2>2. Joined(B, P, side) = Pairs(B, P)
    BY <1>1, JoinedIsPairs
  <2> QED BY <1>1, <2>1, <2>2 DEF FullSide, FullRel
<1>2. CASE side = "right"
  <2>1. /\ UnmatchedBuild(Lonely(B, P), side) = {<<NullRow, r>> : r \in Lonely(B, P)}
        /\ UnmatchedPairs(Lonely(P, B), side) = {<<l, NullRow>> : l \in Lonely(P, B)}
    BY <1>2 DEF UnmatchedBuild, UnmatchedPairs, Pair
  <2>2. Joined(B, P, side) = Pairs(P, B)
    BY <1>2, JoinedIsPairs
  <2> QED BY <1>2, <2>1, <2>2 DEF FullSide, FullRel
<1> QED BY <1>1, <1>2 DEF Sides

\* The FULL join of rows with keys is the one SQL asks for.
LEMMA SqlFullIs ==
    ASSUME \A row \in LeftRows \cup RightRows : Key(row) # Null
    PROVE  SqlJoin("Full", left, right) = FullRel(LeftRows, RightRows)
<1> DEFINE L == LeftRows
           R == RightRows
           pairs == {lr \in L \X R : Key(lr[1]) = Key(lr[2]) /\ Key(lr[1]) # Null}
           aloneL == {x \in L : \A lr \in pairs : lr[1] # x}
           aloneR == {x \in R : \A lr \in pairs : lr[2] # x}
<1>1. SqlJoin("Full", left, right)
        = pairs \cup {<<l, NullRow>> : l \in aloneL} \cup {<<NullRow, r>> : r \in aloneR}
  BY DEF SqlJoin, LeftRows, RightRows
<1>2. pairs = Pairs(L, R)
  BY DEF Pairs
<1>3. \A row \in L \cup R : Key(row) # Null
  OBVIOUS
<1> HIDE DEF L, R
<1>4. \A l \in L, r \in R : Key(l) = Key(r) => <<l, r>> \in pairs
  BY <1>3
<1>5. \A lr \in pairs : lr[1] \in L /\ lr[2] \in R /\ Key(lr[1]) = Key(lr[2])
  OBVIOUS
<1> HIDE DEF pairs
<1>6. aloneL = Lonely(L, R)
  <2>1. ASSUME NEW x \in aloneL PROVE x \in Lonely(L, R)
    <3>1. \A r \in R : Key(x) # Key(r)
      <4> SUFFICES ASSUME NEW r \in R, Key(x) = Key(r) PROVE FALSE
        OBVIOUS
      <4>1. <<x, r>> \in pairs /\ <<x, r>>[1] = x
        BY <1>4
      <4> QED BY <4>1
    <3> QED BY <3>1 DEF Lonely
  <2>2. ASSUME NEW x \in Lonely(L, R) PROVE x \in aloneL
    BY <1>5 DEF Lonely
  <2> QED BY <2>1, <2>2
<1>7. aloneR = Lonely(R, L)
  <2>1. ASSUME NEW x \in aloneR PROVE x \in Lonely(R, L)
    <3>1. \A l \in L : Key(x) # Key(l)
      <4> SUFFICES ASSUME NEW l \in L, Key(x) = Key(l) PROVE FALSE
        OBVIOUS
      <4>1. <<l, x>> \in pairs /\ <<l, x>>[2] = x
        BY <1>4
      <4> QED BY <4>1
    <3> QED BY <3>1 DEF Lonely
  <2>2. ASSUME NEW x \in Lonely(R, L) PROVE x \in aloneR
    BY <1>5 DEF Lonely
  <2> QED BY <2>1, <2>2
<1> QED BY <1>1, <1>2, <1>6, <1>7 DEF FullRel, L, R

\* The sets of C divide the rows of T by their keys.
DividesByKey(C, T) ==
    /\ \A x \in T : \E U \in C : x \in U
    /\ \A U \in C : \A x \in U, y \in T : Key(x) = Key(y) => y \in U

\* Rows divided by their keys can be joined apart; partners stay together.
LEMMA FullDivide ==
    ASSUME NEW T, NEW L, NEW R, L \subseteq T, R \subseteq T, NEW C, DividesByKey(C, T)
    PROVE  /\ FullRel(L, R) = UNION {FullRel(L \cap U, R \cap U) : U \in C}
           /\ Partnered(L, R) => \A U \in C : Partnered(L \cap U, R \cap U)
<1>1. \A A, B : A \subseteq T /\ B \subseteq T =>
          \A U \in C : Lonely(A \cap U, B \cap U) = Lonely(A, B) \cap U
  <2> SUFFICES ASSUME NEW A, NEW B, A \subseteq T, B \subseteq T, NEW U \in C
               PROVE  Lonely(A \cap U, B \cap U) = Lonely(A, B) \cap U
    OBVIOUS
  <2>1. \A a \in A \cap U, b \in B : Key(a) = Key(b) => b \in U
    BY DEF DividesByKey
  <2> QED BY <2>1 DEF Lonely
<1>2. Pairs(L, R) = UNION {Pairs(L \cap U, R \cap U) : U \in C}
  <2>1. ASSUME NEW x \in Pairs(L, R) PROVE \E U \in C : x \in Pairs(L \cap U, R \cap U)
    <3>1. x \in L \X R /\ x[1] \in L /\ x[2] \in R /\ Key(x[1]) = Key(x[2]) /\ Key(x[1]) # Null
      BY DEF Pairs
    <3>2. PICK U \in C : x[1] \in U
      BY <3>1 DEF DividesByKey
    <3>3. x[2] \in U
      BY <3>1, <3>2 DEF DividesByKey
    <3>4. x \in (L \cap U) \X (R \cap U)
      BY <3>1, <3>2, <3>3
    <3> QED BY <3>1, <3>4 DEF Pairs
  <2>2. ASSUME NEW U \in C PROVE Pairs(L \cap U, R \cap U) \subseteq Pairs(L, R)
    BY DEF Pairs
  <2> QED BY <2>1, <2>2
<1>3. \A x \in Lonely(L, R) \cup Lonely(R, L) : \E U \in C : x \in U
  BY DEF Lonely, DividesByKey
<1>4. \A U \in C : FullRel(L \cap U, R \cap U)
                    = Pairs(L \cap U, R \cap U) \cup {<<l, NullRow>> : l \in Lonely(L, R) \cap U}
                        \cup {<<NullRow, r>> : r \in Lonely(R, L) \cap U}
  <2> TAKE U \in C
  <2>1. Lonely(L \cap U, R \cap U) = Lonely(L, R) \cap U
    BY <1>1
  <2>2. Lonely(R \cap U, L \cap U) = Lonely(R, L) \cap U
    BY <1>1
  <2> QED BY <2>1, <2>2 DEF FullRel
<1>5. FullRel(L, R) \subseteq UNION {FullRel(L \cap U, R \cap U) : U \in C}
  <2> SUFFICES ASSUME NEW x \in FullRel(L, R) PROVE \E U \in C : x \in FullRel(L \cap U, R \cap U)
    OBVIOUS
  <2>1. CASE x \in Pairs(L, R)
    BY <1>2, <1>4, <2>1
  <2>2. CASE x \in {<<l, NullRow>> : l \in Lonely(L, R)}
    BY <1>3, <1>4, <2>2
  <2>3. CASE x \in {<<NullRow, r>> : r \in Lonely(R, L)}
    BY <1>3, <1>4, <2>3
  <2> QED BY <2>1, <2>2, <2>3 DEF FullRel
<1>6. \A U \in C : FullRel(L \cap U, R \cap U) \subseteq FullRel(L, R)
  <2> TAKE U \in C
  <2>1. Pairs(L \cap U, R \cap U) \subseteq Pairs(L, R)
    BY <1>2
  <2>2. /\ {<<l, NullRow>> : l \in Lonely(L, R) \cap U} \subseteq {<<l, NullRow>> : l \in Lonely(L, R)}
        /\ {<<NullRow, r>> : r \in Lonely(R, L) \cap U} \subseteq {<<NullRow, r>> : r \in Lonely(R, L)}
    OBVIOUS
  <2>3. FullRel(L \cap U, R \cap U)
          = Pairs(L \cap U, R \cap U) \cup {<<l, NullRow>> : l \in Lonely(L, R) \cap U}
              \cup {<<NullRow, r>> : r \in Lonely(R, L) \cap U}
    BY <1>4
  <2> QED BY <2>1, <2>2, <2>3 DEF FullRel
<1>7. Partnered(L, R) => \A U \in C : Partnered(L \cap U, R \cap U)
  BY <1>1 DEF Partnered
<1> QED BY <1>5, <1>6, <1>7

\* Rows without partners on an empty side, and the join of nothing.
LEMMA FullEmpty ==
    /\ FullRel({}, {}) = {}
    /\ \A A : Lonely(A, {}) = A /\ Lonely({}, A) = {}
    /\ \A A, side : FullSide(side, A, {}) = UnmatchedBuild(A, side) \/ side \notin Sides
    /\ \A A : Partnered(A, {}) \/ Partnered({}, A) => A = {}
<1>1. \A A : Lonely(A, {}) = A /\ Lonely({}, A) = {}
  BY DEF Lonely
<1>2. \A A : Partnered(A, {}) \/ Partnered({}, A) => A = {}
  BY <1>1 DEF Partnered
<1>3. FullRel({}, {}) = {}
  BY <1>1 DEF FullRel, Pairs
<1>4. ASSUME NEW A, NEW side \in Sides PROVE FullSide(side, A, {}) = UnmatchedBuild(A, side)
  <2>1. Joined(A, {}, side) = {} /\ UnmatchedPairs({}, side) = {}
    BY NoRows
  <2>2. FullSide(side, A, {}) = Joined(A, {}, side) \cup UnmatchedBuild(Lonely(A, {}), side)
                                    \cup UnmatchedPairs(Lonely({}, A), side)
    BY FullSideIs
  <2> QED BY <1>1, <2>1, <2>2
<1> QED BY <1>1, <1>2, <1>3, <1>4

-----------------------------------------------------------------------------
(* FULL joins: tasks.                                                      *)
\* The tasks of the next depth owe what the files they are made from do, keep partners
\* together, and hold only rows which this depth's salt does not separate.
LEMMA FullTasks ==
    ASSUME hash \in Hashes, NEW T, RowSet(T), WithKey(T) = T, NEW lf, NEW rf,
           FilesOK(T, lf), FilesOK(T, rf), NEW d \in 0..MaxDepth
    PROVE  LET tasks == TasksOf(lf, rf, d)
           IN  /\ TasksOwe(tasks) = FullRel(RowsOf(lf), RowsOf(rf))
               /\ \A p \in DOMAIN tasks :
                     /\ RowsOf(tasks[p].left) \subseteq RowsOf(lf)
                     /\ RowsOf(tasks[p].right) \subseteq RowsOf(rf)
                     /\ tasks[p].depth = d
                     /\ Partnered(RowsOf(lf), RowsOf(rf)) =>
                           Partnered(RowsOf(tasks[p].left), RowsOf(tasks[p].right))
                     /\ \A x, y \in RowsOf(tasks[p].left) \cup RowsOf(tasks[p].right) :
                           SameHash(x, y, d)
<1> DEFINE tasks == TasksOf(lf, rf, d)
           L == RowsOf(lf)
           R == RowsOf(rf)
           U(p) == InPartition(T, p - 1, d)
           C == {U(p) : p \in 1..Partitions}
<1>0. Partitions \in Nat \ {0}
  BY JoinAssumption
<1>1. DOMAIN tasks = 1..Partitions
  BY DEF TasksOf
<1>2. \A p \in 1..Partitions : /\ tasks[p].left = PartitionFiles(lf, p - 1, d)
                               /\ tasks[p].right = PartitionFiles(rf, p - 1, d)
                               /\ tasks[p].depth = d
  BY DEF TasksOf
<1> HIDE DEF tasks
<1>3. \A p \in 1..Partitions : RowsOf(tasks[p].left) = L \cap U(p) /\ RowsOf(tasks[p].right) = R \cap U(p)
  BY <1>2, PartitionedFiles
<1>4. L \subseteq T /\ R \subseteq T
  BY RowsIn
<1> HIDE DEF L, R
<1>5. DividesByKey(C, T)
  <2>1. ASSUME NEW x \in T PROVE \E p \in 1..Partitions : x \in U(p)
    <3> DEFINE h == hash[d][Key(x)] % Partitions
    <3>1. h \in 0..(Partitions - 1)
      BY OnePartition
    <3>2. x \in InPartition(T, h, d)
      BY DEF InPartition, WithKey
    <3> HIDE DEF h
    <3>3. h + 1 \in 1..Partitions /\ (h + 1) - 1 = h
      BY <1>0, <3>1
    <3> QED BY <3>2, <3>3
  <2>2. ASSUME NEW p \in 1..Partitions, NEW x \in U(p), NEW y \in T, Key(x) = Key(y)
        PROVE  y \in U(p)
    BY <2>2 DEF InPartition
  <2> QED BY <2>1, <2>2 DEF DividesByKey
<1>6. /\ FullRel(L, R) = UNION {FullRel(L \cap V, R \cap V) : V \in C}
      /\ Partnered(L, R) => \A V \in C : Partnered(L \cap V, R \cap V)
  BY <1>4, <1>5, FullDivide
<1>7. \A p \in 1..Partitions : \A x, y \in U(p) : SameHash(x, y, d)
  BY DEF InPartition, SameHash
<1> HIDE DEF U
<1>8. \A p \in 1..Partitions : TaskExact(tasks[p]) = FullRel(L \cap U(p), R \cap U(p))
  BY <1>3 DEF TaskExact
<1>9. TasksOwe(tasks) = FullRel(L, R)
  <2>1. TasksOwe(tasks) = UNION {TaskExact(tasks[p]) : p \in 1..Partitions}
    BY <1>1 DEF TasksOwe
  <2>2. ASSUME NEW x \in TasksOwe(tasks) PROVE x \in FullRel(L, R)
    BY <1>6, <1>8, <2>1
  <2>3. ASSUME NEW x \in FullRel(L, R) PROVE x \in TasksOwe(tasks)
    <3>1. PICK p \in 1..Partitions : x \in FullRel(L \cap U(p), R \cap U(p))
      BY <1>6
    <3> QED BY <1>8, <2>1, <3>1
  <2> QED BY <2>2, <2>3
<1>10. ASSUME NEW p \in 1..Partitions
       PROVE  /\ RowsOf(tasks[p].left) \subseteq L /\ RowsOf(tasks[p].right) \subseteq R
              /\ Partnered(L, R) => Partnered(RowsOf(tasks[p].left), RowsOf(tasks[p].right))
              /\ \A x, y \in RowsOf(tasks[p].left) \cup RowsOf(tasks[p].right) : SameHash(x, y, d)
  <2>1. U(p) \in C
    OBVIOUS
  <2>2. Partnered(L, R) => Partnered(L \cap U(p), R \cap U(p))
    BY <1>6, <2>1
  <2> QED BY <1>3, <1>7, <2>2
<1> QED BY <1>1, <1>2, <1>9, <1>10 DEF tasks, L, R

\* The inputs of a query without NULL keys.
LEMMA FullInputs ==
    ASSUME TypeInv, FullFits
    PROVE  /\ Rows = LeftRows \cup RightRows /\ Keyed = Rows
           /\ RowSet(Rows) /\ WithKey(Rows) = Rows /\ NullRow \notin Rows
           /\ \A row \in Rows : Key(row) \in Keys /\ Key(row) # Null
           /\ IsFiniteSet(LeftRows) /\ IsFiniteSet(RightRows)
<1>1. Rows = LeftRows \cup RightRows
  BY DEF Rows, LeftRows, RightRows
<1>2. \A row \in Rows : Key(row) # Null
  BY <1>1 DEF FullFits
<1>3. WithKey(Rows) = Rows /\ Keyed = Rows
  BY <1>2 DEF WithKey, Keyed
<1>4. RowSet(Rows)
  BY InputRows
<1>5. \A row \in Rows : Key(row) \in Keys
  BY <1>2, <1>4 DEF RowSet
<1>6. IsFiniteSet(LeftRows) /\ IsFiniteSet(RightRows)
  BY FiniteInput DEF TypeInv, LeftRows, RightRows
<1> QED BY <1>1, <1>2, <1>3, <1>4, <1>5, <1>6 DEF RowSet

\* The tasks made from a task, one level deeper, are as good.
LEMMA FullTasksGood ==
    ASSUME TypeInv, FullFits, NEW t \in TasksOK(Keyed), TaskGood(t), t.depth < MaxDepth
    PROVE  LET tasks == TasksOf(t.left, t.right, t.depth + 1)
           IN  /\ TasksOwe(tasks) = TaskExact(t)
               /\ \A p \in DOMAIN tasks : TaskGood(tasks[p])
<1> DEFINE d == t.depth + 1
           tasks == TasksOf(t.left, t.right, d)
<1>1. RowSet(Keyed) /\ WithKey(Keyed) = Keyed /\ hash \in Hashes
  BY FullInputs DEF TypeInv
<1>2. FilesOK(Keyed, t.left) /\ FilesOK(Keyed, t.right) /\ t.depth \in 0..MaxDepth
  BY DEF TasksOK, TaskOK, TaskSet, FilesOK
<1>3. d \in 0..MaxDepth /\ \A e \in 0..d : e = d \/ e \in 0..t.depth
  BY <1>2, JoinAssumption
<1> HIDE DEF d
<1>4. /\ TasksOwe(tasks) = FullRel(RowsOf(t.left), RowsOf(t.right))
      /\ \A p \in DOMAIN tasks :
            /\ RowsOf(tasks[p].left) \subseteq RowsOf(t.left)
            /\ RowsOf(tasks[p].right) \subseteq RowsOf(t.right)
            /\ tasks[p].depth = d
            /\ Partnered(RowsOf(t.left), RowsOf(t.right)) =>
                  Partnered(RowsOf(tasks[p].left), RowsOf(tasks[p].right))
            /\ \A x, y \in RowsOf(tasks[p].left) \cup RowsOf(tasks[p].right) : SameHash(x, y, d)
  BY <1>1, <1>2, <1>3, FullTasks
<1> HIDE DEF tasks
<1>5. ASSUME NEW p \in DOMAIN tasks PROVE TaskGood(tasks[p])
  <2>1. \A x, y \in RowsOf(tasks[p].left) \cup RowsOf(tasks[p].right) : Together(x, y, d)
    BY <1>3, <1>4 DEF TaskGood, Together
  <2> QED BY <1>4, <2>1 DEF TaskGood
<1> QED BY <1>4, <1>5 DEF tasks, d, TaskExact

\* The tasks of depth 0 owe the whole join.
LEMMA FullSpilled ==
    ASSUME TypeInv, FullFits
    PROVE  LET tasks == TasksOf(BatchesOf("left", left), BatchesOf("right", right), 0)
           IN  /\ TasksOwe(tasks) = FullRel(LeftRows, RightRows)
               /\ \A p \in DOMAIN tasks : TaskGood(tasks[p])
<1> DEFINE lf == BatchesOf("left", left)
           rf == BatchesOf("right", right)
           tasks == TasksOf(lf, rf, 0)
<1>1. RowSet(Rows) /\ WithKey(Rows) = Rows /\ hash \in Hashes
  BY FullInputs DEF TypeInv
<1>2. FilesOK(Rows, lf) /\ FilesOK(Rows, rf) /\ 0 \in 0..MaxDepth /\ 0..0 = {0}
  BY InputRows, JoinAssumption
<1> HIDE DEF lf, rf
<1>3. /\ TasksOwe(tasks) = FullRel(RowsOf(lf), RowsOf(rf))
      /\ \A p \in DOMAIN tasks :
            /\ RowsOf(tasks[p].left) \subseteq RowsOf(lf)
            /\ RowsOf(tasks[p].right) \subseteq RowsOf(rf)
            /\ tasks[p].depth = 0
            /\ Partnered(RowsOf(lf), RowsOf(rf)) =>
                  Partnered(RowsOf(tasks[p].left), RowsOf(tasks[p].right))
            /\ \A x, y \in RowsOf(tasks[p].left) \cup RowsOf(tasks[p].right) : SameHash(x, y, 0)
  BY <1>1, <1>2, FullTasks
<1>4. RowsOf(lf) = LeftRows /\ RowsOf(rf) = RightRows
  BY DEF lf, rf, LeftRows, RightRows
<1> HIDE DEF tasks
<1>5. ASSUME NEW p \in DOMAIN tasks PROVE TaskGood(tasks[p])
  <2>1. \A x, y \in RowsOf(tasks[p].left) \cup RowsOf(tasks[p].right) : Together(x, y, 0)
    BY <1>2, <1>3 DEF Together
  <2> QED BY <1>3, <1>4, <2>1 DEF TaskGood
<1> QED BY <1>3, <1>4, <1>5 DEF tasks, lf, rf

-----------------------------------------------------------------------------
(* FULL joins: states.                                                     *)
\* Rows with keys have a lookup that finds something iff they have a partner.
LEMMA LonelyRows ==
    ASSUME NEW T, WithKey(T) = T, NEW B, NEW P, B \subseteq T, P \subseteq T, NEW side
    PROVE  /\ UnmatchedProbe(B, P, side) = UnmatchedPairs(Lonely(P, B), side)
           /\ MatchedBuild(B, P) = B \ Lonely(B, P)
<1>1. \A row \in T : Key(row) # Null
  BY DEF WithKey
<1>2. ASSUME NEW p \in P PROVE Matches(B, p) = {} <=> \A b \in B : Key(p) # Key(b)
  BY <1>1 DEF Matches
<1>3. {p \in P : Matches(B, p) = {}} = Lonely(P, B)
  BY <1>2 DEF Lonely
<1>4. UnmatchedProbe(B, P, side) = UnmatchedPairs(Lonely(P, B), side)
  BY <1>3 DEF UnmatchedProbe, UnmatchedPairs
<1>5. \A b : b \in MatchedBuild(B, P) <=> b \in B /\ \E p \in P : Key(b) = Key(p)
  BY <1>1 DEF MatchedBuild, Matches
<1>6. MatchedBuild(B, P) = B \ Lonely(B, P)
  BY <1>5 DEF Lonely
<1> QED BY <1>4, <1>6

\* A new Hash state owes the join of its two sides.
LEMMA FullFreshHash ==
    ASSUME NEW side \in Sides, NEW b, NEW p
    PROVE  /\ StateExact(HashState(b, p, side)) = FullSide(side, RowsOf(b), RowsOf(p))
           /\ StateGood(HashState(b, p, side))
<1> DEFINE s == HashState(b, p, side)
<1>1. /\ s.kind = "Hash" /\ s.build = RowsOf(b) /\ s.probe = p /\ s.side = side
      /\ s.matched = {} /\ s.emitted = FALSE
  BY DEF HashState
<1> HIDE DEF s
<1>2. StateExact(s) = HashExact(s) /\ StateGood(s)
  BY <1>1 DEF StateExact, StateGood
<1>3. s.build \ s.matched = RowsOf(b)
  BY <1>1
<1>4. HashExact(s) = Joined(RowsOf(b), RowsOf(p), side)
                        \cup UnmatchedPairs(Lonely(RowsOf(p), RowsOf(b)), side)
                        \cup UnmatchedBuild(Lonely(RowsOf(b), RowsOf(p)), side)
  BY <1>1, <1>3 DEF HashExact
<1>5. HashExact(s) = FullSide(side, RowsOf(b), RowsOf(p))
  BY <1>4, FullSideIs
<1> QED BY <1>2, <1>5 DEF s

\* A new FileHash state of rows with partners owes their join.
LEMMA FullFreshFileHash ==
    ASSUME NEW side \in Sides, NEW b, NEW p, Partnered(RowsOf(b), RowsOf(p))
    PROVE  /\ StateExact(FileHashState(b, p, side)) = FullSide(side, RowsOf(b), RowsOf(p))
           /\ StateGood(FileHashState(b, p, side))
<1> DEFINE s == FileHashState(b, p, side)
           B == RowsOf(b)
           P == RowsOf(p)
<1>1. /\ s.kind = "FileHash" /\ s.files = b /\ s.probeFiles = p /\ s.side = side
      /\ s.build = {} /\ s.probe = <<>> /\ s.matched = {}
  BY DEF FileHashState
<1> HIDE DEF s
<1>2. StateExact(s) = JoinFuture(s)
  BY <1>1 DEF StateExact
<1>3. JoinFuture(s) = Joined(B, P, side)
  BY <1>1, NoRows DEF JoinFuture
<1>4. FullSide(side, B, P) = Joined(B, P, side)
  <2>1. UnmatchedBuild({}, side) = {} /\ UnmatchedPairs({}, side) = {}
    BY NoRows
  <2>2. Lonely(B, P) = {} /\ Lonely(P, B) = {}
    BY DEF Partnered
  <2>3. FullSide(side, B, P) = Joined(B, P, side) \cup UnmatchedBuild(Lonely(B, P), side)
                                  \cup UnmatchedPairs(Lonely(P, B), side)
    BY FullSideIs
  <2> QED BY <2>1, <2>2, <2>3
<1>5. FileHashGood(s)
  <2>1. Lonely(B, P) = {} /\ \A x \in P : \E y \in B : Key(x) = Key(y)
    BY DEF Partnered, Lonely
  <2>2. \A x \in P : Key(x) \in KeysIn(B)
    BY <2>1 DEF KeysIn
  <2> QED BY <1>1, <2>1, <2>2 DEF FileHashGood
<1> QED BY <1>1, <1>2, <1>3, <1>4, <1>5 DEF StateGood, s

\* One probe batch of a Hash state.
LEMMA FullHashProbe ==
    ASSUME NEW T, WithKey(T) = T, NEW s, HashOK("Full", T, s), s.probe # <<>>,
           NEW s2, s2 = [s EXCEPT !.probe = Tail(@),
                                  !.matched = @ \cup MatchedBuild(s.build, Head(s.probe))]
    PROVE  /\ StateExact(s) = Probed("Full", s.build, Head(s.probe), s.side) \cup StateExact(s2)
           /\ StateGood(s2)
<1> DEFINE B == s.build
           H == Head(s.probe)
           R == RowsOf(Tail(s.probe))
<1>1. FilesOK(T, s.probe) /\ s.side \in Sides /\ B \subseteq T /\ s \in HashStates(T)
  BY DEF HashOK, HashStates, FilesOK
<1>2. H \subseteq T /\ FilesOK(T, Tail(s.probe)) /\ RowsOf(s.probe) = H \cup R /\ R \subseteq T
  BY <1>1, HeadTail, RowsIn
<1>3. /\ s2.kind = "Hash" /\ s.kind = "Hash" /\ s2.build = B /\ s2.probe = Tail(s.probe)
      /\ s2.side = s.side /\ s2.emitted = s.emitted
      /\ s2.matched = s.matched \cup MatchedBuild(B, H)
  BY <1>1 DEF HashStates
<1>4. /\ UnmatchedProbe(B, H, s.side) = UnmatchedPairs(Lonely(H, B), s.side)
      /\ MatchedBuild(B, H) = B \ Lonely(B, H)
  BY <1>1, <1>2, LonelyRows
<1>5. Probed("Full", B, H, s.side) = Joined(B, H, s.side) \cup UnmatchedPairs(Lonely(H, B), s.side)
  BY <1>1, <1>4, ProbedIs DEF Types
<1> HIDE DEF B, H, R
<1>6. Joined(B, H \cup R, s.side) = Joined(B, H, s.side) \cup Joined(B, R, s.side)
  BY DEF Joined
<1>7. UnmatchedPairs(Lonely(H \cup R, B), s.side)
        = UnmatchedPairs(Lonely(H, B), s.side) \cup UnmatchedPairs(Lonely(R, B), s.side)
  BY DEF UnmatchedPairs, Lonely
<1>8. Lonely(B \ s.matched, H \cup R) = Lonely(B \ (s.matched \cup MatchedBuild(B, H)), R)
  BY <1>4 DEF Lonely
<1>9. HashExact(s) = Joined(B, H \cup R, s.side)
                        \cup UnmatchedPairs(Lonely(H \cup R, B), s.side)
                        \cup IF s.emitted THEN {}
                             ELSE UnmatchedBuild(Lonely(B \ s.matched, H \cup R), s.side)
  BY <1>2 DEF HashExact, B
<1>10. HashExact(s2) = Joined(B, R, s.side)
                        \cup UnmatchedPairs(Lonely(R, B), s.side)
                        \cup IF s.emitted THEN {}
                             ELSE UnmatchedBuild(Lonely(B \ s.matched, H \cup R), s.side)
  BY <1>3, <1>8 DEF HashExact, R
<1>11. StateExact(s) = HashExact(s) /\ StateExact(s2) = HashExact(s2) /\ StateGood(s2)
  BY <1>3 DEF StateExact, StateGood
<1> DEFINE owed == IF s.emitted THEN {} ELSE UnmatchedBuild(Lonely(B \ s.matched, H \cup R), s.side)
<1>12. /\ HashExact(s) = (Joined(B, H, s.side) \cup Joined(B, R, s.side))
             \cup (UnmatchedPairs(Lonely(H, B), s.side) \cup UnmatchedPairs(Lonely(R, B), s.side))
             \cup owed
       /\ HashExact(s2) = Joined(B, R, s.side) \cup UnmatchedPairs(Lonely(R, B), s.side) \cup owed
  BY <1>6, <1>7, <1>9, <1>10
<1> HIDE DEF owed
<1>13. HashExact(s) = Probed("Full", B, H, s.side) \cup HashExact(s2)
  BY <1>5, <1>12
<1> QED BY <1>11, <1>13 DEF B, H

\* A Hash state after its last probe batch.
LEMMA FullHashEnd ==
    ASSUME NEW T, NEW s, HashOK("Full", T, s), s.probe = <<>>
    PROVE  /\ ~s.emitted => LET s2 == [s EXCEPT !.emitted = TRUE]
                            IN  /\ StateExact(s) = UnmatchedBuild(s.build \ s.matched, s.side)
                                                      \cup StateExact(s2)
                                /\ StateGood(s2)
           /\ s.emitted => StateExact(s) = {}
<1>1. s \in HashStates(T) /\ s.kind = "Hash"
  BY DEF HashOK, HashStates
<1>2. /\ \A A : Lonely(A, {}) = A /\ Lonely({}, A) = {}
      /\ \A A, side : Joined(A, {}, side) = {} /\ UnmatchedPairs({}, side) = {}
  BY FullEmpty, NoRows
<1>3. ASSUME NEW u, u.kind = "Hash", u.probe = <<>>
      PROVE  StateExact(u) = IF u.emitted THEN {} ELSE UnmatchedBuild(u.build \ u.matched, u.side)
  <2>1. HashExact(u) = IF u.emitted THEN {} ELSE UnmatchedBuild(u.build \ u.matched, u.side)
    BY <1>2, <1>3, NoFiles DEF HashExact
  <2> QED BY <1>3, <2>1 DEF StateExact
<1>4. ASSUME ~s.emitted, NEW s2, s2 = [s EXCEPT !.emitted = TRUE]
      PROVE  /\ StateExact(s) = UnmatchedBuild(s.build \ s.matched, s.side) \cup StateExact(s2)
             /\ StateGood(s2)
  <2>1. s2.kind = "Hash" /\ s2.probe = <<>> /\ s2.emitted = TRUE
    BY <1>1, <1>4 DEF HashStates
  <2>2. StateExact(s2) = {} /\ StateGood(s2)
    BY <1>3, <2>1 DEF StateGood
  <2>3. StateExact(s) = UnmatchedBuild(s.build \ s.matched, s.side)
    BY <1>1, <1>3, <1>4
  <2> QED BY <2>2, <2>3
<1>5. s.emitted => StateExact(s) = {}
  BY <1>1, <1>3
<1> QED BY <1>4, <1>5

\* The next chunk of a FileHash state.
LEMMA FullChunk ==
    ASSUME NEW T, WithKey(T) = T, NEW s, FileHashOK("Full", T, s), StateGood(s),
           s.build = {}, NEW k \in 1..Len(s.files),
           NEW s2, s2 = [s EXCEPT !.build = RowsOf(SubSeq(s.files, 1, k)),
                                  !.files = SubSeq(@, k + 1, Len(@)),
                                  !.probe = s.probeFiles,
                                  !.matched = {}, !.currentKeys = {}]
    PROVE  StateExact(s) = StateExact(s2) /\ StateGood(s2)
<1> DEFINE a == SubSeq(s.files, 1, k)
           b == SubSeq(s.files, k + 1, Len(s.files))
           A == RowsOf(a)
           B == RowsOf(b)
           P == RowsOf(s.probeFiles)
<1>1. /\ FilesOK(T, s.files) /\ s.side \in Sides /\ P \subseteq T /\ RowsOf(s.files) \subseteq T
      /\ s \in FileHashStates(T) /\ s.kind = "FileHash"
  BY FileHashFiles DEF FileHashOK, FileHashStates
<1>2. RowsOf(s.files) = A \cup B
  BY <1>1, Prefix
<1>3. /\ s2.kind = "FileHash" /\ s2.build = A /\ s2.files = b /\ s2.probe = s.probeFiles
      /\ s2.probeFiles = s.probeFiles /\ s2.side = s.side /\ s2.matched = {}
      /\ s2.matchedKeys = s.matchedKeys
  BY <1>1 DEF FileHashStates
<1>4. FileHashGood(s)
  BY <1>1 DEF StateGood
<1> HIDE DEF a, b
<1>5. JoinFuture(s) = Joined(A \cup B, P, s.side)
  BY <1>2, NoRows DEF JoinFuture
<1>6. JoinFuture(s2) = Joined(A, P, s.side) \cup Joined(B, P, s.side)
  BY <1>3 DEF JoinFuture
<1>7. JoinFuture(s) = JoinFuture(s2)
  <2> HIDE DEF A, B, P
  <2>1. Joined(A \cup B, P, s.side) = Joined(A, P, s.side) \cup Joined(B, P, s.side)
    BY JoinedUnion
  <2> QED BY <1>5, <1>6, <2>1
<1>8. FileHashGood(s2)
  <2>1. Lonely(A \cup B, P) = {}
    BY <1>2, <1>4 DEF FileHashGood
  <2>2. Lonely(A, P) = {} /\ Lonely(B, P) = {}
    BY <2>1 DEF Lonely
  <2>3. MatchedBuild(A, P) = A \ Lonely(A, P)
    BY <1>1, <1>2, LonelyRows
  <2>4. \A p \in P : Key(p) \in s.matchedKeys \cup KeysIn({}) \cup KeysIn(A \cup B)
    BY <1>2, <1>4 DEF FileHashGood
  <2>5. KeysIn({}) = {} /\ KeysIn(A \cup B) = KeysIn(A) \cup KeysIn(B)
    BY DEF KeysIn
  <2>6. \A p \in P : Key(p) \in s.matchedKeys \cup KeysIn(A) \cup KeysIn(B)
    BY <2>4, <2>5
  <2> QED BY <1>3, <2>2, <2>3, <2>6 DEF FileHashGood
<1> QED BY <1>1, <1>3, <1>7, <1>8 DEF StateExact, StateGood

\* One probe batch against a chunk.
LEMMA FullChunkProbe ==
    ASSUME NEW T, NEW s, FileHashOK("Full", T, s), StateGood(s), s.probe # <<>>,
           NEW s2, s2 = [s EXCEPT !.probe = Tail(@),
                  !.matched = @ \cup MatchedBuild(s.build, Head(s.probe)),
                  !.currentKeys = @ \cup {Key(b) : b \in MatchedBuild(s.build, Head(s.probe))}]
    PROVE  /\ StateExact(s) = Probed("Inner", s.build, Head(s.probe), s.side) \cup StateExact(s2)
           /\ StateGood(s2)
<1> DEFINE B == s.build
           H == Head(s.probe)
           R == RowsOf(Tail(s.probe))
           J == Joined(RowsOf(s.files), RowsOf(s.probeFiles), s.side)
<1>1. FilesOK(T, s.probe) /\ s.side \in Sides /\ s \in FileHashStates(T) /\ s.kind = "FileHash"
  BY FileHashFiles DEF FileHashOK, FileHashStates
<1>2. RowsOf(s.probe) = H \cup R
  BY <1>1, HeadTail
<1>3. /\ s2.kind = "FileHash" /\ s2.build = B /\ s2.files = s.files /\ s2.probe = Tail(s.probe)
      /\ s2.probeFiles = s.probeFiles /\ s2.side = s.side
      /\ s2.matched = s.matched \cup MatchedBuild(B, H) /\ s2.matchedKeys = s.matchedKeys
      /\ s2.currentKeys = s.currentKeys \cup {Key(b) : b \in MatchedBuild(B, H)}
  BY <1>1 DEF FileHashStates
<1>4. FileHashGood(s)
  BY <1>1 DEF StateGood
<1>5. Probed("Inner", B, H, s.side) = Joined(B, H, s.side)
  BY <1>1, ProbedIs DEF Types
<1>6. JoinFuture(s) = Joined(B, H \cup R, s.side) \cup J
  BY <1>2 DEF JoinFuture
<1>7. JoinFuture(s2) = Joined(B, R, s.side) \cup J
  BY <1>3 DEF JoinFuture
<1> HIDE DEF B, H, R, J
<1>8. Joined(B, H \cup R, s.side) = Joined(B, H, s.side) \cup Joined(B, R, s.side)
  BY DEF Joined
<1>9. JoinFuture(s) = Probed("Inner", B, H, s.side) \cup JoinFuture(s2)
  BY <1>5, <1>6, <1>7, <1>8
<1>10. FileHashGood(s2)
  <2>1. MatchedBuild(B, H \cup R) = MatchedBuild(B, H) \cup MatchedBuild(B, R)
    BY DEF MatchedBuild
  <2>2. B \subseteq s.matched \cup MatchedBuild(B, H \cup R)
    BY <1>2, <1>4 DEF FileHashGood, B
  <2>3. B \subseteq s2.matched \cup MatchedBuild(B, R)
    BY <1>3, <2>1, <2>2
  <2>4. \A b \in s2.matched : Key(b) \in s2.currentKeys
    BY <1>3, <1>4 DEF FileHashGood
  <2>5. /\ Lonely(RowsOf(s2.files), RowsOf(s2.probeFiles)) = {}
        /\ \A p \in RowsOf(s2.probeFiles) :
              Key(p) \in s2.matchedKeys \cup KeysIn(s2.build) \cup KeysIn(RowsOf(s2.files))
    BY <1>3, <1>4 DEF FileHashGood, B
  <2> QED BY <1>3, <2>3, <2>4, <2>5 DEF FileHashGood, R
<1> QED BY <1>1, <1>3, <1>9, <1>10 DEF StateExact, StateGood, B, H

\* The end of a chunk: all its build rows were matched, and their keys are remembered.
LEMMA FullChunkEnd ==
    ASSUME NEW T, NEW s, FileHashOK("Full", T, s), StateGood(s), s.probe = <<>>,
           NEW s2, s2 = [s EXCEPT !.build = {}, !.matchedKeys = @ \cup s.currentKeys]
    PROVE  s.build \ s.matched = {} /\ StateExact(s) = StateExact(s2) /\ StateGood(s2)
<1>1. s \in FileHashStates(T) /\ s.kind = "FileHash"
  BY DEF FileHashOK, FileHashStates
<1>2. /\ s2.kind = "FileHash" /\ s2.build = {} /\ s2.files = s.files /\ s2.probe = s.probe
      /\ s2.probeFiles = s.probeFiles /\ s2.side = s.side /\ s2.matched = s.matched
      /\ s2.matchedKeys = s.matchedKeys \cup s.currentKeys /\ s2.currentKeys = s.currentKeys
  BY <1>1 DEF FileHashStates
<1>3. FileHashGood(s)
  BY <1>1 DEF StateGood
<1>4. RowsOf(s.probe) = {} /\ \A A : MatchedBuild(A, {}) = {}
  BY NoFiles, NoRows
<1>5. s.build \subseteq s.matched
  BY <1>3, <1>4 DEF FileHashGood
<1>6. \A side, A : Joined(A, {}, side) = {}
  BY NoRows
<1>7. JoinFuture(s) = JoinFuture(s2)
  BY <1>2, <1>4, <1>6 DEF JoinFuture
<1>8. FileHashGood(s2)
  <2>1. KeysIn(s.build) \subseteq s.currentKeys
    BY <1>3, <1>5 DEF FileHashGood, KeysIn
  <2>2. \A p \in RowsOf(s.probeFiles) :
          Key(p) \in (s.matchedKeys \cup s.currentKeys) \cup KeysIn({}) \cup KeysIn(RowsOf(s.files))
    BY <1>3, <2>1 DEF FileHashGood
  <2> QED BY <1>2, <1>3, <2>2 DEF FileHashGood
<1> QED BY <1>1, <1>2, <1>5, <1>7, <1>8 DEF StateExact, StateGood

\* After its last chunk a FileHash state has no probe row left without partner.
LEMMA FullFileHashEnd ==
    ASSUME NEW T, WithKey(T) = T, NEW s, FileHashOK("Full", T, s), StateGood(s),
           s.build = {}, s.files = <<>>
    PROVE  /\ StateExact(s) = {}
           /\ {q \in RowsOf(s.probeFiles) : Key(q) = Null \/ Key(q) \notin s.matchedKeys} = {}
           /\ LET s2 == [s EXCEPT !.emitted = TRUE] IN StateExact(s2) = {} /\ StateGood(s2)
<1>1. s \in FileHashStates(T) /\ s.kind = "FileHash" /\ RowsOf(s.probeFiles) \subseteq T
  BY FileHashFiles DEF FileHashOK, FileHashStates
<1>2. FileHashGood(s)
  BY <1>1 DEF StateGood
<1>3. \A row \in T : Key(row) # Null
  BY DEF WithKey
<1>4. RowsOf(s.files) = {} /\ \A P, side : Joined({}, P, side) = {}
  BY NoFiles, NoRows
<1>5. KeysIn({}) = {}
  BY DEF KeysIn
<1>6. \A q \in RowsOf(s.probeFiles) : Key(q) \in s.matchedKeys
  BY <1>2, <1>4, <1>5 DEF FileHashGood
<1>7. StateExact(s) = {}
  BY <1>1, <1>4 DEF StateExact, JoinFuture
<1>8. ASSUME NEW s2, s2 = [s EXCEPT !.emitted = TRUE] PROVE StateExact(s2) = {} /\ StateGood(s2)
  <2>1. /\ s2.kind = "FileHash" /\ s2.build = {} /\ s2.files = s.files /\ s2.probe = s.probe
        /\ s2.probeFiles = s.probeFiles /\ s2.side = s.side /\ s2.matched = s.matched
        /\ s2.matchedKeys = s.matchedKeys /\ s2.currentKeys = s.currentKeys
    BY <1>1, <1>8 DEF FileHashStates
  <2>2. StateExact(s2) = {}
    BY <1>4, <2>1 DEF StateExact, JoinFuture
  <2>3. FileHashGood(s2)
    BY <1>2, <2>1 DEF FileHashGood
  <2> QED BY <2>2, <2>3 DEF StateGood
<1> QED BY <1>1, <1>3, <1>6, <1>7, <1>8

\* One batch of the only side, and its end.
LEMMA FullUnmatchedSide ==
    ASSUME NEW T, NEW s, UnmatchedSideOK("Full", T, s)
    PROVE  /\ s.files # <<>> =>
                 LET s2 == [s EXCEPT !.files = Tail(@)]
                 IN  /\ StateExact(s) = UnmatchedBuild(Head(s.files), s.side) \cup StateExact(s2)
                     /\ StateGood(s2)
           /\ s.files = <<>> => StateExact(s) = {}
<1>1. s \in UnmatchedSideStates(T) /\ s.kind = "UnmatchedSide" /\ FilesOK(T, s.files)
  BY DEF UnmatchedSideOK, UnmatchedSideStates, FilesOK
<1>2. StateExact(s) = UnmatchedBuild(RowsOf(s.files), s.side)
  BY <1>1 DEF StateExact, UnmatchedSideFuture
<1>3. ASSUME s.files # <<>>, NEW s2, s2 = [s EXCEPT !.files = Tail(@)]
      PROVE  /\ StateExact(s) = UnmatchedBuild(Head(s.files), s.side) \cup StateExact(s2)
             /\ StateGood(s2)
  <2>1. s2.kind = "UnmatchedSide" /\ s2.files = Tail(s.files) /\ s2.side = s.side
    BY <1>1, <1>3 DEF UnmatchedSideStates
  <2>2. RowsOf(s.files) = Head(s.files) \cup RowsOf(Tail(s.files))
    BY <1>1, <1>3, HeadTail
  <2>3. StateExact(s2) = UnmatchedBuild(RowsOf(Tail(s.files)), s.side)
    BY <2>1 DEF StateExact, UnmatchedSideFuture
  <2>4. UnmatchedBuild(Head(s.files) \cup RowsOf(Tail(s.files)), s.side)
          = UnmatchedBuild(Head(s.files), s.side) \cup UnmatchedBuild(RowsOf(Tail(s.files)), s.side)
    BY UnmatchedUnion
  <2> QED BY <1>2, <2>1, <2>2, <2>3, <2>4 DEF StateGood
<1>4. s.files = <<>> => StateExact(s) = {}
  BY <1>2, NoFiles, NoRows
<1> QED BY <1>3, <1>4

-----------------------------------------------------------------------------
(* FULL joins: preparing a partition.                                      *)
\* What sequences of tasks and states owe, put together and taken apart.
LEMMA OweSequences ==
    /\ StatesOwe(<<>>) = {} /\ TasksOwe(<<>>) = {}
    /\ \A s : StatesOwe(<<s>>) = StateExact(s)
    /\ \A S : \A a, b \in Seq(S) : /\ StatesOwe(a \o b) = StatesOwe(a) \cup StatesOwe(b)
                                   /\ TasksOwe(a \o b) = TasksOwe(a) \cup TasksOwe(b)
    /\ \A S : \A a \in Seq(S) : a # <<>> =>
          /\ StatesOwe(a) = StateExact(Head(a)) \cup StatesOwe(Tail(a))
          /\ TasksOwe(a) = TaskExact(Head(a)) \cup TasksOwe(Tail(a))
<1>1. StatesOwe(<<>>) = {} /\ TasksOwe(<<>>) = {}
  BY DEF StatesOwe, TasksOwe
<1>2. ASSUME NEW s PROVE StatesOwe(<<s>>) = StateExact(s)
  <2>1. DOMAIN <<s>> = {1} /\ <<s>>[1] = s
    OBVIOUS
  <2> QED BY <2>1 DEF StatesOwe
<1>3. ASSUME NEW S, NEW a \in Seq(S), NEW b \in Seq(S)
      PROVE  /\ StatesOwe(a \o b) = StatesOwe(a) \cup StatesOwe(b)
             /\ TasksOwe(a \o b) = TasksOwe(a) \cup TasksOwe(b)
  <2> DEFINE c == a \o b
             m == Len(a)
             n == Len(b)
  <2>0. /\ DOMAIN c = 1..(m + n) /\ DOMAIN a = 1..m /\ DOMAIN b = 1..n /\ m \in Nat /\ n \in Nat
        /\ \A j \in 1..m : c[j] = a[j]
        /\ \A j \in 1..n : c[m + j] = b[j] /\ m + j \in 1..(m + n)
    BY Concat
  <2> HIDE DEF c, m, n
  <2>1. \A i \in DOMAIN c : \/ i \in DOMAIN a /\ c[i] = a[i]
                            \/ \E j \in DOMAIN b : c[i] = b[j]
    <3> SUFFICES ASSUME NEW i \in 1..(m + n), i \notin 1..m PROVE \E j \in 1..n : c[i] = b[j]
      BY <2>0
    <3>1. i - m \in 1..n /\ m + (i - m) = i
      BY <2>0
    <3> QED BY <2>0, <3>1
  <2>2. /\ \A i \in DOMAIN a : i \in DOMAIN c /\ c[i] = a[i]
        /\ \A j \in DOMAIN b : \E i \in DOMAIN c : c[i] = b[j]
    <3>1. \A i \in 1..m : i \in 1..(m + n)
      BY <2>0
    <3> QED BY <2>0, <3>1
  <2>3. StatesOwe(c) = StatesOwe(a) \cup StatesOwe(b)
    <3>1. ASSUME NEW x \in StatesOwe(c) PROVE x \in StatesOwe(a) \cup StatesOwe(b)
      BY <2>1 DEF StatesOwe
    <3>2. ASSUME NEW x \in StatesOwe(a) \cup StatesOwe(b) PROVE x \in StatesOwe(c)
      BY <2>2 DEF StatesOwe
    <3> QED BY <3>1, <3>2
  <2>4. TasksOwe(c) = TasksOwe(a) \cup TasksOwe(b)
    <3>1. ASSUME NEW x \in TasksOwe(c) PROVE x \in TasksOwe(a) \cup TasksOwe(b)
      BY <2>1 DEF TasksOwe
    <3>2. ASSUME NEW x \in TasksOwe(a) \cup TasksOwe(b) PROVE x \in TasksOwe(c)
      BY <2>2 DEF TasksOwe
    <3> QED BY <3>1, <3>2
  <2> QED BY <2>3, <2>4 DEF c
<1>4. ASSUME NEW S, NEW a \in Seq(S), a # <<>>
      PROVE  /\ StatesOwe(a) = StateExact(Head(a)) \cup StatesOwe(Tail(a))
             /\ TasksOwe(a) = TaskExact(Head(a)) \cup TasksOwe(Tail(a))
  <2> DEFINE b == Tail(a)
             h == Head(a)
  <2>1. /\ \A i \in DOMAIN a : a[i] = h \/ (i - 1 \in DOMAIN b /\ a[i] = b[i - 1])
        /\ 1 \in DOMAIN a /\ a[1] = h
        /\ \A j \in DOMAIN b : j + 1 \in DOMAIN a /\ a[j + 1] = b[j]
    BY <1>4
  <2> HIDE DEF b, h
  <2>2. StatesOwe(a) = StateExact(h) \cup StatesOwe(b)
    <3>1. ASSUME NEW x \in StatesOwe(a) PROVE x \in StateExact(h) \cup StatesOwe(b)
      BY <2>1 DEF StatesOwe
    <3>2. ASSUME NEW x \in StateExact(h) \cup StatesOwe(b) PROVE x \in StatesOwe(a)
      BY <2>1 DEF StatesOwe
    <3> QED BY <3>1, <3>2
  <2>3. TasksOwe(a) = TaskExact(h) \cup TasksOwe(b)
    <3>1. ASSUME NEW x \in TasksOwe(a) PROVE x \in TaskExact(h) \cup TasksOwe(b)
      BY <2>1 DEF TasksOwe
    <3>2. ASSUME NEW x \in TaskExact(h) \cup TasksOwe(b) PROVE x \in TasksOwe(a)
      BY <2>1 DEF TasksOwe
    <3> QED BY <3>1, <3>2
  <2> QED BY <2>2, <2>3 DEF b, h
<1> QED BY <1>1, <1>2, <1>3, <1>4

\* A state for rows with partners, made only when both sides have rows.
LEMMA FullIfBoth ==
    ASSUME NEW side, NEW b, NEW p, Partnered(RowsOf(b), RowsOf(p)), NEW s,
           StateExact(s) = FullSide(side, RowsOf(b), RowsOf(p)), StateGood(s)
    PROVE  /\ IfBoth(s, b, p) \in Seq({s})
           /\ StatesOwe(IfBoth(s, b, p)) = FullSide(side, RowsOf(b), RowsOf(p))
           /\ \A j \in DOMAIN IfBoth(s, b, p) : StateGood(IfBoth(s, b, p)[j])
<1>1. CASE b = <<>> \/ p = <<>>
  <2>1. IfBoth(s, b, p) = <<>>
    BY <1>1 DEF IfBoth
  <2>2. RowsOf(b) = {} /\ RowsOf(p) = {}
    BY <1>1, NoFiles, FullEmpty
  <2>3. FullSide(side, {}, {}) = {}
    BY FullEmpty DEF FullSide
  <2>4. <<>> \in Seq({s}) /\ DOMAIN <<>> = {}
    OBVIOUS
  <2>5. StatesOwe(<<>>) = {}
    BY OweSequences
  <2> QED BY <2>1, <2>2, <2>3, <2>4, <2>5
<1>2. CASE b # <<>> /\ p # <<>>
  <2>1. IfBoth(s, b, p) = <<s>>
    BY <1>2 DEF IfBoth
  <2> QED BY <2>1, OweSequences
<1> QED BY <1>1, <1>2

\* The states made for a partition all of whose rows have partners, of any size.
LEMMA FullJoinStates ==
    ASSUME joinType = "Full", NEW T, WithKey(T) = T, NEW side \in Sides, NEW b, NEW p,
           FilesOK(T, b), FilesOK(T, p), NEW oversized \in BOOLEAN,
           Partnered(RowsOf(b), RowsOf(p))
    PROVE  LET states == JoinStates(b, p, side, oversized)
           IN  /\ StatesOwe(states) = FullSide(side, RowsOf(b), RowsOf(p))
               /\ \A j \in DOMAIN states : StateGood(states[j])
<1> DEFINE D == FullSide(side, RowsOf(b), RowsOf(p))
           K == HeavyKeys(b)
           nb == NormalPart(b, K)
           np == NormalPart(p, K)
           hb == HeavyPart(b, K)
           hp == HeavyPart(p, K)
           normal == IF oversized THEN FileHashState(nb, np, side) ELSE HashState(nb, np, side)
           heavy == OversizedState(hb, hp, side)
           M == WithKeyNotIn(T, K)
           W == WithKeyIn(T, K)
<1>0. \A x, y : OversizedState(x, y, side) = FileHashState(x, y, side)
  BY DEF OversizedState
<1>1. CASE K = {}
  <2> DEFINE s == IF oversized THEN FileHashState(b, p, side) ELSE HashState(b, p, side)
  <2>1. JoinStates(b, p, side, oversized) = <<s>>
    BY <1>0, <1>1 DEF JoinStates
  <2>2. StateExact(s) = D /\ StateGood(s)
    BY FullFreshFileHash, FullFreshHash
  <2> HIDE DEF s, D
  <2>3. StatesOwe(<<s>>) = D /\ \A j \in DOMAIN <<s>> : StateGood(<<s>>[j])
    BY <2>2, OweSequences
  <2> QED BY <2>1, <2>3 DEF D
<1>2. CASE K # {}
  <2>1. JoinStates(b, p, side, oversized) = IfBoth(normal, nb, np) \o IfBoth(heavy, hb, hp)
    BY <1>2 DEF JoinStates
  <2>2. /\ RowsOf(nb) = RowsOf(b) \cap M /\ RowsOf(np) = RowsOf(p) \cap M
        /\ RowsOf(hb) = RowsOf(b) \cap W /\ RowsOf(hp) = RowsOf(p) \cap W
    BY HeavyFiles, NormalFiles
  <2> HIDE DEF nb, np, hb, hp
  <2>3. RowsOf(b) \subseteq T /\ RowsOf(p) \subseteq T
    BY RowsIn
  <2>4. DividesByKey({M, W}, T)
    BY DEF DividesByKey, WithKeyIn, WithKeyNotIn, WithKey
  <2> HIDE DEF M, W, K
  <2>5. /\ \A L, R : L \subseteq T /\ R \subseteq T =>
              /\ FullRel(L, R) = FullRel(L \cap M, R \cap M) \cup FullRel(L \cap W, R \cap W)
              /\ Partnered(L, R) => Partnered(L \cap M, R \cap M) /\ Partnered(L \cap W, R \cap W)
    <3> SUFFICES ASSUME NEW L, NEW R, L \subseteq T, R \subseteq T
                 PROVE  /\ FullRel(L, R) = FullRel(L \cap M, R \cap M) \cup FullRel(L \cap W, R \cap W)
                        /\ Partnered(L, R) =>
                              Partnered(L \cap M, R \cap M) /\ Partnered(L \cap W, R \cap W)
      OBVIOUS
    <3>1. /\ FullRel(L, R) = UNION {FullRel(L \cap U, R \cap U) : U \in {M, W}}
          /\ Partnered(L, R) => \A U \in {M, W} : Partnered(L \cap U, R \cap U)
      BY <2>4, FullDivide
    <3> QED BY <3>1
  <2>6. D = FullSide(side, RowsOf(nb), RowsOf(np)) \cup FullSide(side, RowsOf(hb), RowsOf(hp))
    BY <2>2, <2>3, <2>5 DEF FullSide
  <2>7. Partnered(RowsOf(nb), RowsOf(np)) /\ Partnered(RowsOf(hb), RowsOf(hp))
    <3> DEFINE B == RowsOf(b)
               P == RowsOf(p)
    <3>1. B \subseteq T /\ P \subseteq T /\ Partnered(B, P)
      BY <2>3
    <3> HIDE DEF B, P
    <3>2. Partnered(B \cap M, P \cap M) /\ Partnered(B \cap W, P \cap W)
      BY <2>5, <3>1
    <3> QED BY <2>2, <3>2 DEF B, P
  <2>8. /\ StateExact(normal) = FullSide(side, RowsOf(nb), RowsOf(np)) /\ StateGood(normal)
        /\ StateExact(heavy) = FullSide(side, RowsOf(hb), RowsOf(hp)) /\ StateGood(heavy)
    BY <1>0, <2>7, FullFreshFileHash, FullFreshHash
  <2> HIDE DEF normal, heavy, D
  <2> DEFINE a == IfBoth(normal, nb, np)
             c == IfBoth(heavy, hb, hp)
  <2>9. /\ a \in Seq({normal}) /\ StatesOwe(a) = FullSide(side, RowsOf(nb), RowsOf(np))
        /\ \A j \in DOMAIN a : StateGood(a[j])
    BY <2>7, <2>8, FullIfBoth
  <2>10. /\ c \in Seq({heavy}) /\ StatesOwe(c) = FullSide(side, RowsOf(hb), RowsOf(hp))
         /\ \A j \in DOMAIN c : StateGood(c[j])
    BY <2>7, <2>8, FullIfBoth
  <2> HIDE DEF a, c
  <2>11. a \in Seq({normal, heavy}) /\ c \in Seq({normal, heavy})
    BY <2>9, <2>10
  <2>12. StatesOwe(a \o c) = D
    BY <2>6, <2>9, <2>10, <2>11, OweSequences
  <2>13. \A j \in DOMAIN (a \o c) : StateGood((a \o c)[j])
    <3>1. \A j \in DOMAIN (a \o c) : \/ j \in DOMAIN a /\ (a \o c)[j] = a[j]
                                     \/ \E i \in DOMAIN c : (a \o c)[j] = c[i]
      BY <2>11
    <3> QED BY <2>9, <2>10, <3>1
  <2> QED BY <2>1, <2>12, <2>13 DEF D, a, c
<1> QED BY <1>1, <1>2

\* Light rows: no key of a partition is heavy.
LEMMA LightPartition ==
    ASSUME NEW S, IsFiniteSet(S), NEW fs, RowsOf(fs) \subseteq S,
           \A k \in Keys : Cardinality({row \in S : Key(row) = k}) < HeavyRows
    PROVE  HeavyKeys(fs) = {}
<1> SUFFICES ASSUME NEW k \in Keys,
                    Cardinality({row \in RowsOf(fs) : Key(row) = k})
                      >= HeavyThreshold(Cardinality(RowsOf(fs)))
             PROVE  FALSE
  BY DEF HeavyKeys
<1> DEFINE A == {row \in RowsOf(fs) : Key(row) = k}
           B == {row \in S : Key(row) = k}
<1>1. A \subseteq B /\ B \subseteq S
  OBVIOUS
<1>2. Cardinality(B) < HeavyRows
  OBVIOUS
<1> HIDE DEF A, B
<1>3. IsFiniteSet(B) /\ Cardinality(B) \in Nat
  BY <1>1, SubsetSize
<1>4. Cardinality(A) \in Nat /\ Cardinality(A) <= Cardinality(B)
  BY <1>1, <1>3, SubsetSize
<1>5. Cardinality(RowsOf(fs)) \in Nat
  BY SubsetSize
<1>6. HeavyRows \in Nat
  BY JoinAssumption
<1>7. HeavyThreshold(Cardinality(RowsOf(fs))) >= HeavyRows /\ HeavyThreshold(Cardinality(RowsOf(fs))) \in Nat
  BY <1>5, <1>6 DEF HeavyThreshold
<1> QED BY <1>2, <1>3, <1>4, <1>6, <1>7 DEF A

\* Partitions that can be split until they fit are never oversized when they are joined.
LEMMA SplitUntilItFits ==
    ASSUME TypeInv, FullFits, Separable, NEW t \in TasksOK(Keyed), TaskGood(t), ~TooLarge(t)
    PROVE  ~(SmallerSide(t) > memoryLimit)
<1> SUFFICES ASSUME SmallerSide(t) > memoryLimit PROVE FALSE
  OBVIOUS
<1> DEFINE L == RowsOf(t.left)
           R == RowsOf(t.right)
<1>1. /\ Rows = LeftRows \cup RightRows /\ IsFiniteSet(LeftRows) /\ IsFiniteSet(RightRows)
      /\ \A row \in Rows : Key(row) \in Keys
  BY FullInputs
<1>2. L \subseteq LeftRows /\ R \subseteq RightRows
  BY DEF TaskGood
<1>3. /\ Cardinality(L) \in Nat /\ Cardinality(R) \in Nat /\ memoryLimit \in Nat
  BY <1>1, <1>2, SubsetSize DEF TypeInv
<1> HIDE DEF L, R
<1>4. Cardinality(L) > memoryLimit /\ Cardinality(R) > memoryLimit
  BY <1>3 DEF SmallerSide, Bytes, L, R
<1>5. \A x, y \in L \cup R : Together(x, y, MaxDepth)
  <2>1. t.depth \in 0..MaxDepth
    BY DEF TasksOK, TaskOK, TaskSet
  <2>2. CASE t.depth = MaxDepth
    BY <2>2 DEF TaskGood, L, R
  <2>3. CASE Partitions = 1
    <3> SUFFICES ASSUME NEW x \in L \cup R, NEW y \in L \cup R, NEW d \in 0..MaxDepth
                 PROVE  SameHash(x, y, d)
      BY DEF Together
    <3>1. Key(x) \in Keys /\ Key(y) \in Keys
      BY <1>1, <1>2
    <3>2. hash[d][Key(x)] \in Nat /\ hash[d][Key(y)] \in Nat
      BY <3>1, JoinAssumption DEF TypeInv
    <3> QED BY <2>3, <3>2 DEF SameHash
  <2>4. t.depth = MaxDepth \/ Partitions = 1
    BY <2>1, JoinAssumption DEF TooLarge
  <2> QED BY <2>2, <2>3, <2>4
<1>6. PICK row : row \in L
  <2>1. Cardinality(L) # 0
    BY <1>3, <1>4
  <2> QED BY <2>1, NoRowsSize
<1> DEFINE A == {x \in LeftRows : Together(x, row, MaxDepth)}
           B == {x \in RightRows : Together(x, row, MaxDepth)}
<1>7. L \subseteq A /\ R \subseteq B /\ A \subseteq LeftRows /\ B \subseteq RightRows
  BY <1>2, <1>5, <1>6
<1>8. Cardinality(A) <= memoryLimit \/ Cardinality(B) <= memoryLimit
  BY <1>2, <1>6 DEF Separable
<1> HIDE DEF A, B
<1>9. IsFiniteSet(A) /\ IsFiniteSet(B) /\ Cardinality(A) \in Nat /\ Cardinality(B) \in Nat
  BY <1>1, <1>7, SubsetSize
<1>10. Cardinality(L) <= Cardinality(A) /\ Cardinality(R) <= Cardinality(B)
  BY <1>7, <1>9, SubsetSize
<1> QED BY <1>3, <1>4, <1>8, <1>9, <1>10

\* prepare_partition_join: the states of a partition owe what its task owed.
LEMMA FullPrepared ==
    ASSUME TypeInv, FullFits, NEW t \in TasksOK(Keyed), TaskGood(t), ~TooLarge(t)
    PROVE  /\ StatesOwe(PreparedStates(t)) = TaskExact(t)
           /\ \A j \in DOMAIN PreparedStates(t) : StateGood(PreparedStates(t)[j])
<1> DEFINE oversized == SmallerSide(t) > memoryLimit
           side == BuildSide(t)
           b == IF side = "left" THEN t.left ELSE t.right
           p == IF side = "left" THEN t.right ELSE t.left
<1>1. side \in Sides
  BY DEF BuildSide, Sides
<1>2. PreparedStates(t) = JoinStates(b, p, side, oversized)
  BY <1>1 DEF PreparedStates, Sides
<1>3. TaskExact(t) = FullSide(side, RowsOf(b), RowsOf(p))
  BY DEF TaskExact, FullSide
<1>4. FilesOK(Keyed, b) /\ FilesOK(Keyed, p) /\ WithKey(Keyed) = Keyed /\ joinType = "Full"
  BY FullInputs DEF TasksOK, TaskOK, TaskSet, FilesOK, FullFits
<1>5. oversized \in BOOLEAN
  OBVIOUS
<1>6. CASE Partnered(LeftRows, RightRows)
  <2>1. Partnered(RowsOf(b), RowsOf(p))
    BY <1>6 DEF TaskGood, Partnered
  <2> HIDE DEF oversized, side, b, p
  <2>2. /\ StatesOwe(JoinStates(b, p, side, oversized)) = FullSide(side, RowsOf(b), RowsOf(p))
        /\ \A j \in DOMAIN JoinStates(b, p, side, oversized) :
              StateGood(JoinStates(b, p, side, oversized)[j])
    BY <1>1, <1>4, <1>5, <2>1, FullJoinStates
  <2> QED BY <1>2, <1>3, <2>2
<1>7. CASE Light /\ Separable
  <2>1. ~oversized
    BY <1>7, SplitUntilItFits
  <2>2. HeavyKeys(b) = {}
    <3>1. IsFiniteSet(LeftRows) /\ IsFiniteSet(RightRows)
      BY FullInputs
    <3>2. RowsOf(t.left) \subseteq LeftRows /\ RowsOf(t.right) \subseteq RightRows
      BY DEF TaskGood
    <3>3. HeavyKeys(t.left) = {}
      BY <1>7, <3>1, <3>2, LightPartition DEF Light
    <3>4. HeavyKeys(t.right) = {}
      BY <1>7, <3>1, <3>2, LightPartition DEF Light
    <3> QED BY <3>3, <3>4
  <2> HIDE DEF oversized, side, b, p
  <2>3. PreparedStates(t) = <<HashState(b, p, side)>>
    BY <1>2, <2>1, <2>2 DEF JoinStates
  <2>4. /\ StateExact(HashState(b, p, side)) = FullSide(side, RowsOf(b), RowsOf(p))
        /\ StateGood(HashState(b, p, side))
    BY <1>1, FullFreshHash
  <2> DEFINE s == HashState(b, p, side)
  <2> HIDE DEF s
  <2>5. StatesOwe(<<s>>) = StateExact(s) /\ \A j \in DOMAIN <<s>> : <<s>>[j] = s
    BY OweSequences
  <2> QED BY <1>3, <2>3, <2>4, <2>5 DEF s
<1> QED BY <1>6, <1>7 DEF FullFits

\* A partition only one side of which has rows.
LEMMA FullOneSided ==
    ASSUME NEW T, NEW t, FilesOK(T, t.left), FilesOK(T, t.right), t.left = <<>> \/ t.right = <<>>,
           NEW side, side = IF t.left # <<>> THEN "left" ELSE "right"
    PROVE  LET s == UnmatchedSideState(t.left \o t.right, side)
           IN  StateExact(s) = TaskExact(t) /\ StateGood(s)
<1> DEFINE fs == t.left \o t.right
           s == UnmatchedSideState(fs, side)
<1>1. fs = IF side = "left" THEN t.left ELSE t.right
  <2>1. t.left \in Seq(SUBSET T) /\ t.right \in Seq(SUBSET T)
    BY DEF FilesOK
  <2> QED BY <2>1, NothingAppended
<1>2. side \in Sides
  BY DEF Sides
<1> HIDE DEF fs
<1>3. s.kind = "UnmatchedSide" /\ s.files = fs /\ s.side = side
  BY DEF UnmatchedSideState
<1> HIDE DEF s
<1>4. StateExact(s) = UnmatchedBuild(RowsOf(fs), side) /\ StateGood(s)
  BY <1>3 DEF StateExact, StateGood, UnmatchedSideFuture
<1>5. TaskExact(t) = FullSide(side, RowsOf(fs), {})
  <2>1. CASE side = "left"
    <3>1. t.right = <<>> /\ fs = t.left
      BY <1>1, <2>1
    <3> QED BY <2>1, <3>1, NoFiles DEF TaskExact, FullSide
  <2>2. CASE side = "right"
    <3>1. t.left = <<>> /\ fs = t.right
      BY <1>1, <2>2
    <3> QED BY <2>2, <3>1, NoFiles DEF TaskExact, FullSide
  <2> QED BY <1>2, <2>1, <2>2 DEF Sides
<1>6. FullSide(side, RowsOf(fs), {}) = UnmatchedBuild(RowsOf(fs), side)
  BY <1>2, FullEmpty
<1> QED BY <1>4, <1>5, <1>6 DEF s, fs

-----------------------------------------------------------------------------
(* FULL joins: the steps.                                                  *)
\* The tasks and states of a FULL join that fits, and what they and the output amount to.
FullLedger ==
    /\ \A i \in DOMAIN pending : TaskGood(pending[i])
    /\ \A j \in DOMAIN active : StateGood(active[j])
    /\ FullRel(LeftRows, RightRows) = DOMAIN out \cup TasksOwe(pending) \cup StatesOwe(active)

\* A FULL join that fits owes or has produced exactly the rows of the SQL join.
FullInv == FullFits /\ spilled /\ status # "error" => FullLedger

\* No step changes the inputs, so none changes what is said of them.
LEMMA SameQuery ==
    ASSUME UNCHANGED query
    PROVE  /\ FullFits' = FullFits /\ LeftRows' = LeftRows /\ RightRows' = RightRows
           /\ \A t : TaskGood(t)' = TaskGood(t)
<1>1. /\ left' = left /\ right' = right /\ joinType' = joinType /\ memoryLimit' = memoryLimit
      /\ hash' = hash
  BY DEF query
<1>2. LeftRows' = LeftRows /\ RightRows' = RightRows
  BY <1>1 DEF LeftRows, RightRows
<1>3. \A x, y, d : Together(x, y, d)' = Together(x, y, d)
  BY <1>1 DEF Together, SameHash
<1>4. Light' = Light
  BY <1>2 DEF Light
<1>5. Separable' = Separable
  BY <1>1, <1>2, <1>3 DEF Separable
<1>6. FullFits' = FullFits
  BY <1>1, <1>2, <1>4, <1>5 DEF FullFits
<1>7. \A t : TaskGood(t)' = TaskGood(t)
  BY <1>1, <1>2, <1>3 DEF TaskGood
<1> QED BY <1>2, <1>6, <1>7

\* The tasks, the states and the output after a step, put together again.
LEMMA FullAgain ==
    ASSUME UNCHANGED query,
           \A i \in DOMAIN pending' : \E t : TaskGood(t) /\ t = pending'[i],
           \A j \in DOMAIN active' : StateGood(active'[j]),
           FullRel(LeftRows, RightRows) = DOMAIN out' \cup TasksOwe(pending') \cup StatesOwe(active')
    PROVE  FullInv'
<1>1. LeftRows' = LeftRows /\ RightRows' = RightRows /\ \A t : TaskGood(t)' = TaskGood(t)
  BY SameQuery
<1>2. (\A i \in DOMAIN pending : TaskGood(pending[i]))'
  BY <1>1
<1>3. (\A j \in DOMAIN active : StateGood(active[j]))'
  BY DEF StateGood
<1>4. (FullRel(LeftRows, RightRows) = DOMAIN out \cup TasksOwe(pending) \cup StatesOwe(active))'
  BY <1>1
<1> QED BY <1>2, <1>3, <1>4 DEF FullInv, FullLedger

\* The ledger before a step of a stream that runs.
LEMMA FullNow ==
    ASSUME IInv, FullInv, FullFits, status = "running", spilled
    PROVE  /\ TypeInv /\ LedgerInv /\ FullLedger /\ joinType = "Full"
           /\ Keyed = Rows /\ WithKey(Keyed) = Keyed
           /\ pending \in Seq(TasksOK(Keyed)) /\ active \in Seq(JoinStateSet("Full", Keyed))
<1>1. TypeInv /\ LedgerInv /\ FullLedger /\ joinType = "Full"
  BY DEF IInv, FullInv, FullFits
<1> QED BY <1>1, FullInputs DEF LedgerInv

\* The rows E are handed on.
LEMMA EmitDomain ==
    ASSUME NEW E, out' = out (+) SetToBag(E) \/ (E = {} /\ out' = out)
    PROVE  DOMAIN out' = DOMAIN out \cup E
  BY DEF SetToBag, (+)

\* The running state replaces itself and hands on the rows E.
LEMMA FullEmit ==
    ASSUME IInv, FullInv, FullFits, spilled, status = "running", active # <<>>, NEW s2, NEW E,
           StateExact(Head(active)) = E \cup StateExact(s2), StateGood(s2),
           active' = [active EXCEPT ![1] = s2],
           out' = out (+) SetToBag(E) \/ (E = {} /\ out' = out),
           UNCHANGED <<query, pending>>
    PROVE  FullInv'
<1> DEFINE S == JoinStateSet("Full", Keyed) \cup {s2}
<1>1. FullLedger /\ active \in Seq(JoinStateSet("Full", Keyed))
  BY FullNow
<1>2. DOMAIN out' = DOMAIN out \cup E
  BY EmitDomain
<1>3. /\ active \in Seq(S) /\ active' \in Seq(S) /\ active' # <<>> /\ Head(active') = s2
      /\ Tail(active') = Tail(active) /\ DOMAIN active' = DOMAIN active
      /\ \A j \in DOMAIN active : active'[j] = IF j = 1 THEN s2 ELSE active[j]
  <2> HIDE DEF S
  <2>1. active \in Seq(S) /\ s2 \in S
    BY <1>1 DEF S
  <2>2. /\ active' \in Seq(S) /\ active' # <<>> /\ DOMAIN active' = DOMAIN active
        /\ \A j \in DOMAIN active : active'[j] = IF j = 1 THEN s2 ELSE active[j]
    BY <2>1
  <2>3. Head(active') = s2 /\ Len(active') = Len(active) /\ Len(active) \in Nat
    BY <2>1, <2>2
  <2>4. \A j \in 1..(Len(active) - 1) : active'[j + 1] = active[j + 1]
    BY <2>1, <2>2, <2>3
  <2>5. Tail(active') = Tail(active)
    BY <2>1, <2>2, <2>3, <2>4
  <2> QED BY <2>1, <2>2, <2>3, <2>5
<1>4. /\ StatesOwe(active) = StateExact(Head(active)) \cup StatesOwe(Tail(active))
      /\ StatesOwe(active') = StateExact(s2) \cup StatesOwe(Tail(active))
  <2> HIDE DEF S
  <2>1. \A a \in Seq(S) : a # <<>> => StatesOwe(a) = StateExact(Head(a)) \cup StatesOwe(Tail(a))
    BY OweSequences
  <2>2. StatesOwe(active) = StateExact(Head(active)) \cup StatesOwe(Tail(active))
    BY <1>3, <2>1
  <2>3. StatesOwe(active') = StateExact(Head(active')) \cup StatesOwe(Tail(active'))
    BY <1>3, <2>1
  <2> QED BY <1>3, <2>2, <2>3
<1>5. FullRel(LeftRows, RightRows) = DOMAIN out' \cup TasksOwe(pending') \cup StatesOwe(active')
  BY <1>1, <1>2, <1>4 DEF FullLedger
<1>6. \A j \in DOMAIN active' : StateGood(active'[j])
  BY <1>1, <1>3 DEF FullLedger
<1>7. \A i \in DOMAIN pending' : \E t : TaskGood(t) /\ t = pending'[i]
  BY <1>1 DEF FullLedger
<1> QED BY <1>5, <1>6, <1>7, FullAgain

\* The running state, which owes nothing, is dropped.
LEMMA FullDrop ==
    ASSUME IInv, FullInv, FullFits, spilled, status = "running", active # <<>>,
           StateExact(Head(active)) = {}, active' = Tail(active), UNCHANGED <<query, pending, out>>
    PROVE  FullInv'
<1>1. FullLedger /\ active \in Seq(JoinStateSet("Full", Keyed))
  BY FullNow
<1>2. StatesOwe(active) = StateExact(Head(active)) \cup StatesOwe(Tail(active))
  BY <1>1, OweSequences
<1>3. FullRel(LeftRows, RightRows) = DOMAIN out' \cup TasksOwe(pending') \cup StatesOwe(active')
  BY <1>1, <1>2 DEF FullLedger
<1>4. \A j \in DOMAIN active' : StateGood(active'[j])
  <2>1. \A j \in DOMAIN active' : j + 1 \in DOMAIN active /\ active'[j] = active[j + 1]
    BY <1>1
  <2> QED BY <1>1, <2>1 DEF FullLedger
<1>5. \A i \in DOMAIN pending' : \E t : TaskGood(t) /\ t = pending'[i]
  BY <1>1 DEF FullLedger
<1> QED BY <1>3, <1>4, <1>5, FullAgain

\* The running state of a FULL join that fits.
LEMMA FullRunning ==
    ASSUME IInv, FullInv, FullFits, NEW kind, Running(kind)
    PROVE  /\ spilled /\ status = "running" /\ active # <<>> /\ State = Head(active)
           /\ State.kind = kind /\ State \in JoinStateSet("Full", Keyed) /\ StateGood(State)
           /\ WithKey(Keyed) = Keyed /\ joinType = "Full"
<1>1. /\ status = "running" /\ active # <<>> /\ State = Head(active) /\ State.kind = kind
      /\ State \in JoinStateSet(joinType, Keyed) /\ joinType = "Full"
  BY RunningState DEF FullFits
<1>2. spilled
  BY <1>1 DEF IInv, PhaseInv, TypeInv
<1>3. FullLedger /\ WithKey(Keyed) = Keyed /\ active \in Seq(JoinStateSet("Full", Keyed))
  BY <1>1, <1>2, FullNow
<1>4. StateGood(State)
  <2>1. 1 \in DOMAIN active /\ Head(active) = active[1]
    BY <1>1, <1>3
  <2> QED BY <1>1, <1>3, <2>1 DEF FullLedger
<1> QED BY <1>1, <1>2, <1>3, <1>4

\* The steps of a Hash state.
LEMMA FullHashSteps ==
    ASSUME IInv, FullInv, FullFits, HashProbe \/ HashEnd
    PROVE  FullInv'
<1> DEFINE s == State
<1>1. CASE HashProbe
  <2> DEFINE E == Probed("Full", s.build, Head(s.probe), s.side)
             s2 == [s EXCEPT !.probe = Tail(@),
                             !.matched = @ \cup MatchedBuild(s.build, Head(s.probe))]
  <2>1. /\ Running("Hash") /\ s.probe # <<>> /\ UNCHANGED <<query, pending>> /\ joinType = "Full"
        /\ out' = out (+) SetToBag(E) /\ active' = [active EXCEPT ![1] = s2]
    BY <1>1 DEF HashProbe, Emit, Replace, FullFits
  <2>2. /\ spilled /\ status = "running" /\ active # <<>> /\ s = Head(active) /\ s.kind = "Hash"
        /\ s \in JoinStateSet("Full", Keyed) /\ WithKey(Keyed) = Keyed
    BY <2>1, FullRunning
  <2> HIDE DEF s
  <2>3. HashOK("Full", Keyed, s)
    BY <2>2, KindOfState
  <2>4. StateExact(s) = E \cup StateExact(s2) /\ StateGood(s2)
    <3>1. s2 = [s EXCEPT !.probe = Tail(@),
                         !.matched = @ \cup MatchedBuild(s.build, Head(s.probe))]
      OBVIOUS
    <3>2. s.probe # <<>> /\ WithKey(Keyed) = Keyed
      BY <2>1, <2>2
    <3> HIDE DEF s2
    <3> QED BY <2>3, <3>1, <3>2, FullHashProbe
  <2> HIDE DEF s2, E
  <2> QED BY <2>1, <2>2, <2>4, FullEmit
<1>2. CASE HashEnd
  <2> DEFINE E == UnmatchedBuild(s.build \ s.matched, s.side)
             s2 == [s EXCEPT !.emitted = TRUE]
  <2>1. /\ Running("Hash") /\ s.probe = <<>> /\ UNCHANGED <<query, pending>> /\ joinType = "Full"
        /\ \/ ~s.emitted /\ out' = out (+) SetToBag(E) /\ active' = [active EXCEPT ![1] = s2]
           \/ s.emitted /\ active' = Tail(active) /\ out' = out
    BY <1>2 DEF HashEnd, Emit, Replace, Finish, FullFits
  <2>2. /\ spilled /\ status = "running" /\ active # <<>> /\ s = Head(active) /\ s.kind = "Hash"
        /\ s \in JoinStateSet("Full", Keyed)
    BY <2>1, FullRunning
  <2> HIDE DEF s
  <2>3. HashOK("Full", Keyed, s)
    BY <2>2, KindOfState
  <2>4. /\ ~s.emitted => StateExact(s) = E \cup StateExact(s2) /\ StateGood(s2)
        /\ s.emitted => StateExact(s) = {}
    BY <2>1, <2>3, FullHashEnd
  <2> HIDE DEF s2, E
  <2>5. CASE ~s.emitted /\ out' = out (+) SetToBag(E) /\ active' = [active EXCEPT ![1] = s2]
    BY <2>1, <2>2, <2>4, <2>5, FullEmit
  <2>6. CASE s.emitted /\ active' = Tail(active) /\ out' = out
    BY <2>1, <2>2, <2>4, <2>6, FullDrop
  <2> QED BY <2>1, <2>5, <2>6
<1> QED BY <1>1, <1>2

\* A FileHash state reads a chunk.
LEMMA FullFileHashChunk ==
    ASSUME IInv, FullInv, FullFits, FileHashChunk
    PROVE  FullInv'
<1> DEFINE s == State
           k == ChunkLength(s.files)
           s2 == [s EXCEPT !.build = RowsOf(SubSeq(s.files, 1, k)),
                           !.files = SubSeq(@, k + 1, Len(@)),
                           !.probe = s.probeFiles,
                           !.matched = {}, !.currentKeys = {}]
<1>1. /\ Running("FileHash") /\ s.build = {} /\ s.files # <<>> /\ UNCHANGED <<query, pending, out>>
      /\ active' = [active EXCEPT ![1] = s2]
  BY DEF FileHashChunk, Replace
<1>2. /\ spilled /\ status = "running" /\ active # <<>> /\ s = Head(active) /\ s.kind = "FileHash"
      /\ s \in JoinStateSet("Full", Keyed) /\ StateGood(s) /\ WithKey(Keyed) = Keyed
  BY <1>1, FullRunning
<1> HIDE DEF s
<1>3. FileHashOK("Full", Keyed, s)
  BY <1>2, KindOfState
<1>4. k \in 1..Len(s.files)
  <2>1. s.files \in Seq(SUBSET Keyed)
    BY <1>3 DEF FileHashOK, FileHashStates
  <2> QED BY <1>1, <2>1, ChunkLengthIn
<1> HIDE DEF k
<1>5. StateExact(s) = StateExact(s2) /\ StateGood(s2)
  BY <1>1, <1>2, <1>3, <1>4, FullChunk
<1> HIDE DEF s2
<1>6. StateExact(s) = {} \cup StateExact(s2)
  BY <1>5
<1> QED BY <1>1, <1>2, <1>5, <1>6, FullEmit

\* The other steps of a FileHash state.
LEMMA FullFileHashSteps ==
    ASSUME IInv, FullInv, FullFits, FileHashProbe \/ FileHashChunkEnd \/ FileHashEnd
    PROVE  FullInv'
<1> DEFINE s == State
<1>1. CASE FileHashProbe
  <2> DEFINE H == Head(s.probe)
             E == Probed("Inner", s.build, H, s.side)
             s2 == [s EXCEPT !.probe = Tail(@),
                       !.matched = @ \cup MatchedBuild(s.build, H),
                       !.currentKeys = @ \cup {Key(b) : b \in MatchedBuild(s.build, H)}]
  <2>1. /\ Running("FileHash") /\ s.probe # <<>> /\ UNCHANGED <<query, pending>>
        /\ out' = out (+) SetToBag(E) /\ active' = [active EXCEPT ![1] = s2]
    BY <1>1 DEF FileHashProbe, Emit, Replace, FullFits
  <2>2. /\ spilled /\ status = "running" /\ active # <<>> /\ s = Head(active) /\ s.kind = "FileHash"
        /\ s \in JoinStateSet("Full", Keyed) /\ StateGood(s)
    BY <2>1, FullRunning
  <2> HIDE DEF s
  <2>3. FileHashOK("Full", Keyed, s)
    BY <2>2, KindOfState
  <2>4. StateExact(s) = E \cup StateExact(s2) /\ StateGood(s2)
    <3>1. s2 = [s EXCEPT !.probe = Tail(@),
              !.matched = @ \cup MatchedBuild(s.build, Head(s.probe)),
              !.currentKeys = @ \cup {Key(b) : b \in MatchedBuild(s.build, Head(s.probe))}]
      OBVIOUS
    <3>2. s.probe # <<>> /\ StateGood(s)
      BY <2>1, <2>2
    <3> HIDE DEF s2, H
    <3>3. /\ StateExact(s) = Probed("Inner", s.build, Head(s.probe), s.side) \cup StateExact(s2)
          /\ StateGood(s2)
      BY <2>3, <3>1, <3>2, FullChunkProbe
    <3> QED BY <3>3 DEF H
  <2> HIDE DEF s2, E
  <2> QED BY <2>1, <2>2, <2>4, FullEmit
<1>2. CASE FileHashChunkEnd
  <2> DEFINE s2 == [s EXCEPT !.build = {}, !.matchedKeys = @ \cup s.currentKeys]
  <2>1. /\ Running("FileHash") /\ s.probe = <<>> /\ UNCHANGED <<query, pending>>
        /\ s.build \ s.matched = {} => active' = [active EXCEPT ![1] = s2] /\ out' = out
    BY <1>2 DEF FileHashChunkEnd, Replace
  <2>2. /\ spilled /\ status = "running" /\ active # <<>> /\ s = Head(active) /\ s.kind = "FileHash"
        /\ s \in JoinStateSet("Full", Keyed) /\ StateGood(s)
    BY <2>1, FullRunning
  <2> HIDE DEF s
  <2>3. FileHashOK("Full", Keyed, s)
    BY <2>2, KindOfState
  <2>4. s.build \ s.matched = {} /\ StateExact(s) = StateExact(s2) /\ StateGood(s2)
    BY <2>1, <2>2, <2>3, FullChunkEnd
  <2> HIDE DEF s2
  <2>5. StateExact(s) = {} \cup StateExact(s2)
    BY <2>4
  <2> QED BY <2>1, <2>2, <2>4, <2>5, FullEmit
<1>3. CASE FileHashEnd
  <2> DEFINE Q == {q \in RowsOf(s.probeFiles) : Key(q) = Null \/ Key(q) \notin s.matchedKeys}
             E == {Pair(s.side, NullRow, p) : p \in Q}
             s2 == [s EXCEPT !.emitted = TRUE]
  <2>1. /\ Running("FileHash") /\ s.build = {} /\ s.files = <<>> /\ UNCHANGED <<query, pending>>
        /\ \/ out' = out (+) SetToBag(E) /\ active' = [active EXCEPT ![1] = s2]
           \/ active' = Tail(active) /\ out' = out
    BY <1>3 DEF FileHashEnd, Emit, Replace, Finish, FullFits
  <2>2. /\ spilled /\ status = "running" /\ active # <<>> /\ s = Head(active) /\ s.kind = "FileHash"
        /\ s \in JoinStateSet("Full", Keyed) /\ StateGood(s) /\ WithKey(Keyed) = Keyed
    BY <2>1, FullRunning
  <2> HIDE DEF s
  <2>3. FileHashOK("Full", Keyed, s)
    BY <2>2, KindOfState
  <2>4. StateExact(s) = {} /\ Q = {} /\ StateExact(s2) = {} /\ StateGood(s2)
    BY <2>1, <2>2, <2>3, FullFileHashEnd
  <2> HIDE DEF Q, s2
  <2>5. E = {}
    BY <2>4
  <2>6. StateExact(s) = E \cup StateExact(s2)
    BY <2>4, <2>5
  <2> HIDE DEF E
  <2>7. CASE out' = out (+) SetToBag(E) /\ active' = [active EXCEPT ![1] = s2]
    BY <2>1, <2>2, <2>4, <2>6, <2>7, FullEmit
  <2>8. CASE active' = Tail(active) /\ out' = out
    BY <2>1, <2>2, <2>4, <2>8, FullDrop
  <2> QED BY <2>1, <2>7, <2>8
<1> QED BY <1>1, <1>2, <1>3

\* The step of an UnmatchedSide state; a FULL join has no Block state.
LEMMA FullOtherSteps ==
    ASSUME IInv, FullInv, FullFits, UnmatchedSideStep \/ BlockStep
    PROVE  FullInv'
<1> DEFINE s == State
<1>1. CASE UnmatchedSideStep
  <2> DEFINE E == UnmatchedBuild(Head(s.files), s.side)
             s2 == [s EXCEPT !.files = Tail(@)]
  <2>1. /\ Running("UnmatchedSide") /\ UNCHANGED <<query, pending>>
        /\ \/ s.files # <<>> /\ out' = out (+) SetToBag(E) /\ active' = [active EXCEPT ![1] = s2]
           \/ s.files = <<>> /\ active' = Tail(active) /\ out' = out
    BY <1>1 DEF UnmatchedSideStep, Emit, Replace, Finish
  <2>2. /\ spilled /\ status = "running" /\ active # <<>> /\ s = Head(active)
        /\ s.kind = "UnmatchedSide" /\ s \in JoinStateSet("Full", Keyed)
    BY <2>1, FullRunning
  <2> HIDE DEF s
  <2>3. UnmatchedSideOK("Full", Keyed, s)
    BY <2>2, KindOfState
  <2>4. /\ s.files # <<>> => StateExact(s) = E \cup StateExact(s2) /\ StateGood(s2)
        /\ s.files = <<>> => StateExact(s) = {}
    BY <2>3, FullUnmatchedSide
  <2> HIDE DEF s2, E
  <2>5. CASE s.files # <<>> /\ out' = out (+) SetToBag(E) /\ active' = [active EXCEPT ![1] = s2]
    BY <2>1, <2>2, <2>4, <2>5, FullEmit
  <2>6. CASE s.files = <<>> /\ active' = Tail(active) /\ out' = out
    BY <2>1, <2>2, <2>4, <2>6, FullDrop
  <2> QED BY <2>1, <2>5, <2>6
<1>2. CASE BlockStep
  <2>1. Running("Block")
    BY <1>2 DEF BlockStep
  <2>2. s.kind = "Block" /\ s \in JoinStateSet("Full", Keyed)
    BY <2>1, FullRunning
  <2> HIDE DEF s
  <2>3. BlockOK("Full", Keyed, s)
    BY <2>2, KindOfState
  <2> QED BY <2>3 DEF BlockOK
<1> QED BY <1>1, <1>2

\* The first task of a FULL join that fits, when no state is running.
LEMMA FullReady ==
    ASSUME IInv, FullInv, FullFits, Ready
    PROVE  /\ TypeInv /\ Task = Head(pending) /\ Task \in TasksOK(Keyed) /\ TaskGood(Task)
           /\ FilesOK(Keyed, Task.left) /\ FilesOK(Keyed, Task.right)
           /\ \A i \in DOMAIN Tail(pending) : TaskGood(Tail(pending)[i])
           /\ Tail(pending) \in Seq(TasksOK(Keyed))
           /\ FullRel(LeftRows, RightRows)
                 = DOMAIN out \cup TaskExact(Task) \cup TasksOwe(Tail(pending))
<1>1. status = "running" /\ spilled /\ active = <<>> /\ pending # <<>>
  BY DEF Ready
<1>2. TypeInv /\ FullLedger /\ pending \in Seq(TasksOK(Keyed))
  BY <1>1, FullNow
<1>3. /\ Task = Head(pending) /\ FilesOK(Keyed, Task.left) /\ FilesOK(Keyed, Task.right)
  BY ReadyTask
<1>4. /\ Head(pending) \in TasksOK(Keyed) /\ 1 \in DOMAIN pending /\ Head(pending) = pending[1]
      /\ Tail(pending) \in Seq(TasksOK(Keyed))
      /\ \A i \in DOMAIN Tail(pending) : i + 1 \in DOMAIN pending /\ Tail(pending)[i] = pending[i + 1]
  BY <1>1, <1>2
<1>5. TaskGood(Head(pending)) /\ \A i \in DOMAIN Tail(pending) : TaskGood(Tail(pending)[i])
  BY <1>2, <1>4 DEF FullLedger
<1>6. /\ TasksOwe(pending) = TaskExact(Head(pending)) \cup TasksOwe(Tail(pending))
      /\ StatesOwe(active) = {}
  BY <1>1, <1>2, OweSequences
<1>7. FullRel(LeftRows, RightRows) = DOMAIN out \cup TaskExact(Task) \cup TasksOwe(Tail(pending))
  BY <1>2, <1>3, <1>6 DEF FullLedger
<1> QED BY <1>2, <1>3, <1>4, <1>5, <1>7

\* The first task is replaced by states that owe what it owed.
LEMMA FullOpen ==
    ASSUME IInv, FullInv, FullFits, Ready, NEW states,
           StatesOwe(states) = TaskExact(Task), \A j \in DOMAIN states : StateGood(states[j]),
           pending' = Tail(pending), active' = states, UNCHANGED <<query, out>>
    PROVE  FullInv'
<1>1. /\ \A i \in DOMAIN Tail(pending) : TaskGood(Tail(pending)[i])
      /\ FullRel(LeftRows, RightRows)
           = DOMAIN out \cup TaskExact(Task) \cup TasksOwe(Tail(pending))
  BY FullReady
<1>2. \A i \in DOMAIN pending' : \E t : TaskGood(t) /\ t = pending'[i]
  BY <1>1
<1>3. \A j \in DOMAIN active' : StateGood(active'[j])
  OBVIOUS
<1>4. FullRel(LeftRows, RightRows) = DOMAIN out' \cup TasksOwe(pending') \cup StatesOwe(active')
  BY <1>1
<1> QED BY <1>2, <1>3, <1>4, FullAgain

\* prepare_partition_join.
LEMMA FullPrepare ==
    ASSUME IInv, FullInv, FullFits, Prepare
    PROVE  FullInv'
<1>1. /\ Ready /\ ~TooLarge(Task) /\ pending' = Tail(pending) /\ active' = PreparedStates(Task)
      /\ UNCHANGED <<query, out>>
  BY DEF Prepare
<1>2. TypeInv /\ Task \in TasksOK(Keyed) /\ TaskGood(Task)
  BY <1>1, FullReady
<1>3. /\ StatesOwe(PreparedStates(Task)) = TaskExact(Task)
      /\ \A j \in DOMAIN PreparedStates(Task) : StateGood(PreparedStates(Task)[j])
  BY <1>1, <1>2, FullPrepared
<1> QED BY <1>1, <1>3, FullOpen

\* A partition one side of which has no file.
LEMMA FullPrepareOneSided ==
    ASSUME IInv, FullInv, FullFits, PrepareOneSided
    PROVE  FullInv'
<1> DEFINE rows == Task.left \o Task.right
           side == IF Task.left # <<>> THEN "left" ELSE "right"
           s == UnmatchedSideState(rows, side)
<1>1. /\ Ready /\ (Task.left = <<>> \/ Task.right = <<>>) /\ pending' = Tail(pending)
      /\ UNCHANGED <<query, out>>
      /\ \/ active' = <<s>>
         \/ status' = "error"
         \/ rows = <<>> /\ UNCHANGED active
  BY DEF PrepareOneSided, FullFits
<1>2. FilesOK(Keyed, Task.left) /\ FilesOK(Keyed, Task.right)
  BY <1>1, FullReady
<1>3. StateExact(s) = TaskExact(Task) /\ StateGood(s)
  BY <1>1, <1>2, FullOneSided
<1>4. CASE active' = <<s>>
  <2> HIDE DEF s
  <2>1. StatesOwe(<<s>>) = TaskExact(Task) /\ \A j \in DOMAIN <<s>> : StateGood(<<s>>[j])
    BY <1>3, OweSequences
  <2> QED BY <1>1, <1>4, <2>1, FullOpen
<1>5. CASE status' = "error"
  BY <1>5 DEF FullInv
<1>6. CASE rows = <<>> /\ UNCHANGED active
  <2>1. Task.left = <<>> /\ Task.right = <<>>
    <3>1. Task.left \in Seq(SUBSET Keyed) /\ Task.right \in Seq(SUBSET Keyed)
      BY <1>2 DEF FilesOK
    <3>2. Task.left \o Task.right = Task.left \/ Task.left \o Task.right = Task.right
      BY <1>1, <3>1, NothingAppended
    <3>3. Len(Task.left \o Task.right) = Len(Task.left) + Len(Task.right)
      BY <3>1
    <3>4. Len(Task.left) = 0 /\ Len(Task.right) = 0
      BY <1>6, <3>1, <3>3
    <3> QED BY <3>1, <3>4
  <2>2. RowsOf(Task.left) = {} /\ RowsOf(Task.right) = {}
    BY <2>1, NoFiles
  <2>3. TaskExact(Task) = {}
    BY <2>2, FullEmpty DEF TaskExact
  <2>4. active' = <<>>
    BY <1>1, <1>6 DEF Ready
  <2>5. StatesOwe(<<>>) = TaskExact(Task) /\ \A j \in DOMAIN <<>> : StateGood(<<>>[j])
    BY <2>3, OweSequences
  <2> QED BY <1>1, <2>4, <2>5, FullOpen
<1> HIDE DEF s, rows
<1> QED BY <1>1, <1>4, <1>5, <1>6

\* repartition_partition.
LEMMA FullRepartition ==
    ASSUME IInv, FullInv, FullFits, Repartition
    PROVE  FullInv'
<1> DEFINE t == Task
           rest == Tail(pending)
           tasks == TasksOf(t.left, t.right, t.depth + 1)
<1>1. /\ Ready /\ t.depth < MaxDepth /\ pending' = rest \o tasks /\ active = <<>>
      /\ UNCHANGED <<query, out, active>>
  BY DEF Repartition, TooLarge, Ready
<1>2. /\ TypeInv /\ t \in TasksOK(Keyed) /\ TaskGood(t) /\ rest \in Seq(TasksOK(Keyed))
      /\ FilesOK(Keyed, t.left) /\ FilesOK(Keyed, t.right)
      /\ \A i \in DOMAIN rest : TaskGood(rest[i])
      /\ FullRel(LeftRows, RightRows) = DOMAIN out \cup TaskExact(t) \cup TasksOwe(rest)
  BY <1>1, FullReady
<1> HIDE DEF t, rest
<1>3. TasksOwe(tasks) = TaskExact(t) /\ \A p \in DOMAIN tasks : TaskGood(tasks[p])
  BY <1>1, <1>2, FullTasksGood
<1>4. tasks \in Seq(TasksOK(Keyed))
  <2>1. /\ RowSet(Keyed) /\ WithKey(Keyed) = Keyed /\ hash \in Hashes /\ joinType \in Types
    BY <1>2, InputRows DEF TypeInv
  <2>2. t.depth + 1 \in 0..MaxDepth
    BY <1>1, <1>2, JoinAssumption DEF TasksOK, TaskOK, TaskSet
  <2>3. Splits(joinType, WithKey(Keyed), tasks, Rel(joinType, RowsOf(t.left), RowsOf(t.right)))
    BY <1>2, <2>1, <2>2, TasksSplit
  <2> QED BY <2>1, <2>3 DEF Splits
<1> HIDE DEF tasks
<1>5. TasksOwe(rest \o tasks) = TasksOwe(rest) \cup TasksOwe(tasks) /\ StatesOwe(<<>>) = {}
  BY <1>2, <1>4, OweSequences
<1>6. \A i \in DOMAIN (rest \o tasks) : TaskGood((rest \o tasks)[i])
  <2> SUFFICES ASSUME NEW i \in DOMAIN (rest \o tasks) PROVE TaskGood((rest \o tasks)[i])
    OBVIOUS
  <2>1. \/ i \in DOMAIN rest /\ (rest \o tasks)[i] = rest[i]
        \/ i - Len(rest) \in DOMAIN tasks /\ (rest \o tasks)[i] = tasks[i - Len(rest)]
    BY <1>2, <1>4
  <2> QED BY <1>2, <1>3, <2>1
<1>7. \A i \in DOMAIN pending' : \E u : TaskGood(u) /\ u = pending'[i]
  BY <1>1, <1>6
<1>8. \A j \in DOMAIN active' : StateGood(active'[j])
  BY <1>1
<1>9. FullRel(LeftRows, RightRows) = DOMAIN out' \cup TasksOwe(pending') \cup StatesOwe(active')
  BY <1>1, <1>2, <1>3, <1>5
<1> QED BY <1>1, <1>7, <1>8, <1>9, FullAgain

\* The inputs are spilled.
LEMMA FullSpill ==
    ASSUME IInv, FullFits, Spill
    PROVE  FullInv'
<1> DEFINE tasks == TasksOf(BatchesOf("left", left), BatchesOf("right", right), 0)
<1>1. /\ ~spilled /\ pending' = tasks /\ status = "running" /\ UNCHANGED <<query, active, out>>
  BY DEF Spill
<1>2. TypeInv /\ active = <<>> /\ out = SetToBag({})
  BY <1>1 DEF IInv, PhaseInv
<1>3. DOMAIN out = {}
  BY <1>2 DEF SetToBag
<1>4. /\ TasksOwe(tasks) = FullRel(LeftRows, RightRows)
      /\ \A p \in DOMAIN tasks : TaskGood(tasks[p])
  BY <1>2, FullSpilled
<1> HIDE DEF tasks
<1>5. \A i \in DOMAIN pending' : \E t : TaskGood(t) /\ t = pending'[i]
  BY <1>1, <1>4
<1>6. \A j \in DOMAIN active' : StateGood(active'[j])
  BY <1>1, <1>2
<1>7. StatesOwe(<<>>) = {}
  BY OweSequences
<1>8. FullRel(LeftRows, RightRows) = DOMAIN out' \cup TasksOwe(pending') \cup StatesOwe(active')
  BY <1>1, <1>2, <1>3, <1>4, <1>7
<1> QED BY <1>1, <1>5, <1>6, <1>8, FullAgain

\* A step that leaves the tasks, the states and the output alone.
LEMMA FullSame ==
    ASSUME FullInv, FullFits, spilled, status # "error", UNCHANGED <<query, pending, active, out>>
    PROVE  FullInv'
<1>1. FullLedger
  BY DEF FullInv
<1>2. \A i \in DOMAIN pending' : \E t : TaskGood(t) /\ t = pending'[i]
  BY <1>1 DEF FullLedger
<1>3. \A j \in DOMAIN active' : StateGood(active'[j])
  BY <1>1 DEF FullLedger
<1>4. FullRel(LeftRows, RightRows) = DOMAIN out' \cup TasksOwe(pending') \cup StatesOwe(active')
  BY <1>1 DEF FullLedger
<1> QED BY <1>2, <1>3, <1>4, FullAgain

\* No action changes the inputs.
LEMMA QueryKept ==
    [Next]_vars => UNCHANGED query
  BY DEF Next, Spill, SpillFails, PrepareOneSided, Repartition, Prepare, HashProbe, HashEnd,
         FileHashChunk, FileHashProbe, FileHashChunkEnd, FileHashEnd, BlockStep, UnmatchedSideStep,
         End, vars, query

\* Every step keeps the ledger of a FULL join that fits.
LEMMA FullPreserved ==
    IInv /\ FullInv /\ [Next]_vars => FullInv'
<1> SUFFICES ASSUME IInv, FullInv, [Next]_vars PROVE FullInv'
  OBVIOUS
<1>1. FullFits' = FullFits
  BY QueryKept, SameQuery
<1>2. CASE ~FullFits
  BY <1>1, <1>2 DEF FullInv
<1>3. CASE FullFits
  <2>1. CASE Spill
    BY <1>3, <2>1, FullSpill
  <2>2. CASE SpillFails
    BY <2>2 DEF SpillFails, FullInv
  <2>3. CASE PrepareOneSided \/ Repartition \/ Prepare
    BY <1>3, <2>3, FullPrepareOneSided, FullRepartition, FullPrepare
  <2>4. CASE HashProbe \/ HashEnd
    BY <1>3, <2>4, FullHashSteps
  <2>5. CASE FileHashChunk \/ FileHashProbe \/ FileHashChunkEnd \/ FileHashEnd
    BY <1>3, <2>5, FullFileHashChunk, FullFileHashSteps
  <2>6. CASE BlockStep \/ UnmatchedSideStep
    BY <1>3, <2>6, FullOtherSteps
  <2>7. CASE End
    <3>1. spilled /\ status # "error" /\ UNCHANGED <<query, pending, active, out>>
      BY <2>7 DEF End
    <3> QED BY <1>3, <3>1, FullSame
  <2>8. CASE UNCHANGED vars
    <3>1. UNCHANGED <<query, pending, active, out, spilled, status>>
      BY <2>8 DEF vars, query
    <3>2. CASE spilled /\ status # "error"
      BY <1>3, <3>1, <3>2, FullSame
    <3>3. CASE ~(spilled /\ status # "error")
      BY <3>1, <3>3 DEF FullInv
    <3> QED BY <3>2, <3>3
  <2> QED BY <2>1, <2>2, <2>3, <2>4, <2>5, <2>6, <2>7, <2>8 DEF Next
<1> QED BY <1>2, <1>3

\* A FULL join that fits and whose stream ends has produced the SQL join exactly, however often
\* its partitions were split and whichever state joined them.  FullFits leaves out the joins in
\* which the code loses or repeats rows: those with a NULL key (partition_batch) and, when some
\* row has no partner, those with a heavy key (prepare_partition_join) or with rows that no salt
\* separates and that do not fit in memory (next_unmatched_probe_batches).
THEOREM FullExact ==
    Spec => [](FullFits => JoinExact)
<1>1. Init => FullInv
  BY DEF Init, FullInv
<1>2. IInv /\ FullInv => (FullFits => JoinExact)
  <2> SUFFICES ASSUME IInv, FullInv, FullFits, status = "done"
               PROVE  out = SetToBag(SqlJoin(joinType, left, right))
    BY DEF JoinExact
  <2>1. /\ spilled /\ pending = <<>> /\ active = <<>> /\ joinType = "Full"
        /\ \A row \in LeftRows \cup RightRows : Key(row) # Null
        /\ out = SetToBag(DOMAIN out)
    BY DEF IInv, PhaseInv, OutInv, FullFits
  <2>2. TasksOwe(pending) = {} /\ StatesOwe(active) = {}
    BY <2>1, OweSequences
  <2>3. FullRel(LeftRows, RightRows) = DOMAIN out
    BY <2>1, <2>2 DEF FullInv, FullLedger
  <2>4. SqlJoin("Full", left, right) = FullRel(LeftRows, RightRows)
    BY <2>1, SqlFullIs
  <2> QED BY <2>1, <2>3, <2>4
<1>3. Spec => []FullInv
  BY <1>1, FullPreserved, Invariance, PTL DEF Spec
<1> QED BY <1>2, <1>3, Invariance, PTL

-----------------------------------------------------------------------------
(* FULL joins: rows with a NULL key.                                       *)
\* Pairs of rows of T, or of a row of T and a NULL row.
Padded(T) == (T \cup {NullRow}) \X (T \cup {NullRow})

\* What the states emit is made of the rows they hold.
LEMMA EmittedPadded ==
    ASSUME NEW T, NEW B, NEW P, B \subseteq T, P \subseteq T, NEW side
    PROVE  /\ Joined(B, P, side) \subseteq Padded(T)
           /\ Probed("Full", B, P, side) \subseteq Padded(T)
           /\ Probed("Inner", B, P, side) \subseteq Padded(T)
           /\ UnmatchedBuild(B, side) \subseteq Padded(T)
           /\ UnmatchedPairs(P, side) \subseteq Padded(T)
<1>1. \A b, p \in T \cup {NullRow} : Pair(side, b, p) \in Padded(T)
  BY DEF Pair, Padded
<1>2. Joined(B, P, side) \subseteq Padded(T)
  BY <1>1 DEF Joined, Matches
<1>3. UnmatchedProbe(B, P, side) \subseteq Padded(T)
  BY <1>1 DEF UnmatchedProbe
<1>4. UnmatchedBuild(B, side) \subseteq Padded(T) /\ UnmatchedPairs(P, side) \subseteq Padded(T)
  BY <1>1 DEF UnmatchedBuild, UnmatchedPairs
<1>5. /\ Probed("Full", B, P, side) \subseteq Joined(B, P, side) \cup UnmatchedProbe(B, P, side)
      /\ Probed("Inner", B, P, side) \subseteq Joined(B, P, side) \cup UnmatchedProbe(B, P, side)
  BY DEF Probed
<1> QED BY <1>2, <1>3, <1>4, <1>5

\* The output of a FULL join is made of the rows that were spilled, which have a key.
KeyedOutput == joinType = "Full" => DOMAIN out \subseteq Padded(Keyed)

\* Rows are emitted.
LEMMA KeyedEmit ==
    ASSUME KeyedOutput, UNCHANGED query, NEW E, out' = out (+) SetToBag(E),
           joinType = "Full" => E \subseteq Padded(Keyed)
    PROVE  KeyedOutput'
<1>1. joinType' = joinType /\ left' = left /\ right' = right
  BY DEF query
<1>2. Keyed' = Keyed
  BY <1>1 DEF Keyed, Rows
<1>3. DOMAIN out' = DOMAIN out \cup E
  BY EmitDomain
<1>4. Padded(Keyed)' = Padded(Keyed)
  BY <1>2
<1> QED BY <1>1, <1>3, <1>4 DEF KeyedOutput

\* Nothing is emitted.
LEMMA KeyedSame ==
    ASSUME KeyedOutput, UNCHANGED query, out' = out
    PROVE  KeyedOutput'
<1>1. joinType' = joinType /\ left' = left /\ right' = right
  BY DEF query
<1>2. Keyed' = Keyed
  BY <1>1 DEF Keyed, Rows
<1>3. Padded(Keyed)' = Padded(Keyed)
  BY <1>2
<1> QED BY <1>1, <1>3 DEF KeyedOutput

\* The steps of a Hash state.
LEMMA KeyedHash ==
    ASSUME IInv, KeyedOutput, HashProbe \/ HashEnd
    PROVE  KeyedOutput'
<1> DEFINE s == State
           E == Probed(joinType, s.build, Head(s.probe), s.side)
           U == UnmatchedBuild(s.build \ s.matched, s.side)
<1>1. /\ Running("Hash") /\ UNCHANGED query
      /\ \/ s.probe # <<>> /\ out' = out (+) SetToBag(E)
         \/ out' = out (+) SetToBag(U)
         \/ out' = out
  BY DEF HashProbe, HashEnd, Emit
<1>2. s \in JoinStateSet(joinType, Keyed) /\ s.kind = "Hash"
  BY <1>1, RunningState
<1> HIDE DEF s
<1>3. HashOK(joinType, Keyed, s)
  BY <1>2, KindOfState
<1>4. s.build \subseteq Keyed /\ FilesOK(Keyed, s.probe)
  BY <1>3 DEF HashOK, HashStates, FilesOK
<1>5. U \subseteq Padded(Keyed)
  <2>1. s.build \ s.matched \subseteq Keyed
    BY <1>4
  <2> QED BY <2>1, EmittedPadded
<1>6. s.probe # <<>> /\ joinType = "Full" => E \subseteq Padded(Keyed)
  BY <1>4, HeadTail, EmittedPadded
<1> HIDE DEF E, U
<1> QED BY <1>1, <1>5, <1>6, KeyedEmit, KeyedSame

\* The steps of a FileHash state.
LEMMA KeyedFileHash ==
    ASSUME IInv, KeyedOutput, joinType = "Full",
           FileHashChunk \/ FileHashProbe \/ FileHashChunkEnd \/ FileHashEnd
    PROVE  KeyedOutput'
<1> DEFINE s == State
           E == Probed("Inner", s.build, Head(s.probe), s.side)
           U == UnmatchedBuild(s.build \ s.matched, s.side)
           Q == {q \in RowsOf(s.probeFiles) : Key(q) = Null \/ Key(q) \notin s.matchedKeys}
           V == UnmatchedPairs(Q, s.side)
<1>1. /\ Running("FileHash") /\ UNCHANGED query
      /\ \/ s.probe # <<>> /\ out' = out (+) SetToBag(E)
         \/ out' = out (+) SetToBag(U)
         \/ out' = out (+) SetToBag(V)
         \/ out' = out
  <2>1. CASE FileHashChunk
    BY <2>1 DEF FileHashChunk
  <2>2. CASE FileHashProbe
    BY <2>2 DEF FileHashProbe, Emit
  <2>3. CASE FileHashChunkEnd
    BY <2>3 DEF FileHashChunkEnd, Emit
  <2>4. CASE FileHashEnd
    BY <2>4 DEF FileHashEnd, Emit, UnmatchedPairs
  <2> QED BY <2>1, <2>2, <2>3, <2>4
<1>2. s \in JoinStateSet(joinType, Keyed) /\ s.kind = "FileHash"
  BY <1>1, RunningState
<1> HIDE DEF s
<1>3. FileHashOK(joinType, Keyed, s)
  BY <1>2, KindOfState
<1>4. s.build \subseteq Keyed /\ FilesOK(Keyed, s.probe) /\ RowsOf(s.probeFiles) \subseteq Keyed
  BY <1>3, FileHashFiles
<1>5. U \subseteq Padded(Keyed)
  <2>1. s.build \ s.matched \subseteq Keyed
    BY <1>4
  <2> QED BY <2>1, EmittedPadded
<1>6. V \subseteq Padded(Keyed)
  <2>1. Q \subseteq Keyed
    BY <1>4
  <2> HIDE DEF Q
  <2> QED BY <2>1, EmittedPadded
<1>7. s.probe # <<>> => E \subseteq Padded(Keyed)
  BY <1>4, HeadTail, EmittedPadded
<1> HIDE DEF E, U, V
<1> QED BY <1>1, <1>5, <1>6, <1>7, KeyedEmit, KeyedSame

\* The step of an UnmatchedSide state; a FULL join has no Block state.
LEMMA KeyedOther ==
    ASSUME IInv, KeyedOutput, joinType = "Full", UnmatchedSideStep \/ BlockStep
    PROVE  KeyedOutput'
<1> DEFINE s == State
           U == UnmatchedBuild(Head(s.files), s.side)
<1>1. CASE UnmatchedSideStep
  <2>1. /\ Running("UnmatchedSide") /\ UNCHANGED query
        /\ \/ s.files # <<>> /\ out' = out (+) SetToBag(U)
           \/ out' = out
    BY <1>1 DEF UnmatchedSideStep, Emit
  <2>2. s \in JoinStateSet(joinType, Keyed) /\ s.kind = "UnmatchedSide"
    BY <2>1, RunningState
  <2> HIDE DEF s
  <2>3. UnmatchedSideOK(joinType, Keyed, s)
    BY <2>2, KindOfState
  <2>4. FilesOK(Keyed, s.files)
    BY <2>3 DEF UnmatchedSideOK, UnmatchedSideStates, FilesOK
  <2>5. s.files # <<>> => U \subseteq Padded(Keyed)
    BY <2>4, HeadTail, EmittedPadded
  <2> HIDE DEF U
  <2> QED BY <2>1, <2>5, KeyedEmit, KeyedSame
<1>2. CASE BlockStep
  <2>1. Running("Block")
    BY <1>2 DEF BlockStep
  <2>2. s.kind = "Block" /\ s \in JoinStateSet(joinType, Keyed)
    BY <2>1, RunningState
  <2> HIDE DEF s
  <2>3. BlockOK(joinType, Keyed, s)
    BY <2>2, KindOfState
  <2> QED BY <2>3 DEF BlockOK
<1> QED BY <1>1, <1>2

\* Every step keeps the output to the rows that have a key.
LEMMA KeyedPreserved ==
    IInv /\ KeyedOutput /\ [Next]_vars => KeyedOutput'
<1> SUFFICES ASSUME IInv, KeyedOutput, [Next]_vars PROVE KeyedOutput'
  OBVIOUS
<1>1. UNCHANGED query
  BY QueryKept
<1>2. CASE joinType # "Full"
  BY <1>1, <1>2 DEF KeyedOutput, query
<1>3. CASE joinType = "Full"
  <2>1. CASE HashProbe \/ HashEnd
    BY <2>1, KeyedHash
  <2>2. CASE FileHashChunk \/ FileHashProbe \/ FileHashChunkEnd \/ FileHashEnd
    BY <1>3, <2>2, KeyedFileHash
  <2>3. CASE BlockStep \/ UnmatchedSideStep
    BY <1>3, <2>3, KeyedOther
  <2>4. CASE \/ Spill \/ SpillFails \/ PrepareOneSided \/ Repartition \/ Prepare \/ End
             \/ UNCHANGED vars
    <3>1. out' = out
      BY <2>4 DEF Spill, SpillFails, PrepareOneSided, Repartition, Prepare, End, vars
    <3> QED BY <1>1, <3>1, KeyedSame
  <2> QED BY <2>1, <2>2, <2>3, <2>4 DEF Next
<1> QED BY <1>2, <1>3

\* The SQL FULL join keeps every row with a NULL key, which is in no pair.
LEMMA NullKeyKept ==
    ASSUME TypeInv, NEW row \in Rows, Key(row) = Null
    PROVE  ~(SqlJoin("Full", left, right) \subseteq Padded(Keyed))
<1> DEFINE L == RowsOf(BatchesOf("left", left))
           R == RowsOf(BatchesOf("right", right))
           pairs == {lr \in L \X R : Key(lr[1]) = Key(lr[2]) /\ Key(lr[1]) # Null}
           aloneL == {x \in L : \A lr \in pairs : lr[1] # x}
           aloneR == {x \in R : \A lr \in pairs : lr[2] # x}
<1>1. SqlJoin("Full", left, right)
        = pairs \cup {<<l, NullRow>> : l \in aloneL} \cup {<<NullRow, r>> : r \in aloneR}
  BY DEF SqlJoin
<1>2. row \in aloneL \/ row \in aloneR
  BY DEF Rows
<1>3. row # NullRow /\ row \notin Keyed
  BY InputRows DEF RowSet, Keyed, WithKey
<1>4. <<row, NullRow>> \notin Padded(Keyed) /\ <<NullRow, row>> \notin Padded(Keyed)
  BY <1>3 DEF Padded
<1> HIDE DEF aloneL, aloneR, pairs
<1> QED BY <1>1, <1>2, <1>4

\* A FULL join that ends is never exact when an input row has a NULL key: the row goes into no
\* partition (partition_batch), and SQL keeps it.  This part of FullFits is necessary.
THEOREM NullKeyLost ==
    Spec => [](status = "done" /\ joinType = "Full" /\ (\E row \in Rows : Key(row) = Null)
                  => ~JoinExact)
<1>1. Init => KeyedOutput
  <2>1. Init => out = EmptyBag
    BY DEF Init
  <2>2. DOMAIN EmptyBag = {}
    BY DEF EmptyBag, SetToBag
  <2> QED BY <2>1, <2>2 DEF KeyedOutput
<1>2. Spec => []KeyedOutput
  BY <1>1, KeyedPreserved, Invariance, PTL DEF Spec
<1>3. IInv /\ KeyedOutput =>
        (status = "done" /\ joinType = "Full" /\ (\E row \in Rows : Key(row) = Null) => ~JoinExact)
  <2> SUFFICES ASSUME IInv, KeyedOutput, status = "done", joinType = "Full",
                      NEW row \in Rows, Key(row) = Null, JoinExact
               PROVE  FALSE
    OBVIOUS
  <2> DEFINE G == SqlJoin("Full", left, right)
  <2>1. ~(G \subseteq Padded(Keyed))
    BY NullKeyKept DEF IInv
  <2>2. out = SetToBag(G)
    BY DEF JoinExact
  <2> HIDE DEF G
  <2>3. DOMAIN out = G
    BY <2>2 DEF SetToBag
  <2> QED BY <2>1, <2>3 DEF KeyedOutput
<1> QED BY <1>2, <1>3, Invariance, PTL
=============================================================================
