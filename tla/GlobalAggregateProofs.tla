----------------------- MODULE GlobalAggregateProofs -----------------------
(***************************************************************************)
(* Proofs about GlobalAggregate, for any stream of batches of integers and *)
(* NULLs, any word sizes and any order in which the jobs of the pool run.  *)
(*                                                                         *)
(* The partials arrive in an arbitrary order, the reference is the whole   *)
(* column in stream order.  The invariant therefore speaks of the set of   *)
(* batches merged so far: the state is the aggregate of that set, written  *)
(* as a total over all batches in which the others count as 0, so that     *)
(* merging one more changes a single term.  When the answer is given the   *)
(* set has every batch with rows, because pending_batches counts the owed  *)
(* partials and no partial is in the channel twice.                        *)
(*                                                                         *)
(* What Total and FlattenSeq compute is proved by induction over the       *)
(* naturals, for sets; sums may wrap in between because wrapping subtracts *)
(* a multiple of the word's range.                                         *)
(***************************************************************************)
EXTENDS GlobalAggregate, TLAPS

\* Under names of their own: they define operators of the community modules again.
WF == INSTANCE WellFoundedInduction
FS == INSTANCE FiniteSetTheorems

-----------------------------------------------------------------------------
(* Induction over the naturals, for sets.                                  *)

\* Every nonempty set of naturals has a least element.
LEMMA NatLeast ==
    ASSUME NEW S, S \subseteq Nat, S # {}
    PROVE  \E n \in S : \A m \in S : n <= m
<1> DEFINE R == WF!OpToRel(<, Nat)
<1>1. WF!IsWellFoundedOn(R, Nat)
  BY WF!NatLessThanWellFounded
<1> HIDE DEF R
<1>2. PICK n \in S : \A m \in S : ~(<<m, n>> \in R)
  BY <1>1, WF!WFMin
<1>3. \A m \in S : ~(m < n)
  BY <1>2 DEF R, WF!OpToRel
<1> QED
  BY <1>3

\* A set with 0 that is closed under successor has all naturals.
LEMMA NatInd ==
    ASSUME NEW S, 0 \in S, \A n \in Nat : n \in S => n + 1 \in S
    PROVE  Nat \subseteq S
<1> SUFFICES ASSUME Nat \ S # {} PROVE FALSE
  OBVIOUS
<1>1. PICK n \in Nat \ S : \A m \in Nat \ S : n <= m
  BY NatLeast
<1> QED
  BY <1>1

-----------------------------------------------------------------------------
(* Sums.                                                                   *)

\* The function that Total computes, up to n.
Summing(s, f, n) == f = [m \in 0..n |-> IF m = 0 THEN 0 ELSE f[m - 1] + s[m]]

\* There is one for every n.
LEMMA SummingExists ==
    ASSUME NEW s
    PROVE  \A n \in Nat : \E f : Summing(s, f, n)
<1> DEFINE S == {n \in Nat : \E f : Summing(s, f, n)}
<1>1. 0 \in S
  <2> DEFINE f == [m \in 0..0 |-> 0]
  <2>1. Summing(s, f, 0)
    BY DEF Summing
  <2> QED BY <2>1
<1>2. ASSUME NEW n \in Nat, n \in S PROVE n + 1 \in S
  <2>1. PICK f : Summing(s, f, n)
    BY <1>2
  <2> DEFINE g == [m \in 0..(n + 1) |-> IF m <= n THEN f[m] ELSE f[n] + s[n + 1]]
  <2>2. \A m \in 0..n : f[m] = IF m = 0 THEN 0 ELSE f[m - 1] + s[m]
    BY <2>1 DEF Summing
  <2>3. \A m \in 0..(n + 1) : g[m] = IF m = 0 THEN 0 ELSE g[m - 1] + s[m]
    <3> TAKE m \in 0..(n + 1)
    <3>1. CASE m <= n
      BY <3>1, <2>2
    <3>2. CASE m = n + 1
      BY <3>2
    <3> QED BY <3>1, <3>2
  <2> HIDE DEF g
  <2>4. DOMAIN g = 0..(n + 1) /\ g = [m \in DOMAIN g |-> g[m]]
    BY DEF g
  <2>5. Summing(s, g, n + 1)
    BY <2>3, <2>4 DEF Summing
  <2> QED BY <2>5
<1> HIDE DEF S
<1>3. Nat \subseteq S
  BY <1>1, <1>2, NatInd
<1> QED BY <1>3 DEF S

\* The partial sums of a sequence of integers.
PartialSums(s, f) ==
    /\ f[0] = 0
    /\ \A n \in 0..Len(s) : f[n] \in Int
    /\ \A n \in 1..Len(s) : f[n] = f[n - 1] + s[n]

\* Total is the last of them.
LEMMA TotalIs ==
    ASSUME NEW s \in Seq(Int)
    PROVE  \E f : PartialSums(s, f) /\ Total(s) = f[Len(s)]
<1> DEFINE f == CHOOSE f : Summing(s, f, Len(s))
<1>1. Summing(s, f, Len(s))
  <2>1. Len(s) \in Nat
    OBVIOUS
  <2>2. \E g : Summing(s, g, Len(s))
    BY <2>1, SummingExists, Zenon
  <2> QED BY <2>2, Zenon
<1>2. Total(s) = f[Len(s)]
  BY DEF Total, Summing
<1> HIDE DEF f
<1>3. \A m \in 0..Len(s) : f[m] = IF m = 0 THEN 0 ELSE f[m - 1] + s[m]
  BY <1>1 DEF Summing
<1> DEFINE S == {n \in Nat : n <= Len(s) => f[n] \in Int}
<1>4. 0 \in S
  BY <1>3
<1>5. ASSUME NEW n \in Nat, n \in S PROVE n + 1 \in S
  <2> SUFFICES ASSUME n + 1 <= Len(s) PROVE f[n + 1] \in Int
    OBVIOUS
  <2>1. f[n] \in Int /\ s[n + 1] \in Int /\ n + 1 \in 0..Len(s)
    BY <1>5
  <2>2. f[n + 1] = f[n] + s[n + 1]
    BY <1>3, <2>1
  <2> QED BY <2>1, <2>2
<1>6. \A n \in 0..Len(s) : f[n] \in Int
  <2> HIDE DEF S
  <2>1. Nat \subseteq S
    BY <1>4, <1>5, NatInd
  <2> QED BY <2>1 DEF S
<1>7. f[0] = 0 /\ \A n \in 1..Len(s) : f[n] = f[n - 1] + s[n]
  BY <1>3
<1> QED BY <1>2, <1>6, <1>7 DEF PartialSums

\* A total is an integer.
LEMMA TotalInt ==
    ASSUME NEW s \in Seq(Int)
    PROVE  Total(s) \in Int
  BY TotalIs DEF PartialSums

\* Nothing adds up to 0.
LEMMA TotalNothing ==
    Total(<<>>) = 0
<1>1. <<>> \in Seq(Int) /\ Len(<<>>) = 0
  OBVIOUS
<1>2. PICK f : PartialSums(<<>>, f) /\ Total(<<>>) = f[Len(<<>>)]
  BY <1>1, TotalIs, Zenon
<1> QED BY <1>1, <1>2 DEF PartialSums

\* Two sequences one after the other.
LEMMA TotalConcat ==
    ASSUME NEW a \in Seq(Int), NEW b \in Seq(Int)
    PROVE  Total(a \o b) = Total(a) + Total(b)
<1> DEFINE c == a \o b
<1>1. /\ c \in Seq(Int) /\ Len(c) = Len(a) + Len(b) /\ Len(a) \in Nat /\ Len(b) \in Nat
      /\ \A n \in 1..Len(a) : c[n] = a[n]
      /\ \A n \in 1..Len(b) : c[Len(a) + n] = b[n]
  OBVIOUS
<1> HIDE DEF c
<1>2. PICK f : PartialSums(a, f) /\ Total(a) = f[Len(a)]
  BY TotalIs
<1>3. PICK g : PartialSums(b, g) /\ Total(b) = g[Len(b)]
  BY TotalIs
<1>4. PICK h : PartialSums(c, h) /\ Total(c) = h[Len(c)]
  BY <1>1, TotalIs
<1> DEFINE S == {n \in Nat : n <= Len(a) => h[n] = f[n]}
           U == {n \in Nat : n <= Len(b) => h[Len(a) + n] = f[Len(a)] + g[n]}
<1>5. 0 \in S
  BY <1>2, <1>4 DEF PartialSums
<1>6. ASSUME NEW n \in Nat, n \in S PROVE n + 1 \in S
  <2> SUFFICES ASSUME n + 1 <= Len(a) PROVE h[n + 1] = f[n + 1]
    OBVIOUS
  <2>1. n + 1 \in 1..Len(a) /\ n + 1 \in 1..Len(c) /\ (n + 1) - 1 = n /\ h[n] = f[n]
    BY <1>1, <1>6
  <2>2. h[n + 1] = h[n] + c[n + 1] /\ f[n + 1] = f[n] + a[n + 1] /\ c[n + 1] = a[n + 1]
    BY <1>1, <1>2, <1>4, <2>1 DEF PartialSums
  <2> QED BY <2>1, <2>2
<1>7. h[Len(a)] = f[Len(a)]
  <2> HIDE DEF S
  <2>1. Nat \subseteq S
    BY <1>5, <1>6, NatInd
  <2> QED BY <1>1, <2>1 DEF S
<1>8. 0 \in U
  <2>1. h[Len(a)] = f[Len(a)] /\ f[Len(a)] \in Int /\ g[0] = 0
    BY <1>1, <1>2, <1>3, <1>7 DEF PartialSums
  <2>2. Len(a) + 0 = Len(a) /\ f[Len(a)] + 0 = f[Len(a)]
    BY <1>1, <2>1
  <2> QED BY <2>1, <2>2
<1>9. ASSUME NEW n \in Nat, n \in U PROVE n + 1 \in U
  <2> SUFFICES ASSUME n + 1 <= Len(b) PROVE h[Len(a) + (n + 1)] = f[Len(a)] + g[n + 1]
    OBVIOUS
  <2>1. /\ n + 1 \in 1..Len(b) /\ (n + 1) - 1 = n /\ n \in 0..Len(b) /\ n <= Len(b)
        /\ Len(a) + (n + 1) \in 1..Len(c) /\ (Len(a) + (n + 1)) - 1 = Len(a) + n
    BY <1>1
  <2>2. h[Len(a) + n] = f[Len(a)] + g[n]
    BY <1>9, <2>1
  <2>3. /\ h[Len(a) + (n + 1)] = h[Len(a) + n] + c[Len(a) + (n + 1)]
        /\ g[n + 1] = g[n] + b[n + 1] /\ c[Len(a) + (n + 1)] = b[n + 1]
    BY <1>1, <1>3, <1>4, <2>1 DEF PartialSums
  <2>4. g[n] \in Int /\ b[n + 1] \in Int /\ f[Len(a)] \in Int
    <3>1. b[n + 1] \in Int
      BY <2>1
    <3>2. g[n] \in Int
      BY <1>3, <2>1 DEF PartialSums
    <3>3. f[Len(a)] \in Int
      BY <1>1, <1>2 DEF PartialSums
    <3> QED BY <3>1, <3>2, <3>3
  <2> HIDE DEF U
  <2> QED BY <2>2, <2>3, <2>4
<1>10. h[Len(a) + Len(b)] = f[Len(a)] + g[Len(b)]
  <2> HIDE DEF U
  <2>1. Nat \subseteq U
    BY <1>8, <1>9, NatInd
  <2> QED BY <1>1, <2>1 DEF U
<1> QED BY <1>1, <1>2, <1>3, <1>4, <1>10 DEF c

\* Two sequences that differ in one place.
SameBut(s, t, k) ==
    /\ s \in Seq(Int) /\ t \in Seq(Int) /\ Len(t) = Len(s) /\ k \in 1..Len(s)
    /\ \A n \in 1..Len(s) : n # k => t[n] = s[n]

\* Their totals differ by the difference there.
LEMMA TotalChange ==
    ASSUME NEW s, NEW t, NEW k, SameBut(s, t, k)
    PROVE  Total(t) = Total(s) + (t[k] - s[k])
<1>1. PICK f : PartialSums(s, f) /\ Total(s) = f[Len(s)]
  BY TotalIs DEF SameBut
<1>2. PICK g : PartialSums(t, g) /\ Total(t) = g[Len(t)]
  BY TotalIs DEF SameBut
<1> DEFINE d == t[k] - s[k]
           S == {n \in Nat : n <= Len(s) => g[n] = f[n] + (IF n < k THEN 0 ELSE d)}
<1>3. /\ Len(s) \in Nat /\ Len(t) = Len(s) /\ k \in 1..Len(s) /\ d \in Int
      /\ \A n \in 1..Len(s) : s[n] \in Int /\ t[n] \in Int
  BY DEF SameBut
<1>4. 0 \in S
  BY <1>1, <1>2, <1>3 DEF PartialSums
<1>5. ASSUME NEW n \in Nat, n \in S PROVE n + 1 \in S
  <2> SUFFICES ASSUME n + 1 <= Len(s)
               PROVE  g[n + 1] = f[n + 1] + (IF n + 1 < k THEN 0 ELSE d)
    OBVIOUS
  <2>1. /\ n + 1 \in 1..Len(s) /\ (n + 1) - 1 = n /\ n \in 0..Len(s)
        /\ g[n] = f[n] + (IF n < k THEN 0 ELSE d)
    BY <1>3, <1>5
  <2>2. /\ f[n + 1] = f[n] + s[n + 1] /\ g[n + 1] = g[n] + t[n + 1] /\ f[n] \in Int
        /\ s[n + 1] \in Int /\ t[n + 1] \in Int
    BY <1>1, <1>2, <1>3, <2>1 DEF PartialSums
  <2>3. CASE n + 1 = k
    <3>1. n < k /\ ~(n + 1 < k) /\ g[n] = f[n]
      BY <2>1, <2>2, <2>3, <1>3
    <3>2. t[n + 1] = s[n + 1] + d
      BY <2>2, <2>3
    <3> HIDE DEF d
    <3> QED BY <2>2, <3>1, <3>2, <1>3
  <2>4. CASE n + 1 # k
    <3>1. t[n + 1] = s[n + 1]
      BY <2>1, <2>4 DEF SameBut
    <3>2. n < k <=> n + 1 < k
      BY <2>4, <1>3
    <3> HIDE DEF d
    <3> QED BY <2>1, <2>2, <3>1, <3>2, <1>3
  <2> QED BY <2>3, <2>4
<1> HIDE DEF S
<1>6. Nat \subseteq S
  BY <1>4, <1>5, NatInd
<1>7. g[Len(s)] = f[Len(s)] + d
  BY <1>3, <1>6 DEF S
<1> QED BY <1>1, <1>2, <1>3, <1>7

-----------------------------------------------------------------------------
(* Two's complement.                                                       *)

\* Division with remainder.
LEMMA Divided ==
    ASSUME NEW n \in Int, NEW m \in Nat, m > 0
    PROVE  \E k \in Int, r \in 0..(m - 1) : n = k * m + r /\ n % m = r
<1>1. n \div m \in Int /\ n % m \in 0..(m - 1) /\ n = (n \div m) * m + (n % m)
  BY SMT
<1> QED BY <1>1

\* The remainder is the only one.
LEMMA ModIs ==
    ASSUME NEW n \in Int, NEW m \in Nat, m > 0, NEW k \in Int, NEW r \in 0..(m - 1),
           n = k * m + r
    PROVE  n % m = r
  BY SMT

\* Multiplication distributes over subtraction.
LEMMA Distributes ==
    ASSUME NEW m \in Int, NEW k \in Int, NEW l \in Int
    PROVE  k * m - l * m = (k - l) * m
  BY SMT

\* Wrapping subtracts a multiple of the word's range and leaves a value of the word.
LEMMA WrapIs ==
    ASSUME NEW n \in Int, NEW h \in Nat, h > 0
    PROVE  \E k \in Int : Wrap(n, h) = n - k * (2 * h) /\ Wrap(n, h) \in (0 - h)..(h - 1)
<1> DEFINE m == 2 * h
<1>1. m \in Nat /\ m > 0 /\ n + h \in Int /\ m = h + h
  OBVIOUS
<1>2. Wrap(n, h) = ((n + h) % m) - h
  BY DEF Wrap
<1> HIDE DEF m
<1>3. PICK k \in Int, r \in 0..(m - 1) : n + h = k * m + r /\ (n + h) % m = r
  BY <1>1, Divided
<1>4. k * m \in Int
  BY <1>1
<1>5. Wrap(n, h) = n - k * m /\ Wrap(n, h) \in (0 - h)..(h - 1)
  BY <1>1, <1>2, <1>3, <1>4
<1> QED BY <1>5 DEF m

\* There is one such value.
LEMMA WrapUnique ==
    ASSUME NEW n \in Int, NEW h \in Nat, h > 0, NEW v \in (0 - h)..(h - 1),
           NEW k \in Int, v = n - k * (2 * h)
    PROVE  Wrap(n, h) = v
<1> DEFINE m == 2 * h
<1>1. m \in Nat /\ m > 0 /\ n + h \in Int /\ m = h + h /\ v = n - k * m
  OBVIOUS
<1>2. Wrap(n, h) = ((n + h) % m) - h
  BY DEF Wrap
<1> HIDE DEF m
<1>3. k * m \in Int
  BY <1>1
<1>4. v + h \in 0..(m - 1) /\ n + h = k * m + (v + h)
  BY <1>1, <1>3
<1>5. (n + h) % m = v + h
  BY <1>1, <1>4, ModIs
<1> QED BY <1>2, <1>5

\* A value of the word stays what it is.
LEMMA WrapWord ==
    ASSUME NEW h \in Nat, h > 0, NEW v \in (0 - h)..(h - 1)
    PROVE  Wrap(v, h) = v
<1>1. v \in Int /\ 0 * (2 * h) = 0 /\ v = v - 0
  OBVIOUS
<1>2. v = v - 0 * (2 * h)
  BY <1>1
<1> QED BY <1>1, <1>2, WrapUnique

\* Sums may be wrapped in between.
LEMMA WrapAdd ==
    ASSUME NEW a \in Int, NEW b \in Int, NEW h \in Nat, h > 0
    PROVE  Wrap(Wrap(a, h) + Wrap(b, h), h) = Wrap(a + b, h)
<1> DEFINE m == 2 * h
<1>1. PICK i \in Int : Wrap(a, h) = a - i * (2 * h) /\ Wrap(a, h) \in (0 - h)..(h - 1)
  BY WrapIs
<1>2. PICK j \in Int : Wrap(b, h) = b - j * (2 * h) /\ Wrap(b, h) \in (0 - h)..(h - 1)
  BY WrapIs
<1>3. PICK k \in Int : /\ Wrap(a + b, h) = (a + b) - k * (2 * h)
                      /\ Wrap(a + b, h) \in (0 - h)..(h - 1)
  <2> DEFINE n == a + b
  <2>1. n \in Int
    OBVIOUS
  <2> HIDE DEF n
  <2>2. \E k \in Int : Wrap(n, h) = n - k * (2 * h) /\ Wrap(n, h) \in (0 - h)..(h - 1)
    BY <2>1, WrapIs
  <2> QED BY <2>2 DEF n
<1>4. /\ Wrap(a, h) = a - i * m /\ Wrap(b, h) = b - j * m /\ Wrap(a + b, h) = (a + b) - k * m
      /\ m \in Int
  BY <1>1, <1>2, <1>3
<1> HIDE DEF m
<1>5. i * m \in Int /\ j * m \in Int /\ k * m \in Int /\ k - i \in Int /\ (k - i) - j \in Int
  BY <1>4
<1>6. k * m - i * m = (k - i) * m /\ (k - i) * m - j * m = ((k - i) - j) * m
  BY <1>4, <1>5, Distributes
<1>7. Wrap(a + b, h) = (Wrap(a, h) + Wrap(b, h)) - ((k - i) - j) * m
  <2>1. ((k - i) - j) * m = (k * m - i * m) - j * m
    BY <1>6
  <2> HIDE <1>6
  <2> QED BY <1>4, <1>5, <2>1
<1>8. Wrap(a, h) + Wrap(b, h) \in Int
  BY <1>1, <1>2
<1> DEFINE w == Wrap(a, h) + Wrap(b, h)
           v == Wrap(a + b, h)
           l == (k - i) - j
<1>9. w \in Int /\ v \in (0 - h)..(h - 1) /\ l \in Int /\ v = w - l * (2 * h)
  BY <1>3, <1>5, <1>7, <1>8 DEF m
<1> HIDE DEF w, v, l
<1>10. Wrap(w, h) = v
  BY <1>9, WrapUnique
<1> QED BY <1>10 DEF w, v

-----------------------------------------------------------------------------
(* Columns.                                                                *)

\* A function on 1..n with values in S is a sequence.
LEMMA IsSequence ==
    ASSUME NEW S, NEW f, NEW n \in Nat, f = [i \in 1..n |-> f[i]], \A i \in 1..n : f[i] \in S
    PROVE  f \in Seq(S) /\ Len(f) = n /\ DOMAIN f = 1..n
  OBVIOUS

\* The values of a batch are integers or NULL; those that count are integers.
LEMMA ColumnTypes ==
    ASSUME NEW b \in Batches
    PROVE  /\ Valid(b) \in Seq(Int) /\ Addends(b) \in Seq(Int)
           /\ Len(Valid(b)) = Len(b) /\ Len(Addends(b)) = Len(b) /\ Len(b) \in Nat
           /\ \A i \in 1..Len(b) :
                 /\ Valid(b)[i] = (IF b[i] = Null THEN 0 ELSE 1)
                 /\ Addends(b)[i] = (IF b[i] = Null THEN 0 ELSE b[i])
           /\ ToSet(b) \ {Null} \subseteq Int
<1>1. Len(b) \in Nat /\ DOMAIN b = 1..Len(b) /\ \A i \in 1..Len(b) : b[i] \in Int \cup {Null}
  BY DEF Batches
<1>2. \A i \in 1..Len(b) : (IF b[i] = Null THEN 0 ELSE 1) \in Int
  OBVIOUS
<1>3. \A i \in 1..Len(b) : (IF b[i] = Null THEN 0 ELSE b[i]) \in Int
  BY <1>1
<1>4. /\ Valid(b) \in Seq(Int) /\ Len(Valid(b)) = Len(b)
      /\ \A i \in 1..Len(b) : Valid(b)[i] = (IF b[i] = Null THEN 0 ELSE 1)
  <2> DEFINE f == Valid(b)
  <2>1. /\ f = [i \in 1..Len(b) |-> f[i]]
        /\ \A i \in 1..Len(b) : f[i] = (IF b[i] = Null THEN 0 ELSE 1) /\ f[i] \in Int
    BY <1>1, <1>2 DEF Valid
  <2> HIDE DEF f
  <2>2. f \in Seq(Int) /\ Len(f) = Len(b)
    BY <1>1, <2>1, IsSequence
  <2> QED BY <2>1, <2>2 DEF f
<1>5. /\ Addends(b) \in Seq(Int) /\ Len(Addends(b)) = Len(b)
      /\ \A i \in 1..Len(b) : Addends(b)[i] = (IF b[i] = Null THEN 0 ELSE b[i])
  <2> DEFINE f == Addends(b)
  <2>1. /\ f = [i \in 1..Len(b) |-> f[i]]
        /\ \A i \in 1..Len(b) : f[i] = (IF b[i] = Null THEN 0 ELSE b[i]) /\ f[i] \in Int
    BY <1>1, <1>3 DEF Addends
  <2> HIDE DEF f
  <2>2. f \in Seq(Int) /\ Len(f) = Len(b)
    BY <1>1, <2>1, IsSequence
  <2> QED BY <2>1, <2>2 DEF f
<1>6. ToSet(b) \ {Null} \subseteq Int
  BY <1>1 DEF ToSet
<1> QED BY <1>1, <1>4, <1>5, <1>6

\* Sequences with the same elements are equal.
LEMMA SameSeq ==
    ASSUME NEW S, NEW a \in Seq(S), NEW b \in Seq(S), Len(a) = Len(b),
           \A i \in 1..Len(a) : a[i] = b[i]
    PROVE  a = b
  OBVIOUS

\* The elements of a concatenation.
LEMMA Concat ==
    ASSUME NEW S, NEW a \in Seq(S), NEW b \in Seq(S)
    PROVE  /\ a \o b \in Seq(S) /\ Len(a \o b) = Len(a) + Len(b)
           /\ \A i \in 1..Len(a) : (a \o b)[i] = a[i]
           /\ \A i \in 1..Len(b) : (a \o b)[Len(a) + i] = b[i]
           /\ \A i \in 1..(Len(a) + Len(b)) :
                 i \in 1..Len(a) \/ \E j \in 1..Len(b) : i = Len(a) + j
<1>1. Len(a) \in Nat /\ Len(b) \in Nat
  OBVIOUS
<1>2. \A i \in 1..(Len(a) + Len(b)) : i \in 1..Len(a) \/ \E j \in 1..Len(b) : i = Len(a) + j
  <2> TAKE i \in 1..(Len(a) + Len(b))
  <2> SUFFICES ASSUME i \notin 1..Len(a) PROVE \E j \in 1..Len(b) : i = Len(a) + j
    OBVIOUS
  <2>1. i - Len(a) \in 1..Len(b) /\ i = Len(a) + (i - Len(a))
    BY <1>1
  <2> QED BY <2>1
<1> QED BY <1>2

\* A sequence with the elements of two others, one after the other.
IsConcat(S, a, b, c) ==
    /\ a \in Seq(S) /\ b \in Seq(S) /\ c \in Seq(S) /\ Len(c) = Len(a) + Len(b)
    /\ \A i \in 1..Len(a) : c[i] = a[i]
    /\ \A i \in 1..Len(b) : c[Len(a) + i] = b[i]

\* It is their concatenation.
LEMMA ConcatIs ==
    ASSUME NEW S, NEW a, NEW b, NEW c, IsConcat(S, a, b, c)
    PROVE  c = a \o b
<1> USE DEF IsConcat
<1> DEFINE d == a \o b
<1>1. /\ d \in Seq(S) /\ Len(d) = Len(a) + Len(b)
      /\ \A i \in 1..Len(a) : d[i] = a[i]
      /\ \A i \in 1..Len(b) : d[Len(a) + i] = b[i]
      /\ \A i \in 1..(Len(a) + Len(b)) :
            i \in 1..Len(a) \/ \E j \in 1..Len(b) : i = Len(a) + j
  BY Concat
<1> HIDE DEF d
<1>2. \A i \in 1..Len(c) : c[i] = d[i]
  <2> TAKE i \in 1..Len(c)
  <2>1. CASE i \in 1..Len(a)
    BY <1>1, <2>1
  <2>2. CASE i \notin 1..Len(a)
    <3>1. PICK j \in 1..Len(b) : i = Len(a) + j
      BY <1>1, <2>2
    <3>2. c[Len(a) + j] = b[j] /\ d[Len(a) + j] = b[j]
      BY <1>1
    <3> QED BY <3>1, <3>2
  <2> QED BY <2>1, <2>2
<1>3. c = d
  BY <1>1, <1>2, SameSeq
<1> QED BY <1>3 DEF d

\* The aggregates of two batches one after the other.
LEMMA ColumnConcat ==
    ASSUME NEW a \in Batches, NEW b \in Batches
    PROVE  /\ a \o b \in Batches /\ Len(a \o b) = Len(a) + Len(b)
           /\ Total(Valid(a \o b)) = Total(Valid(a)) + Total(Valid(b))
           /\ Total(Addends(a \o b)) = Total(Addends(a)) + Total(Addends(b))
           /\ ToSet(a \o b) = ToSet(a) \cup ToSet(b)
<1> DEFINE c == a \o b
<1>1. /\ c \in Batches /\ Len(c) = Len(a) + Len(b)
      /\ \A i \in 1..Len(a) : c[i] = a[i]
      /\ \A i \in 1..Len(b) : c[Len(a) + i] = b[i]
      /\ \A i \in 1..(Len(a) + Len(b)) :
            i \in 1..Len(a) \/ \E j \in 1..Len(b) : i = Len(a) + j
  BY Concat DEF Batches
<1> HIDE DEF c
<1>2. Len(a) \in Nat /\ Len(b) \in Nat /\ DOMAIN a = 1..Len(a) /\ DOMAIN b = 1..Len(b)
      /\ DOMAIN c = 1..Len(c)
  BY <1>1 DEF Batches
<1>3. /\ \A i \in 1..Len(a) : i \in 1..Len(c)
      /\ \A i \in 1..Len(b) : Len(a) + i \in 1..Len(c)
  BY <1>1, <1>2
<1>4. Valid(c) = Valid(a) \o Valid(b)
  <2> DEFINE u == Valid(a)
             v == Valid(b)
             w == Valid(c)
  <2>1. /\ u \in Seq(Int) /\ v \in Seq(Int) /\ w \in Seq(Int)
        /\ Len(u) = Len(a) /\ Len(v) = Len(b) /\ Len(w) = Len(c)
        /\ \A i \in 1..Len(a) : u[i] = (IF a[i] = Null THEN 0 ELSE 1)
        /\ \A i \in 1..Len(b) : v[i] = (IF b[i] = Null THEN 0 ELSE 1)
        /\ \A i \in 1..Len(c) : w[i] = (IF c[i] = Null THEN 0 ELSE 1)
    BY <1>1, ColumnTypes
  <2> HIDE DEF u, v, w
  <2>2. \A i \in 1..Len(u) : w[i] = u[i]
    BY <2>1, <1>1, <1>3
  <2>3. \A i \in 1..Len(v) : w[Len(u) + i] = v[i]
    <3> TAKE i \in 1..Len(v)
    <3>1. c[Len(a) + i] = b[i] /\ Len(a) + i \in 1..Len(c) /\ i \in 1..Len(b)
      BY <2>1, <1>1, <1>3
    <3> QED BY <2>1, <3>1
  <2>4. IsConcat(Int, u, v, w)
    BY <2>1, <2>2, <2>3, <1>1 DEF IsConcat
  <2>5. w = u \o v
    BY <2>4, ConcatIs
  <2> QED BY <2>5 DEF u, v, w
<1>5. Addends(c) = Addends(a) \o Addends(b)
  <2> DEFINE u == Addends(a)
             v == Addends(b)
             w == Addends(c)
  <2>1. /\ u \in Seq(Int) /\ v \in Seq(Int) /\ w \in Seq(Int)
        /\ Len(u) = Len(a) /\ Len(v) = Len(b) /\ Len(w) = Len(c)
        /\ \A i \in 1..Len(a) : u[i] = (IF a[i] = Null THEN 0 ELSE a[i])
        /\ \A i \in 1..Len(b) : v[i] = (IF b[i] = Null THEN 0 ELSE b[i])
        /\ \A i \in 1..Len(c) : w[i] = (IF c[i] = Null THEN 0 ELSE c[i])
    BY <1>1, ColumnTypes
  <2> HIDE DEF u, v, w
  <2>2. \A i \in 1..Len(u) : w[i] = u[i]
    BY <2>1, <1>1, <1>3
  <2>3. \A i \in 1..Len(v) : w[Len(u) + i] = v[i]
    <3> TAKE i \in 1..Len(v)
    <3>1. c[Len(a) + i] = b[i] /\ Len(a) + i \in 1..Len(c) /\ i \in 1..Len(b)
      BY <2>1, <1>1, <1>3
    <3> QED BY <2>1, <3>1
  <2>4. IsConcat(Int, u, v, w)
    BY <2>1, <2>2, <2>3, <1>1 DEF IsConcat
  <2>5. w = u \o v
    BY <2>4, ConcatIs
  <2> QED BY <2>5 DEF u, v, w
<1>6. /\ Total(Valid(c)) = Total(Valid(a)) + Total(Valid(b))
      /\ Total(Addends(c)) = Total(Addends(a)) + Total(Addends(b))
  <2>1. /\ Valid(a) \in Seq(Int) /\ Valid(b) \in Seq(Int)
        /\ Addends(a) \in Seq(Int) /\ Addends(b) \in Seq(Int)
    BY ColumnTypes
  <2> QED BY <1>4, <1>5, <2>1, TotalConcat
<1>7. ToSet(c) = ToSet(a) \cup ToSet(b)
  <2>1. \A x \in ToSet(c) : x \in ToSet(a) \/ x \in ToSet(b)
    BY <1>1, <1>2 DEF ToSet
  <2>2. \A x \in ToSet(a) : x \in ToSet(c)
    BY <1>1, <1>2, <1>3 DEF ToSet
  <2>3. \A x \in ToSet(b) : x \in ToSet(c)
    BY <1>1, <1>2, <1>3 DEF ToSet
  <2> QED BY <2>1, <2>2, <2>3
<1> QED BY <1>1, <1>6, <1>7 DEF c

-----------------------------------------------------------------------------
(* The whole column.                                                       *)

\* The function that FlattenSeq computes, up to n.
Flattening(bs, f, n) == f = [i \in 1..n |-> IF i = 1 THEN bs[i] ELSE f[i - 1] \o bs[i]]

\* There is one for every n.
LEMMA FlatteningExists ==
    ASSUME NEW bs
    PROVE  \A n \in Nat : \E f : Flattening(bs, f, n)
<1> DEFINE S == {n \in Nat : \E f : Flattening(bs, f, n)}
<1>1. 0 \in S
  <2> DEFINE f == [m \in 1..0 |-> <<>>]
  <2>1. Flattening(bs, f, 0)
    BY DEF Flattening
  <2> QED BY <2>1
<1>2. ASSUME NEW n \in Nat, n \in S PROVE n + 1 \in S
  <2>1. PICK f : Flattening(bs, f, n)
    BY <1>2
  <2> DEFINE g == [m \in 1..(n + 1) |->
                     IF m <= n THEN f[m] ELSE IF n = 0 THEN bs[1] ELSE f[n] \o bs[n + 1]]
  <2>2. \A m \in 1..n : f[m] = IF m = 1 THEN bs[m] ELSE f[m - 1] \o bs[m]
    BY <2>1 DEF Flattening
  <2>3. \A m \in 1..(n + 1) : g[m] = IF m = 1 THEN bs[m] ELSE g[m - 1] \o bs[m]
    <3> TAKE m \in 1..(n + 1)
    <3>1. CASE m <= n
      BY <3>1, <2>2
    <3>2. CASE m = n + 1
      BY <3>2
    <3> QED BY <3>1, <3>2
  <2> HIDE DEF g
  <2>4. DOMAIN g = 1..(n + 1) /\ g = [m \in DOMAIN g |-> g[m]]
    BY DEF g
  <2>5. Flattening(bs, g, n + 1)
    BY <2>3, <2>4 DEF Flattening
  <2> QED BY <2>5
<1> HIDE DEF S
<1>3. Nat \subseteq S
  BY <1>1, <1>2, NatInd
<1> QED BY <1>3 DEF S

\* The rows of the first n batches.
Flattened(bs, g) ==
    /\ g[0] = <<>>
    /\ \A n \in 0..Len(bs) : g[n] \in Batches
    /\ \A n \in 1..Len(bs) : g[n] = g[n - 1] \o bs[n]

\* The empty batch before another one.
LEMMA NothingBefore ==
    ASSUME NEW b \in Batches
    PROVE  <<>> \o b = b
  BY DEF Batches

\* The empty batch is none of the errors.
LEMMA NoError ==
    <<>> \in Batches /\ <<>> # Broken /\ <<>> # Unsupported
<1>1. <<>> \in Batches
  BY DEF Batches
<1> QED BY <1>1, InputsAssumption

\* FlattenSeq ends with the rows of all batches.
LEMMA FlattenIs ==
    ASSUME NEW bs \in Seq(Batches)
    PROVE  \E g : Flattened(bs, g) /\ FlattenSeq(bs) = g[Len(bs)]
<1> DEFINE f == CHOOSE f : Flattening(bs, f, Len(bs))
           g == [n \in 0..Len(bs) |-> IF n = 0 THEN <<>> ELSE f[n]]
<1>1. Len(bs) \in Nat /\ \A n \in 1..Len(bs) : bs[n] \in Batches
  OBVIOUS
<1>2. Flattening(bs, f, Len(bs))
  <2>1. \E h : Flattening(bs, h, Len(bs))
    BY <1>1, FlatteningExists, Zenon
  <2> QED BY <2>1, Zenon
<1>3. FlattenSeq(bs) = IF Len(bs) = 0 THEN bs ELSE f[Len(bs)]
  BY DEF FlattenSeq, Flattening
<1>4. FlattenSeq(bs) = g[Len(bs)]
  <2>1. CASE Len(bs) = 0
    <3>1. bs = <<>>
      BY <2>1
    <3> QED BY <2>1, <3>1, <1>3
  <2>2. CASE Len(bs) # 0
    BY <2>2, <1>1, <1>3
  <2> QED BY <2>1, <2>2
<1> HIDE DEF f
<1>5. \A n \in 1..Len(bs) : f[n] = IF n = 1 THEN bs[n] ELSE f[n - 1] \o bs[n]
  BY <1>2 DEF Flattening
<1>6. g[0] = <<>> /\ \A n \in 1..Len(bs) : g[n] = f[n]
  BY <1>1
<1> HIDE DEF g
<1>7. \A n \in 1..Len(bs) : g[n] = g[n - 1] \o bs[n]
  <2> TAKE n \in 1..Len(bs)
  <2>1. CASE n = 1
    <3>1. g[n - 1] = <<>> /\ g[n] = bs[n]
      BY <1>5, <1>6, <2>1
    <3> QED BY <3>1, <1>1, NothingBefore
  <2>2. CASE n # 1
    <3>1. n - 1 \in 1..Len(bs)
      BY <2>2
    <3> QED BY <1>5, <1>6, <2>2, <3>1
  <2> QED BY <2>1, <2>2
<1> DEFINE S == {n \in Nat : n <= Len(bs) => g[n] \in Batches}
<1>8. 0 \in S
  <2>1. <<>> \in Batches
    BY DEF Batches
  <2> QED BY <1>6, <2>1
<1>9. ASSUME NEW n \in Nat, n \in S PROVE n + 1 \in S
  <2> SUFFICES ASSUME n + 1 <= Len(bs) PROVE g[n + 1] \in Batches
    OBVIOUS
  <2>1. /\ g[n] \in Batches /\ bs[n + 1] \in Batches
        /\ n + 1 \in 1..Len(bs) /\ (n + 1) - 1 = n
    BY <1>1, <1>9
  <2>2. g[n + 1] = g[n] \o bs[n + 1]
    BY <1>7, <2>1
  <2>3. g[n] \o bs[n + 1] \in Batches
    BY <2>1, ColumnConcat
  <2> QED BY <2>2, <2>3
<1>10. \A n \in 0..Len(bs) : g[n] \in Batches
  <2> HIDE DEF S
  <2>1. Nat \subseteq S
    BY <1>8, <1>9, NatInd
  <2> QED BY <2>1 DEF S
<1> QED BY <1>4, <1>6, <1>7, <1>10 DEF Flattened

\* What the batches in M contribute to COUNT, COUNT(col) and SUM, before any wrapping.
LensOf(bs, M) == [i \in DOMAIN bs |-> IF i \in M THEN Len(bs[i]) ELSE 0]
CountsOf(bs, M) == [i \in DOMAIN bs |-> IF i \in M THEN Total(Valid(bs[i])) ELSE 0]
SumsOf(bs, M) == [i \in DOMAIN bs |-> IF i \in M THEN Total(Addends(bs[i])) ELSE 0]
ValuesOf(bs, M) == UNION {ToSet(bs[i]) \ {Null} : i \in M}

\* The types of the contributions.
LEMMA PartsTypes ==
    ASSUME NEW T, NEW bs \in Seq(T), NEW M, \A i \in M : i \in DOMAIN bs /\ bs[i] \in Batches
    PROVE  /\ LensOf(bs, M) \in Seq(Int) /\ Len(LensOf(bs, M)) = Len(bs)
           /\ CountsOf(bs, M) \in Seq(Int) /\ Len(CountsOf(bs, M)) = Len(bs)
           /\ SumsOf(bs, M) \in Seq(Int) /\ Len(SumsOf(bs, M)) = Len(bs)
<1>1. DOMAIN bs = 1..Len(bs) /\ Len(bs) \in Nat
  OBVIOUS
<1>2. \A i \in M : Len(bs[i]) \in Int /\ Total(Valid(bs[i])) \in Int
                   /\ Total(Addends(bs[i])) \in Int
  <2> TAKE i \in M
  <2>1. Valid(bs[i]) \in Seq(Int) /\ Addends(bs[i]) \in Seq(Int) /\ Len(bs[i]) \in Nat
    BY ColumnTypes
  <2> QED BY <2>1, TotalInt
<1>3. LensOf(bs, M) \in Seq(Int) /\ Len(LensOf(bs, M)) = Len(bs)
  <2> DEFINE f == LensOf(bs, M)
  <2>1. f = [i \in 1..Len(bs) |-> f[i]] /\ \A i \in 1..Len(bs) : f[i] \in Int
    BY <1>1, <1>2 DEF LensOf
  <2> HIDE DEF f
  <2>2. f \in Seq(Int) /\ Len(f) = Len(bs)
    BY <1>1, <2>1, IsSequence
  <2> QED BY <2>2 DEF f
<1>4. CountsOf(bs, M) \in Seq(Int) /\ Len(CountsOf(bs, M)) = Len(bs)
  <2> DEFINE f == CountsOf(bs, M)
  <2>1. f = [i \in 1..Len(bs) |-> f[i]] /\ \A i \in 1..Len(bs) : f[i] \in Int
    BY <1>1, <1>2 DEF CountsOf
  <2> HIDE DEF f
  <2>2. f \in Seq(Int) /\ Len(f) = Len(bs)
    BY <1>1, <2>1, IsSequence
  <2> QED BY <2>2 DEF f
<1>5. SumsOf(bs, M) \in Seq(Int) /\ Len(SumsOf(bs, M)) = Len(bs)
  <2> DEFINE f == SumsOf(bs, M)
  <2>1. f = [i \in 1..Len(bs) |-> f[i]] /\ \A i \in 1..Len(bs) : f[i] \in Int
    BY <1>1, <1>2 DEF SumsOf
  <2> HIDE DEF f
  <2>2. f \in Seq(Int) /\ Len(f) = Len(bs)
    BY <1>1, <2>1, IsSequence
  <2> QED BY <2>2 DEF f
<1> QED BY <1>3, <1>4, <1>5

\* The aggregates of the whole column are the totals over its batches.
LEMMA FlattenTotals ==
    ASSUME NEW bs \in Seq(Batches), NEW M, M \subseteq DOMAIN bs,
           \A i \in DOMAIN bs : i \in M \/ bs[i] = <<>>
    PROVE  /\ FlattenSeq(bs) \in Batches
           /\ Len(FlattenSeq(bs)) = Total(LensOf(bs, M))
           /\ Total(Valid(FlattenSeq(bs))) = Total(CountsOf(bs, M))
           /\ Total(Addends(FlattenSeq(bs))) = Total(SumsOf(bs, M))
           /\ ToSet(FlattenSeq(bs)) \ {Null} = ValuesOf(bs, M)
<1> DEFINE lens == LensOf(bs, M)
           counts == CountsOf(bs, M)
           sums == SumsOf(bs, M)
<1>1. /\ Len(bs) \in Nat /\ DOMAIN bs = 1..Len(bs)
      /\ \A n \in 1..Len(bs) : bs[n] \in Batches
  OBVIOUS
<1>2. /\ lens \in Seq(Int) /\ Len(lens) = Len(bs) /\ counts \in Seq(Int)
      /\ Len(counts) = Len(bs) /\ sums \in Seq(Int) /\ Len(sums) = Len(bs)
  BY <1>1, PartsTypes
<1>3. \A n \in 1..Len(bs) : /\ lens[n] = Len(bs[n]) /\ counts[n] = Total(Valid(bs[n]))
                            /\ sums[n] = Total(Addends(bs[n]))
  <2> TAKE n \in 1..Len(bs)
  <2>1. CASE n \in M
    BY <1>1, <2>1 DEF LensOf, CountsOf, SumsOf
  <2>2. CASE n \notin M
    <3>1. bs[n] = <<>> /\ lens[n] = 0 /\ counts[n] = 0 /\ sums[n] = 0
      BY <1>1, <2>2 DEF LensOf, CountsOf, SumsOf
    <3>2. Len(<<>>) = 0 /\ Valid(<<>>) = <<>> /\ Addends(<<>>) = <<>>
      BY DEF Valid, Addends
    <3> HIDE DEF lens, counts, sums
    <3> QED BY <3>1, <3>2, TotalNothing
  <2> QED BY <2>1, <2>2
<1> HIDE DEF lens, counts, sums
<1>4. PICK g : Flattened(bs, g) /\ FlattenSeq(bs) = g[Len(bs)]
  BY FlattenIs
<1>5. PICK fl : PartialSums(lens, fl) /\ Total(lens) = fl[Len(lens)]
  BY <1>2, TotalIs
<1>6. PICK fc : PartialSums(counts, fc) /\ Total(counts) = fc[Len(counts)]
  BY <1>2, TotalIs
<1>7. PICK fs : PartialSums(sums, fs) /\ Total(sums) = fs[Len(sums)]
  BY <1>2, TotalIs
<1> DEFINE Agrees(n) == /\ Len(g[n]) = fl[n] /\ Total(Valid(g[n])) = fc[n]
                        /\ Total(Addends(g[n])) = fs[n]
           S == {n \in Nat : n <= Len(bs) => Agrees(n)}
<1>8. 0 \in S
  <2>1. g[0] = <<>> /\ fl[0] = 0 /\ fc[0] = 0 /\ fs[0] = 0
    BY <1>4, <1>5, <1>6, <1>7 DEF Flattened, PartialSums
  <2>2. Len(<<>>) = 0 /\ Valid(<<>>) = <<>> /\ Addends(<<>>) = <<>>
    BY DEF Valid, Addends
  <2>3. Agrees(0)
    BY <2>1, <2>2, TotalNothing
  <2> QED BY <2>3
<1>9. ASSUME NEW n \in Nat, n \in S PROVE n + 1 \in S
  <2> SUFFICES ASSUME n + 1 <= Len(bs) PROVE Agrees(n + 1)
    OBVIOUS
  <2>1. /\ n + 1 \in 1..Len(bs) /\ (n + 1) - 1 = n /\ n \in 0..Len(bs) /\ n <= Len(bs)
        /\ bs[n + 1] \in Batches
    BY <1>1
  <2>2. Agrees(n)
    BY <1>9, <2>1
  <2>3. g[n] \in Batches /\ g[n + 1] = g[n] \o bs[n + 1]
    BY <1>4, <2>1 DEF Flattened
  <2>4. /\ fl[n + 1] = fl[n] + lens[n + 1] /\ fc[n + 1] = fc[n] + counts[n + 1]
        /\ fs[n + 1] = fs[n] + sums[n + 1]
    BY <1>2, <1>5, <1>6, <1>7, <2>1 DEF PartialSums
  <2>5. /\ Len(g[n + 1]) = Len(g[n]) + Len(bs[n + 1])
        /\ Total(Valid(g[n + 1])) = Total(Valid(g[n])) + Total(Valid(bs[n + 1]))
        /\ Total(Addends(g[n + 1])) = Total(Addends(g[n])) + Total(Addends(bs[n + 1]))
    BY <2>1, <2>3, ColumnConcat
  <2> QED BY <2>1, <2>2, <2>4, <2>5, <1>3
<1>10. Agrees(Len(bs))
  <2> HIDE DEF S
  <2>1. Nat \subseteq S
    BY <1>8, <1>9, NatInd
  <2> QED BY <1>1, <2>1 DEF S
<1> DEFINE U == {n \in Nat : n <= Len(bs) => ToSet(g[n]) = UNION {ToSet(bs[i]) : i \in 1..n}}
<1>11. 0 \in U
  <2>1. g[0] = <<>> /\ ToSet(<<>>) = {} /\ 1..0 = {}
    BY <1>4 DEF Flattened, ToSet
  <2> QED BY <2>1
<1>12. ASSUME NEW n \in Nat, n \in U PROVE n + 1 \in U
  <2> SUFFICES ASSUME n + 1 <= Len(bs)
               PROVE  ToSet(g[n + 1]) = UNION {ToSet(bs[i]) : i \in 1..(n + 1)}
    OBVIOUS
  <2>1. /\ n + 1 \in 1..Len(bs) /\ (n + 1) - 1 = n /\ n \in 0..Len(bs) /\ n <= Len(bs)
        /\ bs[n + 1] \in Batches
    BY <1>1
  <2>2. ToSet(g[n]) = UNION {ToSet(bs[i]) : i \in 1..n}
    BY <1>12, <2>1
  <2>3. g[n] \in Batches /\ g[n + 1] = g[n] \o bs[n + 1]
    BY <1>4, <2>1 DEF Flattened
  <2>4. ToSet(g[n + 1]) = ToSet(g[n]) \cup ToSet(bs[n + 1])
    BY <2>1, <2>3, ColumnConcat
  <2>5. \A i : i \in 1..(n + 1) <=> i \in 1..n \/ i = n + 1
    OBVIOUS
  <2> QED BY <2>2, <2>4, <2>5
<1>13. ToSet(g[Len(bs)]) = UNION {ToSet(bs[i]) : i \in 1..Len(bs)}
  <2> HIDE DEF U
  <2>1. Nat \subseteq U
    BY <1>11, <1>12, NatInd
  <2> QED BY <1>1, <2>1 DEF U
<1>14. ToSet(FlattenSeq(bs)) \ {Null} = ValuesOf(bs, M)
  <2>1. \A i \in 1..Len(bs) : i \in M \/ ToSet(bs[i]) = {}
    BY <1>1 DEF ToSet
  <2> QED BY <1>1, <1>4, <1>13, <2>1 DEF ValuesOf
<1>15. FlattenSeq(bs) \in Batches
  BY <1>1, <1>4 DEF Flattened
<1> QED BY <1>2, <1>4, <1>5, <1>6, <1>7, <1>10, <1>14, <1>15 DEF lens, counts, sums

-----------------------------------------------------------------------------
(* Accumulators.                                                           *)

\* MIN and MAX of a set of values, NULL when it is empty.
IsLeast(m, D) == IF D = {} THEN m = Null ELSE m \in D /\ \A y \in D : m <= y
IsGreatest(m, D) == IF D = {} THEN m = Null ELSE m \in D /\ \A y \in D : m >= y

\* A set of integers with a least and a greatest element, or an empty one.
Bounded(V) ==
    /\ V \subseteq Int
    /\ V # {} => /\ \E x \in V : \A y \in V : x <= y
                 /\ \E x \in V : \A y \in V : x >= y

\* Another element keeps it bounded.
LEMMA BoundedAdd ==
    ASSUME NEW V, Bounded(V), NEW z \in Int
    PROVE  Bounded(V \cup {z})
<1> DEFINE W == V \cup {z}
<1>1. CASE V = {}
  <2>1. z <= z /\ z >= z /\ W = {z}
    BY <1>1
  <2> QED BY <2>1 DEF Bounded
<1>2. CASE V # {}
  <2>1. PICK x \in V : \A y \in V : x <= y
    BY <1>2 DEF Bounded
  <2>2. PICK w \in V : \A y \in V : w >= y
    BY <1>2 DEF Bounded
  <2>3. x \in Int /\ w \in Int /\ V \subseteq Int
    BY DEF Bounded
  <2>4. \E m \in W : \A y \in W : m <= y
    <3>1. CASE x <= z
      <4>1. \A y \in W : x <= y
        BY <2>1, <3>1
      <4> QED BY <4>1
    <3>2. CASE ~(x <= z)
      <4>1. \A y \in W : z <= y
        BY <2>1, <2>3, <3>2
      <4> QED BY <4>1
    <3> QED BY <3>1, <3>2
  <2>5. \E m \in W : \A y \in W : m >= y
    <3>1. CASE w >= z
      <4>1. \A y \in W : w >= y
        BY <2>2, <3>1
      <4> QED BY <4>1
    <3>2. CASE ~(w >= z)
      <4>1. \A y \in W : z >= y
        BY <2>2, <2>3, <3>2
      <4> QED BY <4>1
    <3> QED BY <3>1, <3>2
  <2> QED BY <2>3, <2>4, <2>5 DEF Bounded
<1> QED BY <1>1, <1>2

\* The values of a batch are bounded.
LEMMA BatchBounded ==
    ASSUME NEW b \in Batches
    PROVE  Bounded(ToSet(b) \ {Null})
<1> DEFINE V(n) == {b[i] : i \in 1..n} \ {Null}
           S == {n \in Nat : n <= Len(b) => Bounded(V(n))}
<1>1. /\ Len(b) \in Nat /\ DOMAIN b = 1..Len(b)
      /\ \A i \in 1..Len(b) : b[i] = Null \/ b[i] \in Int
  BY DEF Batches
<1>2. 0 \in S
  <2>1. V(0) = {}
    OBVIOUS
  <2>2. Bounded({})
    BY DEF Bounded
  <2> QED BY <2>1, <2>2
<1>3. ASSUME NEW n \in Nat, n \in S PROVE n + 1 \in S
  <2>1. CASE n + 1 <= Len(b)
    <3>1. /\ n <= Len(b) /\ n + 1 \in 1..Len(b)
          /\ \A i : i \in 1..(n + 1) <=> i \in 1..n \/ i = n + 1
      BY <1>1, <2>1
    <3>2. Bounded(V(n))
      BY <1>3, <3>1
    <3>3. V(n + 1) = V(n) \cup ({b[n + 1]} \ {Null})
      BY <3>1
    <3>4. b[n + 1] = Null \/ b[n + 1] \in Int
      BY <1>1, <3>1
    <3>5. Bounded(V(n + 1))
      <4> DEFINE A == V(n)
                 B == V(n + 1)
                 z == b[n + 1]
      <4>1. Bounded(A) /\ B = A \cup ({z} \ {Null}) /\ (z = Null \/ z \in Int)
        BY <3>2, <3>3, <3>4
      <4> HIDE DEF A, B, z
      <4>2. CASE z = Null
        <5>1. B = A
          BY <4>1, <4>2
        <5> QED BY <4>1, <5>1 DEF B
      <4>3. CASE z # Null
        <5>1. B = A \cup {z} /\ z \in Int
          BY <4>1, <4>3
        <5>2. Bounded(B)
          BY <4>1, <5>1, BoundedAdd
        <5> QED BY <5>2 DEF B
      <4> QED BY <4>2, <4>3
    <3> QED BY <3>5
  <2>2. CASE ~(n + 1 <= Len(b))
    BY <2>2
  <2> QED BY <2>1, <2>2
<1>4. Bounded(V(Len(b)))
  <2>1. Nat \subseteq S
    <3> HIDE DEF S
    <3> QED BY <1>2, <1>3, NatInd
  <2>2. Len(b) \in S
    <3> HIDE DEF S
    <3> QED BY <1>1, <2>1
  <2>3. Len(b) <= Len(b)
    BY <1>1
  <2> HIDE DEF V
  <2> QED BY <2>2, <2>3
<1>5. ToSet(b) \ {Null} = V(Len(b))
  BY <1>1 DEF ToSet
<1> QED BY <1>4, <1>5

\* What GlobalAggregateState::from_batch computes.
LEMMA FromBatchIs ==
    ASSUME NEW b \in Batches
    PROVE  /\ FromBatch(b).rows = Len(b) /\ FromBatch(b).count = Total(Valid(b))
           /\ FromBatch(b).distinct = ToSet(b) \ {Null} /\ FromBatch(b).sum = KernelSum(b)
           /\ IsLeast(FromBatch(b).min, ToSet(b) \ {Null})
           /\ IsGreatest(FromBatch(b).max, ToSet(b) \ {Null})
<1> DEFINE D == ToSet(b) \ {Null}
           low == IF D = {} THEN Null ELSE Min(D)
           high == IF D = {} THEN Null ELSE Max(D)
<1>1. FromBatch(b) = [rows |-> Len(b), count |-> Total(Valid(b)), distinct |-> D,
                      sum |-> KernelSum(b), min |-> low, max |-> high]
  BY DEF FromBatch
<1>2. D # {} => /\ \E x \in D : \A y \in D : x <= y
                /\ \E x \in D : \A y \in D : x >= y
  BY BatchBounded DEF Bounded
<1> HIDE DEF D
<1>3. IsLeast(low, D)
  BY <1>2 DEF IsLeast, Min
<1>4. IsGreatest(high, D)
  BY <1>2 DEF IsGreatest, Max
<1> HIDE DEF low, high
<1>5. /\ FromBatch(b).rows = Len(b) /\ FromBatch(b).count = Total(Valid(b))
      /\ FromBatch(b).distinct = D /\ FromBatch(b).sum = KernelSum(b)
      /\ FromBatch(b).min = low /\ FromBatch(b).max = high
  BY <1>1
<1> QED BY <1>3, <1>4, <1>5 DEF D

\* update_min_max_value keeps the least and the greatest value.
LEMMA BetterIs ==
    ASSUME NEW D, D \subseteq Int, NEW E, E \subseteq Int
    PROVE  /\ \A a, b : IsLeast(a, D) /\ IsLeast(b, E) => IsLeast(Better(a, b, TRUE), D \cup E)
           /\ \A a, b : IsGreatest(a, D) /\ IsGreatest(b, E)
                           => IsGreatest(Better(a, b, FALSE), D \cup E)
<1>1. Null \notin Int
  BY InputsAssumption
<1>2. ASSUME NEW a, NEW b, IsLeast(a, D), IsLeast(b, E)
      PROVE  IsLeast(Better(a, b, TRUE), D \cup E)
  <2>1. CASE E = {}
    BY <1>2, <2>1 DEF IsLeast, Better
  <2>2. CASE E # {} /\ D = {}
    BY <1>1, <1>2, <2>2 DEF IsLeast, Better
  <2>3. CASE E # {} /\ D # {}
    <3>1. /\ a \in D /\ b \in E /\ a \in Int /\ b \in Int /\ a # Null /\ b # Null
          /\ \A y \in D : a <= y /\ y \in Int
          /\ \A y \in E : b <= y /\ y \in Int
      BY <1>1, <1>2, <2>3 DEF IsLeast
    <3>2. Better(a, b, TRUE) = IF b < a THEN b ELSE a
      BY <3>1 DEF Better
    <3>3. \A y \in D \cup E : (IF b < a THEN b ELSE a) <= y
      BY <3>1
    <3> QED BY <2>3, <3>1, <3>2, <3>3 DEF IsLeast
  <2> QED BY <2>1, <2>2, <2>3
<1>3. ASSUME NEW a, NEW b, IsGreatest(a, D), IsGreatest(b, E)
      PROVE  IsGreatest(Better(a, b, FALSE), D \cup E)
  <2>1. CASE E = {}
    BY <1>3, <2>1 DEF IsGreatest, Better
  <2>2. CASE E # {} /\ D = {}
    BY <1>1, <1>3, <2>2 DEF IsGreatest, Better
  <2>3. CASE E # {} /\ D # {}
    <3>1. /\ a \in D /\ b \in E /\ a \in Int /\ b \in Int /\ a # Null /\ b # Null
          /\ \A y \in D : a >= y /\ y \in Int
          /\ \A y \in E : b >= y /\ y \in Int
      BY <1>1, <1>3, <2>3 DEF IsGreatest
    <3>2. Better(a, b, FALSE) = IF b < a THEN a ELSE b
      BY <3>1 DEF Better
    <3>3. \A y \in D \cup E : (IF b < a THEN a ELSE b) >= y
      BY <3>1
    <3> QED BY <2>3, <3>1, <3>2, <3>3 DEF IsGreatest
  <2> QED BY <2>1, <2>2, <2>3
<1> QED BY <1>2, <1>3

\* A set has one least and one greatest element.
LEMMA BoundsUnique ==
    ASSUME NEW D, D \subseteq Int
    PROVE  /\ \A a, b : IsLeast(a, D) /\ IsLeast(b, D) => a = b
           /\ \A a, b : IsGreatest(a, D) /\ IsGreatest(b, D) => a = b
<1>1. ASSUME NEW a, NEW b, IsLeast(a, D), IsLeast(b, D) PROVE a = b
  <2>1. CASE D = {}
    BY <1>1, <2>1 DEF IsLeast
  <2>2. CASE D # {}
    <3>1. a \in Int /\ b \in Int /\ a <= b /\ b <= a
      BY <1>1, <2>2 DEF IsLeast
    <3> QED BY <3>1
  <2> QED BY <2>1, <2>2
<1>2. ASSUME NEW a, NEW b, IsGreatest(a, D), IsGreatest(b, D) PROVE a = b
  <2>1. CASE D = {}
    BY <1>2, <2>1 DEF IsGreatest
  <2>2. CASE D # {}
    <3>1. a \in Int /\ b \in Int /\ a <= b /\ b <= a
      BY <1>2, <2>2 DEF IsGreatest
    <3> QED BY <3>1
  <2> QED BY <2>1, <2>2
<1> QED BY <1>1, <1>2

\* The kernel's own additions do not overflow a 32-bit column.
Fits(b) == ~Narrow \/ Total(Addends(b)) \in (0 - Half32)..(Half32 - 1)
SumsFit(bs) == \A i \in DOMAIN bs : bs[i] \in Batches => Fits(bs[i])

\* Then the kernel's sum is right up to the 64-bit word.
LEMMA KernelIs ==
    ASSUME NEW b \in Batches, Fits(b)
    PROVE  KernelSum(b) = Wrap(Total(Addends(b)), Half64)
<1>1. Total(Addends(b)) \in Int
  BY ColumnTypes, TotalInt
<1>2. CASE ~Narrow
  BY <1>2 DEF KernelSum
<1>3. CASE Narrow
  <2> DEFINE t == Total(Addends(b))
  <2>1. t \in (0 - Half32)..(Half32 - 1) /\ t \in (0 - Half64)..(Half64 - 1)
    BY <1>1, <1>3, WidthAssumption DEF Fits
  <2>2. KernelSum(b) = Wrap(t, Half32)
    BY <1>3 DEF KernelSum
  <2> HIDE DEF t
  <2>3. Wrap(t, Half32) = t /\ Wrap(t, Half64) = t
    BY <2>1, WidthAssumption, WrapWord
  <2> QED BY <2>2, <2>3 DEF t
<1> QED BY <1>2, <1>3

\* The state that has merged the batches in M.
AccIs(a, bs, M) ==
    /\ a.rows = Total(LensOf(bs, M)) /\ a.count = Total(CountsOf(bs, M))
    /\ a.distinct = ValuesOf(bs, M)
    /\ IsLeast(a.min, ValuesOf(bs, M)) /\ IsGreatest(a.max, ValuesOf(bs, M))
    /\ SumsFit(bs) => a.sum = Wrap(Total(SumsOf(bs, M)), Half64)

\* The batches in M are batches of the stream.
Merges(T, bs, M) == bs \in Seq(T) /\ \A i \in M : i \in DOMAIN bs /\ bs[i] \in Batches

\* One more batch changes the totals by what it contributes.
LEMMA OneMore ==
    ASSUME NEW T, NEW bs, NEW M, Merges(T, bs, M), NEW k \in DOMAIN bs, k \notin M,
           bs[k] \in Batches
    PROVE  /\ Total(LensOf(bs, M \cup {k})) = Total(LensOf(bs, M)) + Len(bs[k])
           /\ Total(CountsOf(bs, M \cup {k})) = Total(CountsOf(bs, M)) + Total(Valid(bs[k]))
           /\ Total(SumsOf(bs, M \cup {k})) = Total(SumsOf(bs, M)) + Total(Addends(bs[k]))
           /\ Total(LensOf(bs, M)) \in Int /\ Total(CountsOf(bs, M)) \in Int
           /\ Total(SumsOf(bs, M)) \in Int
<1> DEFINE N == M \cup {k}
<1>1. /\ bs \in Seq(T) /\ DOMAIN bs = 1..Len(bs) /\ Len(bs) \in Nat
      /\ \A i \in M : i \in DOMAIN bs /\ bs[i] \in Batches
      /\ \A i \in N : i \in DOMAIN bs /\ bs[i] \in Batches
  BY DEF Merges
<1>2. /\ LensOf(bs, M) \in Seq(Int) /\ Len(LensOf(bs, M)) = Len(bs)
      /\ CountsOf(bs, M) \in Seq(Int) /\ Len(CountsOf(bs, M)) = Len(bs)
      /\ SumsOf(bs, M) \in Seq(Int) /\ Len(SumsOf(bs, M)) = Len(bs)
  BY <1>1, PartsTypes
<1>3. /\ LensOf(bs, N) \in Seq(Int) /\ Len(LensOf(bs, N)) = Len(bs)
      /\ CountsOf(bs, N) \in Seq(Int) /\ Len(CountsOf(bs, N)) = Len(bs)
      /\ SumsOf(bs, N) \in Seq(Int) /\ Len(SumsOf(bs, N)) = Len(bs)
  <2> HIDE DEF N
  <2> QED BY <1>1, PartsTypes
<1>4. /\ Total(LensOf(bs, M)) \in Int /\ Total(CountsOf(bs, M)) \in Int
      /\ Total(SumsOf(bs, M)) \in Int
  BY <1>2, TotalInt
<1>5. Total(LensOf(bs, N)) = Total(LensOf(bs, M)) + Len(bs[k])
  <2> DEFINE u == LensOf(bs, M)
             v == LensOf(bs, N)
  <2>1. /\ \A n \in 1..Len(bs) : n # k => v[n] = u[n]
        /\ u[k] = 0 /\ v[k] = Len(bs[k]) /\ v[k] \in Int
    BY <1>1, <1>3 DEF LensOf
  <2>2. u \in Seq(Int) /\ v \in Seq(Int) /\ Len(u) = Len(bs) /\ Len(v) = Len(bs)
    BY <1>2, <1>3
  <2> HIDE DEF u, v
  <2>3. SameBut(u, v, k)
    BY <1>1, <2>1, <2>2 DEF SameBut
  <2>4. Total(v) = Total(u) + (v[k] - u[k])
    BY <2>3, TotalChange
  <2>5. v[k] - u[k] = Len(bs[k])
    BY <2>1
  <2> QED BY <2>4, <2>5 DEF u, v
<1>6. Total(CountsOf(bs, N)) = Total(CountsOf(bs, M)) + Total(Valid(bs[k]))
  <2> DEFINE u == CountsOf(bs, M)
             v == CountsOf(bs, N)
  <2>1. /\ \A n \in 1..Len(bs) : n # k => v[n] = u[n]
        /\ u[k] = 0 /\ v[k] = Total(Valid(bs[k])) /\ v[k] \in Int
    BY <1>1, <1>3 DEF CountsOf
  <2>2. u \in Seq(Int) /\ v \in Seq(Int) /\ Len(u) = Len(bs) /\ Len(v) = Len(bs)
    BY <1>2, <1>3
  <2> HIDE DEF u, v
  <2>3. SameBut(u, v, k)
    BY <1>1, <2>1, <2>2 DEF SameBut
  <2>4. Total(v) = Total(u) + (v[k] - u[k])
    BY <2>3, TotalChange
  <2>5. v[k] - u[k] = Total(Valid(bs[k]))
    BY <2>1
  <2> QED BY <2>4, <2>5 DEF u, v
<1>7. Total(SumsOf(bs, N)) = Total(SumsOf(bs, M)) + Total(Addends(bs[k]))
  <2> DEFINE u == SumsOf(bs, M)
             v == SumsOf(bs, N)
  <2>1. /\ \A n \in 1..Len(bs) : n # k => v[n] = u[n]
        /\ u[k] = 0 /\ v[k] = Total(Addends(bs[k])) /\ v[k] \in Int
    BY <1>1, <1>3 DEF SumsOf
  <2>2. u \in Seq(Int) /\ v \in Seq(Int) /\ Len(u) = Len(bs) /\ Len(v) = Len(bs)
    BY <1>2, <1>3
  <2> HIDE DEF u, v
  <2>3. SameBut(u, v, k)
    BY <1>1, <2>1, <2>2 DEF SameBut
  <2>4. Total(v) = Total(u) + (v[k] - u[k])
    BY <2>3, TotalChange
  <2>5. v[k] - u[k] = Total(Addends(bs[k]))
    BY <2>1
  <2> QED BY <2>4, <2>5 DEF u, v
<1> QED BY <1>4, <1>5, <1>6, <1>7

\* GlobalAggregateState::merge adds one batch to those merged.
LEMMA Absorb ==
    ASSUME NEW T, NEW bs, NEW M, Merges(T, bs, M), NEW k \in DOMAIN bs, k \notin M,
           bs[k] \in Batches, NEW a, AccIs(a, bs, M)
    PROVE  AccIs(Merge(a, FromBatch(bs[k])), bs, M \cup {k})
<1> DEFINE N == M \cup {k}
           D == ValuesOf(bs, M)
           E == ToSet(bs[k]) \ {Null}
           f == FromBatch(bs[k])
           m == Merge(a, f)
<1>1. /\ Total(LensOf(bs, N)) = Total(LensOf(bs, M)) + Len(bs[k])
      /\ Total(CountsOf(bs, N)) = Total(CountsOf(bs, M)) + Total(Valid(bs[k]))
      /\ Total(SumsOf(bs, N)) = Total(SumsOf(bs, M)) + Total(Addends(bs[k]))
      /\ Total(SumsOf(bs, M)) \in Int
  BY OneMore
<1>2. /\ f.rows = Len(bs[k]) /\ f.count = Total(Valid(bs[k])) /\ f.distinct = E
      /\ f.sum = KernelSum(bs[k]) /\ IsLeast(f.min, E) /\ IsGreatest(f.max, E)
  BY FromBatchIs
<1>3. /\ m.rows = a.rows + f.rows /\ m.count = a.count + f.count
      /\ m.distinct = a.distinct \cup f.distinct /\ m.sum = Wrap(a.sum + f.sum, Half64)
      /\ m.min = Better(a.min, f.min, TRUE) /\ m.max = Better(a.max, f.max, FALSE)
  BY DEF Merge
<1>4. ValuesOf(bs, N) = D \cup E
  BY DEF ValuesOf
<1>5. D \subseteq Int /\ E \subseteq Int
  <2>1. \A i \in M : ToSet(bs[i]) \ {Null} \subseteq Int
    BY ColumnTypes DEF Merges
  <2>2. E \subseteq Int
    BY ColumnTypes
  <2> QED BY <2>1, <2>2 DEF ValuesOf
<1>6. /\ a.rows = Total(LensOf(bs, M)) /\ a.count = Total(CountsOf(bs, M)) /\ a.distinct = D
      /\ IsLeast(a.min, D) /\ IsGreatest(a.max, D)
      /\ SumsFit(bs) => a.sum = Wrap(Total(SumsOf(bs, M)), Half64)
  BY DEF AccIs
<1> HIDE DEF D, E, f, m
<1>7. IsLeast(m.min, D \cup E) /\ IsGreatest(m.max, D \cup E)
  <2>1. /\ \A p, q : IsLeast(p, D) /\ IsLeast(q, E) => IsLeast(Better(p, q, TRUE), D \cup E)
        /\ \A p, q : IsGreatest(p, D) /\ IsGreatest(q, E)
                        => IsGreatest(Better(p, q, FALSE), D \cup E)
    BY <1>5, BetterIs
  <2>2. /\ IsLeast(Better(a.min, f.min, TRUE), D \cup E)
        /\ IsGreatest(Better(a.max, f.max, FALSE), D \cup E)
    BY <1>2, <1>6, <2>1, Zenon
  <2> QED BY <1>3, <2>2
<1>8. SumsFit(bs) => m.sum = Wrap(Total(SumsOf(bs, N)), Half64)
  <2> SUFFICES ASSUME SumsFit(bs) PROVE m.sum = Wrap(Total(SumsOf(bs, N)), Half64)
    OBVIOUS
  <2> DEFINE x == Total(SumsOf(bs, M))
             y == Total(Addends(bs[k]))
  <2>1. Fits(bs[k])
    BY DEF SumsFit
  <2>2. f.sum = Wrap(y, Half64)
    BY <1>2, <2>1, KernelIs
  <2>3. x \in Int /\ y \in Int
    BY <1>1, ColumnTypes, TotalInt
  <2>4. m.sum = Wrap(Wrap(x, Half64) + Wrap(y, Half64), Half64)
    BY <1>3, <1>6, <2>2
  <2>5. Total(SumsOf(bs, N)) = x + y
    BY <1>1
  <2> HIDE DEF x, y
  <2>6. Wrap(Wrap(x, Half64) + Wrap(y, Half64), Half64) = Wrap(x + y, Half64)
    BY <2>3, WrapAdd, WidthAssumption
  <2> QED BY <2>4, <2>5, <2>6
<1>9. AccIs(m, bs, N)
  BY <1>1, <1>2, <1>3, <1>4, <1>6, <1>7, <1>8 DEF AccIs
<1> QED BY <1>9 DEF m, f

\* A new state has merged nothing.
LEMMA AccNew ==
    ASSUME NEW T, NEW bs \in Seq(T)
    PROVE  AccIs(NewState, bs, {})
<1>1. /\ LensOf(bs, {}) = [i \in DOMAIN bs |-> 0] /\ CountsOf(bs, {}) = [i \in DOMAIN bs |-> 0]
      /\ SumsOf(bs, {}) = [i \in DOMAIN bs |-> 0]
  BY DEF LensOf, CountsOf, SumsOf
<1>2. Total([i \in DOMAIN bs |-> 0]) = 0
  <2> DEFINE z == [i \in DOMAIN bs |-> 0]
  <2>1. /\ Len(bs) \in Nat /\ z = [i \in 1..Len(bs) |-> z[i]]
        /\ \A i \in 1..Len(bs) : z[i] = 0 /\ z[i] \in Int
    OBVIOUS
  <2> HIDE DEF z
  <2>2. z \in Seq(Int) /\ Len(z) = Len(bs)
    BY <2>1, IsSequence
  <2>3. PICK f : PartialSums(z, f) /\ Total(z) = f[Len(z)]
    BY <2>2, TotalIs
  <2> DEFINE S == {n \in Nat : n <= Len(z) => f[n] = 0}
  <2>4. 0 \in S
    BY <2>3 DEF PartialSums
  <2>5. ASSUME NEW n \in Nat, n \in S PROVE n + 1 \in S
    <3> SUFFICES ASSUME n + 1 <= Len(z) PROVE f[n + 1] = 0
      OBVIOUS
    <3>1. n + 1 \in 1..Len(z) /\ (n + 1) - 1 = n /\ f[n] = 0 /\ z[n + 1] = 0
      BY <2>1, <2>2, <2>5
    <3>2. f[n + 1] = f[n] + z[n + 1]
      BY <2>3, <3>1 DEF PartialSums
    <3> QED BY <3>1, <3>2
  <2>6. Nat \subseteq S
    <3> HIDE DEF S
    <3> QED BY <2>4, <2>5, NatInd
  <2>7. f[Len(z)] = 0
    BY <2>1, <2>2, <2>6
  <2> QED BY <2>3, <2>7 DEF z
<1>3. ValuesOf(bs, {}) = {}
  BY DEF ValuesOf
<1>4. Wrap(0, Half64) = 0
  <2>1. Half64 \in Nat /\ Half64 > 0 /\ 0 \in (0 - Half64)..(Half64 - 1)
    BY WidthAssumption
  <2> QED BY <2>1, WrapWord
<1>5. /\ NewState.rows = 0 /\ NewState.count = 0 /\ NewState.distinct = {} /\ NewState.sum = 0
      /\ NewState.min = Null /\ NewState.max = Null
  BY DEF NewState
<1> QED BY <1>1, <1>2, <1>3, <1>4, <1>5 DEF AccIs, IsLeast, IsGreatest

-----------------------------------------------------------------------------
(* The inductive invariant.                                                *)

\* Batches whose partial is owed, and those merged.
Outstanding == {i \in DOMAIN input : job[i] = "queued" \/ i \in ToSet(channel)}
Merged == {i \in DOMAIN input : job[i] = "done" /\ i \notin ToSet(channel)}

\* The types of the variables.
TypeInv ==
    /\ input \in Seq(Batches \cup {Broken, Unsupported})
    /\ next \in 0..Len(input) /\ pending \in Nat
    /\ consumer \in {"reading", "merging", "ok", "error"}
    /\ job \in [DOMAIN input -> {"none", "queued", "done"}]
    /\ channel \in Seq(DOMAIN input)

\* A job was spawned for every batch read that has rows, and for no other; after the last
\* batch the consumer merges.
JobsInv ==
    /\ \A i \in DOMAIN input : job[i] = "none" <=> (i > next \/ input[i] = <<>>)
    /\ \A i \in 1..next : input[i] # Broken
    /\ consumer # "reading" => next = Len(input)

\* No element of a sequence is repeated.
Once(c) == \A k, l \in DOMAIN c : c[k] = c[l] => k = l

\* A partial is in the channel once, sent by a finished job, and pending counts the owed.
ChannelInv ==
    /\ \A k \in DOMAIN channel : job[channel[k]] = "done"
    /\ Once(channel)
    /\ pending = Cardinality(Outstanding)
    /\ consumer = "ok" => pending = 0

\* The consumer's state accounts for the merged batches.
MergedInv ==
    /\ \A i \in Merged : input[i] # Unsupported
    /\ AccIs(acc, input, Merged)

\* The inductive invariant; after an error nothing more is claimed.
IInv == TypeInv /\ (consumer # "error" => JobsInv /\ ChannelInv /\ MergedInv)

\* The finite sets of the library are those of the standard module.
LEMMA SameFiniteSets ==
    /\ \A S : FS!IsFiniteSet(S) <=> IsFiniteSet(S)
    /\ \A S : FS!Cardinality(S) = Cardinality(S)
<1>1. \A S : FS!IsFiniteSet(S) <=> IsFiniteSet(S)
  BY DEF FS!IsFiniteSet, IsFiniteSet
<1>2. \A S : FS!Cardinality(S) = Cardinality(S)
  BY DEF FS!Cardinality, Cardinality
<1> QED BY <1>1, <1>2

\* The owed partials are finitely many.
LEMMA OutstandingFinite ==
    ASSUME TypeInv
    PROVE  IsFiniteSet(Outstanding) /\ Cardinality(Outstanding) \in Nat
<1>1. FS!IsFiniteSet(1..Len(input))
  BY FS!FS_Interval DEF TypeInv
<1>2. Outstanding \subseteq 1..Len(input)
  BY DEF TypeInv, Outstanding
<1>3. FS!IsFiniteSet(Outstanding)
  BY <1>1, <1>2, FS!FS_Subset
<1>4. FS!Cardinality(Outstanding) \in Nat
  BY <1>3, FS!FS_CardinalityType
<1> QED BY <1>3, <1>4, SameFiniteSets

\* One more or one fewer.
LEMMA CardinalityStep ==
    ASSUME NEW S, IsFiniteSet(S), NEW x
    PROVE  /\ x \notin S => Cardinality(S \cup {x}) = Cardinality(S) + 1
           /\ x \in S => Cardinality(S \ {x}) = Cardinality(S) - 1
<1>1. FS!IsFiniteSet(S)
  BY SameFiniteSets
<1>2. x \notin S => FS!Cardinality(S \cup {x}) = FS!Cardinality(S) + 1
  BY <1>1, FS!FS_AddElement
<1>3. x \in S => FS!Cardinality(S \ {x}) = FS!Cardinality(S) - 1
  BY <1>1, FS!FS_RemoveElement
<1> QED BY <1>2, <1>3, SameFiniteSets

\* A finite set is empty iff it has 0 elements.
LEMMA CardinalityZero ==
    ASSUME NEW S, IsFiniteSet(S)
    PROVE  Cardinality(S) = 0 <=> S = {}
<1>1. FS!IsFiniteSet(S)
  BY SameFiniteSets
<1>2. FS!Cardinality(S) = 0 <=> S = {}
  BY <1>1, FS!FS_EmptySet
<1> QED BY <1>2, SameFiniteSets

\* Batches that are merged are batches.
LEMMA MergedBatches ==
    ASSUME IInv, consumer # "error"
    PROVE  Merges(Batches \cup {Broken, Unsupported}, input, Merged)
<1> SUFFICES ASSUME NEW i \in Merged PROVE i \in DOMAIN input /\ input[i] \in Batches
  BY DEF IInv, TypeInv, Merges
<1>1. i \in DOMAIN input /\ job[i] = "done" /\ input[i] # Unsupported
  BY DEF Merged, IInv, MergedInv
<1>2. DOMAIN input = 1..Len(input) /\ input[i] \in Batches \cup {Broken, Unsupported}
  BY <1>1 DEF IInv, TypeInv
<1>3. i \in 1..next
  <2>1. ~(i > next)
    BY <1>1 DEF IInv, JobsInv
  <2>2. next \in Nat /\ i \in Nat /\ i >= 1
    BY <1>1, <1>2 DEF IInv, TypeInv
  <2> QED BY <2>1, <2>2
<1>4. input[i] # Broken
  BY <1>3 DEF IInv, JobsInv
<1> QED BY <1>1, <1>2, <1>4

\* Receiving takes one element from the channel.
LEMMA ChannelTail ==
    ASSUME NEW S, NEW c \in Seq(S), c # <<>>, Once(c)
    PROVE  /\ Tail(c) \in Seq(S) /\ Once(Tail(c)) /\ Head(c) \in S
           /\ ToSet(Tail(c)) = ToSet(c) \ {Head(c)} /\ Head(c) \in ToSet(c)
<1> DEFINE t == Tail(c)
           n == Len(c)
<1>1. /\ n \in Nat /\ n > 0 /\ DOMAIN c = 1..n /\ Head(c) = c[1] /\ c[1] \in S
      /\ t \in Seq(S) /\ DOMAIN t = 1..(n - 1)
      /\ \A k \in 1..(n - 1) : t[k] = c[k + 1]
  OBVIOUS
<1> HIDE DEF t, n
<1>2. 1 \in 1..n /\ \A k \in 1..(n - 1) : k + 1 \in 1..n /\ k + 1 # 1
  BY <1>1
<1>3. \A k \in 1..n : k = 1 \/ \E l \in 1..(n - 1) : k = l + 1
  <2> TAKE k \in 1..n
  <2>1. k # 1 => k - 1 \in 1..(n - 1) /\ k = (k - 1) + 1
    BY <1>1
  <2> QED BY <2>1
<1>4. Once(t)
  <2> SUFFICES ASSUME NEW k \in 1..(n - 1), NEW l \in 1..(n - 1), t[k] = t[l] PROVE k = l
    BY <1>1 DEF Once
  <2>1. c[k + 1] = c[l + 1]
    BY <1>1
  <2>2. k + 1 = l + 1
    BY <1>1, <1>2, <2>1 DEF Once
  <2> QED BY <1>1, <2>2
<1>5. \A x \in ToSet(t) : x \in ToSet(c) /\ x # c[1]
  <2> TAKE x \in ToSet(t)
  <2>1. PICK k \in 1..(n - 1) : x = t[k]
    BY <1>1 DEF ToSet
  <2>2. x = c[k + 1] /\ k + 1 \in 1..n /\ k + 1 # 1
    BY <1>1, <1>2, <2>1
  <2> QED BY <1>1, <1>2, <2>2 DEF ToSet, Once
<1>6. \A x \in ToSet(c) : x # c[1] => x \in ToSet(t)
  <2> SUFFICES ASSUME NEW x \in ToSet(c), x # c[1] PROVE x \in ToSet(t)
    OBVIOUS
  <2>1. PICK k \in 1..n : x = c[k]
    BY <1>1 DEF ToSet
  <2>2. PICK l \in 1..(n - 1) : k = l + 1
    BY <1>3, <2>1
  <2>3. x = t[l]
    BY <1>1, <2>1, <2>2
  <2> QED BY <1>1, <2>3 DEF ToSet
<1>7. c[1] \in ToSet(c)
  BY <1>1, <1>2 DEF ToSet
<1> QED BY <1>1, <1>4, <1>5, <1>6, <1>7 DEF t

\* Sending adds one element to the channel.
LEMMA ChannelAppend ==
    ASSUME NEW S, NEW c \in Seq(S), Once(c), NEW x \in S, x \notin ToSet(c)
    PROVE  /\ Append(c, x) \in Seq(S) /\ Once(Append(c, x))
           /\ ToSet(Append(c, x)) = ToSet(c) \cup {x}
<1> DEFINE t == Append(c, x)
           n == Len(c)
<1>1. /\ n \in Nat /\ DOMAIN c = 1..n /\ t \in Seq(S) /\ DOMAIN t = 1..(n + 1)
      /\ \A k \in 1..n : t[k] = c[k]
      /\ t[n + 1] = x
  OBVIOUS
<1> HIDE DEF t, n
<1>2. \A k : k \in 1..(n + 1) <=> k \in 1..n \/ k = n + 1
  BY <1>1
<1>3. \A k \in 1..n : c[k] # x
  BY <1>1 DEF ToSet
<1>4. Once(t)
  <2> SUFFICES ASSUME NEW k \in 1..(n + 1), NEW l \in 1..(n + 1), t[k] = t[l] PROVE k = l
    BY <1>1 DEF Once
  <2>1. CASE k \in 1..n /\ l \in 1..n
    <3>1. c[k] = c[l]
      BY <1>1, <2>1
    <3> QED BY <1>1, <2>1, <3>1 DEF Once
  <2>2. CASE k = n + 1 \/ l = n + 1
    BY <1>1, <1>2, <1>3, <2>2
  <2> QED BY <1>2, <2>1, <2>2
<1>5. ToSet(t) = ToSet(c) \cup {x}
  <2>1. \A y \in ToSet(t) : y \in ToSet(c) \/ y = x
    BY <1>1, <1>2 DEF ToSet
  <2>2. \A y \in ToSet(c) : y \in ToSet(t)
    BY <1>1, <1>2 DEF ToSet
  <2>3. x \in ToSet(t)
    BY <1>1, <1>2 DEF ToSet
  <2> QED BY <2>1, <2>2, <2>3
<1> QED BY <1>1, <1>4, <1>5 DEF t

\* The invariant holds before the first batch.
LEMMA InitInv ==
    ASSUME Init
    PROVE  IInv
<1>1. /\ input \in Seq(Batches \cup {Broken, Unsupported}) /\ Len(input) \in Nat
      /\ DOMAIN input = 1..Len(input)
  BY InputsAssumption DEF Init
<1>2. /\ next = 0 /\ consumer = "reading" /\ job = [i \in DOMAIN input |-> "none"]
      /\ channel = <<>> /\ pending = 0 /\ acc = NewState
  BY DEF Init
<1>3. TypeInv
  <2>1. 0 \in 0..Len(input) /\ <<>> \in Seq(DOMAIN input)
    BY <1>1
  <2> QED BY <1>1, <1>2, <2>1 DEF TypeInv
<1>4. JobsInv
  <2>1. \A i \in DOMAIN input : i > 0 /\ job[i] = "none"
    BY <1>1, <1>2
  <2> QED BY <1>2, <2>1 DEF JobsInv
<1>5. DOMAIN channel = {} /\ ToSet(channel) = {}
  BY <1>2 DEF ToSet
<1>6. Outstanding = {} /\ Merged = {}
  BY <1>2, <1>5 DEF Outstanding, Merged
<1>7. ChannelInv
  <2>1. Cardinality(Outstanding) = 0
    BY <1>3, <1>6, OutstandingFinite, CardinalityZero
  <2> QED BY <1>2, <1>5, <2>1 DEF ChannelInv, Once
<1>8. MergedInv
  <2>1. AccIs(NewState, input, {})
    BY <1>1, AccNew
  <2> QED BY <1>2, <1>6, <2>1 DEF MergedInv
<1> QED BY <1>3, <1>4, <1>7, <1>8 DEF IInv

\* The next batch of the stream.
LEMMA BatchRead ==
    ASSUME IInv, More
    PROVE  /\ consumer = "reading" /\ next + 1 \in DOMAIN input /\ next + 1 \in 0..Len(input)
           /\ next + 1 > next /\ job[next + 1] = "none" /\ next + 1 \notin ToSet(channel)
           /\ \A i \in DOMAIN input : i > next + 1 <=> i > next /\ i # next + 1
           /\ \A i \in 1..(next + 1) : i \in 1..next \/ i = next + 1
<1>1. /\ consumer = "reading" /\ next < Len(input) /\ next \in Nat /\ Len(input) \in Nat
      /\ DOMAIN input = 1..Len(input)
  BY DEF More, IInv, TypeInv
<1>2. /\ next + 1 \in DOMAIN input /\ next + 1 \in 0..Len(input) /\ next + 1 > next
      /\ \A i \in DOMAIN input : i > next + 1 <=> i > next /\ i # next + 1
      /\ \A i \in 1..(next + 1) : i \in 1..next \/ i = next + 1
  BY <1>1
<1>3. job[next + 1] = "none"
  BY <1>1, <1>2 DEF IInv, JobsInv
<1>4. next + 1 \notin ToSet(channel)
  BY <1>1, <1>3 DEF IInv, ChannelInv, ToSet
<1> QED BY <1>1, <1>2, <1>3, <1>4

\* A batch without rows is skipped.
LEMMA SkipEmptyPreserves ==
    ASSUME IInv, SkipEmpty
    PROVE  IInv'
<1>1. /\ More /\ input[next + 1] = <<>> /\ next' = next + 1
      /\ UNCHANGED <<input, consumer, job, channel, pending, acc>>
  BY DEF SkipEmpty, Batch
<1>2. /\ consumer = "reading" /\ next + 1 \in DOMAIN input /\ next + 1 \in 0..Len(input)
      /\ \A i \in DOMAIN input : i > next + 1 <=> i > next /\ i # next + 1
      /\ \A i \in 1..(next + 1) : i \in 1..next \/ i = next + 1
  BY <1>1, BatchRead
<1>3. TypeInv'
  BY <1>1, <1>2 DEF IInv, TypeInv
<1>4. JobsInv'
  <2>1. <<>> # Broken
    BY NoError
  <2>2. \A i \in DOMAIN input : job[i] = "none" <=> (i > next + 1 \/ input[i] = <<>>)
    BY <1>1, <1>2 DEF IInv, JobsInv
  <2>3. \A i \in 1..(next + 1) : input[i] # Broken
    BY <1>1, <1>2, <2>1 DEF IInv, JobsInv
  <2> QED BY <1>1, <1>2, <2>2, <2>3 DEF JobsInv
<1>5. Outstanding' = Outstanding /\ Merged' = Merged
  BY <1>1 DEF Outstanding, Merged
<1>6. ChannelInv' /\ MergedInv'
  BY <1>1, <1>2, <1>5 DEF IInv, ChannelInv, MergedInv, Once
<1> QED BY <1>3, <1>4, <1>6 DEF IInv

\* A batch is handed to a job: one more partial is owed.
LEMMA SpawnJobPreserves ==
    ASSUME IInv, SpawnJob
    PROVE  IInv'
<1>1. /\ More /\ input[next + 1] # <<>> /\ input[next + 1] # Broken /\ next' = next + 1
      /\ job' = [job EXCEPT ![next + 1] = "queued"] /\ pending' = pending + 1
      /\ UNCHANGED <<input, consumer, channel, acc>>
  BY DEF SpawnJob, Batch
<1>2. /\ consumer = "reading" /\ next + 1 \in DOMAIN input /\ next + 1 \in 0..Len(input)
      /\ next + 1 > next /\ job[next + 1] = "none" /\ next + 1 \notin ToSet(channel)
      /\ \A i \in DOMAIN input : i > next + 1 <=> i > next /\ i # next + 1
      /\ \A i \in 1..(next + 1) : i \in 1..next \/ i = next + 1
  BY <1>1, BatchRead
<1>3. TypeInv'
  BY <1>1, <1>2 DEF IInv, TypeInv
<1>4. \A i \in DOMAIN input : job'[i] = IF i = next + 1 THEN "queued" ELSE job[i]
  BY <1>1, <1>2 DEF IInv, TypeInv
<1>5. JobsInv'
  <2>1. \A i \in DOMAIN input : job'[i] = "none" <=> (i > next + 1 \/ input[i] = <<>>)
    BY <1>1, <1>2, <1>4 DEF IInv, JobsInv
  <2>2. \A i \in 1..(next + 1) : input[i] # Broken
    BY <1>1, <1>2 DEF IInv, JobsInv
  <2> QED BY <1>1, <1>2, <2>1, <2>2 DEF JobsInv
<1>6. /\ Outstanding' = Outstanding \cup {next + 1} /\ next + 1 \notin Outstanding
      /\ Merged' = Merged
  BY <1>1, <1>2, <1>4 DEF Outstanding, Merged
<1>7. Cardinality(Outstanding') = pending + 1
  <2>1. IsFiniteSet(Outstanding) /\ pending = Cardinality(Outstanding)
    BY <1>2, OutstandingFinite DEF IInv, ChannelInv
  <2>2. Cardinality(Outstanding \cup {next + 1}) = Cardinality(Outstanding) + 1
    BY <1>6, <2>1, CardinalityStep
  <2> QED BY <1>6, <2>1, <2>2
<1>8. ChannelInv'
  <2>1. \A k \in DOMAIN channel : channel[k] # next + 1 /\ channel[k] \in DOMAIN input
    BY <1>2 DEF ToSet, IInv, TypeInv
  <2>2. \A k \in DOMAIN channel : job'[channel[k]] = "done"
    BY <1>2, <1>4, <2>1 DEF IInv, ChannelInv
  <2> QED BY <1>1, <1>2, <1>7, <2>2 DEF IInv, ChannelInv, Once
<1>9. MergedInv'
  BY <1>1, <1>2, <1>6 DEF IInv, MergedInv
<1> QED BY <1>3, <1>5, <1>8, <1>9 DEF IInv

\* The consumer gives up, or has given up.
LEMMA ErrorPreserves ==
    ASSUME IInv, consumer' = "error", TypeInv'
    PROVE  IInv'
  BY DEF IInv

\* An error of the stream or of a partial.
LEMMA FailurePreserves ==
    ASSUME IInv, StreamError \/ MergeError
    PROVE  IInv'
<1>1. consumer' = "error" /\ channel' = <<>> /\ UNCHANGED <<input, next, job, pending, acc>>
  BY DEF StreamError, MergeError
<1>2. TypeInv'
  <2>1. <<>> \in Seq(DOMAIN input)
    OBVIOUS
  <2> QED BY <1>1, <2>1 DEF IInv, TypeInv
<1> QED BY <1>1, <1>2, ErrorPreserves

\* The stream has ended, or all partials are in.
LEMMA PhasePreserves ==
    ASSUME IInv, EndOfStream \/ Finish
    PROVE  IInv'
<1>1. /\ UNCHANGED <<input, next, job, channel, pending, acc>>
      /\ consumer \in {"reading", "merging"} /\ consumer' \in {"merging", "ok"}
      /\ consumer = "reading" => next = Len(input)
      /\ consumer' = "ok" => pending = 0
  BY DEF EndOfStream, Finish
<1>2. Outstanding' = Outstanding /\ Merged' = Merged
  BY <1>1 DEF Outstanding, Merged
<1>3. TypeInv'
  BY <1>1 DEF IInv, TypeInv
<1>4. JobsInv'
  BY <1>1 DEF IInv, JobsInv
<1>5. ChannelInv' /\ MergedInv'
  BY <1>1, <1>2 DEF IInv, ChannelInv, MergedInv, Once
<1> QED BY <1>3, <1>4, <1>5 DEF IInv

\* A job sends its partial: it stays owed.
LEMMA RunJobPreserves ==
    ASSUME IInv, NEW i \in DOMAIN input, RunJob(i)
    PROVE  IInv'
<1>1. /\ job[i] = "queued" /\ job' = [job EXCEPT ![i] = "done"]
      /\ channel' = (IF consumer = "error" THEN channel ELSE Append(channel, i))
      /\ UNCHANGED <<input, next, consumer, pending, acc>>
  BY DEF RunJob
<1>2. \A k \in DOMAIN input : job'[k] = IF k = i THEN "done" ELSE job[k]
  BY <1>1 DEF IInv, TypeInv
<1>3. CASE consumer = "error"
  <2>1. TypeInv'
    BY <1>1, <1>3 DEF IInv, TypeInv
  <2> QED BY <1>1, <1>3, <2>1, ErrorPreserves
<1>4. CASE consumer # "error"
  <2>1. channel \in Seq(DOMAIN input) /\ Once(channel) /\ i \notin ToSet(channel)
    BY <1>1, <1>4 DEF IInv, TypeInv, ChannelInv, ToSet
  <2>2. /\ channel' \in Seq(DOMAIN input) /\ Once(channel')
        /\ ToSet(channel') = ToSet(channel) \cup {i}
    BY <1>1, <1>4, <2>1, ChannelAppend
  <2>3. TypeInv'
    BY <1>1, <2>2 DEF IInv, TypeInv
  <2>4. JobsInv'
    BY <1>1, <1>2, <1>4 DEF IInv, JobsInv
  <2>5. Outstanding' = Outstanding
    BY <1>1, <1>2, <2>2 DEF Outstanding
  <2>6. Merged' = Merged
    BY <1>1, <1>2, <2>1, <2>2 DEF Merged
  <2>7. ChannelInv'
    <3>1. \A k \in ToSet(channel) : k \in DOMAIN input /\ job[k] = "done"
      BY <1>4, <2>1 DEF ToSet, IInv, ChannelInv
    <3>2. \A k \in ToSet(channel') : job'[k] = "done"
      BY <1>2, <2>2, <3>1
    <3>3. \A k \in DOMAIN channel' : job'[channel'[k]] = "done"
      BY <3>2 DEF ToSet
    <3>4. pending = Cardinality(Outstanding) /\ (consumer = "ok" => pending = 0)
      BY <1>4 DEF IInv, ChannelInv
    <3> QED BY <1>1, <2>2, <2>5, <3>3, <3>4 DEF ChannelInv
  <2>8. MergedInv'
    BY <1>1, <1>4, <2>6 DEF IInv, MergedInv
  <2> QED BY <2>3, <2>4, <2>7, <2>8 DEF IInv
<1> QED BY <1>3, <1>4

\* A partial is merged: it is no longer owed, and accounted for.
LEMMA MergePartialPreserves ==
    ASSUME IInv, MergePartial
    PROVE  IInv'
<1> DEFINE k == Head(channel)
<1>1. /\ consumer = "merging" /\ pending > 0 /\ channel # <<>> /\ input[k] # Unsupported
      /\ acc' = Merge(acc, FromBatch(input[k])) /\ channel' = Tail(channel)
      /\ pending' = pending - 1 /\ UNCHANGED <<input, next, consumer, job>>
  BY DEF MergePartial, Receiving
<1>2. channel \in Seq(DOMAIN input) /\ Once(channel)
  BY <1>1 DEF IInv, TypeInv, ChannelInv
<1>3. /\ channel' \in Seq(DOMAIN input) /\ Once(channel') /\ k \in DOMAIN input
      /\ ToSet(channel') = ToSet(channel) \ {k} /\ k \in ToSet(channel)
  BY <1>1, <1>2, ChannelTail
<1> HIDE DEF k
<1>4. \A i \in ToSet(channel) : job[i] = "done"
  BY <1>1 DEF IInv, ChannelInv, ToSet
<1>5. TypeInv'
  BY <1>1, <1>3 DEF IInv, TypeInv
<1>6. JobsInv'
  BY <1>1 DEF IInv, JobsInv
<1>7. /\ Outstanding' = Outstanding \ {k} /\ k \in Outstanding
      /\ Merged' = Merged \cup {k} /\ k \notin Merged
  BY <1>1, <1>3, <1>4 DEF Outstanding, Merged
<1>8. Cardinality(Outstanding') = pending - 1
  <2>1. IsFiniteSet(Outstanding) /\ pending = Cardinality(Outstanding)
    BY <1>1, OutstandingFinite DEF IInv, ChannelInv
  <2>2. Cardinality(Outstanding \ {k}) = Cardinality(Outstanding) - 1
    BY <1>7, <2>1, CardinalityStep
  <2> QED BY <1>7, <2>1, <2>2
<1>9. ChannelInv'
  <2>1. \A i \in DOMAIN channel' : job'[channel'[i]] = "done"
    <3>1. \A i \in ToSet(channel') : job'[i] = "done"
      BY <1>1, <1>3, <1>4
    <3> QED BY <3>1 DEF ToSet
  <2> QED BY <1>1, <1>3, <1>8, <2>1 DEF ChannelInv
<1>10. input[k] \in Batches
  <2>1. /\ DOMAIN input = 1..Len(input) /\ input[k] \in Batches \cup {Broken, Unsupported}
        /\ next = Len(input)
    BY <1>1, <1>3 DEF IInv, TypeInv, JobsInv
  <2>2. input[k] # Broken
    BY <1>1, <1>3, <2>1 DEF IInv, JobsInv
  <2> QED BY <1>1, <2>1, <2>2
<1>11. MergedInv'
  <2>1. Merges(Batches \cup {Broken, Unsupported}, input, Merged) /\ AccIs(acc, input, Merged)
    BY <1>1, MergedBatches DEF IInv, MergedInv
  <2>2. AccIs(Merge(acc, FromBatch(input[k])), input, Merged \cup {k})
    BY <1>3, <1>7, <1>10, <2>1, Absorb
  <2>3. \A i \in Merged : input[i] # Unsupported
    BY <1>1 DEF IInv, MergedInv
  <2> QED BY <1>1, <1>7, <2>2, <2>3 DEF MergedInv
<1> QED BY <1>5, <1>6, <1>9, <1>11 DEF IInv

\* Stuttering steps.
LEMMA StutterPreserves ==
    ASSUME IInv, UNCHANGED vars
    PROVE  IInv'
<1>1. UNCHANGED <<input, next, consumer, job, channel, pending, acc>>
  BY DEF vars
<1>2. Outstanding' = Outstanding /\ Merged' = Merged
  BY <1>1 DEF Outstanding, Merged
<1>3. TypeInv' /\ (JobsInv => JobsInv')
  BY <1>1 DEF IInv, TypeInv, JobsInv
<1>4. ChannelInv /\ MergedInv => ChannelInv' /\ MergedInv'
  BY <1>1, <1>2 DEF ChannelInv, MergedInv, Once
<1> QED BY <1>1, <1>3, <1>4 DEF IInv

-----------------------------------------------------------------------------
(* Results.                                                                *)

\* Whatever the order in which the jobs of the pool finish, pending_batches counts the
\* partials that are still owed, no partial is received twice, and the consumer's state is
\* the aggregate of exactly the batches it has merged.
THEOREM Invariance ==
    Spec => []IInv
<1>1. Init => IInv
  BY InitInv
<1>2. IInv /\ [Next]_vars => IInv'
  <2> SUFFICES ASSUME IInv, [Next]_vars PROVE IInv'
    OBVIOUS
  <2>1. CASE SkipEmpty
    BY <2>1, SkipEmptyPreserves
  <2>2. CASE SpawnJob
    BY <2>2, SpawnJobPreserves
  <2>3. CASE StreamError \/ MergeError
    BY <2>3, FailurePreserves
  <2>4. CASE EndOfStream \/ Finish
    BY <2>4, PhasePreserves
  <2>5. CASE MergePartial
    BY <2>5, MergePartialPreserves
  <2>6. CASE \E i \in DOMAIN input : RunJob(i)
    BY <2>6, RunJobPreserves
  <2>7. CASE Quiescent \/ UNCHANGED vars
    BY <2>7, StutterPreserves DEF Quiescent
  <2> QED BY <2>1, <2>2, <2>3, <2>4, <2>5, <2>6, <2>7 DEF Next, Consume
<1> QED BY <1>1, <1>2, PTL DEF Spec

\* collect_aggregates never finds all senders gone while partials are owed: whenever it
\* waits in recv, a partial is in the channel or a job is still to send one.
THEOREM WorkersOwe ==
    Spec => []NoWorkerStopped
<1>1. IInv => NoWorkerStopped
  <2> SUFFICES ASSUME IInv, consumer = "merging", pending > 0, channel = <<>>
               PROVE  \E i \in DOMAIN input : job[i] = "queued"
    BY DEF NoWorkerStopped
  <2>1. TypeInv /\ pending = Cardinality(Outstanding)
    BY DEF IInv, ChannelInv
  <2>2. Outstanding # {}
    <3>1. IsFiniteSet(Outstanding)
      BY <2>1, OutstandingFinite
    <3>2. Cardinality(Outstanding) # 0
      BY <2>1
    <3> QED BY <3>1, <3>2, CardinalityZero
  <2>3. ToSet(channel) = {}
    BY DEF ToSet
  <2> QED BY <2>2, <2>3 DEF Outstanding
<1> QED BY <1>1, Invariance, PTL

\* When the answer is given, every batch with rows has been merged.
LEMMA AllMerged ==
    ASSUME IInv, consumer = "ok"
    PROVE  /\ \A i \in DOMAIN input : i \in Merged \/ input[i] = <<>>
           /\ \A i \in DOMAIN input : input[i] \notin {Broken, Unsupported}
           /\ input \in Seq(Batches) /\ Merged \subseteq DOMAIN input
           /\ AccIs(acc, input, Merged)
<1>1. /\ TypeInv /\ pending = Cardinality(Outstanding) /\ pending = 0 /\ next = Len(input)
      /\ AccIs(acc, input, Merged)
  BY DEF IInv, ChannelInv, JobsInv, MergedInv
<1>2. Outstanding = {}
  BY <1>1, OutstandingFinite, CardinalityZero
<1>3. DOMAIN input = 1..Len(input) /\ Len(input) \in Nat
  BY <1>1 DEF TypeInv
<1>4. \A i \in DOMAIN input : job[i] = "none" => input[i] = <<>>
  BY <1>1, <1>3 DEF IInv, JobsInv
<1>5. \A i \in DOMAIN input : i \in Merged \/ input[i] = <<>>
  BY <1>1, <1>2, <1>4 DEF Outstanding, Merged, TypeInv
<1>6. <<>> # Unsupported
  BY NoError
<1>7. \A i \in DOMAIN input : input[i] \notin {Broken, Unsupported}
  <2> TAKE i \in DOMAIN input
  <2>1. input[i] # Broken
    BY <1>1, <1>3 DEF IInv, JobsInv
  <2>2. input[i] # Unsupported
    BY <1>5, <1>6 DEF IInv, MergedInv
  <2> QED BY <2>1, <2>2
<1>8. input \in Seq(Batches)
  <2>1. \A i \in 1..Len(input) : input[i] \in Batches
    <3> TAKE i \in 1..Len(input)
    <3>1. input[i] \in Batches \cup {Broken, Unsupported}
      BY <1>1, <1>3 DEF TypeInv
    <3>2. input[i] \notin {Broken, Unsupported}
      BY <1>3, <1>7
    <3> QED BY <3>1, <3>2
  <2>2. input = [i \in 1..Len(input) |-> input[i]]
    BY <1>1 DEF TypeInv
  <2> QED BY <1>3, <2>1, <2>2, IsSequence
<1> QED BY <1>1, <1>5, <1>7, <1>8 DEF Merged

\* For any stream, however it is cut into batches and in whichever order their jobs finish,
\* an answer has COUNT, COUNT(col), COUNT(DISTINCT col), MIN and MAX of the whole column,
\* and no batch failed.
THEOREM Answers ==
    Spec => []AnswerExact
<1>1. IInv => AnswerExact
  <2> SUFFICES ASSUME IInv, consumer = "ok"
               PROVE  /\ \A i \in DOMAIN input : input[i] \notin {Broken, Unsupported}
                      /\ \A f \in {"rows", "count", "distinct", "min", "max"} :
                            acc[f] = FromBatch(AllRows)[f]
    BY DEF AnswerExact
  <2> DEFINE all == FlattenSeq(input)
             D == ValuesOf(input, Merged)
  <2>1. /\ \A i \in DOMAIN input : i \in Merged \/ input[i] = <<>>
        /\ \A i \in DOMAIN input : input[i] \notin {Broken, Unsupported}
        /\ input \in Seq(Batches) /\ Merged \subseteq DOMAIN input
        /\ AccIs(acc, input, Merged)
    BY AllMerged
  <2>2. /\ all \in Batches /\ Len(all) = Total(LensOf(input, Merged))
        /\ Total(Valid(all)) = Total(CountsOf(input, Merged))
        /\ ToSet(all) \ {Null} = D
    BY <2>1, FlattenTotals
  <2>3. AllRows = all
    BY DEF AllRows
  <2> HIDE DEF all
  <2>4. /\ FromBatch(all).rows = Len(all) /\ FromBatch(all).count = Total(Valid(all))
        /\ FromBatch(all).distinct = D
        /\ IsLeast(FromBatch(all).min, D) /\ IsGreatest(FromBatch(all).max, D)
    BY <2>2, FromBatchIs
  <2>5. D \subseteq Int
    BY <2>2, ColumnTypes
  <2>6. /\ acc.rows = Total(LensOf(input, Merged)) /\ acc.count = Total(CountsOf(input, Merged))
        /\ acc.distinct = D /\ IsLeast(acc.min, D) /\ IsGreatest(acc.max, D)
    BY <2>1 DEF AccIs
  <2> HIDE DEF D
  <2>7. acc.min = FromBatch(all).min /\ acc.max = FromBatch(all).max
    <3>1. /\ \A p, q : IsLeast(p, D) /\ IsLeast(q, D) => p = q
          /\ \A p, q : IsGreatest(p, D) /\ IsGreatest(q, D) => p = q
      BY <2>5, BoundsUnique
    <3> QED BY <2>4, <2>6, <3>1, Zenon
  <2>8. /\ acc.rows = FromBatch(all).rows /\ acc.count = FromBatch(all).count
        /\ acc.distinct = FromBatch(all).distinct
    BY <2>2, <2>4, <2>6
  <2> QED BY <2>1, <2>3, <2>7, <2>8
<1> QED BY <1>1, Invariance, PTL

\* SUM is the 64-bit sum of the column, wherever the partial sums wrapped around, unless the
\* column is a 32-bit one and the kernel's sum of a single batch overflows it.
THEOREM Sums ==
    Spec => [](SumsFit(input) => SumExact)
<1>1. IInv => (SumsFit(input) => SumExact)
  <2> SUFFICES ASSUME IInv, consumer = "ok", SumsFit(input)
               PROVE  acc.sum = Wrap(Total(Addends(AllRows)), Half64)
    BY DEF SumExact
  <2>1. /\ \A i \in DOMAIN input : i \in Merged \/ input[i] = <<>>
        /\ input \in Seq(Batches) /\ Merged \subseteq DOMAIN input
        /\ AccIs(acc, input, Merged)
    BY AllMerged
  <2>2. Total(Addends(FlattenSeq(input))) = Total(SumsOf(input, Merged))
    BY <2>1, FlattenTotals
  <2>3. acc.sum = Wrap(Total(SumsOf(input, Merged)), Half64)
    BY <2>1 DEF AccIs
  <2> QED BY <2>2, <2>3 DEF AllRows
<1> QED BY <1>1, Invariance, PTL
=============================================================================
