------------------------- MODULE ParallelScanProofs -------------------------
(***************************************************************************)
(* Proofs about ParallelScan, for any row groups, jobs, pool and limit.    *)
(* The channel is not ordered by job, so the invariant numbers what it     *)
(* holds: the batches of one job in it are the ones it has decoded and the *)
(* consumer has not received, each once and in order (Numbers).  With it   *)
(* the scan implements the abstract stream of batches, fairness aside, and *)
(* delivers every row.  That the jobs scan the planned row groups is an    *)
(* induction over the loop of chunk_parquet_scan_tasks.                    *)
(***************************************************************************)
EXTENDS ParallelScan, FiniteSetTheorems, TLAPS

WF == INSTANCE WellFoundedInduction

-----------------------------------------------------------------------------
(* Induction over the naturals, for sets.                                  *)

\* Every nonempty set of naturals has a least element.
LEMMA NatLeast ==
    ASSUME NEW S, S \subseteq Nat, S # {}
    PROVE  \E n \in S : \A m \in S : n <= m
<1> DEFINE R == WF!OpToRel(<, Nat)
<1>1. WF!IsWellFoundedOn(R, Nat)
  BY WF!NatLessThanWellFounded
<1> HIDE DEF R
<1>2. PICK n \in S : \A m \in S : ~(<<m, n>> \in R)
  BY <1>1, WF!WFMin
<1>3. \A m \in S : ~(m < n)
  BY <1>2 DEF R, WF!OpToRel
<1> QED
  BY <1>3

\* A set with 0 that is closed under successor has all naturals.
LEMMA NatInd ==
    ASSUME NEW S, 0 \in S, \A n \in Nat : n \in S => n + 1 \in S
    PROVE  Nat \subseteq S
<1> SUFFICES ASSUME Nat \ S # {} PROVE FALSE
  OBVIOUS
<1>1. PICK n \in Nat \ S : \A m \in Nat \ S : n <= m
  BY NatLeast
<1> QED
  BY <1>1

-----------------------------------------------------------------------------
(* FlattenSeq.                                                             *)

\* The function that FlattenSeq computes, up to n.
Flattening(cs, f, n) == f = [i \in 1..n |-> IF i = 1 THEN cs[i] ELSE f[i - 1] \o cs[i]]

\* There is one for every n.
LEMMA FlatteningExists ==
    ASSUME NEW cs
    PROVE  \A n \in Nat : \E f : Flattening(cs, f, n)
<1> DEFINE S == {n \in Nat : \E f : Flattening(cs, f, n)}
<1>1. 0 \in S
  <2> DEFINE f == [m \in 1..0 |-> <<>>]
  <2>1. Flattening(cs, f, 0)
    BY DEF Flattening
  <2> QED BY <2>1
<1>2. ASSUME NEW n \in Nat, n \in S PROVE n + 1 \in S
  <2>1. PICK f : Flattening(cs, f, n)
    BY <1>2
  <2> DEFINE g == [m \in 1..(n + 1) |->
                     IF m <= n THEN f[m] ELSE IF n = 0 THEN cs[1] ELSE f[n] \o cs[n + 1]]
  <2>2. \A m \in 1..n : f[m] = IF m = 1 THEN cs[m] ELSE f[m - 1] \o cs[m]
    BY <2>1 DEF Flattening
  <2>3. \A m \in 1..(n + 1) : g[m] = IF m = 1 THEN cs[m] ELSE g[m - 1] \o cs[m]
    <3> TAKE m \in 1..(n + 1)
    <3>1. CASE m <= n
      BY <3>1, <2>2
    <3>2. CASE m = n + 1
      BY <3>2
    <3> QED BY <3>1, <3>2
  <2> HIDE DEF g
  <2>4. DOMAIN g = 1..(n + 1) /\ g = [m \in DOMAIN g |-> g[m]]
    BY DEF g
  <2>5. Flattening(cs, g, n + 1)
    BY <2>3, <2>4 DEF Flattening
  <2> QED BY <2>5
<1> HIDE DEF S
<1>3. Nat \subseteq S
  BY <1>1, <1>2, NatInd
<1> QED BY <1>3 DEF S

\* g[n] has the first n sequences one after the other.
Flattened(S, cs, g) ==
    /\ cs \in Seq(Seq(S))
    /\ g[0] = <<>>
    /\ \A n \in 0..Len(cs) : g[n] \in Seq(S)
    /\ \A n \in 1..Len(cs) : g[n] = g[n - 1] \o cs[n]

\* FlattenSeq is the last of the prefixes.
LEMMA FlattenIs ==
    ASSUME NEW S, NEW cs \in Seq(Seq(S))
    PROVE  \E g : Flattened(S, cs, g) /\ FlattenSeq(cs) = g[Len(cs)]
<1> DEFINE f == CHOOSE f : Flattening(cs, f, Len(cs))
           g == [n \in 0..Len(cs) |-> IF n = 0 THEN <<>> ELSE f[n]]
<1>1. Len(cs) \in Nat /\ \A n \in 1..Len(cs) : cs[n] \in Seq(S)
  OBVIOUS
<1>2. Flattening(cs, f, Len(cs))
  <2>1. \E h : Flattening(cs, h, Len(cs))
    BY <1>1, FlatteningExists, Zenon
  <2> QED BY <2>1, Zenon
<1>3. FlattenSeq(cs) = IF Len(cs) = 0 THEN cs ELSE f[Len(cs)]
  BY DEF FlattenSeq, Flattening
<1>4. FlattenSeq(cs) = g[Len(cs)]
  <2>1. CASE Len(cs) = 0
    <3>1. cs = <<>>
      BY <2>1
    <3> QED BY <2>1, <3>1, <1>3
  <2>2. CASE Len(cs) # 0
    BY <2>2, <1>1, <1>3
  <2> QED BY <2>1, <2>2
<1> HIDE DEF f
<1>5. \A n \in 1..Len(cs) : f[n] = IF n = 1 THEN cs[n] ELSE f[n - 1] \o cs[n]
  BY <1>2 DEF Flattening
<1>6. g[0] = <<>> /\ \A n \in 1..Len(cs) : g[n] = f[n]
  BY <1>1
<1> HIDE DEF g
<1>7. \A n \in 1..Len(cs) : g[n] = g[n - 1] \o cs[n]
  <2> TAKE n \in 1..Len(cs)
  <2>1. CASE n = 1
    <3>1. g[n - 1] = <<>> /\ g[n] = cs[n] /\ cs[n] \in Seq(S)
      BY <1>1, <1>5, <1>6, <2>1
    <3> QED BY <3>1
  <2>2. CASE n # 1
    <3>1. n - 1 \in 1..Len(cs)
      BY <2>2
    <3> QED BY <1>5, <1>6, <2>2, <3>1
  <2> QED BY <2>1, <2>2
<1> DEFINE T == {n \in Nat : n <= Len(cs) => g[n] \in Seq(S)}
<1>8. 0 \in T
  <2>1. <<>> \in Seq(S)
    OBVIOUS
  <2> QED BY <1>6, <2>1
<1>9. ASSUME NEW n \in Nat, n \in T PROVE n + 1 \in T
  <2> SUFFICES ASSUME n + 1 <= Len(cs) PROVE g[n + 1] \in Seq(S)
    OBVIOUS
  <2>1. /\ g[n] \in Seq(S) /\ cs[n + 1] \in Seq(S)
        /\ n + 1 \in 1..Len(cs) /\ (n + 1) - 1 = n
    BY <1>1, <1>9
  <2>2. g[n + 1] = g[n] \o cs[n + 1]
    BY <1>7, <2>1
  <2> QED BY <2>1, <2>2
<1>10. \A n \in 0..Len(cs) : g[n] \in Seq(S)
  <2> HIDE DEF T
  <2>1. Nat \subseteq T
    BY <1>8, <1>9, NatInd
  <2> QED BY <2>1 DEF T
<1> QED BY <1>4, <1>6, <1>7, <1>10 DEF Flattened

\* It is a sequence of the elements.
LEMMA FlattenType ==
    ASSUME NEW S, NEW cs \in Seq(Seq(S))
    PROVE  FlattenSeq(cs) \in Seq(S)
<1>1. PICK g : Flattened(S, cs, g) /\ FlattenSeq(cs) = g[Len(cs)]
  BY FlattenIs
<1>2. Len(cs) \in 0..Len(cs)
  OBVIOUS
<1> QED BY <1>1, <1>2 DEF Flattened

\* One more sequence is appended.
LEMMA FlattenAppend ==
    ASSUME NEW S, NEW cs \in Seq(Seq(S)), NEW c \in Seq(S)
    PROVE  FlattenSeq(Append(cs, c)) = FlattenSeq(cs) \o c
<1> DEFINE ds == Append(cs, c)
<1>1. /\ ds \in Seq(Seq(S)) /\ Len(ds) = Len(cs) + 1 /\ Len(cs) \in Nat
      /\ ds[Len(ds)] = c /\ \A n \in 1..Len(cs) : ds[n] = cs[n]
  OBVIOUS
<1> HIDE DEF ds
<1>2. PICK g : Flattened(S, cs, g) /\ FlattenSeq(cs) = g[Len(cs)]
  BY FlattenIs
<1>3. PICK h : Flattened(S, ds, h) /\ FlattenSeq(ds) = h[Len(ds)]
  BY <1>1, FlattenIs
<1> DEFINE T == {n \in Nat : n <= Len(cs) => h[n] = g[n]}
<1>4. 0 \in T
  BY <1>2, <1>3 DEF Flattened
<1>5. ASSUME NEW n \in Nat, n \in T PROVE n + 1 \in T
  <2> SUFFICES ASSUME n + 1 <= Len(cs) PROVE h[n + 1] = g[n + 1]
    OBVIOUS
  <2>1. n + 1 \in 1..Len(cs) /\ n + 1 \in 1..Len(ds) /\ (n + 1) - 1 = n /\ h[n] = g[n]
    BY <1>1, <1>5
  <2>2. h[n + 1] = h[n] \o ds[n + 1] /\ g[n + 1] = g[n] \o cs[n + 1] /\ ds[n + 1] = cs[n + 1]
    BY <1>1, <1>2, <1>3, <2>1 DEF Flattened
  <2> QED BY <2>1, <2>2
<1>6. h[Len(cs)] = g[Len(cs)]
  <2> HIDE DEF T
  <2>1. Nat \subseteq T
    BY <1>4, <1>5, NatInd
  <2> QED BY <1>1, <2>1 DEF T
<1>7. Len(ds) \in 1..Len(ds) /\ Len(ds) - 1 = Len(cs)
  BY <1>1
<1>8. h[Len(ds)] = h[Len(cs)] \o c
  BY <1>1, <1>3, <1>7 DEF Flattened
<1> QED BY <1>2, <1>3, <1>6, <1>8 DEF ds

\* Nothing is flattened to nothing.
LEMMA FlattenNothing ==
    FlattenSeq(<<>>) = <<>>
  BY DEF FlattenSeq

-----------------------------------------------------------------------------
(* The jobs.                                                               *)

\* A sequence ends with its last element.
LEMMA FrontLast ==
    ASSUME NEW S, NEW s \in Seq(S), s # <<>>
    PROVE  /\ Front(s) \in Seq(S) /\ Last(s) \in S /\ s = Append(Front(s), Last(s))
           /\ Len(s) = Len(Front(s)) + 1 /\ Last(s) = s[Len(s)] /\ Len(Front(s)) \in Nat
           /\ \A i \in 1..Len(Front(s)) : Front(s)[i] = s[i]
<1> DEFINE n == Len(s) - 1
           f == Front(s)
           t == Append(f, Last(s))
<1>1. n \in Nat /\ Len(s) = n + 1 /\ n + 1 \in 1..Len(s) /\ \A i \in 1..Len(s) : s[i] \in S
  OBVIOUS
<1>2. f \in Seq(S) /\ Len(f) = n /\ \A i \in 1..n : f[i] = s[i]
  BY <1>1 DEF Front
<1>3. Last(s) = s[Len(s)] /\ Last(s) \in S
  BY <1>1 DEF Last
<1> HIDE DEF f, n
<1>4. t \in Seq(S) /\ Len(t) = n + 1 /\ t[n + 1] = Last(s) /\ \A i \in 1..n : t[i] = f[i]
  BY <1>1, <1>2, <1>3
<1> HIDE DEF t
<1>5. \A i \in 1..Len(s) : t[i] = s[i]
  <2> TAKE i \in 1..Len(s)
  <2>1. i \in 1..n \/ i = n + 1
    BY <1>1
  <2> QED BY <2>1, <1>1, <1>2, <1>3, <1>4
<1>6. t = s
  BY <1>1, <1>4, <1>5
<1> QED BY <1>1, <1>2, <1>3, <1>6 DEF f, t

\* One more element at the end.
LEMMA OneMore ==
    ASSUME NEW S, NEW s \in Seq(S), NEW x \in S
    PROVE  /\ Append(s, x) \in Seq(S) /\ Append(s, x) = s \o <<x>> /\ Append(s, x) # <<>>
           /\ Len(Append(s, x)) = Len(s) + 1 /\ Append(s, x)[Len(s) + 1] = x
           /\ \A a \in 1..Len(s) : Append(s, x)[a] = s[a]
           /\ Len(s) \in Nat /\ (s # <<>> => Len(s) \in 1..Len(s))
<1>1. Len(s) \in Nat /\ (s # <<>> => Len(s) \in 1..Len(s))
  OBVIOUS
<1>2. /\ Append(s, x) \in Seq(S) /\ Len(Append(s, x)) = Len(s) + 1
      /\ Append(s, x)[Len(s) + 1] = x
      /\ \A a \in 1..Len(s) : Append(s, x)[a] = s[a]
  BY <1>1
<1>3. Append(s, x) # <<>>
  <2>1. Len(<<>>) = 0 /\ Len(s) + 1 # 0
    BY <1>1
  <2> QED BY <1>2, <2>1
<1>4. Append(s, x) = s \o <<x>>
  OBVIOUS
<1> QED BY <1>1, <1>2, <1>3, <1>4

\* The row groups of a chunk are in one file and one partition.
OneSource(c) == c # <<>> /\ \A a, b \in 1..Len(c) : SourceOf(c[a]) = SourceOf(c[b])

\* A sequence of chunks that scans the row groups of out, each chunk in one file and
\* one partition.
Scans(cs, out) ==
    /\ cs \in Seq(Seq(RowGroups)) /\ FlattenSeq(cs) = out
    /\ \A i \in 1..Len(cs) : OneSource(cs[i])

\* A row group is added at the end.
LEMMA AddTaskScans ==
    ASSUME NEW cs, NEW out \in Seq(RowGroups), NEW task \in RowGroups, Scans(cs, out)
    PROVE  Scans(AddTask(cs, task), Append(out, task))
<1>1. /\ cs \in Seq(Seq(RowGroups)) /\ FlattenSeq(cs) = out
      /\ \A i \in 1..Len(cs) : cs[i] \in Seq(RowGroups) /\ Len(cs[i]) \in Nat
      /\ Len(cs) \in Nat
  BY DEF Scans
<1>2. CASE AddTask(cs, task) = Append(cs, <<task>>)
  <2> DEFINE ds == Append(cs, <<task>>)
  <2>1. /\ ds \in Seq(Seq(RowGroups)) /\ Len(ds) = Len(cs) + 1 /\ ds[Len(cs) + 1] = <<task>>
        /\ \A i \in 1..Len(cs) : ds[i] = cs[i]
    BY <1>1
  <2>2. FlattenSeq(ds) = out \o <<task>>
    <3>1. <<task>> \in Seq(RowGroups)
      OBVIOUS
    <3> QED BY <1>1, <3>1, FlattenAppend
  <2>3. out \o <<task>> = Append(out, task)
    OBVIOUS
  <2> HIDE DEF ds
  <2>4. \A i \in 1..Len(ds) : OneSource(ds[i])
    <3> TAKE i \in 1..Len(ds)
    <3>1. CASE i \in 1..Len(cs)
      BY <3>1, <2>1 DEF Scans
    <3>2. CASE i = Len(cs) + 1
      <4>1. ds[i] = <<task>>
        BY <3>2, <2>1
      <4>2. <<task>> # <<>> /\ \A a \in 1..Len(<<task>>) : <<task>>[a] = task
        OBVIOUS
      <4> QED BY <4>1, <4>2 DEF OneSource
    <3> QED BY <3>1, <3>2, <1>1, <2>1
  <2> QED BY <1>2, <2>1, <2>2, <2>3, <2>4 DEF Scans, ds
<1>3. CASE /\ cs # <<>> /\ SourceOf(Last(Last(cs))) = SourceOf(task)
           /\ AddTask(cs, task) = Append(Front(cs), Append(Last(cs), task))
  <2> DEFINE front == Front(cs)
             last == Last(cs)
             new == Append(last, task)
             ds == Append(front, new)
  <2>1. /\ front \in Seq(Seq(RowGroups)) /\ last \in Seq(RowGroups) /\ cs = Append(front, last)
        /\ Len(cs) = Len(front) + 1 /\ last = cs[Len(cs)] /\ Len(front) \in Nat
        /\ \A i \in 1..Len(front) : front[i] = cs[i]
    BY <1>1, <1>3, FrontLast
  <2>2. OneSource(last) /\ last # <<>>
    <3>1. Len(cs) \in 1..Len(cs)
      BY <1>1, <2>1
    <3> HIDE DEF front, last
    <3>2. OneSource(cs[Len(cs)])
      BY <3>1 DEF Scans
    <3>3. OneSource(last)
      BY <2>1, <3>2
    <3> QED BY <3>3 DEF OneSource
  <2>3. SourceOf(last[Len(last)]) = SourceOf(task)
    BY <1>3 DEF Last
  <2> HIDE DEF front, last
  <2>4. /\ new \in Seq(RowGroups) /\ new = last \o <<task>> /\ new # <<>>
        /\ Len(new) = Len(last) + 1 /\ new[Len(last) + 1] = task
        /\ \A a \in 1..Len(last) : new[a] = last[a]
        /\ Len(last) \in 1..Len(last) /\ Len(last) \in Nat
    BY <2>1, <2>2, OneMore
  <2>5. OneSource(new)
    <3>1. \A a \in 1..Len(new) : SourceOf(new[a]) = SourceOf(task)
      <4> TAKE a \in 1..Len(new)
      <4> HIDE DEF new
      <4>1. CASE a \in 1..Len(last)
        BY <4>1, <2>2, <2>3, <2>4 DEF OneSource
      <4>2. CASE a = Len(last) + 1
        BY <4>2, <2>4
      <4> QED BY <4>1, <4>2, <2>4
    <3> HIDE DEF new
    <3> QED BY <2>4, <3>1 DEF OneSource
  <2> HIDE DEF new
  <2>6. /\ ds \in Seq(Seq(RowGroups)) /\ Len(ds) = Len(front) + 1 /\ ds[Len(front) + 1] = new
        /\ \A i \in 1..Len(front) : ds[i] = front[i]
    BY <2>1, <2>4
  <2>7. FlattenSeq(ds) = FlattenSeq(front) \o new /\ FlattenSeq(cs) = FlattenSeq(front) \o last
        /\ FlattenSeq(front) \in Seq(RowGroups)
    <3>1. FlattenSeq(ds) = FlattenSeq(front) \o new
      BY <2>1, <2>4, FlattenAppend
    <3>2. FlattenSeq(Append(front, last)) = FlattenSeq(front) \o last
      BY <2>1, FlattenAppend
    <3>3. FlattenSeq(front) \in Seq(RowGroups)
      BY <2>1, FlattenType
    <3> QED BY <3>1, <3>2, <3>3, <2>1
  <2>8. FlattenSeq(ds) = Append(out, task)
    <3> DEFINE s == FlattenSeq(front)
    <3>1. s \in Seq(RowGroups) /\ FlattenSeq(ds) = s \o (last \o <<task>>) /\ out = s \o last
      BY <1>1, <2>4, <2>7
    <3> HIDE DEF s
    <3>2. s \o (last \o <<task>>) = Append(s \o last, task)
      BY <3>1, <2>1
    <3> QED BY <3>1, <3>2
  <2> HIDE DEF ds
  <2>9. \A i \in 1..Len(ds) : OneSource(ds[i])
    <3> TAKE i \in 1..Len(ds)
    <3>1. CASE i \in 1..Len(front)
      <4>1. ds[i] = cs[i] /\ i \in 1..Len(cs)
        BY <3>1, <2>1, <2>6
      <4> QED BY <4>1 DEF Scans
    <3>2. CASE i = Len(front) + 1
      BY <3>2, <2>4, <2>5, <2>6
    <3> QED BY <3>1, <3>2, <2>1, <2>6
  <2>10. AddTask(cs, task) = ds
    BY <1>3 DEF ds, new, front, last
  <2> QED BY <2>6, <2>8, <2>9, <2>10 DEF Scans
<1>4. CASE cs # <<>> /\ SourceOf(Last(Last(cs))) = SourceOf(task) /\ Len(Last(cs)) < Target
  BY <1>3, <1>4 DEF AddTask
<1>5. CASE ~(cs # <<>> /\ SourceOf(Last(Last(cs))) = SourceOf(task) /\ Len(Last(cs)) < Target)
  BY <1>2, <1>5 DEF AddTask
<1> QED BY <1>4, <1>5

\* The function that ChunkTasks computes, up to n.
Chunking(ts, f, n) == f = [m \in 0..n |-> IF m = 0 THEN <<>> ELSE AddTask(f[m - 1], ts[m])]

\* There is one for every n.
LEMMA ChunkingExists ==
    ASSUME NEW ts
    PROVE  \A n \in Nat : \E f : Chunking(ts, f, n)
<1> DEFINE S == {n \in Nat : \E f : Chunking(ts, f, n)}
<1>1. 0 \in S
  <2> DEFINE f == [m \in 0..0 |-> <<>>]
  <2>1. Chunking(ts, f, 0)
    BY DEF Chunking
  <2> QED BY <2>1
<1>2. ASSUME NEW n \in Nat, n \in S PROVE n + 1 \in S
  <2>1. PICK f : Chunking(ts, f, n)
    BY <1>2
  <2> DEFINE g == [m \in 0..(n + 1) |-> IF m <= n THEN f[m] ELSE AddTask(f[n], ts[n + 1])]
  <2>2. \A m \in 0..n : f[m] = IF m = 0 THEN <<>> ELSE AddTask(f[m - 1], ts[m])
    BY <2>1 DEF Chunking
  <2>3. \A m \in 0..(n + 1) : g[m] = IF m = 0 THEN <<>> ELSE AddTask(g[m - 1], ts[m])
    <3> TAKE m \in 0..(n + 1)
    <3>1. CASE m <= n
      BY <3>1, <2>2
    <3>2. CASE m = n + 1
      BY <3>2
    <3> QED BY <3>1, <3>2
  <2> HIDE DEF g
  <2>4. DOMAIN g = 0..(n + 1) /\ g = [m \in DOMAIN g |-> g[m]]
    BY DEF g
  <2>5. Chunking(ts, g, n + 1)
    BY <2>3, <2>4 DEF Chunking
  <2> QED BY <2>5
<1> HIDE DEF S
<1>3. Nat \subseteq S
  BY <1>1, <1>2, NatInd
<1> QED BY <1>3 DEF S

\* The chunks of a list of row groups scan exactly these, in order.
LEMMA ChunkTasksScans ==
    ASSUME NEW ts \in Seq(RowGroups)
    PROVE  Scans(ChunkTasks(ts), ts)
<1> DEFINE f == CHOOSE f : Chunking(ts, f, Len(ts))
<1>0. Len(ts) \in Nat /\ \A n \in 1..Len(ts) : ts[n] \in RowGroups
  OBVIOUS
<1>1. Chunking(ts, f, Len(ts))
  <2>1. \E g : Chunking(ts, g, Len(ts))
    BY <1>0, ChunkingExists, Zenon
  <2> QED BY <2>1, Zenon
<1>2. ChunkTasks(ts) = f[Len(ts)]
  BY DEF ChunkTasks, Chunking
<1> HIDE DEF f
<1>3. \A m \in 0..Len(ts) : f[m] = IF m = 0 THEN <<>> ELSE AddTask(f[m - 1], ts[m])
  BY <1>1 DEF Chunking
<1> DEFINE S == {n \in Nat : n <= Len(ts) => Scans(f[n], SubSeq(ts, 1, n))}
<1>4. 0 \in S
  <2>1. f[0] = <<>> /\ SubSeq(ts, 1, 0) = <<>>
    BY <1>0, <1>3
  <2>2. Scans(<<>>, <<>>)
    BY FlattenNothing DEF Scans
  <2> QED BY <2>1, <2>2
<1>5. ASSUME NEW n \in Nat, n \in S PROVE n + 1 \in S
  <2> SUFFICES ASSUME n + 1 <= Len(ts) PROVE Scans(f[n + 1], SubSeq(ts, 1, n + 1))
    OBVIOUS
  <2>1. /\ n + 1 \in 0..Len(ts) /\ n + 1 # 0 /\ (n + 1) - 1 = n /\ ts[n + 1] \in RowGroups
        /\ n <= Len(ts)
    BY <1>0
  <2>2. f[n + 1] = AddTask(f[n], ts[n + 1])
    BY <1>3, <2>1
  <2>3. Scans(f[n], SubSeq(ts, 1, n))
    BY <1>5, <2>1
  <2>4. /\ SubSeq(ts, 1, n) \in Seq(RowGroups)
        /\ Append(SubSeq(ts, 1, n), ts[n + 1]) = SubSeq(ts, 1, n + 1)
    BY <1>0, <2>1
  <2>5. Scans(AddTask(f[n], ts[n + 1]), Append(SubSeq(ts, 1, n), ts[n + 1]))
    BY <2>1, <2>3, <2>4, AddTaskScans
  <2> QED BY <2>2, <2>4, <2>5
<1> HIDE DEF S
<1>6. Nat \subseteq S
  BY <1>4, <1>5, NatInd
<1>7. Scans(f[Len(ts)], SubSeq(ts, 1, Len(ts)))
  BY <1>0, <1>6 DEF S
<1>8. SubSeq(ts, 1, Len(ts)) = ts
  BY <1>0
<1> QED BY <1>2, <1>7, <1>8

\* A job's batches are a sequence of row counts and broken ones.
LEMMA BatchesOfChunkType ==
    ASSUME NEW chunk \in Seq(RowGroups)
    PROVE  BatchesOfChunk(chunk) \in Seq(Nat \cup {Broken})
<1> DEFINE bs == [i \in DOMAIN chunk |-> BatchesOf[chunk[i]]]
<1>1. Len(chunk) \in Nat /\ DOMAIN chunk = 1..Len(chunk)
      /\ \A i \in 1..Len(chunk) : chunk[i] \in RowGroups
  OBVIOUS
<1>2. \A i \in 1..Len(chunk) : BatchesOf[chunk[i]] \in Seq(Nat \cup {Broken})
  BY <1>1, ScanAssumption
<1>3. bs \in Seq(Seq(Nat \cup {Broken}))
  BY <1>1, <1>2
<1> HIDE DEF bs
<1>4. FlattenSeq(bs) \in Seq(Nat \cup {Broken})
  BY <1>3, FlattenType
<1> QED BY <1>4 DEF BatchesOfChunk, bs

-----------------------------------------------------------------------------
(* The inductive invariant.                                                *)

Open == consumer # "gone"
Pending == 1..Len(channel)

TypeInv ==
    /\ tasks \in TaskLists /\ chunks = ChunkTasks(tasks)
    /\ job \in [Jobs -> {"unspawned", "queued", "running", "done"}]
    /\ pos \in [Jobs -> Nat] /\ got \in [Jobs -> Nat] /\ wasted \in [Jobs -> Nat]
    /\ channel \in Seq(Jobs \X (Nat \cup {Broken}))
    /\ consumer \in {"spawning", "consuming", "gone"}
    /\ status \in {"open", "end", "error", "dropped"}
    /\ limit \in Nat /\ remaining \in Nat /\ outRows \in Nat

\* A LimitStream hands over what its counter was lowered by.
RowsInv == outRows + remaining = limit

PoolInv == IsFiniteSet(Running) /\ Cardinality(Running) <= Pool

\* What is known of a job, and of the batches received from it.
JobOk(j) ==
    /\ got[j] <= pos[j] /\ pos[j] <= Len(BatchesOfJob(j))
    /\ \A n \in 1..got[j] : BatchesOfJob(j)[n] # Broken
    /\ job[j] = "done" /\ Open =>
           \/ pos[j] = Len(BatchesOfJob(j))
           \/ pos[j] > 0 /\ BatchesOfJob(j)[pos[j]] = Broken
    /\ wasted[j] <= 1 /\ (wasted[j] = 1 => job[j] = "done")
    /\ Open => wasted[j] = 0
JobsInv == \A j \in Jobs : JobOk(j)

\* no[i] is the place of the channel's i-th batch among the batches of its job.
Numbers(no) ==
    /\ no \in [Pending -> Nat]
    /\ \A i \in Pending :
           /\ got[channel[i][1]] < no[i] /\ no[i] <= pos[channel[i][1]]
           /\ channel[i][2] = BatchesOfJob(channel[i][1])[no[i]]
    /\ \A i, k \in Pending : i < k /\ channel[i][1] = channel[k][1] => no[i] < no[k]
    /\ \A j \in Jobs, n \in Nat :
           got[j] < n /\ n <= pos[j] => \E i \in Pending : channel[i][1] = j /\ no[i] = n
ChannelInv == Open => \E no : Numbers(no)

StatusInv == status = "open" <=> Open

IInv == TypeInv /\ RowsInv /\ PoolInv /\ JobsInv /\ ChannelInv /\ StatusInv

-----------------------------------------------------------------------------
\* The jobs scan the planned row groups.
LEMMA JobsScan == TypeInv => Scans(chunks, tasks)
<1> SUFFICES ASSUME TypeInv PROVE Scans(chunks, tasks)
  OBVIOUS
<1>1. tasks \in Seq(RowGroups) /\ chunks = ChunkTasks(tasks)
  BY ScanAssumption DEF TypeInv
<1>2. Scans(ChunkTasks(tasks), tasks)
  BY <1>1, ChunkTasksScans
<1> QED BY <1>1, <1>2

\* A job's batches are a sequence of row counts and broken ones.
LEMMA BatchesType ==
    ASSUME TypeInv, NEW j \in Jobs
    PROVE  /\ BatchesOfJob(j) \in Seq(Nat \cup {Broken})
           /\ Len(BatchesOfJob(j)) \in Nat
           /\ \A n \in 1..Len(BatchesOfJob(j)) : BatchesOfJob(j)[n] \in Nat \cup {Broken}
<1>1. chunks[j] \in Seq(RowGroups)
  BY JobsScan DEF Scans, Jobs
<1>2. BatchesOfJob(j) \in Seq(Nat \cup {Broken})
  BY <1>1, BatchesOfChunkType DEF BatchesOfJob
<1> QED
  BY <1>2

LEMMA BatchesKept ==
    ASSUME chunks' = chunks
    PROVE  Jobs' = Jobs /\ \A j : BatchesOfJob(j)' = BatchesOfJob(j)
  BY DEF Jobs, BatchesOfJob

LEMMA InitInv == Init => IInv
<1> SUFFICES ASSUME Init PROVE IInv
  OBVIOUS
<1> USE DEF Init
<1>1. TypeInv
  BY ScanAssumption DEF TypeInv
<1>2. Running = {}
  BY DEF Running
<1>3. PoolInv
  BY <1>2, FS_EmptySet, ScanAssumption DEF PoolInv
<1>4. JobsInv
  BY <1>1, BatchesType DEF JobsInv, JobOk
<1>5. Numbers(<<>>)
  BY <1>1 DEF Numbers, Pending
<1> QED
  BY <1>1, <1>3, <1>4, <1>5 DEF IInv, TypeInv, RowsInv, ChannelInv, StatusInv, Open

-----------------------------------------------------------------------------
(* Steps that leave parts of the state alone.                              *)

LEMMA RunningShrinks ==
    ASSUME IInv, Running' \subseteq Running
    PROVE  PoolInv'
<1>1. IsFiniteSet(Running') /\ Cardinality(Running') <= Cardinality(Running)
  BY FS_Subset DEF IInv, PoolInv
<1>2. Cardinality(Running') \in Nat /\ Cardinality(Running) \in Nat
  BY <1>1, FS_CardinalityType DEF IInv, PoolInv
<1> QED
  BY <1>1, <1>2, ScanAssumption DEF IInv, PoolInv

\* The channel and the counts of batches are as before.
LEMMA NumbersKept ==
    ASSUME ChannelInv, Open, UNCHANGED <<chunks, channel, pos, got>>
    PROVE  ChannelInv'
<1>1. PICK no : Numbers(no)
  BY DEF ChannelInv
<1>2. Numbers(no)'
  BY <1>1, BatchesKept DEF Numbers, Pending
<1> QED
  BY <1>2 DEF ChannelInv

\* A job whose batches are as before, and that is done if it was or if it has no more.
LEMMA JobKept ==
    ASSUME NEW i \in Jobs, JobOk(i), chunks' = chunks,
           pos'[i] = pos[i], got'[i] = got[i], wasted'[i] = wasted[i], Open' => Open,
           job[i] = "done" => job'[i] = "done",
           job'[i] = "done" => job[i] = "done" \/ pos[i] = Len(BatchesOfJob(i))
    PROVE  JobOk(i)'
<1>1. BatchesOfJob(i)' = BatchesOfJob(i)
  BY BatchesKept
<1> HIDE DEF Open
<1> QED
  BY <1>1 DEF JobOk

-----------------------------------------------------------------------------
(* The steps.                                                              *)

LEMMA SpawnInv == ASSUME IInv, NEW j \in Jobs, Spawn(j) PROVE IInv'
<1> USE DEF Spawn, query
<1>1. TypeInv'
  BY BatchesKept DEF IInv, TypeInv
<1>2. JobsInv'
  <2> SUFFICES ASSUME NEW i \in Jobs PROVE JobOk(i)'
    BY BatchesKept DEF JobsInv
  <2>1. job'[i] = IF i = j THEN "queued" ELSE job[i]
    BY DEF IInv, TypeInv
  <2> QED
    BY <2>1, JobKept DEF IInv, JobsInv, Open
<1>3. PoolInv'
  BY BatchesKept, RunningShrinks DEF IInv, TypeInv, Running
<1>4. ChannelInv'
  BY NumbersKept DEF IInv, Open
<1> QED
  BY <1>1, <1>2, <1>3, <1>4 DEF IInv, RowsInv, StatusInv, Open

LEMMA DropSenderInv == ASSUME IInv, DropSender PROVE IInv'
<1> USE DEF DropSender, query
<1>1. TypeInv'
  BY BatchesKept DEF IInv, TypeInv
<1>2. JobsInv'
  BY BatchesKept DEF IInv, TypeInv, JobsInv, JobOk, Open
<1>3. PoolInv'
  BY BatchesKept, RunningShrinks DEF IInv, TypeInv, Running
<1>4. ChannelInv'
  BY NumbersKept DEF IInv, Open
<1> QED
  BY <1>1, <1>2, <1>3, <1>4 DEF IInv, RowsInv, StatusInv, Open

LEMMA StartInv == ASSUME IInv, NEW j \in Jobs, Start(j) PROVE IInv'
<1> USE DEF Start, query
<1>1. TypeInv'
  BY BatchesKept DEF IInv, TypeInv
<1>2. JobsInv'
  <2> SUFFICES ASSUME NEW i \in Jobs PROVE JobOk(i)'
    BY BatchesKept DEF JobsInv
  <2>1. job'[i] = IF i = j THEN "running" ELSE job[i]
    BY DEF IInv, TypeInv
  <2> QED
    BY <2>1, JobKept DEF IInv, JobsInv, Open
<1>3. PoolInv'
  <2>1. Running' = Running \cup {j}
    BY BatchesKept DEF IInv, TypeInv, Running
  <2>2. j \notin Running /\ IsFiniteSet(Running) /\ Cardinality(Running) \in Nat
    BY FS_CardinalityType DEF IInv, PoolInv, Running
  <2>3. /\ IsFiniteSet(Running \cup {j})
        /\ Cardinality(Running \cup {j}) = Cardinality(Running) + 1
    BY <2>2, FS_AddElement
  <2> QED
    BY <2>1, <2>2, <2>3, ScanAssumption DEF PoolInv
<1>4. ChannelInv'
  BY NumbersKept DEF IInv, ChannelInv, Open
<1> QED
  BY <1>1, <1>2, <1>3, <1>4 DEF IInv, RowsInv, StatusInv, Open

LEMMA ExhaustedInv == ASSUME IInv, NEW j \in Jobs, Exhausted(j) PROVE IInv'
<1> USE DEF Exhausted, query
<1>1. TypeInv'
  BY BatchesKept DEF IInv, TypeInv
<1>2. JobsInv'
  <2> SUFFICES ASSUME NEW i \in Jobs PROVE JobOk(i)'
    BY BatchesKept DEF JobsInv
  <2>1. job'[i] = IF i = j THEN "done" ELSE job[i]
    BY DEF IInv, TypeInv
  <2> QED
    BY <2>1, JobKept DEF IInv, JobsInv, Open
<1>3. PoolInv'
  BY BatchesKept, RunningShrinks DEF IInv, TypeInv, Running
<1>4. ChannelInv'
  BY NumbersKept DEF IInv, ChannelInv, Open
<1> QED
  BY <1>1, <1>2, <1>3, <1>4 DEF IInv, RowsInv, StatusInv, Open

\* The consumer drops the stream: the channel and its numbering are gone.
LEMMA LeaveInv ==
    ASSUME IInv, Open, NEW how \in {"end", "error", "dropped"}, Leave(how),
           UNCHANGED <<query, job, pos, wasted, got, remaining, outRows>>
    PROVE  IInv'
<1> USE DEF Leave, query
<1>1. TypeInv'
  BY BatchesKept DEF IInv, TypeInv
<1>2. JobsInv'
  BY BatchesKept DEF IInv, TypeInv, JobsInv, JobOk, Open
<1>3. PoolInv'
  BY BatchesKept, RunningShrinks DEF IInv, TypeInv, Running
<1> QED
  BY <1>1, <1>2, <1>3 DEF IInv, ChannelInv, RowsInv, StatusInv, Open

\* A batch that is sent takes the next number of its job.
LEMMA SendNumbers ==
    ASSUME TypeInv, JobsInv, ChannelInv, Open, NEW j \in Jobs,
           \A i \in Jobs : pos'[i] = IF i = j THEN pos[i] + 1 ELSE pos[i],
           Len(channel') = Len(channel) + 1, \A i \in Pending : channel'[i] = channel[i],
           channel'[Len(channel) + 1] = <<j, BatchesOfJob(j)[pos[j] + 1]>>,
           chunks' = chunks, got' = got
    PROVE  \E no : Numbers(no)'
<1>1. PICK no : Numbers(no)
  BY DEF ChannelInv
<1> DEFINE last == Len(channel) + 1
           new == [i \in 1..last |-> IF i = last THEN pos[j] + 1 ELSE no[i]]
<1>2. /\ Len(channel) \in Nat /\ Pending' = 1..last
      /\ channel'[last] = <<j, BatchesOfJob(j)[pos[j] + 1]>>
      /\ channel'[last][1] = j /\ channel'[last][2] = BatchesOfJob(j)[pos[j] + 1]
      /\ \A i \in Pending : channel'[i] = channel[i] /\ channel[i][1] \in Jobs
  <2>1. Len(channel) \in Nat /\ \A i \in Pending : channel[i] \in Jobs \X (Nat \cup {Broken})
    BY DEF TypeInv, Pending
  <2>2. \A i \in Pending : channel[i][1] \in Jobs
    BY <2>1
  <2> QED
    BY <2>1, <2>2 DEF Pending
<1>3. \A i \in Jobs : /\ pos'[i] = IF i = j THEN pos[i] + 1 ELSE pos[i]
                      /\ pos[i] \in Nat /\ got[i] \in Nat /\ got[i] <= pos[i]
  BY DEF TypeInv, JobsInv, JobOk
<1>4. no \in [Pending -> Nat] /\ \A i \in Pending : new[i] = no[i] /\ i # last /\ i < last
  BY <1>1, <1>2 DEF Numbers, Pending
<1>5. new[last] = pos[j] + 1 /\ last \in Pending'
  BY <1>2
<1>6. \A i \in Pending' : i = last \/ i \in Pending
  BY <1>2 DEF Pending
<1>7. new \in [Pending' -> Nat]
  BY <1>2, <1>3, <1>4, <1>6
<1> HIDE DEF new, last
<1>8. ASSUME NEW i \in Pending'
      PROVE  /\ got'[channel'[i][1]] < new[i] /\ new[i] <= pos'[channel'[i][1]]
             /\ channel'[i][2] = BatchesOfJob(channel'[i][1])[new[i]]
  <2>1. CASE i = last
    <3>1. /\ channel'[i][1] = j /\ channel'[i][2] = BatchesOfJob(j)[pos[j] + 1]
          /\ new[i] = pos[j] + 1
      BY <1>2, <1>5, <2>1
    <3> QED
      BY <1>3, <3>1
  <2>2. CASE i \in Pending
    <3>1. /\ channel'[i] = channel[i] /\ channel[i][1] \in Jobs /\ new[i] = no[i]
          /\ no[i] \in Nat
      BY <1>2, <1>4, <2>2
    <3>2. /\ got[channel[i][1]] < no[i] /\ no[i] <= pos[channel[i][1]]
          /\ channel[i][2] = BatchesOfJob(channel[i][1])[no[i]]
      BY <1>1, <2>2 DEF Numbers
    <3> QED
      BY <1>3, <3>1, <3>2
  <2> QED
    BY <1>6, <2>1, <2>2
<1>9. ASSUME NEW i \in Pending', NEW k \in Pending', i < k, channel'[i][1] = channel'[k][1]
      PROVE  new[i] < new[k]
  <2>1. i \in Pending
    BY <1>2, <1>6, <1>9
  <2>2. CASE k = last
    <3>0. channel[i][1] = j
      BY <1>2, <1>9, <2>1, <2>2
    <3>1. new[i] = no[i] /\ no[i] \in Nat /\ no[i] <= pos[j]
      BY <1>1, <1>4, <2>1, <3>0 DEF Numbers
    <3> QED
      BY <1>3, <1>5, <2>2, <3>1
  <2>3. CASE k \in Pending
    BY <1>1, <1>2, <1>4, <1>9, <2>1, <2>3 DEF Numbers
  <2> QED
    BY <1>6, <2>2, <2>3
<1>10. ASSUME NEW i \in Jobs, NEW n \in Nat, got[i] < n, n <= pos'[i]
       PROVE  \E k \in Pending' : channel'[k][1] = i /\ new[k] = n
  <2>1. CASE n <= pos[i]
    <3>1. PICK k \in Pending : channel[k][1] = i /\ no[k] = n
      BY <1>1, <1>10, <2>1 DEF Numbers
    <3>2. k \in Pending'
      BY <1>2, <1>4, <3>1 DEF Pending
    <3> QED
      BY <1>2, <1>4, <3>1, <3>2
  <2>2. CASE ~(n <= pos[i])
    <3>1. i = j /\ n = pos[j] + 1
      BY <1>3, <1>10, <2>2
    <3> QED
      BY <1>2, <1>5, <3>1
  <2> QED
    BY <2>1, <2>2
<1>11. Jobs' = Jobs /\ \A i : BatchesOfJob(i)' = BatchesOfJob(i)
  BY BatchesKept
<1>12. PICK nos : nos = new
  OBVIOUS
<1>13. Numbers(nos)'
  <2>1. nos \in [Pending' -> Nat]
    BY <1>7, <1>12
  <2>2. \A i \in Pending' :
           /\ got'[channel'[i][1]] < nos[i] /\ nos[i] <= pos'[channel'[i][1]]
           /\ channel'[i][2] = BatchesOfJob(channel'[i][1])[nos[i]]
    BY <1>8, <1>12
  <2>3. \A i, k \in Pending' : i < k /\ channel'[i][1] = channel'[k][1] => nos[i] < nos[k]
    BY <1>9, <1>12
  <2>4. \A i \in Jobs, n \in Nat :
           got'[i] < n /\ n <= pos'[i] => \E k \in Pending' : channel'[k][1] = i /\ nos[k] = n
    BY <1>10, <1>12
  <2> QED
    BY <1>11, <2>1, <2>2, <2>3, <2>4 DEF Numbers, BatchesOfJob
<1> QED
  BY <1>13

LEMMA DecodeInv == ASSUME IInv, NEW j \in Jobs, Decode(j) PROVE IInv'
<1> DEFINE batch == BatchesOfJob(j)[pos[j] + 1]
<1>0. /\ job[j] = "running" /\ pos[j] < Len(BatchesOfJob(j))
      /\ pos' = [pos EXCEPT ![j] = @ + 1]
      /\ channel' = IF Open THEN Append(channel, <<j, batch>>) ELSE channel
      /\ wasted' = IF Open THEN wasted ELSE [wasted EXCEPT ![j] = @ + 1]
      /\ job' = IF batch = Broken \/ ~Open THEN [job EXCEPT ![j] = "done"] ELSE job
      /\ UNCHANGED <<tasks, chunks, limit, consumer, got, status, remaining, outRows>>
  BY DEF Decode, Open, query
<1>1. batch \in Nat \cup {Broken} /\ Len(BatchesOfJob(j)) \in Nat /\ pos[j] \in Nat
  BY <1>0, BatchesType DEF IInv, TypeInv
<1> HIDE DEF batch
<1>2. TypeInv'
  <2>1. channel' \in Seq(Jobs \X (Nat \cup {Broken}))
    <3>1. <<j, batch>> \in Jobs \X (Nat \cup {Broken})
      BY <1>1
    <3>2. channel \in Seq(Jobs \X (Nat \cup {Broken}))
      BY DEF IInv, TypeInv
    <3> QED
      BY <1>0, <3>1, <3>2
  <2>2. pos' \in [Jobs -> Nat] /\ wasted' \in [Jobs -> Nat]
    <3>1. pos \in [Jobs -> Nat] /\ wasted \in [Jobs -> Nat]
      BY DEF IInv, TypeInv
    <3>2. CASE Open
      BY <1>0, <3>1, <3>2
    <3>3. CASE ~Open
      BY <1>0, <3>1, <3>3
    <3> QED
      BY <3>2, <3>3
  <2>3. job' \in [Jobs -> {"unspawned", "queued", "running", "done"}]
    BY <1>0 DEF IInv, TypeInv
  <2> QED
    BY <1>0, <2>1, <2>2, <2>3, BatchesKept DEF IInv, TypeInv
<1>3. JobsInv'
  <2> SUFFICES ASSUME NEW i \in Jobs PROVE JobOk(i)'
    BY <1>0, BatchesKept DEF JobsInv
  <2>1. CASE i # j
    <3>1. job'[i] = job[i] /\ pos'[i] = pos[i] /\ wasted'[i] = wasted[i]
      BY <1>0, <2>1 DEF IInv, TypeInv
    <3> QED
      BY <1>0, <3>1, JobKept DEF IInv, JobsInv, Open
  <2>2. CASE i = j
    <3>1. /\ pos'[j] = pos[j] + 1
          /\ job'[j] = IF batch = Broken \/ ~Open THEN "done" ELSE "running"
          /\ wasted'[j] = IF Open THEN wasted[j] ELSE wasted[j] + 1
          /\ BatchesOfJob(j)' = BatchesOfJob(j) /\ Open' = Open
      BY <1>0, BatchesKept DEF IInv, TypeInv, Open
    <3>2. wasted[j] \in Nat /\ got[j] \in Nat /\ JobOk(j)
      BY DEF IInv, TypeInv, JobsInv
    <3>3. wasted[j] = 0
      BY <1>0, <3>2 DEF JobOk
    <3>4. BatchesOfJob(j)[pos'[j]] = batch
      BY <3>1 DEF batch
    <3> HIDE DEF Open
    <3>5. JobOk(j)'
      BY <1>0, <1>1, <3>1, <3>2, <3>3, <3>4 DEF JobOk
    <3> QED
      BY <2>2, <3>5
  <2> QED
    BY <2>1, <2>2
<1>4. PoolInv'
  <2>1. \A i \in Jobs : job'[i] = job[i] \/ job'[i] = "done"
    BY <1>0 DEF IInv, TypeInv
  <2> QED
    BY <1>0, <2>1, BatchesKept, RunningShrinks DEF Running
<1>5. ChannelInv'
  <2> SUFFICES ASSUME Open PROVE \E no : Numbers(no)'
    BY <1>0 DEF ChannelInv, Open
  <2>1. /\ Len(channel') = Len(channel) + 1 /\ \A i \in Pending : channel'[i] = channel[i]
        /\ channel'[Len(channel) + 1] = <<j, batch>>
    BY <1>0 DEF IInv, TypeInv, Pending
  <2>2. \A i \in Jobs : pos'[i] = IF i = j THEN pos[i] + 1 ELSE pos[i]
    BY <1>0 DEF IInv, TypeInv
  <2> QED
    BY <1>0, <2>1, <2>2, SendNumbers DEF IInv, batch
<1> QED
  BY <1>0, <1>2, <1>3, <1>4, <1>5 DEF IInv, RowsInv, StatusInv, Open

\* The head of the channel is the first batch of its job that was not received yet.
LEMMA HeadIsNext ==
    ASSUME TypeInv, JobsInv, NEW no, Numbers(no), channel # <<>>, NEW j, j = Head(channel)[1]
    PROVE  /\ j \in Jobs /\ no[1] = got[j] + 1
           /\ got[j] + 1 <= pos[j] /\ got[j] + 1 <= Len(BatchesOfJob(j))
           /\ Head(channel)[2] = BatchesOfJob(j)[got[j] + 1]
           /\ Head(channel)[2] \in Nat \cup {Broken}
<1>1. Len(channel) \in Nat /\ 1 \in Pending /\ Head(channel) = channel[1]
      /\ channel[1] \in Jobs \X (Nat \cup {Broken})
  BY DEF TypeInv, Pending
<1>2. j \in Jobs /\ channel[1][1] = j /\ channel[1][2] \in Nat \cup {Broken}
  BY <1>1
<1>3. /\ got[j] \in Nat /\ pos[j] \in Nat /\ pos[j] <= Len(BatchesOfJob(j))
      /\ Len(BatchesOfJob(j)) \in Nat
  BY <1>2, BatchesType DEF TypeInv, JobsInv, JobOk
<1>4. no[1] \in Nat /\ got[j] < no[1] /\ no[1] <= pos[j]
      /\ channel[1][2] = BatchesOfJob(j)[no[1]]
  BY <1>1, <1>2 DEF Numbers
<1>5. PICK i \in Pending : channel[i][1] = j /\ no[i] = got[j] + 1
  <2>1. got[j] + 1 \in Nat /\ got[j] < got[j] + 1 /\ got[j] + 1 <= pos[j]
    BY <1>3, <1>4
  <2> QED
    BY <1>2, <2>1 DEF Numbers
<1>6. i = 1 \/ no[1] < no[i]
  BY <1>1, <1>2, <1>5 DEF Numbers, Pending
<1>7. no[1] = got[j] + 1
  BY <1>3, <1>4, <1>5, <1>6
<1> QED
  BY <1>1, <1>2, <1>3, <1>4, <1>7

\* A batch that is received gives its number up, and the others keep theirs.
LEMMA RecvNumbers ==
    ASSUME TypeInv, JobsInv, NEW no, Numbers(no), NEW j \in Jobs, Len(channel) > 0,
           channel[1][1] = j, no[1] = got[j] + 1,
           Len(channel') = Len(channel) - 1,
           \A i \in 1..Len(channel) - 1 : channel'[i] = channel[i + 1],
           \A i \in Jobs : got'[i] = IF i = j THEN got[i] + 1 ELSE got[i],
           chunks' = chunks, pos' = pos
    PROVE  \E new : Numbers(new)'
<1> DEFINE new == [i \in 1..Len(channel) - 1 |-> no[i + 1]]
<1>1. Len(channel) \in Nat /\ \A i \in Pending : channel[i] \in Jobs \X (Nat \cup {Broken})
  <2>1. channel \in Seq(Jobs \X (Nat \cup {Broken}))
    BY DEF TypeInv
  <2> QED BY <2>1 DEF Pending
<1>2. /\ Pending' = 1..Len(channel) - 1 /\ 1 \in Pending
      /\ \A i \in Pending' : i \in Nat /\ i + 1 \in Pending /\ 1 < i + 1
                             /\ channel'[i] = channel[i + 1]
      /\ \A i \in Pending : i = 1 \/ (i - 1 \in Pending' /\ (i - 1) + 1 = i)
  BY <1>1 DEF Pending
<1>3. \A i \in Pending : channel[i][1] \in Jobs
  BY <1>1
<1>4. no \in [Pending -> Nat] /\ \A i \in Pending' : new[i] = no[i + 1]
  BY <1>2 DEF Numbers
<1>5. new \in [Pending' -> Nat]
  BY <1>2, <1>4
<1>6. \A i \in Jobs : got[i] \in Nat /\ pos[i] \in Nat
  BY DEF TypeInv
<1> HIDE DEF new
<1>7. ASSUME NEW i \in Pending'
      PROVE  /\ got'[channel'[i][1]] < new[i] /\ new[i] <= pos'[channel'[i][1]]
             /\ channel'[i][2] = BatchesOfJob(channel'[i][1])[new[i]]
  <2>1. /\ channel'[i] = channel[i + 1] /\ new[i] = no[i + 1] /\ i + 1 \in Pending
        /\ channel[i + 1][1] \in Jobs /\ no[i + 1] \in Nat /\ no[1] \in Nat
    BY <1>2, <1>3, <1>4
  <2>2. /\ got[channel[i + 1][1]] < no[i + 1] /\ no[i + 1] <= pos[channel[i + 1][1]]
        /\ channel[i + 1][2] = BatchesOfJob(channel[i + 1][1])[no[i + 1]]
    BY <2>1 DEF Numbers
  <2>3. channel[i + 1][1] = j => got[j] + 1 < no[i + 1]
    <3>1. 1 \in Pending /\ 1 < i + 1
      BY <1>2
    <3>2. channel[1][1] = channel[i + 1][1] => no[1] < no[i + 1]
      BY <2>1, <3>1 DEF Numbers
    <3> QED BY <3>2
  <2>4. got'[channel[i + 1][1]] < no[i + 1]
    BY <1>6, <2>1, <2>2, <2>3
  <2> QED
    BY <2>1, <2>2, <2>4
<1>8. ASSUME NEW i \in Pending', NEW k \in Pending', i < k, channel'[i][1] = channel'[k][1]
      PROVE  new[i] < new[k]
  <2>1. i + 1 \in Pending /\ k + 1 \in Pending /\ i + 1 < k + 1
        /\ channel[i + 1][1] = channel[k + 1][1]
    BY <1>2, <1>8
  <2> QED
    BY <1>4, <2>1 DEF Numbers
<1>9. ASSUME NEW i \in Jobs, NEW n \in Nat, got'[i] < n, n <= pos[i]
      PROVE  \E k \in Pending' : channel'[k][1] = i /\ new[k] = n
  <2>1. got[i] < n
    BY <1>6, <1>9
  <2>2. PICK k \in Pending : channel[k][1] = i /\ no[k] = n
    BY <1>9, <2>1 DEF Numbers
  <2>3. k # 1
    BY <1>6, <1>9, <2>2
  <2>4. k - 1 \in Pending' /\ (k - 1) + 1 = k
    BY <1>2, <2>3
  <2>5. channel'[k - 1] = channel[k] /\ new[k - 1] = no[k]
    BY <1>2, <1>4, <2>4
  <2> QED
    BY <2>2, <2>4, <2>5
<1>10. Jobs' = Jobs /\ pos' = pos /\ \A i : BatchesOfJob(i)' = BatchesOfJob(i)
  BY BatchesKept
<1>11. \A i \in Pending' :
           /\ got'[channel'[i][1]] < new[i] /\ new[i] <= pos'[channel'[i][1]]
           /\ channel'[i][2] = BatchesOfChunk(chunks'[channel'[i][1]])[new[i]]
  BY <1>7 DEF BatchesOfJob
<1>12. \A i, k \in Pending' : i < k /\ channel'[i][1] = channel'[k][1] => new[i] < new[k]
  BY <1>8
<1>13. \A i \in Jobs', n \in Nat : got'[i] < n /\ n <= pos'[i] =>
           \E k \in Pending' : channel'[k][1] = i /\ new[k] = n
  BY <1>9, <1>10
<1> QED
  BY <1>5, <1>11, <1>12, <1>13 DEF Numbers, BatchesOfJob

LEMMA RecvInv == ASSUME IInv, Recv PROVE IInv'
<1> DEFINE j == Head(channel)[1]
           batch == Head(channel)[2]
           rows == IF batch < remaining THEN batch ELSE remaining
<1>0. /\ consumer = "consuming" /\ remaining > 0 /\ channel # <<>> /\ batch # Broken
      /\ channel' = Tail(channel) /\ got' = [got EXCEPT ![j] = @ + 1]
      /\ remaining' = remaining - rows /\ outRows' = outRows + rows
      /\ UNCHANGED <<tasks, chunks, limit, job, pos, wasted, consumer, status>>
  BY DEF Recv, query
<1>1. PICK no : Numbers(no)
  BY <1>0 DEF IInv, ChannelInv, Open
<1>2. /\ j \in Jobs /\ no[1] = got[j] + 1
      /\ got[j] + 1 <= pos[j] /\ batch = BatchesOfJob(j)[got[j] + 1] /\ batch \in Nat
  <2>1. TypeInv /\ JobsInv /\ channel # <<>>
    BY <1>0 DEF IInv
  <2> HIDE DEF j
  <2>2. j = Head(channel)[1]
    BY DEF j
  <2>3. /\ j \in Jobs /\ no[1] = got[j] + 1 /\ got[j] + 1 <= pos[j]
        /\ Head(channel)[2] = BatchesOfJob(j)[got[j] + 1]
        /\ Head(channel)[2] \in Nat \cup {Broken}
    BY <1>1, <2>1, <2>2, HeadIsNext
  <2> QED
    BY <1>0, <2>3
<1>3. Head(channel) = channel[1] /\ Len(channel) \in Nat /\ Len(channel) > 0
      /\ channel[1][1] = j
  <2>1. channel \in Seq(Jobs \X (Nat \cup {Broken})) /\ channel # <<>>
    BY <1>0 DEF IInv, TypeInv
  <2>2. Head(channel) = channel[1] /\ Len(channel) \in Nat /\ Len(channel) > 0
    BY <2>1
  <2> QED BY <2>2
<1> HIDE DEF j, batch
<1>4. rows \in Nat /\ rows <= remaining
  BY <1>2 DEF IInv, TypeInv
<1> HIDE DEF rows
<1>5. TypeInv'
  <2>1. channel' \in Seq(Jobs \X (Nat \cup {Broken}))
    <3>1. channel \in Seq(Jobs \X (Nat \cup {Broken}))
      BY DEF IInv, TypeInv
    <3> QED
      BY <1>0, <3>1
  <2>2. got' \in [Jobs -> Nat] /\ remaining' \in Nat /\ outRows' \in Nat
    BY <1>0, <1>2, <1>4 DEF IInv, TypeInv
  <2> QED
    BY <1>0, <2>1, <2>2, BatchesKept DEF IInv, TypeInv
<1>6. RowsInv'
  BY <1>0, <1>4 DEF IInv, TypeInv, RowsInv
<1>7. \A i \in Jobs : got'[i] = IF i = j THEN got[i] + 1 ELSE got[i]
  BY <1>0 DEF IInv, TypeInv
<1>8. JobsInv'
  <2> SUFFICES ASSUME NEW i \in Jobs PROVE JobOk(i)'
    BY <1>0, BatchesKept DEF JobsInv
  <2>1. CASE i # j
    BY <1>0, <1>7, <2>1, JobKept DEF IInv, JobsInv, Open
  <2>2. CASE i = j
    <3>1. /\ got'[i] = got[i] + 1 /\ got[i] \in Nat /\ pos[i] \in Nat /\ JobOk(i)
          /\ BatchesOfJob(i)' = BatchesOfJob(i) /\ Open' = Open
          /\ pos' = pos /\ job' = job /\ wasted' = wasted
      BY <1>0, <1>7, <2>2, BatchesKept DEF IInv, TypeInv, JobsInv, Open
    <3>2. BatchesOfJob(i)[got[i] + 1] # Broken /\ got[i] + 1 <= pos[i]
      BY <1>0, <1>2, <2>2
    <3>3. \A n \in 1..got'[i] : n \in 1..got[i] \/ n = got[i] + 1
      BY <3>1
    <3> HIDE DEF Open
    <3> QED
      BY <3>1, <3>2, <3>3 DEF JobOk
  <2> QED
    BY <2>1, <2>2
<1>9. PoolInv'
  BY <1>0, BatchesKept, RunningShrinks DEF Running
<1>10. ChannelInv'
  <2>1. Len(channel') = Len(channel) - 1 /\ \A i \in 1..Len(channel) - 1 : channel'[i] = channel[i + 1]
    BY <1>0, <1>3 DEF IInv, TypeInv
  <2>2. \E new : Numbers(new)'
    BY <1>0, <1>1, <1>2, <1>3, <1>7, <2>1, RecvNumbers DEF IInv
  <2> QED
    BY <2>2 DEF ChannelInv
<1> QED
  BY <1>0, <1>5, <1>6, <1>8, <1>9, <1>10 DEF IInv, StatusInv, Open

-----------------------------------------------------------------------------
LEMMA NextInv == ASSUME IInv, [Next]_vars PROVE IInv'
<1>1. CASE UNCHANGED vars
  <2>1. UNCHANGED <<tasks, chunks, job, pos, wasted, channel, consumer, got, status, remaining,
                    limit, outRows>>
    BY <1>1 DEF vars
  <2>2. TypeInv' /\ JobsInv' /\ PoolInv'
    BY <2>1, BatchesKept DEF IInv, TypeInv, JobsInv, JobOk, PoolInv, Running, Open
  <2>3. ChannelInv'
    BY <2>1, NumbersKept DEF IInv, ChannelInv, Open
  <2> QED
    BY <2>1, <2>2, <2>3 DEF IInv, RowsInv, StatusInv, Open
<1>2. CASE RecvError
  BY <1>2, LeaveInv DEF RecvError, Open
<1>3. CASE Disconnected
  BY <1>3, LeaveInv DEF Disconnected, Open
<1>4. CASE LimitReached
  BY <1>4, LeaveInv DEF LimitReached, Open
<1>5. CASE Abandon
  BY <1>5, LeaveInv DEF Abandon, Open
<1> QED
  BY <1>1, <1>2, <1>3, <1>4, <1>5, DropSenderInv, RecvInv, SpawnInv, StartInv, DecodeInv,
     ExhaustedInv DEF Next, Consume, Work, Quiescent

LEMMA ScanInvariant == Spec => []IInv
<1>1. Init => IInv
  BY InitInv
<1>2. IInv /\ [Next]_vars => IInv'
  BY NextInv
<1> QED
  BY <1>1, <1>2, PTL DEF Spec

\* No schedule of the jobs starts more of them than the pool has threads, lets the consumer
\* receive more batches of a job than it has decoded, or takes LimitStream.remaining below
\* zero (ParallelParquetScanStream, LimitStream).
THEOREM TypeCorrect == Spec => []TypeOK
<1>1. IInv => TypeOK
  BY DEF IInv, TypeInv, RowsInv, PoolInv, JobsInv, JobOk, TypeOK
<1> QED
  BY <1>1, ScanInvariant, PTL

\* Once the receiver is dropped, every scan job stops after at most one more batch, however
\* many it has left (the send of the job's loop in ParallelParquetScanStream::new).
THEOREM JobsCancelled == Spec => []CancelledPromptly
<1>1. IInv => CancelledPromptly
  BY DEF IInv, JobsInv, JobOk, CancelledPromptly
<1> QED
  BY <1>1, ScanInvariant, PTL

-----------------------------------------------------------------------------
(* The rows.                                                               *)

\* However chunk_parquet_scan_tasks packs the row groups, its jobs scan exactly the planned
\* ones, in order, and none mixes two files or two partitions.
THEOREM JobsCover == Spec => []ChunksCoverTasks
<1>1. IInv => ChunksCoverTasks
  <2> SUFFICES ASSUME IInv PROVE ChunksCoverTasks
    OBVIOUS
  <2>1. Scans(chunks, tasks)
    BY JobsScan DEF IInv
  <2>2. FlattenSeq(chunks) = tasks
    BY <2>1 DEF Scans
  <2>3. ASSUME NEW j \in Jobs, NEW a \in ToSet(chunks[j]), NEW b \in ToSet(chunks[j])
        PROVE  SourceOf(a) = SourceOf(b)
    <3>1. j \in 1..Len(chunks) /\ chunks[j] \in Seq(RowGroups)
      BY <2>1 DEF Scans, Jobs
    <3>2. OneSource(chunks[j])
      BY <2>1, <3>1 DEF Scans
    <3> DEFINE c == chunks[j]
    <3>3. DOMAIN c = 1..Len(c)
      BY <3>1
    <3>4. PICK m \in 1..Len(c) : a = c[m]
      BY <3>3 DEF ToSet
    <3>5. PICK n \in 1..Len(c) : b = c[n]
      BY <3>3 DEF ToSet
    <3> QED BY <3>2, <3>4, <3>5 DEF OneSource
  <2> QED BY <2>2, <2>3 DEF ChunksCoverTasks
<1> QED
  BY <1>1, ScanInvariant, PTL

\* As long as rows are wanted, the consumer was handed all rows of the batches it received;
\* and a stream that ended had no more of them.
DeliveredInv ==
    /\ IsFiniteSet(RowsUpTo(got))
    /\ remaining > 0 => outRows = Cardinality(RowsUpTo(got))
    /\ status = "end" => remaining > 0 /\ \A j \in Jobs : got[j] = Len(BatchesOfJob(j))

\* What a batch adds.
LEMMA BatchAdds ==
    ASSUME TypeInv, NEW j \in Jobs, NEW b \in Nat, BatchesOfJob(j)[got[j] + 1] = b,
           chunks' = chunks, got' = [got EXCEPT ![j] = @ + 1], IsFiniteSet(RowsUpTo(got))
    PROVE  /\ IsFiniteSet(RowsUpTo(got)')
           /\ Cardinality(RowsUpTo(got)') = Cardinality(RowsUpTo(got)) + b
<1> DEFINE new == RowsOf(j, got[j] + 1)
           old == RowsUpTo(got)
<1>1. IsFiniteSet({<<j, got[j] + 1>>}) /\ Cardinality({<<j, got[j] + 1>>}) = 1
  BY FS_Singleton
<1>2. IsFiniteSet(1..b) /\ Cardinality(1..b) = b
  BY FS_Interval
<1>3. IsFiniteSet(new) /\ Cardinality(new) = b
  <2> DEFINE A == {<<j, got[j] + 1>>}
             B == 1..b
  <2>1. new = A \X B
    BY DEF RowsOf
  <2>2. IsFiniteSet(A) /\ Cardinality(A) = 1 /\ IsFiniteSet(B) /\ Cardinality(B) = b
    BY <1>1, <1>2
  <2> HIDE DEF A, B
  <2>3. IsFiniteSet(A \X B) /\ Cardinality(A \X B) = Cardinality(A) * Cardinality(B)
    BY <2>2, FS_Product
  <2> HIDE DEF new
  <2> QED BY <2>1, <2>2, <2>3
<1>4. /\ Jobs' = Jobs /\ got[j] \in Nat /\ \A i \in Jobs : got[i] \in Nat
      /\ \A i \in Jobs : got'[i] = IF i = j THEN got[j] + 1 ELSE got[i]
      /\ \A i, n : RowsOf(i, n)' = RowsOf(i, n)
  BY BatchesKept DEF TypeInv, RowsOf
<1>5. \A x : x \in old <=> \E i \in Jobs : \E n \in 1..got[i] : x \in RowsOf(i, n)
  BY DEF RowsUpTo
<1>6. \A x : x \in RowsUpTo(got)' <=> \E i \in Jobs : \E n \in 1..got'[i] : x \in RowsOf(i, n)
  BY <1>4 DEF RowsUpTo
<1>7. new \cap old = {}
  <2> SUFFICES ASSUME NEW x, x \in new, x \in old PROVE FALSE
    OBVIOUS
  <2>1. PICK i \in Jobs : \E n \in 1..got[i] : x \in RowsOf(i, n)
    BY <1>5
  <2>2. PICK n \in 1..got[i] : x \in RowsOf(i, n)
    BY <2>1
  <2>3. x[1] = <<i, n>> /\ x[1] = <<j, got[j] + 1>>
    BY <2>2 DEF RowsOf
  <2>4. i = j /\ n = got[j] + 1
    BY <2>3
  <2> QED BY <2>2, <2>4, <1>4
<1>8. RowsUpTo(got)' = old \cup new
  <2>1. ASSUME NEW x, x \in RowsUpTo(got)' PROVE x \in old \cup new
    <3>1. PICK i \in Jobs : \E n \in 1..got'[i] : x \in RowsOf(i, n)
      BY <1>6, <2>1
    <3>2. PICK n \in 1..got'[i] : x \in RowsOf(i, n)
      BY <3>1
    <3>3. n \in 1..got[i] \/ (i = j /\ n = got[j] + 1)
      BY <1>4, <3>2
    <3> QED BY <1>5, <3>2, <3>3
  <2>2. ASSUME NEW x, x \in new PROVE x \in RowsUpTo(got)'
    <3>1. got[j] + 1 \in 1..got'[j]
      BY <1>4
    <3> QED BY <1>6, <2>2, <3>1
  <2>3. ASSUME NEW x, x \in old PROVE x \in RowsUpTo(got)'
    <3>1. PICK i \in Jobs : \E n \in 1..got[i] : x \in RowsOf(i, n)
      BY <1>5, <2>3
    <3>2. PICK n \in 1..got[i] : x \in RowsOf(i, n)
      BY <3>1
    <3>3. n \in 1..got'[i]
      BY <1>4, <3>2
    <3> QED BY <1>6, <3>2, <3>3
  <2> QED BY <2>1, <2>2, <2>3
<1> HIDE DEF new, old
<1>9. /\ IsFiniteSet(old \cup new)
      /\ Cardinality(old \cup new) = Cardinality(old) + Cardinality(new) - Cardinality(old \cap new)
  <2>1. IsFiniteSet(old)
    BY DEF old
  <2> QED BY <1>3, <2>1, FS_Union
<1>10. Cardinality(old \cap new) = 0 /\ Cardinality(old) \in Nat
  <2>1. old \cap new = {}
    BY <1>7
  <2>2. IsFiniteSet(old)
    BY DEF old
  <2> QED BY <2>1, <2>2, FS_EmptySet, FS_CardinalityType
<1>11. Cardinality(old \cup new) = Cardinality(old) + b
  BY <1>3, <1>9, <1>10
<1> QED BY <1>8, <1>9, <1>11 DEF old

\* The channel ends only when every job's batches were received.
LEMMA EndReceived ==
    ASSUME IInv, Disconnected
    PROVE  \A j \in Jobs : got[j] = Len(BatchesOfJob(j))
<1>0. consumer = "consuming" /\ channel = <<>> /\ \A j \in Jobs : job[j] = "done"
  BY DEF Disconnected
<1>1. PICK no : Numbers(no)
  BY <1>0 DEF IInv, ChannelInv, Open
<1> TAKE j \in Jobs
<1>2. /\ got[j] \in Nat /\ pos[j] \in Nat /\ Len(BatchesOfJob(j)) \in Nat /\ JobOk(j)
  BY BatchesType DEF IInv, TypeInv, JobsInv
<1>3. Pending = {}
  BY <1>0 DEF Pending
<1>4. ~(got[j] < pos[j])
  BY <1>1, <1>2, <1>3 DEF Numbers
<1>5. got[j] = pos[j]
  BY <1>2, <1>4 DEF JobOk
<1> QED
  BY <1>0, <1>2, <1>5 DEF JobOk, Open

\* Steps that hand over no rows.
LEMMA DeliveredKept ==
    ASSUME DeliveredInv, UNCHANGED <<chunks, got, remaining, outRows>>, status' # "end" \/ status' = status
    PROVE  DeliveredInv'
<1>1. Jobs' = Jobs /\ RowsUpTo(got)' = RowsUpTo(got)
  BY BatchesKept DEF RowsUpTo, RowsOf
<1>2. \A j : BatchesOfJob(j)' = BatchesOfJob(j)
  BY BatchesKept
<1> QED BY <1>1, <1>2 DEF DeliveredInv

\* Every step keeps it.
LEMMA DeliveredNext == ASSUME IInv, DeliveredInv, [Next]_vars PROVE DeliveredInv'
<1>1. CASE Recv
  <2> DEFINE j == Head(channel)[1]
             batch == Head(channel)[2]
             rows == IF batch < remaining THEN batch ELSE remaining
  <2>0. /\ consumer = "consuming" /\ remaining > 0 /\ channel # <<>> /\ batch # Broken
        /\ got' = [got EXCEPT ![j] = @ + 1]
        /\ remaining' = remaining - rows /\ outRows' = outRows + rows
        /\ UNCHANGED <<chunks, status>>
    BY <1>1 DEF Recv, query
  <2>1. PICK no : Numbers(no)
    BY <2>0 DEF IInv, ChannelInv, Open
  <2>2. j \in Jobs /\ BatchesOfJob(j)[got[j] + 1] = batch /\ batch \in Nat
    <3>1. TypeInv /\ JobsInv
      BY DEF IInv
    <3> HIDE DEF j
    <3>2. j = Head(channel)[1]
      BY DEF j
    <3>3. /\ j \in Jobs /\ Head(channel)[2] = BatchesOfJob(j)[got[j] + 1]
          /\ Head(channel)[2] \in Nat \cup {Broken}
      BY <2>0, <2>1, <3>1, <3>2, HeadIsNext
    <3> QED BY <2>0, <3>3
  <2> HIDE DEF j, batch
  <2>3. /\ IsFiniteSet(RowsUpTo(got)')
        /\ Cardinality(RowsUpTo(got)') = Cardinality(RowsUpTo(got)) + batch
    BY <2>0, <2>2, BatchAdds DEF IInv, DeliveredInv
  <2>4. remaining \in Nat /\ outRows \in Nat
    BY DEF IInv, TypeInv
  <2>5. remaining' > 0 => rows = batch
    BY <2>0, <2>2, <2>4
  <2>6. outRows = Cardinality(RowsUpTo(got))
    BY <2>0 DEF DeliveredInv
  <2>7. status' # "end"
    BY <2>0 DEF IInv, StatusInv, Open
  <2> HIDE DEF rows
  <2> QED BY <2>0, <2>3, <2>5, <2>6, <2>7 DEF DeliveredInv
<1>2. CASE Disconnected
  <2>1. /\ UNCHANGED <<chunks, got, remaining, outRows>> /\ remaining > 0
    BY <1>2 DEF Disconnected, query
  <2>2. Jobs' = Jobs /\ RowsUpTo(got)' = RowsUpTo(got)
    BY <2>1, BatchesKept DEF RowsUpTo, RowsOf
  <2>3. \A j : BatchesOfJob(j)' = BatchesOfJob(j)
    BY <2>1, BatchesKept
  <2>4. \A j \in Jobs : got[j] = Len(BatchesOfJob(j))
    BY <1>2, EndReceived
  <2> QED BY <2>1, <2>2, <2>3, <2>4 DEF DeliveredInv
<1>3. CASE RecvError \/ LimitReached \/ Abandon
  <2>1. UNCHANGED <<chunks, got, remaining, outRows>> /\ status' # "end"
    BY <1>3 DEF RecvError, LimitReached, Abandon, Leave, query
  <2> QED BY <2>1, DeliveredKept
<1>4. CASE DropSender \/ Quiescent \/ UNCHANGED vars
  <2>1. UNCHANGED <<chunks, got, remaining, outRows>> /\ status' = status
    BY <1>4 DEF DropSender, Quiescent, vars, query
  <2> QED BY <2>1, DeliveredKept
<1>5. ASSUME NEW j \in Jobs, Spawn(j) \/ Work(j) PROVE DeliveredInv'
  <2>1. UNCHANGED <<chunks, got, remaining, outRows>> /\ status' = status
    BY <1>5 DEF Spawn, Work, Start, Decode, Exhausted, query
  <2> QED BY <2>1, DeliveredKept
<1> QED
  BY <1>1, <1>2, <1>3, <1>4, <1>5 DEF Next, Consume

\* A query that ends without an error has all rows of the scan or as many as its LIMIT: no
\* failed, cancelled or late job leaves it with fewer (LimitStream::next over
\* ParallelParquetScanStream::next).
THEOREM AnswersComplete == Spec => []AnswerComplete
<1>1. Init => DeliveredInv
  <2> SUFFICES ASSUME Init PROVE DeliveredInv
    OBVIOUS
  <2>1. \A j \in Jobs : 1..got[j] = {}
    BY DEF Init
  <2>2. RowsUpTo(got) = {}
    BY <2>1 DEF RowsUpTo
  <2> QED BY <2>2, FS_EmptySet DEF Init, DeliveredInv
<1>2. IInv /\ DeliveredInv /\ [Next]_vars => DeliveredInv'
  BY DeliveredNext
<1>3. IInv /\ DeliveredInv => AnswerComplete
  <2> SUFFICES ASSUME IInv, DeliveredInv PROVE AnswerComplete
    OBVIOUS
  <2>1. outRows \in Nat /\ remaining \in Nat /\ limit \in Nat /\ outRows + remaining = limit
    BY DEF IInv, TypeInv, RowsInv
  <2>2. outRows <= limit /\ (status = "dropped" /\ remaining = 0 => outRows = limit)
    BY <2>1
  <2>3. ASSUME status = "end" PROVE ~AnyBroken /\ outRows = TotalRows
    <3>1. remaining > 0 /\ \A j \in Jobs : got[j] = Len(BatchesOfJob(j))
      BY <2>3 DEF DeliveredInv
    <3>2. ASSUME NEW j \in Jobs PROVE Broken \notin ToSet(BatchesOfJob(j))
      <4>1. BatchesOfJob(j) \in Seq(Nat \cup {Broken}) /\ JobOk(j)
        BY BatchesType DEF IInv, JobsInv
      <4>2. \A n \in 1..Len(BatchesOfJob(j)) : BatchesOfJob(j)[n] # Broken
        BY <3>1, <4>1 DEF JobOk
      <4> HIDE DEF JobOk
      <4>3. DOMAIN BatchesOfJob(j) = 1..Len(BatchesOfJob(j))
        BY <4>1
      <4> QED BY <4>2, <4>3 DEF ToSet
    <3>3. got = [j \in Jobs |-> Len(BatchesOfJob(j))]
      <4>1. got = [j \in Jobs |-> got[j]]
        BY DEF IInv, TypeInv
      <4> QED BY <3>1, <4>1
    <3> QED BY <3>1, <3>2, <3>3 DEF DeliveredInv, TotalRows, AnyBroken
  <2> QED BY <2>2, <2>3 DEF AnswerComplete
<1> QED
  BY <1>1, <1>2, <1>3, ScanInvariant, PTL DEF Spec

-----------------------------------------------------------------------------
(* The abstract stream.                                                    *)

LEMMA StreamKept ==
    ASSUME UNCHANGED <<chunks, got, status>>
    PROVE  UNCHANGED Stream!vars
  BY BatchesKept DEF Stream!vars, AllBatches

LEMMA StreamJobs ==
    DOMAIN AllBatches = Jobs /\ \A j \in Jobs : AllBatches[j] = BatchesOfJob(j)
  BY DEF AllBatches

LEMMA RecvDelivers == ASSUME IInv, Recv PROVE Stream!Next
<1> DEFINE j == Head(channel)[1]
<1>0. /\ consumer = "consuming" /\ channel # <<>> /\ Head(channel)[2] # Broken
      /\ got' = [got EXCEPT ![j] = @ + 1] /\ UNCHANGED <<chunks, status>>
  BY DEF Recv, query
<1>1. PICK no : Numbers(no)
  BY <1>0 DEF IInv, ChannelInv, Open
<1> HIDE DEF j
<1>2. j = Head(channel)[1] /\ TypeInv /\ JobsInv
  BY DEF j, IInv
<1>3. /\ j \in Jobs /\ got[j] + 1 <= Len(BatchesOfJob(j))
      /\ BatchesOfJob(j)[got[j] + 1] # Broken
  BY <1>0, <1>1, <1>2, HeadIsNext
<1>4. got[j] < Len(BatchesOfJob(j))
  BY <1>2, <1>3, BatchesType DEF TypeInv
<1>5. AllBatches' = AllBatches
  BY <1>0, BatchesKept DEF AllBatches
<1>6. status = "open"
  BY <1>0 DEF IInv, StatusInv, Open
<1>7. Stream!Deliver(j)
  BY <1>0, <1>3, <1>4, <1>5, <1>6, StreamJobs DEF Stream!Deliver, Stream!Left
<1> QED
  BY <1>3, <1>7, StreamJobs DEF Stream!Next

LEMMA RecvErrorFails == ASSUME IInv, RecvError PROVE Stream!Next
<1> DEFINE j == Head(channel)[1]
<1>0. /\ consumer = "consuming" /\ channel # <<>> /\ Head(channel)[2] = Broken
      /\ status' = "error" /\ UNCHANGED <<chunks, got>>
  BY DEF RecvError, Leave, query
<1>1. PICK no : Numbers(no)
  BY <1>0 DEF IInv, ChannelInv, Open
<1> HIDE DEF j
<1>2. j = Head(channel)[1] /\ TypeInv /\ JobsInv
  BY DEF j, IInv
<1>3. /\ j \in Jobs /\ got[j] + 1 <= Len(BatchesOfJob(j))
      /\ BatchesOfJob(j)[got[j] + 1] = Broken
  BY <1>0, <1>1, <1>2, HeadIsNext
<1>4. got[j] < Len(BatchesOfJob(j))
  BY <1>2, <1>3, BatchesType DEF TypeInv
<1>5. AllBatches' = AllBatches
  BY <1>0, BatchesKept DEF AllBatches
<1>6. status = "open"
  BY <1>0 DEF IInv, StatusInv, Open
<1>7. Stream!Fail(j)
  BY <1>0, <1>3, <1>4, <1>5, <1>6, StreamJobs DEF Stream!Fail, Stream!Left
<1> QED
  BY <1>3, <1>7, StreamJobs DEF Stream!Next

LEMMA DisconnectedEnds == ASSUME IInv, Disconnected PROVE Stream!Next
<1>0. /\ consumer = "consuming" /\ channel = <<>> /\ \A j \in Jobs : job[j] = "done"
      /\ status' = "end" /\ UNCHANGED <<chunks, got>>
  BY DEF Disconnected, Leave, query
<1>2. \A j \in Jobs : got[j] = Len(BatchesOfJob(j))
  BY EndReceived
<1>3. AllBatches' = AllBatches
  BY <1>0, BatchesKept DEF AllBatches
<1>4. status = "open"
  BY <1>0 DEF IInv, StatusInv, Open
<1>5. \A j \in Jobs : ~(got[j] < Len(BatchesOfJob(j)))
  BY <1>2, BatchesType DEF IInv
<1>6. Stream!End
  BY <1>0, <1>3, <1>4, <1>5, StreamJobs DEF Stream!End, Stream!Left
<1> QED
  BY <1>6 DEF Stream!Next

LEMMA LeaveDrops ==
    ASSUME IInv, consumer = "consuming", Leave("dropped"), UNCHANGED <<chunks, got>>
    PROVE  Stream!Next
<1>1. AllBatches' = AllBatches
  BY BatchesKept DEF AllBatches
<1>2. status = "open" /\ status' = "dropped"
  BY DEF IInv, StatusInv, Open, Leave
<1>3. Stream!Drop
  BY <1>1, <1>2 DEF Stream!Drop
<1> QED
  BY <1>3 DEF Stream!Next

\* The promise of BatchStream without its liveness part.
StreamSafe == Stream!Init /\ [][Stream!Next]_(Stream!vars)

\* The scan over a shared mpsc channel implements the abstract stream of batches: whatever
\* the order in which pool threads decode and send, the operator above receives the batches
\* of each chunk in order and each once, an end only when it has all of them, and an error
\* only where a chunk has a batch that cannot be decoded and not before the batches in front
\* of it (ParallelParquetScanStream::next).
THEOREM ScanIsStream == Spec => StreamSafe
<1>1. Init => Stream!Init
  BY StreamJobs DEF Init, Stream!Init
<1>2. ASSUME IInv, [Next]_vars PROVE [Stream!Next]_(Stream!vars)
  <2>1. CASE LimitReached
    BY <1>2, <2>1, LeaveDrops DEF LimitReached, query
  <2>2. CASE Abandon
    BY <1>2, <2>2, LeaveDrops DEF Abandon, query
  <2>3. CASE Recv \/ RecvError \/ Disconnected
    BY <1>2, <2>3, RecvDelivers, RecvErrorFails, DisconnectedEnds
  <2>4. CASE DropSender \/ Quiescent \/ UNCHANGED vars
    BY <2>4, StreamKept DEF DropSender, Quiescent, vars, query
  <2>5. CASE \E j \in Jobs : Spawn(j) \/ Work(j)
    BY <2>5, StreamKept DEF Spawn, Work, Start, Decode, Exhausted, query
  <2> QED
    BY <1>2, <2>1, <2>2, <2>3, <2>4, <2>5 DEF Next, Consume
<1> QED
  BY <1>1, <1>2, ScanInvariant, PTL DEF Spec, StreamSafe
=============================================================================
