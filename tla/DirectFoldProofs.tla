-------------------------- MODULE DirectFoldProofs --------------------------
(***************************************************************************)
(* Proofs about DirectFold, for every set of files, any parallelism and    *)
(* any batch size.                                                         *)
(*                                                                         *)
(* First, that every worker is merged once and that a query fails for a    *)
(* cause (FoldInv).  Then, that the groups are those of SQL: a tally counts *)
(* the rows of one key and adds up their values, positive and negative     *)
(* apart.  Tallies form a monoid, Tally(rows, k) is the sum over a         *)
(* sequence of rows, and every operation on a state (consume, merge,       *)
(* finish) is shown to add tallies.  WorkerInv says which tally a worker's *)
(* state has, TotalInv which one the main thread's has.                    *)
(***************************************************************************)
EXTENDS DirectFold, TLAPS

\* Under a name of its own: it defines operators of the community modules again.
WF == INSTANCE WellFoundedInduction

-----------------------------------------------------------------------------
(* Chunks.                                                                 *)

\* Rounded-up division.
LEMMA CeilBounds ==
    ASSUME NEW n \in Nat, NEW d \in Nat \ {0}
    PROVE  /\ Ceil(n, d) \in Nat
           /\ n <= Ceil(n, d) * d
           /\ Ceil(n, d) * d < n + d
           /\ n # 0 => Ceil(n, d) # 0
<1> DEFINE q == (n + d - 1) \div d
           r == (n + d - 1) % d
<1>1. q \in Nat /\ r \in 0 .. d - 1 /\ n + d - 1 = d * q + r
  OBVIOUS
<1> HIDE DEF q, r
<1>2. Ceil(n, d) = q
  BY DEF Ceil, q
<1>3. d * q = q * d /\ q * d \in Nat
  BY <1>1
<1>4. n <= q * d /\ q * d < n + d
  BY <1>1, <1>3
<1>5. ASSUME n # 0 PROVE q # 0
  BY <1>4, <1>5, <1>3
<1> QED
  BY <1>1, <1>2, <1>4, <1>5

\* A chunk has a row group.
LEMMA ChunkSizePositive ==
    ASSUME NEW n \in Nat, NEW t \in Nat \ {0}
    PROVE  ChunkSize(n, t) \in Nat \ {0}
<1>1. CASE n = 0
  BY <1>1 DEF ChunkSize
<1>2. CASE n # 0
  <2>1. Smaller(t, n) \in Nat \ {0}
    BY <1>2 DEF Smaller
  <2> QED
    BY <1>2, <2>1, CeilBounds DEF ChunkSize
<1> QED
  BY <1>1, <1>2

\* The chunks of partition_row_groups_balanced cut the row groups into pieces: every one
\* of them is in exactly one chunk, whatever the number of threads.
THEOREM ChunksPartition ==
    ASSUME NEW n \in Nat, NEW t \in Nat \ {0}, NEW g \in 1 .. n
    PROVE  \E w \in 1 .. ChunkCount(n, t) :
               /\ g \in ChunkFirst(n, t, w) .. ChunkLast(n, t, w)
               /\ \A x \in 1 .. ChunkCount(n, t) :
                      g \in ChunkFirst(n, t, x) .. ChunkLast(n, t, x) => x = w
<1> DEFINE d == ChunkSize(n, t)
           w == Ceil(g, d)
<1>1. d \in Nat \ {0}
  BY ChunkSizePositive
<1> HIDE DEF d
<1>2. w \in Nat /\ g <= w * d /\ w * d < g + d /\ w # 0
  BY <1>1, CeilBounds
<1>3. ChunkCount(n, t) \in Nat /\ n <= ChunkCount(n, t) * d
  BY <1>1, CeilBounds DEF ChunkCount, d
<1> DEFINE c == ChunkCount(n, t)
<1> HIDE DEF w, c
<1>4. \A a, b \in Nat : a < b => (a + 1) * d <= b * d
  BY <1>1
<1>5. \A a \in Nat : (a + 1) * d = a * d + d /\ a * d \in Nat
  BY <1>1
<1>6. w <= c
  <2>1. SUFFICES ASSUME c < w PROVE FALSE
    BY <1>2, <1>3 DEF c
  <2>2. (c + 1) * d <= w * d /\ (c + 1) * d = c * d + d
    BY <2>1, <1>2, <1>3, <1>4, <1>5 DEF c
  <2>3. n <= c * d /\ c * d \in Nat /\ w * d \in Nat
    BY <1>2, <1>3, <1>5 DEF c
  <2> QED
    BY <2>2, <2>3, <1>1, <1>2
<1>7. \A x \in 1 .. c : g \in ChunkFirst(n, t, x) .. ChunkLast(n, t, x)
                        <=> x * d < g + d /\ g <= x * d
  <2> SUFFICES ASSUME NEW x \in 1 .. c
               PROVE  g \in ChunkFirst(n, t, x) .. ChunkLast(n, t, x) <=> x * d < g + d /\ g <= x * d
    OBVIOUS
  <2>0. x \in Nat /\ x - 1 \in Nat /\ x - 1 + 1 = x
    BY <1>3 DEF c
  <2>1. (x - 1) * d \in Nat /\ x * d = (x - 1) * d + d /\ x * d \in Nat
    BY <2>0, <1>5
  <2>2. ChunkFirst(n, t, x) = (x - 1) * d + 1
    BY DEF ChunkFirst, d
  <2>3. ChunkLast(n, t, x) = IF x * d < n THEN x * d ELSE n
    BY DEF ChunkLast, Smaller, d
  <2> QED
    BY <2>1, <2>2, <2>3, <1>1
<1>8. \A x \in 1 .. c : x * d < g + d /\ g <= x * d => x = w
  <2> SUFFICES ASSUME NEW x \in 1 .. c, x * d < g + d, g <= x * d PROVE x = w
    OBVIOUS
  <2>1. x \in Nat /\ x * d \in Nat /\ w * d \in Nat
    BY <1>2, <1>3, <1>5 DEF c
  <2>2. ASSUME x < w PROVE FALSE
    BY <2>1, <2>2, <1>1, <1>2, <1>4, <1>5
  <2>3. ASSUME w < x PROVE FALSE
    BY <2>1, <2>3, <1>1, <1>2, <1>4, <1>5
  <2> QED
    BY <2>1, <2>2, <2>3, <1>2
<1> QED
  <2>1. w \in 1 .. c
    BY <1>2, <1>3, <1>6 DEF c
  <2> QED
    BY <2>1, <1>2, <1>7, <1>8 DEF c

-----------------------------------------------------------------------------
(* The invariant.                                                          *)

\* What makes MergedOnce and FailsForCause inductive: who has sent, who has been taken,
\* and why a worker failed or gave up.
FoldInv ==
    /\ query \in Queries
    /\ attempt \in {"pages", "columns"} /\ phase \in {"joining", "receiving", "done"}
    /\ reader \in [Workers(attempt) -> {"pages", "stream", "page", "column"}]
    /\ attempt = "columns" => \A w \in DOMAIN reader : reader[w] # "pages"
    /\ pos \in [Workers(attempt) -> Nat \ {0}]
    /\ result \in [Workers(attempt) -> {"running", "some", "none", "error"}]
    /\ arrived \in Seq(Workers(attempt)) /\ received \in 0 .. Len(arrived)
    /\ \A w \in DOMAIN result : result[w] # "running" <=> \E i \in 1 .. Len(arrived) : arrived[i] = w
    /\ \A i, j \in 1 .. Len(arrived) : arrived[i] = arrived[j] => i = j
    /\ \A i \in 1 .. received : result[arrived[i]] = "some"
    /\ phase # "joining" => \A w \in DOMAIN result : result[w] # "running"
    /\ answer.kind = "groups" => phase = "done" /\ received = Len(arrived)
    /\ \A w \in DOMAIN result :
          /\ result[w] = "error" => \E i \in DOMAIN Groups : Groups[i].broken
          /\ result[w] = "none" /\ attempt = "columns" => ~File.sumInt64
    /\ FailsForCause

\* What the variables of an attempt start with.
LEMMA StartedType ==
    ASSUME query \in Queries, NEW a \in {"pages", "columns"}
    PROVE  /\ Workers(a) \subseteq Nat \ {0}
           /\ Started(a).reader = [w \in Workers(a) |-> FirstReader(a)]
           /\ Started(a).pos \in [Workers(a) -> Nat \ {0}]
           /\ Started(a).result = [w \in Workers(a) |-> "running"]
<1>1. Len(Groups) \in Nat /\ Threads(a) \in Nat \ {0}
  BY FoldAssumption DEF Groups, File, Threads
<1>2. ChunkSize(Len(Groups), Threads(a)) \in Nat \ {0}
  BY <1>1, ChunkSizePositive
<1>3. ChunkCount(Len(Groups), Threads(a)) \in Nat
  BY <1>1, <1>2, CeilBounds DEF ChunkCount
<1>4. Workers(a) \subseteq Nat \ {0}
  BY <1>3 DEF Workers
<1>5. \A w \in Workers(a) : ChunkFirst(Len(Groups), Threads(a), w) \in Nat \ {0}
  <2> SUFFICES ASSUME NEW w \in Workers(a)
               PROVE  ChunkFirst(Len(Groups), Threads(a), w) \in Nat \ {0}
    OBVIOUS
  <2>1. w - 1 \in Nat
    BY <1>4
  <2>2. (w - 1) * ChunkSize(Len(Groups), Threads(a)) \in Nat
    BY <2>1, <1>2
  <2> QED
    BY <2>2 DEF ChunkFirst
<1> QED
  BY <1>4, <1>5 DEF Started

\* A worker that reads is at a row group of the file.
LEMMA ReadingInFile ==
    ASSUME FoldInv, NEW w \in DOMAIN result, Reading(w)
    PROVE  pos[w] \in DOMAIN Groups
<1>1. Len(Groups) \in Nat /\ DOMAIN Groups = 1 .. Len(Groups)
  BY FoldAssumption DEF FoldInv, Groups, File
<1>2. w \in Workers(attempt) /\ pos[w] \in Nat \ {0}
  BY DEF FoldInv
<1>3. Threads(attempt) \in Nat \ {0}
  BY FoldAssumption DEF FoldInv, Threads
<1>4. ChunkSize(Len(Groups), Threads(attempt)) \in Nat \ {0}
  BY <1>1, <1>3, ChunkSizePositive
<1>5. w * ChunkSize(Len(Groups), Threads(attempt)) \in Nat
  <2>1. w \in Nat
    BY <1>2, StartedType DEF FoldInv
  <2> QED
    BY <2>1, <1>4
<1>6. LastGroup(w) \in Nat /\ LastGroup(w) <= Len(Groups)
  BY <1>1, <1>5 DEF LastGroup, ChunkLast, Smaller
<1> QED
  BY <1>1, <1>2, <1>6 DEF Reading

\* A worker that had not sent sends once.
LEMMA SendKeeps ==
    ASSUME FoldInv, NEW w \in DOMAIN result, Running(w),
           NEW r \in {"some", "none", "error"}, Send(w, r),
           r = "error" => \E i \in DOMAIN Groups : Groups[i].broken,
           r = "none" /\ attempt = "columns" => ~File.sumInt64,
           UNCHANGED <<query, attempt, phase, reader, received, answer>>,
           pos' \in [Workers(attempt) -> Nat \ {0}]
    PROVE  FoldInv'
<1>0. Workers(attempt)' = Workers(attempt) /\ Groups' = Groups /\ File' = File
  BY DEF Workers, Groups, File, Threads
<1>1. w \in Workers(attempt) /\ result[w] = "running" /\ phase = "joining"
  BY DEF Running, FoldInv
<1> DEFINE n == Len(arrived)
<1>2. /\ arrived \in Seq(Workers(attempt)) /\ n \in Nat /\ received \in 0 .. n
      /\ \A i \in 1 .. n : arrived[i] \in Workers(attempt)
      /\ \A x \in Workers(attempt) : result[x] # "running" <=> \E i \in 1 .. n : arrived[i] = x
      /\ \A i, j \in 1 .. n : arrived[i] = arrived[j] => i = j
      /\ \A i \in 1 .. received : result[arrived[i]] = "some"
  BY DEF FoldInv
<1>3. /\ result' \in [Workers(attempt) -> {"running", "some", "none", "error"}]
      /\ result'[w] = r
      /\ \A x \in Workers(attempt) : x # w => result'[x] = result[x]
  BY <1>1 DEF Send, FoldInv
<1>4. /\ arrived' \in Seq(Workers(attempt)) /\ Len(arrived') = n + 1
      /\ arrived'[n + 1] = w
      /\ \A i \in 1 .. n : arrived'[i] = arrived[i]
  BY <1>1, <1>2 DEF Send
<1>5. \A i \in 1 .. n : arrived[i] # w
  BY <1>1, <1>2
<1> HIDE DEF n
<1>a. \A i \in 1 .. n : arrived'[i] = arrived[i]
  BY <1>4
<1>b. \A x \in Workers(attempt) : result[x] # "running" <=> \E i \in 1 .. n : arrived[i] = x
  BY <1>2
<1>c. \A x \in Workers(attempt) : x # w => result'[x] = result[x]
  BY <1>3
<1>d. \A i, j \in 1 .. n : arrived[i] = arrived[j] => i = j
  BY <1>2
<1>6. \A i \in 1 .. Len(arrived') : i \in 1 .. n \/ i = n + 1
  BY <1>2, <1>4
<1>7. \A i \in 1 .. n : i \in 1 .. Len(arrived')
  BY <1>2, <1>4
<1>8. \A x \in Workers(attempt) : result'[x] # "running" <=> \E i \in 1 .. Len(arrived') : arrived'[i] = x
  <2> SUFFICES ASSUME NEW x \in Workers(attempt)
               PROVE  result'[x] # "running" <=> \E i \in 1 .. Len(arrived') : arrived'[i] = x
    OBVIOUS
  <2>1. CASE x = w
    <3>1. n + 1 \in 1 .. Len(arrived')
      BY <1>2, <1>4
    <3> QED
      BY <2>1, <3>1, <1>3, <1>4
  <2>2. CASE x # w
    <3>1. result'[x] # "running" <=> \E i \in 1 .. n : arrived[i] = x
      BY <2>2, <1>b, <1>c
    <3>2. ASSUME NEW i \in 1 .. n, arrived[i] = x
          PROVE  \E k \in 1 .. Len(arrived') : arrived'[k] = x
      BY <3>2, <1>a, <1>7
    <3>3. ASSUME NEW k \in 1 .. Len(arrived'), arrived'[k] = x
          PROVE  \E i \in 1 .. n : arrived[i] = x
      <4>1. k # n + 1
        BY <3>3, <2>2, <1>4
      <4>2. k \in 1 .. n
        BY <4>1, <1>6
      <4> QED
        BY <3>3, <4>2, <1>a
    <3> QED
      BY <3>1, <3>2, <3>3
  <2> QED
    BY <2>1, <2>2
<1>9. \A i, j \in 1 .. Len(arrived') : arrived'[i] = arrived'[j] => i = j
  <2> SUFFICES ASSUME NEW i \in 1 .. Len(arrived'), NEW j \in 1 .. Len(arrived'), arrived'[i] = arrived'[j]
               PROVE  i = j
    OBVIOUS
  <2>1. CASE i \in 1 .. n /\ j \in 1 .. n
    BY <2>1, <1>a, <1>d, Zenon
  <2>2. CASE i = n + 1 \/ j = n + 1
    BY <2>2, <1>4, <1>5, <1>6
  <2> QED
    BY <2>1, <2>2, <1>6
<1>10. received' \in 0 .. Len(arrived') /\ \A i \in 1 .. received' : result'[arrived'[i]] = "some"
  <2>1. received' = received /\ \A i \in 1 .. received : i \in 1 .. n
    BY <1>2
  <2>2. received' \in 0 .. Len(arrived')
    BY <2>1, <1>2, <1>4
  <2>3. ASSUME NEW i \in 1 .. received PROVE result'[arrived'[i]] = "some"
    <3>1. i \in 1 .. n /\ arrived'[i] = arrived[i] /\ arrived[i] # w
      BY <2>1, <1>a, <1>5
    <3>2. arrived[i] \in Workers(attempt) /\ result[arrived[i]] = "some"
      BY <3>1, <1>2
    <3> QED
      BY <3>1, <3>2, <1>c
  <2> QED
    BY <2>1, <2>2, <2>3
<1>11. FailsForCause'
  BY <1>0 DEF FailsForCause, FoldInv
<1>12. \A x \in Workers(attempt) :
          /\ result'[x] = "error" => \E i \in DOMAIN Groups : Groups[i].broken
          /\ result'[x] = "none" /\ attempt = "columns" => ~File.sumInt64
  BY <1>3 DEF FoldInv
<1>13. answer'.kind # "groups" /\ phase' = "joining"
  BY <1>1 DEF FoldInv
<1>14. DOMAIN result' = Workers(attempt)
  BY <1>3
<1> QED
  BY <1>0, <1>3, <1>4, <1>8, <1>9, <1>10, <1>11, <1>12, <1>13, <1>14 DEF FoldInv

\* The invariant, at the start and for each step.
LEMMA InitInv == Init => FoldInv
<1> SUFFICES ASSUME Init PROVE FoldInv
  OBVIOUS
<1>1. query \in Queries /\ attempt = "pages"
  BY DEF Init
<1>2. /\ reader = [w \in Workers("pages") |-> "pages"]
      /\ pos \in [Workers("pages") -> Nat \ {0}]
      /\ result = [w \in Workers("pages") |-> "running"]
  BY <1>1, StartedType DEF Init, FirstReader
<1>3. arrived = <<>> /\ received = 0 /\ phase = "joining" /\ answer = [kind |-> "waiting"]
  BY DEF Init
<1> QED
  BY <1>1, <1>2, <1>3 DEF FoldInv, FailsForCause

\* A reader gives up: the next one starts over, or the worker says so.
LEMMA RefuseInv ==
    ASSUME FoldInv, NEW w \in DOMAIN result, Refuse(w)
    PROVE  FoldInv'
<1>0. Running(w) /\ Reading(w) /\ w \in Workers(attempt) /\ reader[w] \in {"pages", "stream", "page", "column"}
  BY DEF Refuse, Reading, FoldInv
<1>1. Workers(attempt)' = Workers(attempt) /\ Groups' = Groups /\ File' = File
  BY DEF Refuse, Workers, Groups, File, Threads
<1>2. CASE reader[w] \in DOMAIN NextReader
  <2>1. /\ reader' = [reader EXCEPT ![w] = NextReader[reader[w]]]
        /\ pos' = [pos EXCEPT ![w] = ChunkFirst(Len(Groups), Threads(attempt), w)]
        /\ UNCHANGED <<query, attempt, phase, result, arrived, received, answer>>
    BY <1>2 DEF Refuse, FallBack
  <2>2. NextReader[reader[w]] \in {"page", "column"}
    BY <1>2 DEF NextReader
  <2>3. ChunkFirst(Len(Groups), Threads(attempt), w) \in Nat \ {0}
    <3>1. Started(attempt).pos \in [Workers(attempt) -> Nat \ {0}]
      BY StartedType DEF FoldInv
    <3>2. Started(attempt).pos[w] = ChunkFirst(Len(Groups), Threads(attempt), w)
      BY <1>0 DEF Started
    <3> QED
      BY <3>1, <3>2, <1>0
  <2>4. pos' \in [Workers(attempt) -> Nat \ {0}]
    BY <2>1, <2>3, <1>0 DEF FoldInv
  <2>5. /\ reader' \in [Workers(attempt) -> {"pages", "stream", "page", "column"}]
        /\ attempt = "columns" => \A x \in DOMAIN reader' : reader'[x] # "pages"
    BY <2>1, <2>2, <1>0 DEF FoldInv
  <2>6. FailsForCause'
    BY <1>1, <2>1 DEF FoldInv, FailsForCause
  <2>7. UNCHANGED <<query, attempt, phase, result, arrived, received, answer>>
    BY <2>1
  <2> QED
    BY <1>1, <2>4, <2>5, <2>6, <2>7 DEF FoldInv
<1>3. CASE reader[w] \notin DOMAIN NextReader
  <2>1. Send(w, "none") /\ UNCHANGED <<query, attempt, phase, reader, pos, received, answer>>
    BY <1>3 DEF Refuse, FallBack
  <2>2. ASSUME attempt = "columns" PROVE ~File.sumInt64
    <3>1. reader[w] = "column"
      BY <2>2, <1>0, <1>3 DEF FoldInv, NextReader
    <3> QED
      BY <3>1 DEF Refuse, RefusesFile, RefusesGroup
  <2>3. pos' \in [Workers(attempt) -> Nat \ {0}]
    BY <2>1 DEF FoldInv
  <2> QED
    BY <2>1, <2>2, <2>3, <1>0, SendKeeps
<1> QED
  BY <1>2, <1>3

\* A row group that cannot be read ends the worker.
LEMMA ReadErrorInv ==
    ASSUME FoldInv, NEW w \in DOMAIN result, ReadError(w)
    PROVE  FoldInv'
<1>1. Running(w) /\ Reading(w) /\ Groups[pos[w]].broken
  BY DEF ReadError, Reading
<1>2. pos[w] \in DOMAIN Groups
  BY <1>1, ReadingInFile
<1>3. Send(w, "error") /\ UNCHANGED <<query, attempt, phase, reader, pos, received, answer>>
  BY DEF ReadError
<1>4. pos' \in [Workers(attempt) -> Nat \ {0}]
  BY <1>3 DEF FoldInv
<1> QED
  BY <1>1, <1>2, <1>3, <1>4, SendKeeps

\* A row group is folded.
LEMMA ReadGroupInv ==
    ASSUME FoldInv, NEW w \in DOMAIN result, ReadGroup(w)
    PROVE  FoldInv'
<1>1. /\ pos' = [pos EXCEPT ![w] = pos[w] + 1]
      /\ UNCHANGED <<query, attempt, phase, reader, result, arrived, received, answer>>
  BY DEF ReadGroup
<1>2. Workers(attempt)' = Workers(attempt) /\ Groups' = Groups /\ File' = File
  BY <1>1 DEF Workers, Groups, File, Threads
<1>3. pos' \in [Workers(attempt) -> Nat \ {0}]
  BY <1>1 DEF FoldInv
<1>4. FailsForCause'
  BY <1>1, <1>2 DEF FoldInv, FailsForCause
<1> QED
  BY <1>1, <1>2, <1>3, <1>4 DEF FoldInv

\* A worker has read its chunk.
LEMMA EndOfChunkInv ==
    ASSUME FoldInv, NEW w \in DOMAIN result, EndOfChunk(w)
    PROVE  FoldInv'
<1>1. Running(w) /\ Send(w, "some") /\ UNCHANGED <<query, attempt, phase, reader, pos, received, answer>>
  BY DEF EndOfChunk
<1>2. pos' \in [Workers(attempt) -> Nat \ {0}]
  BY <1>1 DEF FoldInv
<1> QED
  BY <1>1, <1>2, SendKeeps

\* The thread scope ends.
LEMMA JoinInv == FoldInv /\ Join => FoldInv'
<1> SUFFICES ASSUME FoldInv, Join PROVE FoldInv'
  OBVIOUS
<1>1. /\ phase = "joining" /\ phase' = "receiving"
      /\ \A w \in DOMAIN result : result[w] # "running"
      /\ UNCHANGED <<query, attempt, reader, pos, result, arrived, received, answer>>
  BY DEF Join, workerVars
<1>2. Workers(attempt)' = Workers(attempt) /\ Groups' = Groups /\ File' = File
  BY <1>1 DEF Workers, Groups, File, Threads
<1>3. FailsForCause'
  BY <1>1, <1>2 DEF FoldInv, FailsForCause
<1> QED
  BY <1>1, <1>2, <1>3 DEF FoldInv

\* A step that only receives or answers.
LEMMA ReceivedInv ==
    ASSUME FoldInv, UNCHANGED <<query, attempt, phase, reader, pos, result, arrived>>,
           received' \in 0 .. Len(arrived), \A i \in 1 .. received' : result[arrived[i]] = "some",
           answer'.kind = "groups" => phase = "done" /\ received' = Len(arrived),
           FailsForCause'
    PROVE  FoldInv'
<1>1. Workers(attempt)' = Workers(attempt) /\ Groups' = Groups /\ File' = File
  BY DEF Workers, Groups, File, Threads
<1>2. /\ query' \in Queries
      /\ attempt' \in {"pages", "columns"} /\ phase' \in {"joining", "receiving", "done"}
      /\ reader' \in [Workers(attempt)' -> {"pages", "stream", "page", "column"}]
      /\ attempt' = "columns" => \A w \in DOMAIN reader' : reader'[w] # "pages"
      /\ pos' \in [Workers(attempt)' -> Nat \ {0}]
      /\ result' \in [Workers(attempt)' -> {"running", "some", "none", "error"}]
      /\ arrived' \in Seq(Workers(attempt)')
  BY <1>1 DEF FoldInv
<1>3. /\ \A w \in DOMAIN result' :
             result'[w] # "running" <=> \E i \in 1 .. Len(arrived') : arrived'[i] = w
      /\ \A i, j \in 1 .. Len(arrived') : arrived'[i] = arrived'[j] => i = j
      /\ phase' # "joining" => \A w \in DOMAIN result' : result'[w] # "running"
  BY DEF FoldInv
<1>4. \A w \in DOMAIN result' :
          /\ result'[w] = "error" => \E i \in DOMAIN Groups' : Groups'[i].broken
          /\ result'[w] = "none" /\ attempt' = "columns" => ~File'.sumInt64
  BY <1>1 DEF FoldInv
<1>5. /\ received' \in 0 .. Len(arrived') /\ \A i \in 1 .. received' : result'[arrived'[i]] = "some"
      /\ answer'.kind = "groups" => phase' = "done" /\ received' = Len(arrived')
  OBVIOUS
<1> QED
  BY <1>2, <1>3, <1>4, <1>5 DEF FoldInv

\* The receive loop takes a state, fails, declines, or starts the columns.
LEMMA TakeInv == FoldInv /\ Take => FoldInv'
<1> SUFFICES ASSUME FoldInv, Take PROVE FoldInv'
  OBVIOUS
<1> DEFINE w == arrived[received + 1]
<1>0. /\ phase = "receiving" /\ received < Len(arrived) /\ received + 1 \in 1 .. Len(arrived)
      /\ w \in DOMAIN result
  <2>1. phase = "receiving" /\ received < Len(arrived)
    BY DEF Take
  <2>2. /\ arrived \in Seq(Workers(attempt)) /\ received \in 0 .. Len(arrived)
        /\ DOMAIN result = Workers(attempt)
    BY DEF FoldInv
  <2>3. received + 1 \in 1 .. Len(arrived)
    BY <2>1, <2>2
  <2> QED
    BY <2>1, <2>2, <2>3
<1> HIDE DEF w
<1>1. CASE /\ result[w] = "some" /\ received' = received + 1
           /\ UNCHANGED <<query, attempt, phase, reader, pos, result, arrived, answer>>
  <2>1. Workers(attempt)' = Workers(attempt) /\ Groups' = Groups /\ File' = File
    BY <1>1 DEF Workers, Groups, File, Threads
  <2>a. /\ received \in 0 .. Len(arrived) /\ \A i \in 1 .. received : result[arrived[i]] = "some"
        /\ answer.kind = "groups" => phase = "done"
        /\ FailsForCause
    BY DEF FoldInv
  <2>2. FailsForCause'
    BY <1>1, <2>1, <2>a DEF FailsForCause
  <2>3. received' \in 0 .. Len(arrived) /\ \A i \in 1 .. received' : result[arrived[i]] = "some"
    BY <1>0, <1>1, <2>a DEF w
  <2>4. answer.kind # "groups"
    BY <1>0, <2>a
  <2> QED
    BY <1>1, <2>2, <2>3, <2>4, ReceivedInv
<1>2. CASE /\ result[w] = "error" /\ phase' = "done" /\ answer' = [kind |-> "error"]
           /\ UNCHANGED <<query, attempt, reader, pos, result, arrived, received>>
  <2>1. Workers(attempt)' = Workers(attempt) /\ Groups' = Groups /\ File' = File
    BY <1>2 DEF Workers, Groups, File, Threads
  <2>2. FailsForCause'
    BY <1>0, <1>2, <2>1 DEF FoldInv, FailsForCause
  <2> QED
    BY <1>0, <1>2, <2>1, <2>2 DEF FoldInv
<1>3. CASE /\ result[w] = "none" /\ attempt = "columns"
           /\ phase' = "done" /\ answer' = [kind |-> "declined"]
           /\ UNCHANGED <<query, attempt, reader, pos, result, arrived, received>>
  <2>1. Workers(attempt)' = Workers(attempt) /\ Groups' = Groups /\ File' = File
    BY <1>3 DEF Workers, Groups, File, Threads
  <2>2. FailsForCause'
    BY <1>0, <1>3, <2>1 DEF FoldInv, FailsForCause
  <2> QED
    BY <1>0, <1>3, <2>1, <2>2 DEF FoldInv
<1>4. CASE StartColumns
  <2>1. /\ attempt' = "columns" /\ phase' = "joining" /\ arrived' = <<>> /\ received' = 0
        /\ UNCHANGED <<query, answer>>
        /\ reader' = Started("columns").reader /\ pos' = Started("columns").pos
        /\ result' = Started("columns").result
    BY <1>4 DEF StartColumns
  <2>2. /\ Started("columns").reader = [x \in Workers("columns") |-> "stream"]
        /\ Started("columns").pos \in [Workers("columns") -> Nat \ {0}]
        /\ Started("columns").result = [x \in Workers("columns") |-> "running"]
    BY StartedType DEF FoldInv, FirstReader
  <2>3. Workers(attempt)' = Workers("columns") /\ Groups' = Groups /\ File' = File
    BY <2>1 DEF Workers, Groups, File, Threads
  <2>4. answer.kind # "groups" /\ FailsForCause'
    BY <1>0, <2>1, <2>3 DEF FoldInv, FailsForCause
  <2> QED
    BY <2>1, <2>2, <2>3, <2>4 DEF FoldInv
<1> QED
  BY <1>1, <1>2, <1>3, <1>4 DEF Take, Return, workerVars, w

\* The main thread finishes.
LEMMA AnswerInv == FoldInv /\ Answer => FoldInv'
<1> SUFFICES ASSUME FoldInv, Answer PROVE FoldInv'
  OBVIOUS
<1>1. /\ phase = "receiving" /\ received = Len(arrived) /\ phase' = "done"
      /\ answer' = [kind |-> "groups", rows |-> Finish(total)]
      /\ UNCHANGED <<query, attempt, reader, pos, result, arrived, received>>
  BY DEF Answer, Return, workerVars
<1>2. Workers(attempt)' = Workers(attempt) /\ Groups' = Groups /\ File' = File
  BY <1>1 DEF Workers, Groups, File, Threads
<1>3. FailsForCause'
  BY <1>1 DEF FailsForCause
<1> QED
  BY <1>1, <1>2, <1>3 DEF FoldInv

\* FoldInv is an invariant.
LEMMA FoldInvariant == Spec => []FoldInv
<1>1. FoldInv /\ [Next]_vars => FoldInv'
  <2> SUFFICES ASSUME FoldInv, [Next]_vars PROVE FoldInv'
    OBVIOUS
  <2>1. CASE Join
    BY <2>1, JoinInv
  <2>2. CASE Take
    BY <2>2, TakeInv
  <2>3. CASE Answer
    BY <2>3, AnswerInv
  <2>4. ASSUME NEW w \in DOMAIN result, Work(w) PROVE FoldInv'
    BY <2>4, RefuseInv, ReadErrorInv, ReadGroupInv, EndOfChunkInv DEF Work
  <2>5. CASE UNCHANGED vars
    <3>1. Workers(attempt)' = Workers(attempt) /\ Groups' = Groups /\ File' = File
      BY <2>5 DEF vars, Workers, Groups, File, Threads
    <3>2. /\ UNCHANGED <<query, attempt, phase, reader, pos, result, arrived, received, answer>>
          /\ received \in 0 .. Len(arrived) /\ \A i \in 1 .. received : result[arrived[i]] = "some"
          /\ answer.kind = "groups" => phase = "done" /\ received = Len(arrived)
          /\ FailsForCause
      BY <2>5 DEF vars, workerVars, FoldInv
    <3>3. FailsForCause'
      BY <3>1, <3>2 DEF FailsForCause
    <3> QED
      BY <3>2, <3>3, ReceivedInv
  <2> QED
    BY <2>1, <2>2, <2>3, <2>4, <2>5 DEF Next
<1> QED
  BY InitInv, <1>1, PTL DEF Spec

\* An answer of the direct fold is made of every worker's complete state, each merged
\* once: for any file, any number of threads and any order in which they send.
THEOREM EveryWorkerMergedOnce == Spec => []MergedOnce
<1>1. FoldInv => MergedOnce
  <2> SUFFICES ASSUME FoldInv, answer.kind = "groups" PROVE MergedOnce
    BY DEF MergedOnce
  <2>1. phase = "done" /\ received = Len(arrived) /\ arrived \in Seq(Workers(attempt))
    BY DEF FoldInv
  <2>2. \A w \in DOMAIN result : \E i \in 1 .. received : arrived[i] = w
    BY <2>1 DEF FoldInv
  <2>3. \A w \in DOMAIN result : result[w] = "some"
    BY <2>2 DEF FoldInv
  <2>4. \A i, j \in 1 .. received : arrived[i] = arrived[j] => i = j
    BY <2>1 DEF FoldInv
  <2> QED
    BY <2>2, <2>3, <2>4 DEF MergedOnce
<1> QED
  BY <1>1, FoldInvariant, PTL

\* The direct fold fails only on a row group that cannot be read, and declines only a sum
\* that is not 64 bits wide, whatever its readers refuse on the way.
THEOREM FoldFailsForCause == Spec => []FailsForCause
<1>1. FoldInv => FailsForCause
  BY DEF FoldInv
<1> QED
  BY <1>1, FoldInvariant, PTL

-----------------------------------------------------------------------------
(* Induction over the naturals, for sets.                                  *)

\* Every nonempty set of naturals has a least element.
LEMMA NatLeast ==
    ASSUME NEW S, S \subseteq Nat, S # {}
    PROVE  \E n \in S : \A m \in S : n <= m
<1> DEFINE R == WF!OpToRel(<, Nat)
<1>1. WF!IsWellFoundedOn(R, Nat)
  BY WF!NatLessThanWellFounded
<1> HIDE DEF R
<1>2. PICK n \in S : \A m \in S : ~(<<m, n>> \in R)
  BY <1>1, WF!WFMin
<1>3. \A m \in S : ~(m < n)
  BY <1>2 DEF R, WF!OpToRel
<1> QED
  BY <1>3

\* A set with 0 that is closed under successor has all naturals.
LEMMA NatInd ==
    ASSUME NEW S, 0 \in S, \A n \in Nat : n \in S => n + 1 \in S
    PROVE  Nat \subseteq S
<1> SUFFICES ASSUME Nat \ S # {} PROVE FALSE
  OBVIOUS
<1>1. PICK n \in Nat \ S : \A m \in Nat \ S : n <= m
  BY NatLeast
<1> QED
  BY <1>1

-----------------------------------------------------------------------------
(* Tallies: what the rows of one key add up to.                            *)

\* The number of rows, the number of values and the sums of the values above and below 0.
Tallies ==
    {n \in [rows : Nat, values : Nat, up : Nat, down : Nat] :
        n.rows = 0 => n.values = 0 /\ n.up = 0 /\ n.down = 0}

NoRows == [rows |-> 0, values |-> 0, up |-> 0, down |-> 0]

Plus(a, b) == [rows |-> a.rows + b.rows, values |-> a.values + b.values,
               up |-> a.up + b.up, down |-> a.down + b.down]

RowTally(row, k) ==
    IF row.k # k THEN NoRows
    ELSE [rows |-> 1, values |-> IF row.v = Null THEN 0 ELSE 1,
          up |-> IF row.v # Null /\ row.v > 0 THEN row.v ELSE 0,
          down |-> IF row.v # Null /\ row.v < 0 THEN -row.v ELSE 0]

\* No part of these values leaves the range of the sum, or they have one sign.
Fits(n) == n.up = 0 \/ n.down = 0 \/ (n.up <= SumMax /\ n.down <= SumMax + 1)

\* Tallies form a commutative monoid.
LEMMA PlusType ==
    ASSUME NEW a \in Tallies, NEW b \in Tallies
    PROVE  Plus(a, b) \in Tallies /\ Plus(a, b) = Plus(b, a)
  BY DEF Tallies, Plus

\* Plus is associative.
LEMMA PlusAssoc ==
    ASSUME NEW a \in Tallies, NEW b \in Tallies, NEW c \in Tallies
    PROVE  Plus(Plus(a, b), c) = Plus(a, Plus(b, c))
  BY DEF Tallies, Plus

\* The last two of three change places.
LEMMA PlusSwap ==
    ASSUME NEW a \in Tallies, NEW b \in Tallies, NEW c \in Tallies
    PROVE  Plus(Plus(a, b), c) = Plus(Plus(a, c), b)
  BY DEF Tallies, Plus

\* The inner two of four change places.
LEMMA PlusPlus ==
    ASSUME NEW a \in Tallies, NEW b \in Tallies, NEW c \in Tallies, NEW d \in Tallies
    PROVE  Plus(Plus(a, b), Plus(c, d)) = Plus(Plus(a, c), Plus(b, d))
  BY DEF Tallies, Plus

\* NoRows is neutral, and the only tally without rows.
LEMMA PlusNothing ==
    ASSUME NEW a \in Tallies
    PROVE  /\ NoRows \in Tallies
           /\ Plus(a, NoRows) = a
           /\ Plus(NoRows, a) = a
           /\ a.rows = 0 => a = NoRows
           /\ a.rows \in Nat
  BY DEF Tallies, Plus, NoRows

\* The parts of a sum.
LEMMA PlusRows ==
    ASSUME NEW a \in Tallies, NEW b \in Tallies
    PROVE  /\ Plus(a, b).rows = a.rows + b.rows
           /\ Plus(a, b).values = a.values + b.values
           /\ a.rows \in Nat /\ b.rows \in Nat
           /\ a.values \in Nat /\ b.values \in Nat
  BY DEF Tallies, Plus

\* A row has a tally.
LEMMA RowTallyType ==
    ASSUME NEW row \in RowSet, NEW k
    PROVE  RowTally(row, k) \in Tallies
  BY FoldAssumption DEF RowSet, RowTally, Tallies, NoRows

-----------------------------------------------------------------------------
(* Adding up a sequence of tallies.                                        *)

Added(s) ==
    LET f[n \in 0 .. Len(s)] == IF n = 0 THEN NoRows ELSE Plus(f[n - 1], s[n])
    IN  f[Len(s)]

\* The function that Added computes, up to n.
Adding(s, f, n) == f = [m \in 0 .. n |-> IF m = 0 THEN NoRows ELSE Plus(f[m - 1], s[m])]

\* There is one for every n.
LEMMA AddingExists ==
    ASSUME NEW s
    PROVE  \A n \in Nat : \E f : Adding(s, f, n)
<1> DEFINE S == {n \in Nat : \E f : Adding(s, f, n)}
<1>1. 0 \in S
  <2> DEFINE f == [m \in 0 .. 0 |-> NoRows]
  <2>1. Adding(s, f, 0)
    BY DEF Adding
  <2> QED
    BY <2>1
<1>2. ASSUME NEW n \in Nat, n \in S PROVE n + 1 \in S
  <2>1. PICK f : Adding(s, f, n)
    BY <1>2
  <2> DEFINE g == [m \in 0 .. (n + 1) |-> IF m <= n THEN f[m] ELSE Plus(f[n], s[n + 1])]
  <2>2. \A m \in 0 .. n : f[m] = IF m = 0 THEN NoRows ELSE Plus(f[m - 1], s[m])
    BY <2>1 DEF Adding
  <2>3. \A m \in 0 .. (n + 1) : g[m] = IF m = 0 THEN NoRows ELSE Plus(g[m - 1], s[m])
    <3> TAKE m \in 0 .. (n + 1)
    <3>1. CASE m <= n
      BY <3>1, <2>2
    <3>2. CASE m = n + 1
      BY <3>2
    <3> QED
      BY <3>1, <3>2
  <2> HIDE DEF g
  <2>4. DOMAIN g = 0 .. (n + 1) /\ g = [m \in DOMAIN g |-> g[m]]
    BY DEF g
  <2>5. Adding(s, g, n + 1)
    BY <2>3, <2>4 DEF Adding
  <2> QED
    BY <2>5
<1> HIDE DEF S
<1>3. Nat \subseteq S
  BY <1>1, <1>2, NatInd
<1> QED
  BY <1>3 DEF S

\* What the first n tallies of a sequence add up to.
PartialTallies(s, f) ==
    /\ f[0] = NoRows
    /\ \A n \in 0 .. Len(s) : f[n] \in Tallies
    /\ \A n \in 0 .. Len(s) - 1 : f[n + 1] = Plus(f[n], s[n + 1])

\* Added is the last of these.
LEMMA AddedIs ==
    ASSUME NEW s \in Seq(Tallies)
    PROVE  \E f : PartialTallies(s, f) /\ Added(s) = f[Len(s)]
<1> DEFINE f == CHOOSE f : Adding(s, f, Len(s))
<1>1. Adding(s, f, Len(s))
  <2>1. Len(s) \in Nat
    OBVIOUS
  <2>2. \E g : Adding(s, g, Len(s))
    BY <2>1, AddingExists, Zenon
  <2> QED
    BY <2>2, Zenon
<1>2. Added(s) = f[Len(s)]
  BY DEF Added, Adding
<1> HIDE DEF f
<1>3. \A m \in 0 .. Len(s) : f[m] = IF m = 0 THEN NoRows ELSE Plus(f[m - 1], s[m])
  BY <1>1 DEF Adding
<1>4. f[0] = NoRows
  BY <1>3
<1>5. \A n \in 0 .. Len(s) - 1 : f[n + 1] = Plus(f[n], s[n + 1])
  <2> TAKE n \in 0 .. Len(s) - 1
  <2>1. n + 1 \in 0 .. Len(s) /\ n + 1 # 0 /\ (n + 1) - 1 = n
    OBVIOUS
  <2> QED
    BY <2>1, <1>3
<1> DEFINE S == {n \in Nat : n <= Len(s) => f[n] \in Tallies}
<1>6. 0 \in S
  BY <1>4 DEF Tallies, NoRows
<1>7. ASSUME NEW n \in Nat, n \in S PROVE n + 1 \in S
  <2> SUFFICES ASSUME n + 1 <= Len(s) PROVE f[n + 1] \in Tallies
    OBVIOUS
  <2>1. f[n] \in Tallies /\ s[n + 1] \in Tallies /\ n \in 0 .. Len(s) - 1
    BY <1>7
  <2>2. f[n + 1] = Plus(f[n], s[n + 1])
    BY <1>5, <2>1
  <2> QED
    BY <2>1, <2>2, PlusType
<1>8. \A n \in 0 .. Len(s) : f[n] \in Tallies
  <2> HIDE DEF S
  <2>1. Nat \subseteq S
    BY <1>6, <1>7, NatInd
  <2> QED
    BY <2>1 DEF S
<1> QED
  BY <1>2, <1>4, <1>5, <1>8 DEF PartialTallies

\* A sum of tallies is a tally.
LEMMA AddedType ==
    ASSUME NEW s \in Seq(Tallies)
    PROVE  Added(s) \in Tallies
<1>1. PICK f : PartialTallies(s, f) /\ Added(s) = f[Len(s)]
  BY AddedIs
<1>2. Len(s) \in 0 .. Len(s)
  OBVIOUS
<1> QED
  BY <1>1, <1>2 DEF PartialTallies

\* Nothing adds up to nothing.
LEMMA AddedNothing ==
    Added(<<>>) = NoRows
<1>1. <<>> \in Seq(Tallies) /\ Len(<<>>) = 0
  OBVIOUS
<1>2. PICK f : PartialTallies(<<>>, f) /\ Added(<<>>) = f[Len(<<>>)]
  BY <1>1, AddedIs, Zenon
<1> QED
  BY <1>1, <1>2 DEF PartialTallies

\* Two sequences one after the other.
LEMMA AddedConcat ==
    ASSUME NEW a \in Seq(Tallies), NEW b \in Seq(Tallies)
    PROVE  Added(a \o b) = Plus(Added(a), Added(b))
<1> DEFINE c == a \o b
<1>1. /\ c \in Seq(Tallies) /\ Len(c) = Len(a) + Len(b) /\ Len(a) \in Nat /\ Len(b) \in Nat
      /\ \A n \in 1 .. Len(a) : c[n] = a[n]
      /\ \A n \in 1 .. Len(b) : c[Len(a) + n] = b[n]
  OBVIOUS
<1> HIDE DEF c
<1>2. PICK f : PartialTallies(a, f) /\ Added(a) = f[Len(a)]
  BY AddedIs
<1>3. PICK g : PartialTallies(b, g) /\ Added(b) = g[Len(b)]
  BY AddedIs
<1>4. PICK h : PartialTallies(c, h) /\ Added(c) = h[Len(c)]
  BY <1>1, AddedIs
<1> DEFINE S == {n \in Nat : n <= Len(a) => h[n] = f[n]}
           U == {n \in Nat : n <= Len(b) => h[Len(a) + n] = Plus(f[Len(a)], g[n])}
<1>5. 0 \in S
  BY <1>2, <1>4 DEF PartialTallies
<1>6. ASSUME NEW n \in Nat, n \in S PROVE n + 1 \in S
  <2> SUFFICES ASSUME n + 1 <= Len(a) PROVE h[n + 1] = f[n + 1]
    OBVIOUS
  <2>1. n \in 0 .. Len(a) - 1 /\ n \in 0 .. Len(c) - 1 /\ n + 1 \in 1 .. Len(a) /\ h[n] = f[n]
    BY <1>1, <1>6
  <2>2. h[n + 1] = Plus(h[n], c[n + 1]) /\ f[n + 1] = Plus(f[n], a[n + 1]) /\ c[n + 1] = a[n + 1]
    BY <1>1, <1>2, <1>4, <2>1 DEF PartialTallies
  <2> QED
    BY <2>1, <2>2
<1>7. h[Len(a)] = f[Len(a)]
  <2> HIDE DEF S
  <2>1. Nat \subseteq S
    BY <1>5, <1>6, NatInd
  <2> QED
    BY <1>1, <2>1 DEF S
<1>a. f[Len(a)] \in Tallies
  BY <1>1, <1>2 DEF PartialTallies
<1>8. 0 \in U
  <2>1. h[Len(a)] = f[Len(a)] /\ g[0] = NoRows
    BY <1>3, <1>7 DEF PartialTallies
  <2>2. Len(a) + 0 = Len(a) /\ Plus(f[Len(a)], NoRows) = f[Len(a)]
    BY <1>1, <1>a, PlusNothing
  <2> QED
    BY <2>1, <2>2
<1>9. ASSUME NEW n \in Nat, n \in U PROVE n + 1 \in U
  <2> SUFFICES ASSUME n + 1 <= Len(b) PROVE h[Len(a) + (n + 1)] = Plus(f[Len(a)], g[n + 1])
    OBVIOUS
  <2>1. /\ n \in 0 .. Len(b) - 1 /\ n \in 0 .. Len(b) /\ n + 1 \in 1 .. Len(b)
        /\ Len(a) + n \in 0 .. Len(c) - 1 /\ Len(a) + (n + 1) = (Len(a) + n) + 1
    BY <1>1
  <2>2. h[Len(a) + n] = Plus(f[Len(a)], g[n])
    BY <1>9, <2>1
  <2>3. /\ h[Len(a) + (n + 1)] = Plus(h[Len(a) + n], c[Len(a) + (n + 1)])
        /\ g[n + 1] = Plus(g[n], b[n + 1]) /\ c[Len(a) + (n + 1)] = b[n + 1]
    BY <1>1, <1>3, <1>4, <2>1 DEF PartialTallies
  <2>4. g[n] \in Tallies /\ b[n + 1] \in Tallies
    <3>1. b[n + 1] \in Tallies
      BY <2>1
    <3>2. g[n] \in Tallies
      BY <1>3, <2>1 DEF PartialTallies
    <3> QED
      BY <3>1, <3>2
  <2>5. Plus(Plus(f[Len(a)], g[n]), b[n + 1]) = Plus(f[Len(a)], Plus(g[n], b[n + 1]))
    BY <2>4, <1>a, PlusAssoc
  <2> HIDE DEF U
  <2> QED
    BY <2>2, <2>3, <2>5
<1>10. h[Len(a) + Len(b)] = Plus(f[Len(a)], g[Len(b)])
  <2> HIDE DEF U
  <2>1. Nat \subseteq U
    BY <1>8, <1>9, NatInd
  <2> QED
    BY <1>1, <2>1 DEF U
<1> QED
  BY <1>1, <1>2, <1>3, <1>4, <1>10 DEF c

\* c adds a and b place by place.
PlusSeq(a, b, c) ==
    /\ a \in Seq(Tallies) /\ b \in Seq(Tallies) /\ c \in Seq(Tallies)
    /\ Len(b) = Len(a) /\ Len(c) = Len(a)
    /\ \A n \in 1 .. Len(a) : c[n] = Plus(a[n], b[n])

\* A sum of sequences.
LEMMA AddedPlus ==
    ASSUME NEW a, NEW b, NEW c, PlusSeq(a, b, c)
    PROVE  Added(c) = Plus(Added(a), Added(b))
<1>1. PICK f : PartialTallies(a, f) /\ Added(a) = f[Len(a)]
  BY AddedIs DEF PlusSeq
<1>2. PICK g : PartialTallies(b, g) /\ Added(b) = g[Len(b)]
  BY AddedIs DEF PlusSeq
<1>3. PICK h : PartialTallies(c, h) /\ Added(c) = h[Len(c)]
  BY AddedIs DEF PlusSeq
<1>4. /\ Len(a) \in Nat /\ Len(b) = Len(a) /\ Len(c) = Len(a)
      /\ \A n \in 1 .. Len(a) : a[n] \in Tallies /\ b[n] \in Tallies /\ c[n] = Plus(a[n], b[n])
  BY DEF PlusSeq
<1> DEFINE S == {n \in Nat : n <= Len(a) => h[n] = Plus(f[n], g[n])}
<1>5. 0 \in S
  <2>1. f[0] = NoRows /\ g[0] = NoRows /\ h[0] = NoRows
    BY <1>1, <1>2, <1>3 DEF PartialTallies
  <2>2. Plus(NoRows, NoRows) = NoRows
    BY DEF Plus, NoRows
  <2> QED
    BY <2>1, <2>2
<1>6. ASSUME NEW n \in Nat, n \in S PROVE n + 1 \in S
  <2> SUFFICES ASSUME n + 1 <= Len(a) PROVE h[n + 1] = Plus(f[n + 1], g[n + 1])
    OBVIOUS
  <2>1. n \in 0 .. Len(a) - 1 /\ n \in 0 .. Len(a) /\ n + 1 \in 1 .. Len(a) /\ h[n] = Plus(f[n], g[n])
    BY <1>4, <1>6
  <2>2. /\ h[n + 1] = Plus(h[n], c[n + 1]) /\ f[n + 1] = Plus(f[n], a[n + 1])
        /\ g[n + 1] = Plus(g[n], b[n + 1]) /\ f[n] \in Tallies /\ g[n] \in Tallies
    BY <1>1, <1>2, <1>3, <1>4, <2>1 DEF PartialTallies
  <2>3. a[n + 1] \in Tallies /\ b[n + 1] \in Tallies /\ c[n + 1] = Plus(a[n + 1], b[n + 1])
    BY <1>4, <2>1
  <2>4. Plus(Plus(f[n], g[n]), Plus(a[n + 1], b[n + 1])) = Plus(Plus(f[n], a[n + 1]), Plus(g[n], b[n + 1]))
    BY <2>2, <2>3, PlusPlus
  <2> HIDE DEF S
  <2> QED
    BY <2>1, <2>2, <2>3, <2>4
<1> HIDE DEF S
<1>7. Nat \subseteq S
  BY <1>5, <1>6, NatInd
<1> QED
  BY <1>1, <1>2, <1>3, <1>4, <1>7 DEF S

\* One tally among nothing.
Only(s, i) ==
    /\ s \in Seq(Tallies) /\ i \in 1 .. Len(s)
    /\ \A n \in 1 .. Len(s) : n # i => s[n] = NoRows

\* A sequence with one tally adds up to it.
LEMMA AddedOne ==
    ASSUME NEW s, NEW i, Only(s, i)
    PROVE  Added(s) = s[i]
<1>1. PICK f : PartialTallies(s, f) /\ Added(s) = f[Len(s)]
  BY AddedIs DEF Only
<1>2. /\ Len(s) \in Nat /\ i \in 1 .. Len(s)
      /\ \A n \in 1 .. Len(s) : s[n] \in Tallies
      /\ \A n \in 1 .. Len(s) : n # i => s[n] = NoRows
  BY DEF Only
<1> DEFINE S == {n \in Nat : n <= Len(s) => f[n] = IF n < i THEN NoRows ELSE s[i]}
<1>3. 0 \in S
  BY <1>1, <1>2 DEF PartialTallies
<1>4. ASSUME NEW n \in Nat, n \in S PROVE n + 1 \in S
  <2> SUFFICES ASSUME n + 1 <= Len(s) PROVE f[n + 1] = IF n + 1 < i THEN NoRows ELSE s[i]
    OBVIOUS
  <2>1. /\ n \in 0 .. Len(s) - 1 /\ n + 1 \in 1 .. Len(s)
        /\ f[n] = IF n < i THEN NoRows ELSE s[i]
    BY <1>2, <1>4
  <2>2. f[n + 1] = Plus(f[n], s[n + 1])
    BY <1>1, <2>1 DEF PartialTallies
  <2>3. s[n + 1] \in Tallies /\ s[i] \in Tallies
    BY <1>2, <2>1
  <2> HIDE DEF S
  <2>4. CASE n + 1 = i
    <3>1. f[n] = NoRows /\ ~(n + 1 < i)
      BY <2>1, <2>4, <1>2
    <3> QED
      BY <2>2, <2>3, <2>4, <3>1, PlusNothing
  <2>5. CASE n + 1 # i
    <3>1. s[n + 1] = NoRows /\ (n < i <=> n + 1 < i)
      BY <2>1, <2>5, <1>2
    <3>2. f[n] \in Tallies
      BY <2>1, <2>3, PlusNothing
    <3> QED
      BY <2>1, <2>2, <3>1, <3>2, PlusNothing
  <2> QED
    BY <2>4, <2>5
<1> HIDE DEF S
<1>5. Nat \subseteq S
  BY <1>3, <1>4, NatInd
<1> QED
  BY <1>1, <1>2, <1>5 DEF S

\* There are rows, and values, if one of the tallies has some.
LEMMA AddedPositive ==
    ASSUME NEW s \in Seq(Tallies)
    PROVE  /\ Added(s).rows = 0 <=> \A i \in 1 .. Len(s) : s[i].rows = 0
           /\ Added(s).values = 0 <=> \A i \in 1 .. Len(s) : s[i].values = 0
<1>1. PICK f : PartialTallies(s, f) /\ Added(s) = f[Len(s)]
  BY AddedIs
<1>2. Len(s) \in Nat /\ \A n \in 1 .. Len(s) : s[n] \in Tallies
  OBVIOUS
<1> DEFINE R(n) == f[n].rows = 0 <=> \A i \in 1 .. n : s[i].rows = 0
           V(n) == f[n].values = 0 <=> \A i \in 1 .. n : s[i].values = 0
           S == {n \in Nat : n <= Len(s) => R(n) /\ V(n)}
<1>3. 0 \in S
  <2>1. f[0] = NoRows /\ 1 .. 0 = {}
    BY <1>1 DEF PartialTallies
  <2>2. NoRows.rows = 0 /\ NoRows.values = 0
    BY DEF NoRows
  <2> QED
    BY <2>1, <2>2
<1>4. ASSUME NEW n \in Nat, n \in S PROVE n + 1 \in S
  <2> SUFFICES ASSUME n + 1 <= Len(s) PROVE R(n + 1) /\ V(n + 1)
    OBVIOUS
  <2>1. n \in 0 .. Len(s) - 1 /\ n \in 0 .. Len(s) /\ n + 1 \in 1 .. Len(s) /\ R(n) /\ V(n)
    BY <1>2, <1>4
  <2>2. f[n + 1] = Plus(f[n], s[n + 1]) /\ f[n] \in Tallies /\ s[n + 1] \in Tallies
    BY <1>1, <1>2, <2>1 DEF PartialTallies
  <2>3. /\ f[n + 1].rows = f[n].rows + s[n + 1].rows
        /\ f[n + 1].values = f[n].values + s[n + 1].values
        /\ f[n].rows \in Nat /\ s[n + 1].rows \in Nat /\ f[n].values \in Nat /\ s[n + 1].values \in Nat
    BY <2>2, PlusRows
  <2>4. \A i : i \in 1 .. (n + 1) <=> i \in 1 .. n \/ i = n + 1
    OBVIOUS
  <2>5. R(n + 1)
    <3>1. f[n + 1].rows = 0 <=> f[n].rows = 0 /\ s[n + 1].rows = 0
      BY <2>3
    <3> QED
      BY <2>1, <2>4, <3>1
  <2>6. V(n + 1)
    <3>1. f[n + 1].values = 0 <=> f[n].values = 0 /\ s[n + 1].values = 0
      BY <2>3
    <3> QED
      BY <2>1, <2>4, <3>1
  <2> QED
    BY <2>5, <2>6
<1> HIDE DEF S
<1>5. Nat \subseteq S
  BY <1>3, <1>4, NatInd
<1>6. R(Len(s)) /\ V(Len(s))
  <2>1. Len(s) \in S /\ Len(s) <= Len(s)
    BY <1>2, <1>5
  <2> QED
    BY <2>1 DEF S
<1> QED
  BY <1>1, <1>6

-----------------------------------------------------------------------------
(* What the rows of a sequence add up to for one key.                      *)

RowTallies(rows, k) == [i \in DOMAIN rows |-> RowTally(rows[i], k)]
Tally(rows, k) == Added(RowTallies(rows, k))

\* A function on 1..n with values in S is a sequence.
LEMMA IsSequence ==
    ASSUME NEW S, NEW f, NEW n \in Nat, f = [i \in 1 .. n |-> f[i]], \A i \in 1 .. n : f[i] \in S
    PROVE  f \in Seq(S) /\ Len(f) = n /\ DOMAIN f = 1 .. n
  OBVIOUS

\* Sequences with the same elements are equal.
LEMMA SameSeq ==
    ASSUME NEW S, NEW a \in Seq(S), NEW b \in Seq(S), Len(a) = Len(b),
           \A i \in 1 .. Len(a) : a[i] = b[i]
    PROVE  a = b
  OBVIOUS

\* The elements of a concatenation.
LEMMA Concat ==
    ASSUME NEW S, NEW a \in Seq(S), NEW b \in Seq(S)
    PROVE  /\ a \o b \in Seq(S) /\ Len(a \o b) = Len(a) + Len(b)
           /\ \A i \in 1 .. Len(a) : (a \o b)[i] = a[i]
           /\ \A i \in 1 .. Len(b) : (a \o b)[Len(a) + i] = b[i]
           /\ \A i \in 1 .. (Len(a) + Len(b)) :
                 i \in 1 .. Len(a) \/ \E j \in 1 .. Len(b) : i = Len(a) + j
<1>1. Len(a) \in Nat /\ Len(b) \in Nat
  OBVIOUS
<1>2. \A i \in 1 .. (Len(a) + Len(b)) : i \in 1 .. Len(a) \/ \E j \in 1 .. Len(b) : i = Len(a) + j
  <2> TAKE i \in 1 .. (Len(a) + Len(b))
  <2> SUFFICES ASSUME i \notin 1 .. Len(a) PROVE \E j \in 1 .. Len(b) : i = Len(a) + j
    OBVIOUS
  <2>1. i - Len(a) \in 1 .. Len(b) /\ i = Len(a) + (i - Len(a))
    BY <1>1
  <2> QED
    BY <2>1
<1> QED
  BY <1>2

\* A sequence with the elements of two others, one after the other.
IsConcat(S, a, b, c) ==
    /\ a \in Seq(S) /\ b \in Seq(S) /\ c \in Seq(S) /\ Len(c) = Len(a) + Len(b)
    /\ \A i \in 1 .. Len(a) : c[i] = a[i]
    /\ \A i \in 1 .. Len(b) : c[Len(a) + i] = b[i]

\* It is their concatenation.
LEMMA ConcatIs ==
    ASSUME NEW S, NEW a, NEW b, NEW c, IsConcat(S, a, b, c)
    PROVE  c = a \o b
<1> USE DEF IsConcat
<1> DEFINE d == a \o b
<1>1. /\ d \in Seq(S) /\ Len(d) = Len(a) + Len(b)
      /\ \A i \in 1 .. Len(a) : d[i] = a[i]
      /\ \A i \in 1 .. Len(b) : d[Len(a) + i] = b[i]
      /\ \A i \in 1 .. (Len(a) + Len(b)) :
            i \in 1 .. Len(a) \/ \E j \in 1 .. Len(b) : i = Len(a) + j
  BY Concat
<1> HIDE DEF d
<1>2. \A i \in 1 .. Len(c) : c[i] = d[i]
  <2> TAKE i \in 1 .. Len(c)
  <2>1. CASE i \in 1 .. Len(a)
    BY <1>1, <2>1
  <2>2. CASE i \notin 1 .. Len(a)
    <3>1. PICK j \in 1 .. Len(b) : i = Len(a) + j
      BY <1>1, <2>2
    <3>2. c[Len(a) + j] = b[j] /\ d[Len(a) + j] = b[j]
      BY <1>1
    <3> QED
      BY <3>1, <3>2
  <2> QED
    BY <2>1, <2>2
<1>3. c = d
  BY <1>1, <1>2, SameSeq
<1> QED
  BY <1>3 DEF d

\* The rows' tallies, one by one.
LEMMA RowTalliesType ==
    ASSUME NEW rows \in Seq(RowSet), NEW k
    PROVE  /\ RowTallies(rows, k) \in Seq(Tallies)
           /\ Len(RowTallies(rows, k)) = Len(rows)
           /\ \A i \in 1 .. Len(rows) : RowTallies(rows, k)[i] = RowTally(rows[i], k)
           /\ Tally(rows, k) \in Tallies
<1> DEFINE f == RowTallies(rows, k)
<1>1. Len(rows) \in Nat /\ DOMAIN rows = 1 .. Len(rows) /\ \A i \in 1 .. Len(rows) : rows[i] \in RowSet
  OBVIOUS
<1>2. \A i \in 1 .. Len(rows) : f[i] = RowTally(rows[i], k)
  BY <1>1 DEF RowTallies
<1>3. f = [i \in 1 .. Len(rows) |-> f[i]]
  BY <1>1 DEF RowTallies
<1> HIDE DEF f
<1>4. \A i \in 1 .. Len(rows) : f[i] \in Tallies
  BY <1>1, <1>2, RowTallyType
<1>5. f \in Seq(Tallies) /\ Len(f) = Len(rows)
  BY <1>1, <1>3, <1>4, IsSequence
<1>6. Added(f) \in Tallies
  BY <1>5, AddedType
<1> QED
  BY <1>2, <1>5, <1>6 DEF f, Tally

\* No rows have no tally.
LEMMA TallyNothing ==
    ASSUME NEW k
    PROVE  Tally(<<>>, k) = NoRows
<1>1. RowTallies(<<>>, k) = <<>>
  BY DEF RowTallies
<1> QED
  BY <1>1, AddedNothing DEF Tally

\* The tally of a concatenation is the sum.
LEMMA TallyConcat ==
    ASSUME NEW a \in Seq(RowSet), NEW b \in Seq(RowSet), NEW k
    PROVE  Tally(a \o b, k) = Plus(Tally(a, k), Tally(b, k))
<1> DEFINE c == a \o b
           ta == RowTallies(a, k)
           tb == RowTallies(b, k)
           tc == RowTallies(c, k)
<1>1. /\ c \in Seq(RowSet) /\ Len(c) = Len(a) + Len(b) /\ Len(a) \in Nat /\ Len(b) \in Nat
      /\ \A i \in 1 .. Len(a) : c[i] = a[i] /\ i \in 1 .. Len(c)
      /\ \A i \in 1 .. Len(b) : c[Len(a) + i] = b[i] /\ Len(a) + i \in 1 .. Len(c)
  OBVIOUS
<1> HIDE DEF c
<1>2. /\ ta \in Seq(Tallies) /\ Len(ta) = Len(a) /\ \A i \in 1 .. Len(a) : ta[i] = RowTally(a[i], k)
      /\ tb \in Seq(Tallies) /\ Len(tb) = Len(b) /\ \A i \in 1 .. Len(b) : tb[i] = RowTally(b[i], k)
      /\ tc \in Seq(Tallies) /\ Len(tc) = Len(c) /\ \A i \in 1 .. Len(c) : tc[i] = RowTally(c[i], k)
  BY <1>1, RowTalliesType
<1> HIDE DEF ta, tb, tc
<1>3. IsConcat(Tallies, ta, tb, tc)
  BY <1>1, <1>2 DEF IsConcat
<1>4. tc = ta \o tb
  BY <1>3, ConcatIs
<1>5. Added(ta \o tb) = Plus(Added(ta), Added(tb))
  BY <1>2, AddedConcat
<1> QED
  BY <1>4, <1>5 DEF Tally, ta, tb, tc, c

\* A key has rows if it occurs, and values if it occurs beside one.
LEMMA TallyPositive ==
    ASSUME NEW rows \in Seq(RowSet), NEW k
    PROVE  /\ Tally(rows, k).rows = 0 <=> \A i \in 1 .. Len(rows) : rows[i].k # k
           /\ Tally(rows, k).values = 0 <=> \A i \in 1 .. Len(rows) : rows[i].k = k => rows[i].v = Null
<1> DEFINE s == RowTallies(rows, k)
<1>1. s \in Seq(Tallies) /\ Len(s) = Len(rows) /\ \A i \in 1 .. Len(rows) : s[i] = RowTally(rows[i], k)
  BY RowTalliesType
<1>2. Tally(rows, k) = Added(s)
  BY DEF Tally
<1> HIDE DEF s
<1>a. \A row : /\ RowTally(row, k).rows = 0 <=> row.k # k
               /\ RowTally(row, k).values = 0 <=> (row.k = k => row.v = Null)
  <2> TAKE row
  <2>1. CASE row.k # k
    BY <2>1 DEF RowTally, NoRows
  <2>2. CASE row.k = k
    BY <2>2 DEF RowTally
  <2> QED
    BY <2>1, <2>2
<1>3. \A i \in 1 .. Len(rows) : s[i].rows = 0 <=> rows[i].k # k
  BY <1>1, <1>a
<1>4. \A i \in 1 .. Len(rows) : s[i].values = 0 <=> (rows[i].k = k => rows[i].v = Null)
  BY <1>1, <1>a
<1>5. /\ Added(s).rows = 0 <=> \A i \in 1 .. Len(s) : s[i].rows = 0
      /\ Added(s).values = 0 <=> \A i \in 1 .. Len(s) : s[i].values = 0
  BY <1>1, AddedPositive
<1> QED
  BY <1>1, <1>2, <1>3, <1>4, <1>5

-----------------------------------------------------------------------------
(* Groups.                                                                 *)

\* A group's accumulators have the tally n, the sum as far as it cannot leave i64.
Sums(g, n) ==
    /\ g.count = n.rows /\ g.present = n.values /\ g.sum \in Int
    /\ Fits(n) => g.sum = Saturate(n.up - n.down)

\* The groups have the tally n for the key k.
Shows(groups, k, n) ==
    IF n.rows = 0 THEN k \notin DOMAIN groups
    ELSE k \in DOMAIN groups /\ Sums(groups[k], n)

SaturatesOnce(u, v, x, y) ==
    Saturate(Saturate(u - x) + Saturate(v - y)) = Saturate((u + v) - (x + y))

\* Saturating the parts and then the sum is saturating the sum, if no part leaves the range
\* against the other's sign.
LEMMA SaturateTwice ==
    ASSUME NEW u \in Nat, NEW v \in Nat, NEW x \in Nat, NEW y \in Nat,
           u + v = 0 \/ x + y = 0 \/ (u + v <= SumMax /\ x + y <= SumMax + 1)
    PROVE  SaturatesOnce(u, v, x, y)
<1> USE DEF SaturatesOnce
<1>0. SumMax \in Nat
  BY FoldAssumption
<1>1. CASE u + v = 0
  <2>1. u = 0 /\ v = 0
    BY <1>1
  <2>2. Saturate(-x) = (IF -x < -SumMax - 1 THEN -SumMax - 1 ELSE -x) /\
        Saturate(-y) = (IF -y < -SumMax - 1 THEN -SumMax - 1 ELSE -y)
    BY <1>0 DEF Saturate
  <2>3. 0 - x = -x /\ 0 - y = -y /\ (0 + 0) - (x + y) = -x - y
    OBVIOUS
  <2> QED
    BY <1>0, <2>1, <2>2, <2>3 DEF Saturate
<1>2. CASE x + y = 0
  <2>1. x = 0 /\ y = 0
    BY <1>2
  <2>2. Saturate(u) = (IF u > SumMax THEN SumMax ELSE u) /\
        Saturate(v) = (IF v > SumMax THEN SumMax ELSE v)
    BY <1>0 DEF Saturate
  <2>3. u - 0 = u /\ v - 0 = v /\ (u + v) - (0 + 0) = u + v
    OBVIOUS
  <2> QED
    BY <1>0, <2>1, <2>2, <2>3 DEF Saturate
<1>3. CASE u + v <= SumMax /\ x + y <= SumMax + 1
  <2>1. Saturate(u - x) = u - x /\ Saturate(v - y) = v - y
    BY <1>0, <1>3 DEF Saturate
  <2>2. (u - x) + (v - y) = (u + v) - (x + y)
    OBVIOUS
  <2> QED
    BY <2>1, <2>2
<1> QED
  BY <1>1, <1>2, <1>3

\* Saturating is adding, for values that fit together.
LEMMA SaturateAdds ==
    ASSUME NEW a \in Tallies, NEW b \in Tallies, Fits(Plus(a, b))
    PROVE  /\ Fits(a) /\ Fits(b)
           /\ Saturate(Saturate(a.up - a.down) + Saturate(b.up - b.down))
              = Saturate(Plus(a, b).up - Plus(a, b).down)
<1>1. /\ a.up \in Nat /\ a.down \in Nat /\ b.up \in Nat /\ b.down \in Nat /\ SumMax \in Nat
      /\ Plus(a, b).up = a.up + b.up /\ Plus(a, b).down = a.down + b.down
  BY FoldAssumption DEF Tallies, Plus
<1>2. \A u, v, x, y, m \in Nat :
          u + v = 0 \/ x + y = 0 \/ (u + v <= m /\ x + y <= m + 1) =>
          /\ u = 0 \/ x = 0 \/ (u <= m /\ x <= m + 1)
          /\ v = 0 \/ y = 0 \/ (v <= m /\ y <= m + 1)
  OBVIOUS
<1>3. Fits(a) /\ Fits(b)
  BY <1>1, <1>2 DEF Fits
<1>4. \/ a.up + b.up = 0 \/ a.down + b.down = 0
      \/ a.up + b.up <= SumMax /\ a.down + b.down <= SumMax + 1
  BY <1>1 DEF Fits
<1>5. SaturatesOnce(a.up, b.up, a.down, b.down)
  BY <1>1, <1>4, SaturateTwice
<1> QED
  BY <1>1, <1>3, <1>5 DEF SaturatesOnce

\* Saturating gives an integer.
LEMMA SaturateType ==
    ASSUME NEW n \in Int
    PROVE  Saturate(n) \in Int
  BY FoldAssumption DEF Saturate

\* Merging two groups adds their tallies.
LEMMA MergeGroupSums ==
    ASSUME NEW a \in Tallies, NEW b \in Tallies, NEW g, NEW h, Sums(g, a), Sums(h, b)
    PROVE  Sums(MergeGroup(g, h), Plus(a, b))
<1>1. /\ MergeGroup(g, h).count = g.count + h.count
      /\ MergeGroup(g, h).present = g.present + h.present
      /\ MergeGroup(g, h).sum = Saturate(g.sum + h.sum)
  BY DEF MergeGroup
<1>2. g.sum \in Int /\ h.sum \in Int /\ Saturate(g.sum + h.sum) \in Int
  BY SaturateType DEF Sums
<1>3. ASSUME Fits(Plus(a, b)) PROVE Saturate(g.sum + h.sum) = Saturate(Plus(a, b).up - Plus(a, b).down)
  BY <1>3, SaturateAdds DEF Sums
<1>4. Plus(a, b).rows = g.count + h.count /\ Plus(a, b).values = g.present + h.present
  BY DEF Sums, Plus
<1> QED
  BY <1>1, <1>2, <1>3, <1>4 DEF Sums

\* A row's own group has its tally.
LEMMA RowGroupSums ==
    ASSUME NEW row \in RowSet
    PROVE  Sums(RowGroup(row), RowTally(row, row.k)) /\ RowTally(row, row.k).rows = 1
<1>1. SumMax \in Nat /\ (row.v = Null \/ row.v \in -SumMax - 1 .. SumMax)
  BY FoldAssumption DEF RowSet
<1>2. CASE row.v = Null
  BY <1>1, <1>2 DEF Sums, RowGroup, RowTally, Saturate
<1>3. CASE row.v # Null
  BY <1>1, <1>3 DEF Sums, RowGroup, RowTally, Saturate
<1> QED
  BY <1>2, <1>3

\* The group of a key, or a new one.
LEMMA GroupAtSums ==
    ASSUME NEW n \in Tallies, NEW groups, NEW k, Shows(groups, k, n)
    PROVE  Sums(GroupAt(groups, k), n)
<1>1. CASE n.rows = 0
  <2>1. n = NoRows /\ GroupAt(groups, k) = NewGroup
    BY <1>1, PlusNothing DEF Shows, GroupAt
  <2>2. Sums(NewGroup, NoRows)
    BY FoldAssumption DEF Sums, NewGroup, NoRows, Saturate
  <2> QED
    BY <2>1, <2>2
<1>2. CASE n.rows # 0
  BY <1>2 DEF Shows, GroupAt
<1> QED
  BY <1>1, <1>2

\* update_one: a row is added to the group of its key.
LEMMA UpdateRowShows ==
    ASSUME NEW n \in Tallies, NEW groups, NEW k, NEW row \in RowSet, Shows(groups, k, n)
    PROVE  Shows(UpdateRow(groups, row), k, Plus(n, RowTally(row, k)))
<1> DEFINE g == MergeGroup(GroupAt(groups, row.k), RowGroup(row))
           new == UpdateRow(groups, row)
<1>1. /\ DOMAIN new = DOMAIN groups \cup {row.k}
      /\ \A x \in DOMAIN new : new[x] = IF x = row.k THEN g ELSE groups[x]
  BY DEF UpdateRow, PutGroup
<1> HIDE DEF g, new
<1>2. CASE row.k # k
  <2>1. Plus(n, RowTally(row, k)) = n
    BY <1>2, PlusNothing DEF RowTally
  <2>2. (k \in DOMAIN new <=> k \in DOMAIN groups) /\ (k \in DOMAIN groups => new[k] = groups[k])
    BY <1>1, <1>2
  <2>3. Shows(new, k, n)
    BY <2>2 DEF Shows
  <2> QED
    BY <2>1, <2>3 DEF new
<1>3. CASE row.k = k
  <2>1. Sums(GroupAt(groups, k), n)
    BY GroupAtSums
  <2>2. Sums(RowGroup(row), RowTally(row, k)) /\ RowTally(row, k).rows = 1 /\ RowTally(row, k) \in Tallies
    BY <1>3, RowGroupSums, RowTallyType
  <2>3. Sums(g, Plus(n, RowTally(row, k)))
    BY <1>3, <2>1, <2>2, MergeGroupSums DEF g
  <2>4. k \in DOMAIN new /\ new[k] = g
    BY <1>1, <1>3
  <2>5. Plus(n, RowTally(row, k)).rows # 0
    <3>1. Plus(n, RowTally(row, k)).rows = n.rows + 1 /\ n.rows \in Nat
      BY <2>2, PlusRows
    <3> QED
      BY <3>1
  <2>6. Shows(new, k, Plus(n, RowTally(row, k)))
    BY <2>3, <2>4, <2>5 DEF Shows
  <2> QED
    BY <2>6 DEF new
<1> QED
  BY <1>2, <1>3

\* The function that UpdateRows computes, up to n.
Updating(groups, rows, f, n) ==
    f = [m \in 0 .. n |-> IF m = 0 THEN groups ELSE UpdateRow(f[m - 1], rows[m])]

\* There is one for every n.
LEMMA UpdatingExists ==
    ASSUME NEW groups, NEW rows
    PROVE  \A n \in Nat : \E f : Updating(groups, rows, f, n)
<1> DEFINE S == {n \in Nat : \E f : Updating(groups, rows, f, n)}
<1>1. 0 \in S
  <2> DEFINE f == [m \in 0 .. 0 |-> groups]
  <2>1. Updating(groups, rows, f, 0)
    BY DEF Updating
  <2> QED
    BY <2>1
<1>2. ASSUME NEW n \in Nat, n \in S PROVE n + 1 \in S
  <2>1. PICK f : Updating(groups, rows, f, n)
    BY <1>2
  <2> DEFINE g == [m \in 0 .. (n + 1) |-> IF m <= n THEN f[m] ELSE UpdateRow(f[n], rows[n + 1])]
  <2>2. \A m \in 0 .. n : f[m] = IF m = 0 THEN groups ELSE UpdateRow(f[m - 1], rows[m])
    BY <2>1 DEF Updating
  <2>3. \A m \in 0 .. (n + 1) : g[m] = IF m = 0 THEN groups ELSE UpdateRow(g[m - 1], rows[m])
    <3> TAKE m \in 0 .. (n + 1)
    <3>1. CASE m <= n
      BY <3>1, <2>2
    <3>2. CASE m = n + 1
      BY <3>2
    <3> QED
      BY <3>1, <3>2
  <2> HIDE DEF g
  <2>4. DOMAIN g = 0 .. (n + 1) /\ g = [m \in DOMAIN g |-> g[m]]
    BY DEF g
  <2>5. Updating(groups, rows, g, n + 1)
    BY <2>3, <2>4 DEF Updating
  <2> QED
    BY <2>5
<1> HIDE DEF S
<1>3. Nat \subseteq S
  BY <1>1, <1>2, NatInd
<1> QED
  BY <1>3 DEF S

\* The groups after the first n rows.
Updated(groups, rows, f) ==
    /\ f[0] = groups
    /\ \A n \in 0 .. Len(rows) - 1 : f[n + 1] = UpdateRow(f[n], rows[n + 1])

\* UpdateRows is the last of these.
LEMMA UpdatedIs ==
    ASSUME NEW groups, NEW rows \in Seq(RowSet)
    PROVE  \E f : Updated(groups, rows, f) /\ UpdateRows(groups, rows) = f[Len(rows)]
<1> DEFINE f == CHOOSE f : Updating(groups, rows, f, Len(rows))
<1>1. Updating(groups, rows, f, Len(rows))
  <2>1. Len(rows) \in Nat
    OBVIOUS
  <2>2. \E g : Updating(groups, rows, g, Len(rows))
    BY <2>1, UpdatingExists, Zenon
  <2> QED
    BY <2>2, Zenon
<1>2. UpdateRows(groups, rows) = f[Len(rows)]
  BY DEF UpdateRows, Updating
<1> HIDE DEF f
<1>3. \A m \in 0 .. Len(rows) : f[m] = IF m = 0 THEN groups ELSE UpdateRow(f[m - 1], rows[m])
  BY <1>1 DEF Updating
<1>4. f[0] = groups
  BY <1>3
<1>5. \A n \in 0 .. Len(rows) - 1 : f[n + 1] = UpdateRow(f[n], rows[n + 1])
  <2> TAKE n \in 0 .. Len(rows) - 1
  <2>1. n + 1 \in 0 .. Len(rows) /\ n + 1 # 0 /\ (n + 1) - 1 = n
    OBVIOUS
  <2> QED
    BY <2>1, <1>3
<1> QED
  BY <1>2, <1>4, <1>5 DEF Updated

\* The rows of a batch are added to their groups.
LEMMA UpdateRowsShows ==
    ASSUME NEW n \in Tallies, NEW groups, NEW k, NEW rows \in Seq(RowSet), Shows(groups, k, n)
    PROVE  Shows(UpdateRows(groups, rows), k, Plus(n, Tally(rows, k)))
<1> DEFINE s == RowTallies(rows, k)
<1>1. /\ s \in Seq(Tallies) /\ Len(s) = Len(rows) /\ Len(rows) \in Nat
      /\ \A i \in 1 .. Len(rows) : s[i] = RowTally(rows[i], k) /\ rows[i] \in RowSet
  BY RowTalliesType
<1>2. Tally(rows, k) = Added(s)
  BY DEF Tally
<1> HIDE DEF s
<1>3. PICK f : PartialTallies(s, f) /\ Added(s) = f[Len(s)]
  BY <1>1, AddedIs
<1>4. PICK g : Updated(groups, rows, g) /\ UpdateRows(groups, rows) = g[Len(rows)]
  BY UpdatedIs
<1> DEFINE S == {m \in Nat : m <= Len(rows) => Shows(g[m], k, Plus(n, f[m]))}
<1>5. 0 \in S
  <2>1. g[0] = groups /\ f[0] = NoRows
    BY <1>3, <1>4 DEF PartialTallies, Updated
  <2>2. Plus(n, NoRows) = n
    BY PlusNothing
  <2> QED
    BY <2>1, <2>2
<1>6. ASSUME NEW m \in Nat, m \in S PROVE m + 1 \in S
  <2> SUFFICES ASSUME m + 1 <= Len(rows) PROVE Shows(g[m + 1], k, Plus(n, f[m + 1]))
    OBVIOUS
  <2>1. m \in 0 .. Len(rows) - 1 /\ m \in 0 .. Len(rows) /\ m + 1 \in 1 .. Len(rows) /\ Shows(g[m], k, Plus(n, f[m]))
    BY <1>1, <1>6
  <2>2. f[m] \in Tallies /\ f[m + 1] = Plus(f[m], s[m + 1])
    BY <1>1, <1>3, <2>1 DEF PartialTallies
  <2>3. g[m + 1] = UpdateRow(g[m], rows[m + 1])
    BY <1>4, <2>1 DEF Updated
  <2>4. s[m + 1] = RowTally(rows[m + 1], k) /\ rows[m + 1] \in RowSet
    BY <1>1, <2>1
  <2>5. RowTally(rows[m + 1], k) \in Tallies /\ Plus(n, f[m]) \in Tallies
    BY <2>2, <2>4, RowTallyType, PlusType
  <2>6. Shows(UpdateRow(g[m], rows[m + 1]), k, Plus(Plus(n, f[m]), RowTally(rows[m + 1], k)))
    BY <2>1, <2>4, <2>5, UpdateRowShows
  <2>7. Plus(Plus(n, f[m]), RowTally(rows[m + 1], k)) = Plus(n, Plus(f[m], RowTally(rows[m + 1], k)))
    BY <2>2, <2>5, PlusAssoc
  <2> QED
    BY <2>2, <2>3, <2>4, <2>6, <2>7
<1> HIDE DEF S
<1>7. Nat \subseteq S
  BY <1>5, <1>6, NatInd
<1>8. Shows(g[Len(rows)], k, Plus(n, f[Len(rows)]))
  <2>1. Len(rows) \in S /\ Len(rows) <= Len(rows)
    BY <1>1, <1>7
  <2> QED
    BY <2>1 DEF S
<1> QED
  BY <1>1, <1>2, <1>3, <1>4, <1>8

\* Groups are merged key by key.
LEMMA MergeGroupsShows ==
    ASSUME NEW a \in Tallies, NEW b \in Tallies, NEW groups, NEW more, NEW k,
           Shows(groups, k, a), Shows(more, k, b)
    PROVE  Shows(MergeGroups(groups, more), k, Plus(a, b))
<1> DEFINE new == MergeGroups(groups, more)
<1>1. /\ DOMAIN new = DOMAIN groups \cup DOMAIN more
      /\ \A x \in DOMAIN new :
            new[x] = IF x \in DOMAIN more THEN MergeGroup(GroupAt(groups, x), more[x]) ELSE groups[x]
  BY DEF MergeGroups
<1> HIDE DEF new
<1>2. Plus(a, b).rows = a.rows + b.rows /\ a.rows \in Nat /\ b.rows \in Nat
  BY PlusRows
<1>3. CASE b.rows = 0
  <2>1. k \notin DOMAIN more /\ Plus(a, b) = a
    <3>1. b = NoRows
      BY <1>3, PlusNothing
    <3>2. Plus(a, NoRows) = a
      BY PlusNothing
    <3> QED
      BY <1>3, <3>1, <3>2 DEF Shows
  <2>2. (k \in DOMAIN new <=> k \in DOMAIN groups) /\ (k \in DOMAIN groups => new[k] = groups[k])
    BY <1>1, <2>1
  <2>3. Shows(new, k, a)
    BY <2>2 DEF Shows
  <2> QED
    BY <2>1, <2>3 DEF new
<1>4. CASE b.rows # 0
  <2>1. k \in DOMAIN more /\ Sums(more[k], b)
    BY <1>4 DEF Shows
  <2>2. Sums(GroupAt(groups, k), a)
    BY GroupAtSums
  <2>3. Sums(MergeGroup(GroupAt(groups, k), more[k]), Plus(a, b))
    BY <2>1, <2>2, MergeGroupSums
  <2>4. k \in DOMAIN new /\ new[k] = MergeGroup(GroupAt(groups, k), more[k])
    BY <1>1, <2>1
  <2>5. Plus(a, b).rows # 0
    BY <1>2, <1>4
  <2>6. Shows(new, k, Plus(a, b))
    BY <2>3, <2>4, <2>5 DEF Shows
  <2> QED
    BY <2>6 DEF new
<1> QED
  BY <1>3, <1>4

\* Totalling a long batch first makes no difference.
LEMMA UpdateBatchShows ==
    ASSUME NEW n \in Tallies, NEW groups, NEW k, NEW rows \in Seq(RowSet), Shows(groups, k, n)
    PROVE  Shows(UpdateBatch(groups, rows), k, Plus(n, Tally(rows, k)))
<1>1. Shows(UpdateRows(groups, rows), k, Plus(n, Tally(rows, k)))
  BY UpdateRowsShows
<1>2. Tally(rows, k) \in Tallies /\ NoRows \in Tallies /\ Plus(NoRows, Tally(rows, k)) = Tally(rows, k)
  BY RowTalliesType, PlusNothing
<1>3. Shows(<<>>, k, NoRows)
  BY DEF Shows, NoRows
<1>4. Shows(UpdateRows(<<>>, rows), k, Plus(NoRows, Tally(rows, k)))
  BY <1>2, <1>3, UpdateRowsShows
<1>5. Shows(MergeGroups(groups, UpdateRows(<<>>, rows)), k, Plus(n, Tally(rows, k)))
  BY <1>2, <1>4, MergeGroupsShows
<1> QED
  BY <1>1, <1>5 DEF UpdateBatch

-----------------------------------------------------------------------------
(* States.                                                                 *)

\* A fold state: its unique rows are without NULL and in key order, and gone once it closes.
StateOK(state) ==
    /\ state = [open |-> state.open, unique |-> state.unique, groups |-> state.groups]
    /\ state.open \in BOOLEAN /\ state.unique \in Seq(RowSet)
    /\ NullFree(state.unique) /\ Increasing(state.unique)
    /\ ~state.open => state.unique = <<>>

\* Its unique rows and its groups have the tally n for the key k.
Holds(state, k, n) ==
    \E a \in Tallies : Shows(state.groups, k, a) /\ n = Plus(Tally(state.unique, k), a)

\* What consume does to a state, by its cases.
ConsumeCases(state, rows, new) ==
    \/ /\ state.open /\ NullFree(rows) /\ Increasing(state.unique \o rows)
       /\ new.open = state.open /\ new.unique = state.unique \o rows /\ new.groups = state.groups
    \/ /\ state.open /\ NullFree(rows) /\ ~Increasing(state.unique \o rows)
       /\ new.open = FALSE /\ new.unique = <<>>
       /\ new.groups = UpdateBatch(UpdateRows(state.groups, state.unique), rows)
    \/ /\ ~NullFree(rows) \/ ~state.open
       /\ new.open = state.open /\ new.unique = state.unique
       /\ new.groups = UpdateBatch(state.groups, rows)

\* Consume is one of these cases, and gives a record of three fields.
LEMMA ConsumeIs ==
    ASSUME NEW state, StateOK(state), NEW rows
    PROVE  /\ ConsumeCases(state, rows, Consume(state, rows))
           /\ Consume(state, rows) = [open |-> Consume(state, rows).open, unique |-> Consume(state, rows).unique,
                                      groups |-> Consume(state, rows).groups]
<1> DEFINE u == state.unique
           o == state.open
           g == state.groups
<1>1. state = [open |-> o, unique |-> u, groups |-> g]
  BY DEF StateOK
<1>2. CASE NullFree(rows) /\ o /\ Increasing(u \o rows)
  <2>1. Consume(state, rows) = [open |-> o, unique |-> u \o rows, groups |-> g]
    <3>1. Consume(state, rows) = [state EXCEPT !.unique = u \o rows]
      BY <1>2 DEF Consume
    <3> HIDE DEF u, o, g
    <3> QED
      BY <1>1, <3>1
  <2> QED
    BY <1>2, <2>1 DEF ConsumeCases
<1>3. CASE NullFree(rows) /\ o /\ ~Increasing(u \o rows)
  <2>1. Consume(state, rows) = [open |-> FALSE, unique |-> <<>>, groups |-> UpdateBatch(UpdateRows(g, u), rows)]
    BY <1>3 DEF Consume
  <2> QED
    BY <1>3, <2>1 DEF ConsumeCases
<1>4. CASE ~(NullFree(rows) /\ o)
  <2>1. Consume(state, rows) = [open |-> o, unique |-> u, groups |-> UpdateBatch(g, rows)]
    <3>1. Consume(state, rows) = [state EXCEPT !.groups = UpdateBatch(g, rows)]
      BY <1>4 DEF Consume
    <3> HIDE DEF u, o, g
    <3> QED
      BY <1>1, <3>1
  <2> QED
    BY <1>4, <2>1 DEF ConsumeCases
<1> QED
  BY <1>2, <1>3, <1>4

\* No rows at all are in order.
LEMMA NothingOrdered ==
    <<>> \in Seq(RowSet) /\ NullFree(<<>>) /\ Increasing(<<>>)
  BY DEF NullFree, Increasing

\* Rows without NULL, put together.
LEMMA NullFreeConcat ==
    ASSUME NEW a \in Seq(RowSet), NEW b \in Seq(RowSet), NullFree(a), NullFree(b)
    PROVE  NullFree(a \o b)
<1> DEFINE c == a \o b
<1>1. /\ c \in Seq(RowSet) /\ Len(c) = Len(a) + Len(b) /\ DOMAIN c = 1 .. Len(c)
      /\ \A i \in 1 .. Len(a) : c[i] = a[i]
      /\ \A i \in 1 .. Len(b) : c[Len(a) + i] = b[i]
      /\ \A i \in 1 .. (Len(a) + Len(b)) :
            i \in 1 .. Len(a) \/ \E j \in 1 .. Len(b) : i = Len(a) + j
  BY Concat
<1>2. (\A i \in 1 .. Len(a) : a[i].k # Null /\ a[i].v # Null) /\ (\A i \in 1 .. Len(b) : b[i].k # Null /\ b[i].v # Null)
  BY DEF NullFree
<1> HIDE DEF c
<1>3. ASSUME NEW i \in DOMAIN c PROVE c[i].k # Null /\ c[i].v # Null
  <2>1. CASE i \in 1 .. Len(a)
    BY <1>1, <1>2, <2>1
  <2>2. CASE i \notin 1 .. Len(a)
    <3>1. PICK j \in 1 .. Len(b) : i = Len(a) + j
      BY <1>1, <1>3, <2>2
    <3>2. c[i] = b[j]
      BY <1>1, <3>1
    <3> QED
      BY <1>2, <3>2
  <2> QED
    BY <2>1, <2>2
<1>4. NullFree(c)
  BY <1>3 DEF NullFree
<1> QED
  BY <1>4 DEF c

\* Consuming keeps the unique rows in order, and gone once closed.
LEMMA ConsumeOK ==
    ASSUME NEW state, StateOK(state), NEW rows \in Seq(RowSet)
    PROVE  StateOK(Consume(state, rows))
<1> DEFINE new == Consume(state, rows)
<1>1. ConsumeCases(state, rows, new) /\ new = [open |-> new.open, unique |-> new.unique, groups |-> new.groups]
  BY ConsumeIs
<1> HIDE DEF new
<1>2. /\ state.open \in BOOLEAN /\ state.unique \in Seq(RowSet)
      /\ NullFree(state.unique) /\ Increasing(state.unique)
      /\ ~state.open => state.unique = <<>>
  BY DEF StateOK
<1>3. CASE /\ state.open /\ NullFree(rows) /\ Increasing(state.unique \o rows)
           /\ new.open = state.open /\ new.unique = state.unique \o rows
  <2>1. state.unique \o rows \in Seq(RowSet) /\ NullFree(state.unique \o rows)
    BY <1>2, <1>3, Concat, NullFreeConcat
  <2>2. StateOK(new)
    BY <1>1, <1>2, <1>3, <2>1 DEF StateOK
  <2> QED
    BY <2>2 DEF new
<1>4. CASE new.open = FALSE /\ new.unique = <<>>
  <2>1. StateOK(new)
    BY <1>1, <1>4, NothingOrdered DEF StateOK
  <2> QED
    BY <2>1 DEF new
<1>5. CASE new.open = state.open /\ new.unique = state.unique
  <2>1. StateOK(new)
    BY <1>1, <1>2, <1>5 DEF StateOK
  <2> QED
    BY <2>1 DEF new
<1> QED
  BY <1>1, <1>3, <1>4, <1>5 DEF ConsumeCases

\* Whatever becomes of the unique rows, a batch adds its tally.
LEMMA ConsumeHolds ==
    ASSUME NEW state, StateOK(state), NEW rows \in Seq(RowSet), NEW k, NEW n \in Tallies, Holds(state, k, n)
    PROVE  Holds(Consume(state, rows), k, Plus(n, Tally(rows, k)))
<1> DEFINE new == Consume(state, rows)
           u == Tally(state.unique, k)
           t == Tally(rows, k)
<1>1. ConsumeCases(state, rows, new)
  BY ConsumeIs
<1> HIDE DEF new
<1>2. state.unique \in Seq(RowSet)
  BY DEF StateOK
<1>3. u \in Tallies /\ t \in Tallies
  BY <1>2, RowTalliesType
<1>4. PICK a \in Tallies : Shows(state.groups, k, a) /\ n = Plus(u, a)
  BY DEF Holds
<1>5. CASE new.unique = state.unique \o rows /\ new.groups = state.groups
  <2>1. Tally(state.unique \o rows, k) = Plus(u, t)
    BY <1>2, TallyConcat
  <2> HIDE DEF u, t
  <2>2. Plus(Plus(u, a), t) = Plus(Plus(u, t), a)
    BY <1>3, <1>4, PlusSwap
  <2>3. Holds(new, k, Plus(n, t))
    BY <1>4, <1>5, <2>1, <2>2 DEF Holds
  <2> QED
    BY <2>3 DEF new, t
<1>6. CASE new.unique = <<>> /\ new.groups = UpdateBatch(UpdateRows(state.groups, state.unique), rows)
  <2>1. Shows(UpdateRows(state.groups, state.unique), k, Plus(a, u)) /\ Plus(a, u) \in Tallies
    BY <1>2, <1>3, <1>4, UpdateRowsShows, PlusType
  <2>2. Shows(new.groups, k, Plus(Plus(a, u), t))
    BY <1>6, <2>1, UpdateBatchShows
  <2>3. Tally(new.unique, k) = NoRows
    BY <1>6, TallyNothing
  <2>4. Plus(Plus(a, u), t) \in Tallies
    BY <1>3, <2>1, PlusType
  <2>5. Plus(NoRows, Plus(Plus(a, u), t)) = Plus(Plus(a, u), t) /\ Plus(a, u) = Plus(u, a)
    BY <1>3, <1>4, <2>4, PlusNothing, PlusType
  <2> HIDE DEF u, t
  <2>6. Holds(new, k, Plus(n, t))
    BY <1>4, <2>2, <2>3, <2>4, <2>5 DEF Holds
  <2> QED
    BY <2>6 DEF new, t
<1>7. CASE new.unique = state.unique /\ new.groups = UpdateBatch(state.groups, rows)
  <2>1. Shows(new.groups, k, Plus(a, t)) /\ Plus(a, t) \in Tallies
    BY <1>3, <1>4, <1>7, UpdateBatchShows, PlusType
  <2>2. Plus(Plus(u, a), t) = Plus(u, Plus(a, t))
    BY <1>3, <1>4, PlusAssoc
  <2>3. Tally(new.unique, k) = u
    BY <1>7
  <2> HIDE DEF u, t
  <2>4. Holds(new, k, Plus(n, t))
    BY <1>4, <2>1, <2>2, <2>3 DEF Holds
  <2> QED
    BY <2>4 DEF new, t
<1> QED
  BY <1>1, <1>5, <1>6, <1>7 DEF ConsumeCases

-----------------------------------------------------------------------------
(* The batches of a row group.                                             *)

\* The rows up to e.
UpTo(rows, e) == [i \in 1 .. e |-> rows[i]]

\* The first e rows.
LEMMA UpToType ==
    ASSUME NEW rows \in Seq(RowSet), NEW e \in 0 .. Len(rows)
    PROVE  /\ UpTo(rows, e) \in Seq(RowSet) /\ Len(UpTo(rows, e)) = e
           /\ \A i \in 1 .. e : UpTo(rows, e)[i] = rows[i]
<1> DEFINE f == UpTo(rows, e)
<1>1. e \in Nat /\ \A i \in 1 .. e : rows[i] \in RowSet
  OBVIOUS
<1>2. f = [i \in 1 .. e |-> f[i]] /\ \A i \in 1 .. e : f[i] = rows[i]
  BY DEF UpTo
<1> HIDE DEF f
<1>3. f \in Seq(RowSet) /\ Len(f) = e
  BY <1>1, <1>2, IsSequence
<1> QED
  BY <1>2, <1>3 DEF f

\* The end of the n-th batch.
BatchEnd(rows, n) == Smaller(n * BatchSize, Len(rows))

\* Every batch goes on where the one before it ended, and the last one ends the rows.
LEMMA BatchesCut ==
    ASSUME NEW rows \in Seq(RowSet)
    PROVE  /\ Len(Batches(rows)) \in Nat
           /\ DOMAIN Batches(rows) = 1 .. Len(Batches(rows))
           /\ BatchEnd(rows, 0) = 0
           /\ BatchEnd(rows, Len(Batches(rows))) = Len(rows)
           /\ \A n \in 0 .. Len(Batches(rows)) : BatchEnd(rows, n) \in 0 .. Len(rows)
           /\ \A n \in 0 .. Len(Batches(rows)) - 1 :
                 /\ BatchEnd(rows, n) < BatchEnd(rows, n + 1)
                 /\ Batches(rows)[n + 1] = SubSeq(rows, BatchEnd(rows, n) + 1, BatchEnd(rows, n + 1))
<1> DEFINE l == Len(rows)
           b == BatchSize
           c == Ceil(Len(rows), BatchSize)
<1>1. l \in Nat /\ b \in Nat \ {0}
  BY FoldAssumption
<1>2. c \in Nat /\ l <= c * b /\ c * b < l + b
  BY <1>1, CeilBounds
<1> HIDE DEF c
<1>3. Len(Batches(rows)) = c /\ DOMAIN Batches(rows) = 1 .. c
  <2> DEFINE f == Batches(rows)
  <2>1. f = [i \in 1 .. c |-> f[i]]
    BY DEF Batches, c
  <2>2. \A i \in 1 .. c : f[i] \in {f[j] : j \in 1 .. c}
    OBVIOUS
  <2> HIDE DEF f
  <2>3. Len(f) = c /\ DOMAIN f = 1 .. c
    BY <1>2, <2>1, <2>2, IsSequence
  <2> QED
    BY <2>3 DEF f
<1>4. \A n \in Nat : n * b \in Nat /\ (n + 1) * b = n * b + b
  BY <1>1
<1>5. \A n, m \in Nat : n <= m => n * b <= m * b
  BY <1>1
<1>6. \A n \in Nat : BatchEnd(rows, n) = IF n * b < l THEN n * b ELSE l
  BY DEF BatchEnd, Smaller
<1>7. \A n \in Nat : BatchEnd(rows, n) \in 0 .. l
  <2> TAKE n \in Nat
  <2>1. n * b \in Nat /\ BatchEnd(rows, n) = IF n * b < l THEN n * b ELSE l
    BY <1>4, <1>6
  <2> HIDE DEF l, b
  <2> QED
    BY <1>1, <2>1
<1>8. BatchEnd(rows, 0) = 0
  BY <1>1, <1>6
<1>9. BatchEnd(rows, c) = l
  <2>1. c * b \in Nat /\ BatchEnd(rows, c) = IF c * b < l THEN c * b ELSE l
    BY <1>2, <1>4, <1>6
  <2> HIDE DEF l, b
  <2> QED
    BY <1>1, <1>2, <2>1
<1>10. ASSUME NEW n \in 0 .. c - 1
       PROVE  /\ n * b < l /\ BatchEnd(rows, n) = n * b /\ BatchEnd(rows, n) < BatchEnd(rows, n + 1)
  <2>1. n \in Nat /\ n + 1 \in Nat /\ n + 1 <= c
    BY <1>2
  <2>2. (n + 1) * b <= c * b /\ (n + 1) * b = n * b + b /\ n * b \in Nat /\ c * b \in Nat
    BY <1>2, <1>4, <1>5, <2>1
  <2>3. n * b < l
    BY <1>1, <1>2, <2>2
  <2>4. BatchEnd(rows, n) = n * b /\ BatchEnd(rows, n + 1) = IF (n + 1) * b < l THEN (n + 1) * b ELSE l
    BY <1>6, <2>1, <2>3
  <2> QED
    BY <1>1, <2>2, <2>3, <2>4
<1>11. ASSUME NEW n \in 0 .. c - 1
       PROVE  Batches(rows)[n + 1] = SubSeq(rows, BatchEnd(rows, n) + 1, BatchEnd(rows, n + 1))
  <2>1. n + 1 \in 1 .. c /\ (n + 1) - 1 = n
    BY <1>2
  <2>2. Batches(rows)[n + 1] = SubSeq(rows, ((n + 1) - 1) * BatchSize + 1, Smaller((n + 1) * BatchSize, Len(rows)))
    BY <2>1 DEF Batches, c
  <2>3. BatchEnd(rows, n) = n * BatchSize
    BY <1>10
  <2> QED
    BY <2>1, <2>2, <2>3 DEF BatchEnd
<1>12. \A n \in 0 .. c : BatchEnd(rows, n) \in 0 .. l
  BY <1>2, <1>7
<1>13. \A n \in 0 .. c - 1 :
          /\ BatchEnd(rows, n) < BatchEnd(rows, n + 1)
          /\ Batches(rows)[n + 1] = SubSeq(rows, BatchEnd(rows, n) + 1, BatchEnd(rows, n + 1))
  BY <1>10, <1>11, Zenon
<1> QED
  BY <1>2, <1>3, <1>8, <1>9, <1>12, <1>13, Zenon

\* The rows from d + 1 to e.
LEMMA SubSeqIs ==
    ASSUME NEW rows \in Seq(RowSet), NEW d \in 0 .. Len(rows), NEW e \in 0 .. Len(rows), d <= e
    PROVE  /\ SubSeq(rows, d + 1, e) \in Seq(RowSet) /\ Len(SubSeq(rows, d + 1, e)) = e - d
           /\ \A i \in 1 .. e - d : SubSeq(rows, d + 1, e)[i] = rows[d + i]
  OBVIOUS

\* The first e rows are the first d and the rows after them.
LEMMA UpToNext ==
    ASSUME NEW rows \in Seq(RowSet), NEW d \in 0 .. Len(rows), NEW e \in 0 .. Len(rows), d <= e
    PROVE  UpTo(rows, e) = UpTo(rows, d) \o SubSeq(rows, d + 1, e)
<1> DEFINE a == UpTo(rows, d)
           b == SubSeq(rows, d + 1, e)
           c == UpTo(rows, e)
<1>1. /\ a \in Seq(RowSet) /\ Len(a) = d /\ \A i \in 1 .. d : a[i] = rows[i]
      /\ c \in Seq(RowSet) /\ Len(c) = e /\ \A i \in 1 .. e : c[i] = rows[i]
  BY UpToType
<1>2. b \in Seq(RowSet) /\ Len(b) = e - d /\ \A i \in 1 .. e - d : b[i] = rows[d + i]
  BY SubSeqIs
<1> HIDE DEF a, b, c
<1>3. d \in Nat /\ e \in Nat
  OBVIOUS
<1>4. \A i \in 1 .. e - d : d + i \in 1 .. e
  BY <1>3
<1>5. \A i \in 1 .. d : i \in 1 .. e
  BY <1>3
<1>a. Len(c) = Len(a) + Len(b) /\ \A i \in 1 .. Len(a) : c[i] = a[i]
  BY <1>1, <1>2, <1>3, <1>5
<1>b. \A i \in 1 .. Len(b) : c[Len(a) + i] = b[i]
  BY <1>1, <1>2, <1>4
<1>6. IsConcat(RowSet, a, b, c)
  BY <1>1, <1>2, <1>a, <1>b DEF IsConcat
<1>7. c = a \o b
  BY <1>6, ConcatIs
<1> QED
  BY <1>7 DEF a, b, c

\* The function that ConsumeGroup computes, up to n.
Consuming(state, batches, f, n) ==
    f = [m \in 0 .. n |-> IF m = 0 THEN state ELSE Consume(f[m - 1], batches[m])]

\* There is one for every n.
LEMMA ConsumingExists ==
    ASSUME NEW state, NEW batches
    PROVE  \A n \in Nat : \E f : Consuming(state, batches, f, n)
<1> DEFINE S == {n \in Nat : \E f : Consuming(state, batches, f, n)}
<1>1. 0 \in S
  <2> DEFINE f == [m \in 0 .. 0 |-> state]
  <2>1. Consuming(state, batches, f, 0)
    BY DEF Consuming
  <2> QED
    BY <2>1
<1>2. ASSUME NEW n \in Nat, n \in S PROVE n + 1 \in S
  <2>1. PICK f : Consuming(state, batches, f, n)
    BY <1>2
  <2> DEFINE g == [m \in 0 .. (n + 1) |-> IF m <= n THEN f[m] ELSE Consume(f[n], batches[n + 1])]
  <2>2. \A m \in 0 .. n : f[m] = IF m = 0 THEN state ELSE Consume(f[m - 1], batches[m])
    BY <2>1 DEF Consuming
  <2>3. \A m \in 0 .. (n + 1) : g[m] = IF m = 0 THEN state ELSE Consume(g[m - 1], batches[m])
    <3> TAKE m \in 0 .. (n + 1)
    <3>1. CASE m <= n
      BY <3>1, <2>2
    <3>2. CASE m = n + 1
      BY <3>2
    <3> QED
      BY <3>1, <3>2
  <2> HIDE DEF g
  <2>4. DOMAIN g = 0 .. (n + 1) /\ g = [m \in DOMAIN g |-> g[m]]
    BY DEF g
  <2>5. Consuming(state, batches, g, n + 1)
    BY <2>3, <2>4 DEF Consuming
  <2> QED
    BY <2>5
<1> HIDE DEF S
<1>3. Nat \subseteq S
  BY <1>1, <1>2, NatInd
<1> QED
  BY <1>3 DEF S

\* The states after the first n batches.
Consumed(state, batches, f) ==
    /\ f[0] = state
    /\ \A n \in 0 .. Len(batches) - 1 : f[n + 1] = Consume(f[n], batches[n + 1])

\* ConsumeGroup is the last of these.
LEMMA ConsumedIs ==
    ASSUME NEW state, NEW group, group.rows \in Seq(RowSet)
    PROVE  \E f : /\ Consumed(state, Batches(group.rows), f)
                  /\ ConsumeGroup(state, group) = f[Len(Batches(group.rows))]
<1> DEFINE batches == Batches(group.rows)
           f == CHOOSE f : Consuming(state, batches, f, Len(batches))
<1>0. Len(batches) \in Nat
  BY BatchesCut
<1>1. ConsumeGroup(state, group) = f[Len(batches)]
  BY DEF ConsumeGroup, Consuming
<1> HIDE DEF batches
<1>2. Consuming(state, batches, f, Len(batches))
  <2>1. \E g : Consuming(state, batches, g, Len(batches))
    BY <1>0, ConsumingExists, Zenon
  <2> QED
    BY <2>1, Zenon
<1> HIDE DEF f
<1>3. \A m \in 0 .. Len(batches) : f[m] = IF m = 0 THEN state ELSE Consume(f[m - 1], batches[m])
  BY <1>2 DEF Consuming
<1>4. f[0] = state
  BY <1>0, <1>3
<1>5. \A n \in 0 .. Len(batches) - 1 : f[n + 1] = Consume(f[n], batches[n + 1])
  <2> TAKE n \in 0 .. Len(batches) - 1
  <2>1. n + 1 \in 0 .. Len(batches) /\ n + 1 # 0 /\ (n + 1) - 1 = n
    BY <1>0
  <2> QED
    BY <2>1, <1>3
<1>6. Consumed(state, batches, f)
  BY <1>4, <1>5 DEF Consumed
<1> QED
  BY <1>1, <1>6 DEF batches

\* The batches of a row group are rows.
LEMMA BatchType ==
    ASSUME NEW rows \in Seq(RowSet), NEW n \in 0 .. Len(Batches(rows)) - 1
    PROVE  /\ Batches(rows)[n + 1] \in Seq(RowSet)
           /\ UpTo(rows, BatchEnd(rows, n + 1)) = UpTo(rows, BatchEnd(rows, n)) \o Batches(rows)[n + 1]
           /\ UpTo(rows, BatchEnd(rows, n)) \in Seq(RowSet)
           /\ NullFree(rows) => NullFree(Batches(rows)[n + 1])
<1> DEFINE d == BatchEnd(rows, n)
           e == BatchEnd(rows, n + 1)
<1>1. d \in 0 .. Len(rows) /\ e \in 0 .. Len(rows) /\ d < e /\ Batches(rows)[n + 1] = SubSeq(rows, d + 1, e)
  <2>1. n \in 0 .. Len(Batches(rows)) /\ n + 1 \in 0 .. Len(Batches(rows)) /\ Len(Batches(rows)) \in Nat
    BY BatchesCut
  <2> QED
    BY <2>1, BatchesCut
<1> HIDE DEF d, e
<1>2. d <= e
  BY <1>1
<1>3. /\ SubSeq(rows, d + 1, e) \in Seq(RowSet) /\ Len(SubSeq(rows, d + 1, e)) = e - d
      /\ \A i \in 1 .. e - d : SubSeq(rows, d + 1, e)[i] = rows[d + i]
  BY <1>1, <1>2, SubSeqIs
<1>4. UpTo(rows, e) = UpTo(rows, d) \o SubSeq(rows, d + 1, e)
  BY <1>1, <1>2, UpToNext
<1>5. UpTo(rows, d) \in Seq(RowSet)
  BY <1>1, UpToType
<1>6. ASSUME NullFree(rows) PROVE NullFree(SubSeq(rows, d + 1, e))
  <2> DEFINE b == SubSeq(rows, d + 1, e)
  <2>1. DOMAIN b = 1 .. e - d /\ \A i \in 1 .. e - d : b[i] = rows[d + i]
    BY <1>3
  <2> HIDE DEF b
  <2>2. \A i \in 1 .. e - d : d + i \in DOMAIN rows
    BY <1>1
  <2>3. NullFree(b)
    BY <1>6, <2>1, <2>2 DEF NullFree
  <2> QED
    BY <2>3 DEF b
<1> QED
  BY <1>1, <1>3, <1>4, <1>5, <1>6 DEF d, e

\* A whole row group adds its tally, however it falls into batches.
LEMMA ConsumeGroupHolds ==
    ASSUME NEW state, StateOK(state), NEW group, group.rows \in Seq(RowSet),
           NEW k, NEW t \in Tallies, Holds(state, k, t)
    PROVE  Holds(ConsumeGroup(state, group), k, Plus(t, Tally(group.rows, k)))
<1> DEFINE rows == group.rows
           c == Len(Batches(rows))
           P(n) == UpTo(rows, BatchEnd(rows, n))
<1>1. PICK f : /\ Consumed(state, Batches(rows), f)
               /\ ConsumeGroup(state, group) = f[c]
  BY ConsumedIs
<1>2. rows \in Seq(RowSet) /\ c \in Nat
  BY BatchesCut
<1> HIDE DEF rows
<1> DEFINE S == {n \in Nat : n <= c => StateOK(f[n]) /\ Holds(f[n], k, Plus(t, Tally(P(n), k)))}
<1>3. 0 \in S
  <2>1. f[0] = state
    BY <1>1 DEF Consumed
  <2>2. BatchEnd(rows, 0) = 0
    BY <1>2, BatchesCut
  <2>3. P(0) = <<>>
    BY <2>2 DEF UpTo
  <2>4. Plus(t, Tally(P(0), k)) = t
    BY <2>3, TallyNothing, PlusNothing
  <2> QED
    BY <2>1, <2>4
<1>4. ASSUME NEW n \in Nat, n \in S PROVE n + 1 \in S
  <2> SUFFICES ASSUME n + 1 <= c PROVE StateOK(f[n + 1]) /\ Holds(f[n + 1], k, Plus(t, Tally(P(n + 1), k)))
    OBVIOUS
  <2> DEFINE b == Batches(rows)[n + 1]
  <2>1. n \in 0 .. c - 1 /\ StateOK(f[n]) /\ Holds(f[n], k, Plus(t, Tally(P(n), k)))
    BY <1>2, <1>4
  <2>2. f[n + 1] = Consume(f[n], b)
    BY <1>1, <2>1 DEF Consumed
  <2>3. b \in Seq(RowSet) /\ P(n + 1) = P(n) \o b /\ P(n) \in Seq(RowSet)
    BY <1>2, <2>1, BatchType
  <2> HIDE DEF b, P, S
  <2>4. Tally(P(n), k) \in Tallies /\ Tally(b, k) \in Tallies
    BY <2>3, RowTalliesType
  <2>a. Tally(P(n) \o b, k) = Plus(Tally(P(n), k), Tally(b, k))
    BY <2>3, TallyConcat
  <2>5. Tally(P(n + 1), k) = Plus(Tally(P(n), k), Tally(b, k))
    BY <2>3, <2>a
  <2>6. Plus(t, Tally(P(n), k)) \in Tallies
    BY <2>4, PlusType
  <2>7. Holds(Consume(f[n], b), k, Plus(Plus(t, Tally(P(n), k)), Tally(b, k)))
    BY <2>1, <2>3, <2>6, ConsumeHolds
  <2>8. StateOK(Consume(f[n], b))
    BY <2>1, <2>3, ConsumeOK
  <2>9. Plus(Plus(t, Tally(P(n), k)), Tally(b, k)) = Plus(t, Plus(Tally(P(n), k), Tally(b, k)))
    BY <2>4, PlusAssoc
  <2> QED
    BY <2>2, <2>5, <2>7, <2>8, <2>9
<1> HIDE DEF S, P, c
<1>5. Nat \subseteq S
  BY <1>3, <1>4, NatInd
<1>6. Holds(f[c], k, Plus(t, Tally(P(c), k)))
  <2>1. c \in S /\ c <= c
    BY <1>2, <1>5
  <2> QED
    BY <2>1 DEF S
<1>7. P(c) = rows
  <2>1. BatchEnd(rows, c) = Len(rows)
    BY <1>2, BatchesCut DEF c
  <2>2. UpTo(rows, Len(rows)) = rows
    BY <1>2 DEF UpTo
  <2> QED
    BY <2>1, <2>2 DEF P
<1> QED
  BY <1>1, <1>6, <1>7 DEF rows

\* A state that has consumed a row group is one.
LEMMA ConsumeGroupOK ==
    ASSUME NEW state, StateOK(state), NEW group, group.rows \in Seq(RowSet)
    PROVE  StateOK(ConsumeGroup(state, group))
<1> DEFINE rows == group.rows
           c == Len(Batches(rows))
<1>1. PICK f : /\ Consumed(state, Batches(rows), f)
               /\ ConsumeGroup(state, group) = f[c]
  BY ConsumedIs
<1>2. rows \in Seq(RowSet) /\ c \in Nat
  BY BatchesCut
<1> HIDE DEF rows
<1> DEFINE S == {n \in Nat : n <= c => StateOK(f[n])}
<1>3. 0 \in S
  BY <1>1 DEF Consumed
<1>4. ASSUME NEW n \in Nat, n \in S PROVE n + 1 \in S
  <2> SUFFICES ASSUME n + 1 <= c PROVE StateOK(f[n + 1])
    OBVIOUS
  <2> DEFINE b == Batches(rows)[n + 1]
  <2>1. n \in 0 .. c - 1 /\ StateOK(f[n])
    BY <1>2, <1>4
  <2>2. f[n + 1] = Consume(f[n], b)
    BY <1>1, <2>1 DEF Consumed
  <2>3. b \in Seq(RowSet)
    BY <1>2, <2>1, BatchType
  <2> HIDE DEF b, S
  <2> QED
    BY <2>1, <2>2, <2>3, ConsumeOK
<1> HIDE DEF S, c
<1>5. Nat \subseteq S
  BY <1>3, <1>4, NatInd
<1>6. c \in S /\ c <= c
  BY <1>2, <1>5
<1> QED
  BY <1>1, <1>6 DEF S

-----------------------------------------------------------------------------
(* States that forget nothing.                                             *)

\* Row groups that are Settled leave no unique rows.
LEMMA SettledLeavesNone ==
    ASSUME NEW state, StateOK(state), state.unique = <<>>,
           NEW group, group.rows \in Seq(RowSet), Settled(group.rows)
    PROVE  ConsumeGroup(state, group).unique = <<>>
<1> DEFINE rows == group.rows
           bs == Batches(rows)
           c == Len(bs)
<1>1. PICK f : /\ Consumed(state, bs, f)
               /\ ConsumeGroup(state, group) = f[c]
  BY ConsumedIs
<1>2. rows \in Seq(RowSet) /\ c \in Nat /\ DOMAIN bs = 1 .. c
  BY BatchesCut
<1>3. \/ \A i \in DOMAIN bs : ~NullFree(bs[i])
      \/ NullFree(bs[1]) /\ ~Increasing(bs[1])
  BY DEF Settled
<1> HIDE DEF rows
<1> DEFINE S == {n \in Nat : n <= c => /\ StateOK(f[n]) /\ f[n].unique = <<>>
                                       /\ n > 0 => ~f[n].open \/ \A i \in DOMAIN bs : ~NullFree(bs[i])}
<1>4. 0 \in S
  BY <1>1 DEF Consumed
<1>5. ASSUME NEW n \in Nat, n \in S PROVE n + 1 \in S
  <2> SUFFICES ASSUME n + 1 <= c
               PROVE  /\ StateOK(f[n + 1]) /\ f[n + 1].unique = <<>>
                      /\ ~f[n + 1].open \/ \A i \in DOMAIN bs : ~NullFree(bs[i])
    OBVIOUS
  <2> DEFINE b == bs[n + 1]
             old == f[n]
             new == f[n + 1]
  <2>1. /\ n \in 0 .. c - 1 /\ StateOK(old) /\ old.unique = <<>> /\ n + 1 \in DOMAIN bs
        /\ n > 0 => ~old.open \/ \A i \in DOMAIN bs : ~NullFree(bs[i])
    BY <1>2, <1>5
  <2>2. new = Consume(old, b)
    BY <1>1, <2>1 DEF Consumed
  <2>3. b \in Seq(RowSet)
    BY <1>2, <2>1, BatchType
  <2>4. n = 0 => (NullFree(b) /\ ~Increasing(b)) \/ \A i \in DOMAIN bs : ~NullFree(bs[i])
    BY <1>3
  <2>5. ~NullFree(b) \/ ~old.open \/ (NullFree(b) /\ ~Increasing(b))
    BY <2>1, <2>4
  <2>6. old.open \in BOOLEAN
    BY <2>1 DEF StateOK
  <2> HIDE DEF b, S, old, new, bs
  <2>7. StateOK(new) /\ ConsumeCases(old, b, new)
    BY <2>1, <2>2, <2>3, ConsumeOK, ConsumeIs
  <2>8. old.unique \o b = b
    BY <2>1, <2>3
  <2>9. new.unique = <<>> /\ (~new.open \/ \A i \in DOMAIN bs : ~NullFree(bs[i]))
    <3>1. CASE old.open /\ NullFree(b) /\ Increasing(old.unique \o b)
      BY <3>1, <2>5, <2>8
    <3>2. CASE new.open = FALSE /\ new.unique = <<>>
      BY <3>2
    <3>3. CASE (~NullFree(b) \/ ~old.open) /\ new.open = old.open /\ new.unique = old.unique
      <4>1. CASE ~old.open
        BY <3>3, <4>1, <2>1
      <4>2. CASE ~NullFree(b)
        <5>1. n > 0 \/ n = 0
          BY <2>1
        <5> QED
          BY <3>3, <4>2, <5>1, <2>1, <2>4
      <4> QED
        BY <3>3, <4>1, <4>2
    <3> QED
      BY <3>1, <3>2, <3>3, <2>7 DEF ConsumeCases
  <2> QED
    BY <2>7, <2>9 DEF new
<1> HIDE DEF S, c, bs
<1>6. Nat \subseteq S
  BY <1>4, <1>5, NatInd
<1>7. c \in S /\ c <= c
  BY <1>2, <1>6
<1> QED
  BY <1>1, <1>7 DEF S

\* Without NULLs there are groups only once the state is closed.
LEMMA NullFreeStaysUnique ==
    ASSUME NEW state, StateOK(state), state.open => state.groups = <<>>,
           NEW group, group.rows \in Seq(RowSet), NullFree(group.rows)
    PROVE  ConsumeGroup(state, group).open => ConsumeGroup(state, group).groups = <<>>
<1> DEFINE rows == group.rows
           bs == Batches(rows)
           c == Len(bs)
<1>1. PICK f : /\ Consumed(state, bs, f)
               /\ ConsumeGroup(state, group) = f[c]
  BY ConsumedIs
<1>2. rows \in Seq(RowSet) /\ c \in Nat /\ NullFree(rows)
  BY BatchesCut
<1> HIDE DEF rows
<1> DEFINE S == {n \in Nat : n <= c => StateOK(f[n]) /\ (f[n].open => f[n].groups = <<>>)}
<1>3. 0 \in S
  BY <1>1 DEF Consumed
<1>4. ASSUME NEW n \in Nat, n \in S PROVE n + 1 \in S
  <2> SUFFICES ASSUME n + 1 <= c PROVE StateOK(f[n + 1]) /\ (f[n + 1].open => f[n + 1].groups = <<>>)
    OBVIOUS
  <2> DEFINE b == bs[n + 1]
             old == f[n]
             new == f[n + 1]
  <2>1. n \in 0 .. c - 1 /\ StateOK(old) /\ (old.open => old.groups = <<>>)
    BY <1>2, <1>4
  <2>2. new = Consume(old, b)
    BY <1>1, <2>1 DEF Consumed
  <2>3. b \in Seq(RowSet) /\ NullFree(b)
    BY <1>2, <2>1, BatchType
  <2> HIDE DEF b, S, old, new, bs
  <2>4. StateOK(new) /\ ConsumeCases(old, b, new)
    BY <2>1, <2>2, <2>3, ConsumeOK, ConsumeIs
  <2>5. new.open => new.groups = <<>>
    BY <2>1, <2>3, <2>4 DEF ConsumeCases
  <2> QED
    BY <2>4, <2>5 DEF new
<1> HIDE DEF S, c, bs
<1>5. Nat \subseteq S
  BY <1>3, <1>4, NatInd
<1>6. c \in S /\ c <= c
  BY <1>2, <1>5
<1> QED
  BY <1>1, <1>6 DEF S

-----------------------------------------------------------------------------
(* What a set of row groups adds up to.                                    *)

RowGroupSet == [plain : BOOLEAN, broken : BOOLEAN, rows : Seq(RowSet)]

\* The row groups of a file, and their rows.
LEMMA RowsType ==
    ASSUME NEW gs \in Seq(RowGroupSet)
    PROVE  /\ Len(gs) \in Nat /\ DOMAIN gs = 1 .. Len(gs)
           /\ \A i \in 1 .. Len(gs) : gs[i].rows \in Seq(RowSet)
<1>1. \A i \in 1 .. Len(gs) : gs[i] \in RowGroupSet
  OBVIOUS
<1>2. \A g \in RowGroupSet : g.rows \in Seq(RowSet)
  BY DEF RowGroupSet
<1>3. \A i \in 1 .. Len(gs) : gs[i].rows \in Seq(RowSet)
  BY <1>1, <1>2
<1> QED
  BY <1>3

\* The row groups in M, the others counting for nothing.
GroupTallies(gs, M, k) == [i \in DOMAIN gs |-> IF i \in M THEN Tally(gs[i].rows, k) ELSE NoRows]
GTally(gs, M, k) == Added(GroupTallies(gs, M, k))

\* The row groups' tallies, one by one.
LEMMA GroupTalliesType ==
    ASSUME NEW gs \in Seq(RowGroupSet), NEW M, NEW k
    PROVE  /\ GroupTallies(gs, M, k) \in Seq(Tallies)
           /\ Len(GroupTallies(gs, M, k)) = Len(gs)
           /\ \A i \in 1 .. Len(gs) :
                 GroupTallies(gs, M, k)[i] = IF i \in M THEN Tally(gs[i].rows, k) ELSE NoRows
           /\ GTally(gs, M, k) \in Tallies
<1> DEFINE f == GroupTallies(gs, M, k)
<1>1. Len(gs) \in Nat /\ DOMAIN gs = 1 .. Len(gs) /\ \A i \in 1 .. Len(gs) : gs[i].rows \in Seq(RowSet)
  BY RowsType
<1>2. \A i \in 1 .. Len(gs) : f[i] = IF i \in M THEN Tally(gs[i].rows, k) ELSE NoRows
  BY <1>1 DEF GroupTallies
<1>3. f = [i \in 1 .. Len(gs) |-> f[i]]
  BY <1>1 DEF GroupTallies
<1> HIDE DEF f
<1>4. NoRows \in Tallies
  BY DEF NoRows, Tallies
<1>5. \A i \in 1 .. Len(gs) : f[i] \in Tallies
  BY <1>1, <1>2, <1>4, RowTalliesType
<1>6. f \in Seq(Tallies) /\ Len(f) = Len(gs)
  BY <1>1, <1>3, <1>5, IsSequence
<1>7. Added(f) \in Tallies
  BY <1>6, AddedType
<1> QED
  BY <1>2, <1>6, <1>7 DEF f, GTally

\* Row groups without rows.
LEMMA GTallyEmpty ==
    ASSUME NEW gs \in Seq(RowGroupSet), NEW M, NEW k, \A i \in M : i \in DOMAIN gs => gs[i].rows = <<>>
    PROVE  GTally(gs, M, k) = NoRows
<1> DEFINE f == GroupTallies(gs, M, k)
<1>1. f \in Seq(Tallies) /\ Len(f) = Len(gs)
  BY GroupTalliesType
<1>2. \A i \in 1 .. Len(gs) : f[i].rows = 0
  <2> TAKE i \in 1 .. Len(gs)
  <2>1. i \in DOMAIN gs /\ f[i] = IF i \in M THEN Tally(gs[i].rows, k) ELSE NoRows
    BY GroupTalliesType
  <2>2. f[i] = NoRows
    BY <2>1, TallyNothing
  <2> QED
    BY <2>2 DEF NoRows
<1> HIDE DEF f
<1>3. Added(f).rows = 0
  BY <1>1, <1>2, AddedPositive
<1>4. Added(f) = NoRows
  BY <1>1, <1>3, AddedType, PlusNothing
<1> QED
  BY <1>4 DEF f, GTally

\* Two sets of row groups without a common one.
LEMMA GTallyUnion ==
    ASSUME NEW gs \in Seq(RowGroupSet), NEW M, NEW L, NEW k, M \cap L = {}
    PROVE  GTally(gs, M \cup L, k) = Plus(GTally(gs, M, k), GTally(gs, L, k))
<1> DEFINE a == GroupTallies(gs, M, k)
           b == GroupTallies(gs, L, k)
           c == GroupTallies(gs, M \cup L, k)
<1>1. /\ a \in Seq(Tallies) /\ Len(a) = Len(gs) /\ b \in Seq(Tallies) /\ Len(b) = Len(gs)
      /\ c \in Seq(Tallies) /\ Len(c) = Len(gs)
  BY GroupTalliesType
<1>2. \A i \in 1 .. Len(gs) : c[i] = Plus(a[i], b[i])
  <2> TAKE i \in 1 .. Len(gs)
  <2> DEFINE t == Tally(gs[i].rows, k)
  <2>1. /\ a[i] = (IF i \in M THEN t ELSE NoRows) /\ b[i] = (IF i \in L THEN t ELSE NoRows)
        /\ c[i] = (IF i \in M \cup L THEN t ELSE NoRows)
    BY GroupTalliesType
  <2>2. gs[i].rows \in Seq(RowSet)
    BY RowsType
  <2>3. t \in Tallies
    BY <2>2, RowTalliesType
  <2> HIDE DEF t, a, b, c
  <2>4. Plus(t, NoRows) = t /\ Plus(NoRows, t) = t /\ Plus(NoRows, NoRows) = NoRows
    <3>1. NoRows \in Tallies
      BY <2>3, PlusNothing
    <3> QED
      BY <2>3, <3>1, PlusNothing
  <2> QED
    BY <2>1, <2>4
<1> HIDE DEF a, b, c
<1>3. PlusSeq(a, b, c)
  BY <1>1, <1>2 DEF PlusSeq
<1>4. Added(c) = Plus(Added(a), Added(b))
  BY <1>3, AddedPlus
<1> QED
  BY <1>4 DEF a, b, c, GTally

\* One row group alone.
LEMMA GTallyOne ==
    ASSUME NEW gs \in Seq(RowGroupSet), NEW i \in DOMAIN gs, NEW k
    PROVE  GTally(gs, {i}, k) = Tally(gs[i].rows, k)
<1> DEFINE s == GroupTallies(gs, {i}, k)
<1>1. /\ s \in Seq(Tallies) /\ Len(s) = Len(gs) /\ i \in 1 .. Len(s)
      /\ \A n \in 1 .. Len(s) : s[n] = IF n \in {i} THEN Tally(gs[n].rows, k) ELSE NoRows
  BY GroupTalliesType
<1> HIDE DEF s
<1>2. Only(s, i)
  BY <1>1 DEF Only
<1>3. Added(s) = s[i]
  BY <1>2, AddedOne
<1> QED
  BY <1>1, <1>3 DEF s, GTally

-----------------------------------------------------------------------------
(* All rows of the file.                                                   *)

\* The function that FlattenSeq computes, up to n.
Flattening(cs, f, n) == f = [i \in 1 .. n |-> IF i = 1 THEN cs[i] ELSE f[i - 1] \o cs[i]]

\* There is one for every n.
LEMMA FlatteningExists ==
    ASSUME NEW cs
    PROVE  \A n \in Nat : \E f : Flattening(cs, f, n)
<1> DEFINE S == {n \in Nat : \E f : Flattening(cs, f, n)}
<1>1. 0 \in S
  <2> DEFINE f == [m \in 1 .. 0 |-> <<>>]
  <2>1. Flattening(cs, f, 0)
    BY DEF Flattening
  <2> QED
    BY <2>1
<1>2. ASSUME NEW n \in Nat, n \in S PROVE n + 1 \in S
  <2>1. PICK f : Flattening(cs, f, n)
    BY <1>2
  <2> DEFINE g == [m \in 1 .. (n + 1) |->
                     IF m <= n THEN f[m] ELSE IF n = 0 THEN cs[1] ELSE f[n] \o cs[n + 1]]
  <2>2. \A m \in 1 .. n : f[m] = IF m = 1 THEN cs[m] ELSE f[m - 1] \o cs[m]
    BY <2>1 DEF Flattening
  <2>3. \A m \in 1 .. (n + 1) : g[m] = IF m = 1 THEN cs[m] ELSE g[m - 1] \o cs[m]
    <3> TAKE m \in 1 .. (n + 1)
    <3>1. CASE m <= n
      BY <3>1, <2>2
    <3>2. CASE m = n + 1
      BY <3>2
    <3> QED
      BY <3>1, <3>2
  <2> HIDE DEF g
  <2>4. DOMAIN g = 1 .. (n + 1) /\ g = [m \in DOMAIN g |-> g[m]]
    BY DEF g
  <2>5. Flattening(cs, g, n + 1)
    BY <2>3, <2>4 DEF Flattening
  <2> QED
    BY <2>5
<1> HIDE DEF S
<1>3. Nat \subseteq S
  BY <1>1, <1>2, NatInd
<1> QED
  BY <1>3 DEF S

\* g[n] has the first n sequences one after the other.
Flattened(S, cs, g) ==
    /\ cs \in Seq(Seq(S))
    /\ g[0] = <<>>
    /\ \A n \in 0 .. Len(cs) : g[n] \in Seq(S)
    /\ \A n \in 1 .. Len(cs) : g[n] = g[n - 1] \o cs[n]

\* FlattenSeq is the last of the prefixes.
LEMMA FlattenIs ==
    ASSUME NEW S, NEW cs \in Seq(Seq(S))
    PROVE  \E g : Flattened(S, cs, g) /\ FlattenSeq(cs) = g[Len(cs)]
<1> DEFINE f == CHOOSE f : Flattening(cs, f, Len(cs))
           g == [n \in 0 .. Len(cs) |-> IF n = 0 THEN <<>> ELSE f[n]]
<1>1. Len(cs) \in Nat /\ \A n \in 1 .. Len(cs) : cs[n] \in Seq(S)
  OBVIOUS
<1>2. Flattening(cs, f, Len(cs))
  <2>1. \E h : Flattening(cs, h, Len(cs))
    BY <1>1, FlatteningExists, Zenon
  <2> QED
    BY <2>1, Zenon
<1>3. FlattenSeq(cs) = IF Len(cs) = 0 THEN cs ELSE f[Len(cs)]
  BY DEF FlattenSeq, Flattening
<1>4. FlattenSeq(cs) = g[Len(cs)]
  <2>1. CASE Len(cs) = 0
    <3>1. cs = <<>>
      BY <2>1
    <3> QED
      BY <2>1, <3>1, <1>3
  <2>2. CASE Len(cs) # 0
    BY <2>2, <1>1, <1>3
  <2> QED
    BY <2>1, <2>2
<1> HIDE DEF f
<1>5. \A n \in 1 .. Len(cs) : f[n] = IF n = 1 THEN cs[n] ELSE f[n - 1] \o cs[n]
  BY <1>2 DEF Flattening
<1>6. g[0] = <<>> /\ \A n \in 1 .. Len(cs) : g[n] = f[n]
  BY <1>1
<1> HIDE DEF g
<1>7. \A n \in 1 .. Len(cs) : g[n] = g[n - 1] \o cs[n]
  <2> TAKE n \in 1 .. Len(cs)
  <2>1. CASE n = 1
    <3>1. g[n - 1] = <<>> /\ g[n] = cs[n] /\ cs[n] \in Seq(S)
      BY <1>1, <1>5, <1>6, <2>1
    <3> QED
      BY <3>1
  <2>2. CASE n # 1
    <3>1. n - 1 \in 1 .. Len(cs)
      BY <2>2
    <3> QED
      BY <1>5, <1>6, <2>2, <3>1
  <2> QED
    BY <2>1, <2>2
<1> DEFINE T == {n \in Nat : n <= Len(cs) => g[n] \in Seq(S)}
<1>8. 0 \in T
  <2>1. <<>> \in Seq(S)
    OBVIOUS
  <2> QED
    BY <1>6, <2>1
<1>9. ASSUME NEW n \in Nat, n \in T PROVE n + 1 \in T
  <2> SUFFICES ASSUME n + 1 <= Len(cs) PROVE g[n + 1] \in Seq(S)
    OBVIOUS
  <2>1. /\ g[n] \in Seq(S) /\ cs[n + 1] \in Seq(S)
        /\ n + 1 \in 1 .. Len(cs) /\ (n + 1) - 1 = n
    BY <1>1, <1>9
  <2>2. g[n + 1] = g[n] \o cs[n + 1]
    BY <1>7, <2>1
  <2> QED
    BY <2>1, <2>2
<1>10. \A n \in 0 .. Len(cs) : g[n] \in Seq(S)
  <2> HIDE DEF T
  <2>1. Nat \subseteq T
    BY <1>8, <1>9, NatInd
  <2> QED
    BY <2>1 DEF T
<1> QED
  BY <1>4, <1>6, <1>7, <1>10 DEF Flattened

\* The rows of the file are those of its row groups.
LEMMA FlattenTally ==
    ASSUME NEW gs \in Seq(RowGroupSet), NEW k
    PROVE  /\ FlattenSeq([i \in DOMAIN gs |-> gs[i].rows]) \in Seq(RowSet)
           /\ Tally(FlattenSeq([i \in DOMAIN gs |-> gs[i].rows]), k) = GTally(gs, DOMAIN gs, k)
<1> DEFINE cs == [i \in DOMAIN gs |-> gs[i].rows]
           s == GroupTallies(gs, DOMAIN gs, k)
<1>1. Len(gs) \in Nat /\ DOMAIN gs = 1 .. Len(gs) /\ \A i \in 1 .. Len(gs) : gs[i].rows \in Seq(RowSet)
  BY RowsType
<1>2. cs = [i \in 1 .. Len(gs) |-> cs[i]] /\ \A i \in 1 .. Len(gs) : cs[i] = gs[i].rows
  BY <1>1
<1>3. /\ s \in Seq(Tallies) /\ Len(s) = Len(gs)
      /\ \A i \in 1 .. Len(gs) : s[i] = Tally(gs[i].rows, k)
  BY <1>1, GroupTalliesType
<1> HIDE DEF cs, s
<1>4. cs \in Seq(Seq(RowSet)) /\ Len(cs) = Len(gs)
  BY <1>1, <1>2, IsSequence
<1>5. PICK g : Flattened(RowSet, cs, g) /\ FlattenSeq(cs) = g[Len(cs)]
  BY <1>4, FlattenIs
<1>6. PICK f : PartialTallies(s, f) /\ Added(s) = f[Len(s)]
  BY <1>3, AddedIs
<1> DEFINE S == {n \in Nat : n <= Len(gs) => Tally(g[n], k) = f[n]}
<1>7. 0 \in S
  <2>1. g[0] = <<>> /\ f[0] = NoRows
    BY <1>5, <1>6 DEF Flattened, PartialTallies
  <2> QED
    BY <2>1, TallyNothing
<1>8. ASSUME NEW n \in Nat, n \in S PROVE n + 1 \in S
  <2> SUFFICES ASSUME n + 1 <= Len(gs) PROVE Tally(g[n + 1], k) = f[n + 1]
    OBVIOUS
  <2>1. /\ n \in 0 .. Len(gs) - 1 /\ n \in 0 .. Len(gs) /\ n + 1 \in 1 .. Len(gs) /\ (n + 1) - 1 = n
        /\ Tally(g[n], k) = f[n]
    BY <1>1, <1>8
  <2>2. g[n] \in Seq(RowSet) /\ g[n + 1] = g[n] \o cs[n + 1]
    BY <1>4, <1>5, <2>1 DEF Flattened
  <2>3. f[n + 1] = Plus(f[n], s[n + 1])
    BY <1>3, <1>6, <2>1 DEF PartialTallies
  <2>4. cs[n + 1] \in Seq(RowSet) /\ s[n + 1] = Tally(cs[n + 1], k)
    BY <1>1, <1>2, <1>3, <2>1
  <2>5. Tally(g[n] \o cs[n + 1], k) = Plus(Tally(g[n], k), Tally(cs[n + 1], k))
    BY <2>2, <2>4, TallyConcat
  <2> QED
    BY <2>1, <2>2, <2>3, <2>4, <2>5
<1> HIDE DEF S
<1>9. Nat \subseteq S
  BY <1>7, <1>8, NatInd
<1>10. Tally(g[Len(gs)], k) = f[Len(gs)]
  BY <1>1, <1>9 DEF S
<1>11. g[Len(gs)] \in Seq(RowSet)
  BY <1>1, <1>4, <1>5 DEF Flattened
<1>12. FlattenSeq(cs) \in Seq(RowSet) /\ Tally(FlattenSeq(cs), k) = Added(s)
  BY <1>3, <1>4, <1>5, <1>6, <1>10, <1>11
<1> QED
  BY <1>12 DEF cs, s, GTally

-----------------------------------------------------------------------------
(* What SQL says, in tallies.                                              *)

\* The function that Total computes, up to n.
Summing(s, f, n) == f = [m \in 0 .. n |-> IF m = 0 THEN 0 ELSE f[m - 1] + s[m]]

\* There is one for every n.
LEMMA SummingExists ==
    ASSUME NEW s
    PROVE  \A n \in Nat : \E f : Summing(s, f, n)
<1> DEFINE S == {n \in Nat : \E f : Summing(s, f, n)}
<1>1. 0 \in S
  <2> DEFINE f == [m \in 0 .. 0 |-> 0]
  <2>1. Summing(s, f, 0)
    BY DEF Summing
  <2> QED
    BY <2>1
<1>2. ASSUME NEW n \in Nat, n \in S PROVE n + 1 \in S
  <2>1. PICK f : Summing(s, f, n)
    BY <1>2
  <2> DEFINE g == [m \in 0 .. (n + 1) |-> IF m <= n THEN f[m] ELSE f[n] + s[n + 1]]
  <2>2. \A m \in 0 .. n : f[m] = IF m = 0 THEN 0 ELSE f[m - 1] + s[m]
    BY <2>1 DEF Summing
  <2>3. \A m \in 0 .. (n + 1) : g[m] = IF m = 0 THEN 0 ELSE g[m - 1] + s[m]
    <3> TAKE m \in 0 .. (n + 1)
    <3>1. CASE m <= n
      BY <3>1, <2>2
    <3>2. CASE m = n + 1
      BY <3>2
    <3> QED
      BY <3>1, <3>2
  <2> HIDE DEF g
  <2>4. DOMAIN g = 0 .. (n + 1) /\ g = [m \in DOMAIN g |-> g[m]]
    BY DEF g
  <2>5. Summing(s, g, n + 1)
    BY <2>3, <2>4 DEF Summing
  <2> QED
    BY <2>5
<1> HIDE DEF S
<1>3. Nat \subseteq S
  BY <1>1, <1>2, NatInd
<1> QED
  BY <1>3 DEF S

\* The partial sums of a sequence.
PartialSums(s, f) ==
    /\ f[0] = 0
    /\ \A n \in 0 .. Len(s) - 1 : f[n + 1] = f[n] + s[n + 1]

\* Total is the last of them.
LEMMA TotalIs ==
    ASSUME NEW s, Len(s) \in Nat
    PROVE  \E f : PartialSums(s, f) /\ Total(s) = f[Len(s)]
<1> DEFINE f == CHOOSE f : Summing(s, f, Len(s))
<1>1. Summing(s, f, Len(s))
  <2>1. \E g : Summing(s, g, Len(s))
    BY SummingExists, Zenon
  <2> QED
    BY <2>1, Zenon
<1>2. Total(s) = f[Len(s)]
  BY DEF Total, Summing
<1> HIDE DEF f
<1>3. \A m \in 0 .. Len(s) : f[m] = IF m = 0 THEN 0 ELSE f[m - 1] + s[m]
  BY <1>1 DEF Summing
<1>4. f[0] = 0
  BY <1>3
<1>5. \A n \in 0 .. Len(s) - 1 : f[n + 1] = f[n] + s[n + 1]
  <2> TAKE n \in 0 .. Len(s) - 1
  <2>1. n + 1 \in 0 .. Len(s) /\ n + 1 # 0 /\ (n + 1) - 1 = n
    OBVIOUS
  <2> QED
    BY <2>1, <1>3
<1> QED
  BY <1>2, <1>4, <1>5 DEF PartialSums

\* The columns that SqlGroup adds up when every row counts.
OnesOf(rows, k) == [i \in DOMAIN rows |-> IF rows[i].k = k THEN 1 ELSE 0]
ValuesOf(rows, k) == [i \in DOMAIN rows |-> IF rows[i].k = k /\ rows[i].v # Null THEN rows[i].v ELSE 0]

\* A row in numbers.
LEMMA RowTallyIs ==
    ASSUME NEW row \in RowSet, NEW k
    PROVE  /\ RowTally(row, k).rows = (IF row.k = k THEN 1 ELSE 0)
           /\ RowTally(row, k).up \in Nat /\ RowTally(row, k).down \in Nat
           /\ RowTally(row, k).up - RowTally(row, k).down = (IF row.k = k /\ row.v # Null THEN row.v ELSE 0)
<1>1. row.v # Null => row.v \in Int
  BY FoldAssumption DEF RowSet
<1>2. CASE row.k # k
  BY <1>2 DEF RowTally, NoRows
<1>3. CASE row.k = k
  <2>1. CASE row.v = Null
    BY <1>3, <2>1 DEF RowTally
  <2>2. CASE row.v # Null
    BY <1>1, <1>3, <2>2 DEF RowTally
  <2> QED
    BY <2>1, <2>2
<1> QED
  BY <1>2, <1>3

\* The totals SQL takes over the rows of a key are the parts of their tally.
LEMMA ColumnsTotal ==
    ASSUME NEW rows \in Seq(RowSet), NEW k
    PROVE  /\ Total(OnesOf(rows, k)) = Tally(rows, k).rows
           /\ Total(ValuesOf(rows, k)) = Tally(rows, k).up - Tally(rows, k).down
<1> DEFINE ones == OnesOf(rows, k)
           vals == ValuesOf(rows, k)
           s == RowTallies(rows, k)
           l == Len(rows)
<1>1. l \in Nat /\ DOMAIN rows = 1 .. l /\ \A i \in 1 .. l : rows[i] \in RowSet
  OBVIOUS
<1>2. s \in Seq(Tallies) /\ Len(s) = l /\ \A i \in 1 .. l : s[i] = RowTally(rows[i], k)
  BY RowTalliesType
<1>3. /\ ones = [i \in 1 .. l |-> ones[i]] /\ \A i \in 1 .. l : ones[i] = IF rows[i].k = k THEN 1 ELSE 0
  BY <1>1 DEF OnesOf
<1>4. /\ vals = [i \in 1 .. l |-> vals[i]]
      /\ \A i \in 1 .. l : vals[i] = IF rows[i].k = k /\ rows[i].v # Null THEN rows[i].v ELSE 0
  BY <1>1 DEF ValuesOf
<1>5. Tally(rows, k) = Added(s)
  BY DEF Tally
<1> HIDE DEF ones, vals, s, l
<1>6. Len(ones) = l /\ Len(vals) = l
  <2>1. \A i \in 1 .. l : ones[i] \in {ones[j] : j \in 1 .. l} /\ vals[i] \in {vals[j] : j \in 1 .. l}
    OBVIOUS
  <2>2. Len(ones) = l
    BY <1>1, <1>3, <2>1, IsSequence
  <2>3. Len(vals) = l
    BY <1>1, <1>4, <2>1, IsSequence
  <2> QED
    BY <2>2, <2>3
<1>7. PICK f : PartialTallies(s, f) /\ Added(s) = f[Len(s)]
  BY <1>2, AddedIs
<1>8. PICK g : PartialSums(ones, g) /\ Total(ones) = g[Len(ones)]
  BY <1>1, <1>6, TotalIs
<1>9. PICK h : PartialSums(vals, h) /\ Total(vals) = h[Len(vals)]
  BY <1>1, <1>6, TotalIs
<1> DEFINE Agrees(n) == g[n] = f[n].rows /\ h[n] = f[n].up - f[n].down
           S == {n \in Nat : n <= l => Agrees(n)}
<1>10. 0 \in S
  <2>1. f[0] = NoRows /\ g[0] = 0 /\ h[0] = 0
    BY <1>7, <1>8, <1>9 DEF PartialTallies, PartialSums
  <2>2. NoRows.rows = 0 /\ NoRows.up - NoRows.down = 0
    BY DEF NoRows
  <2> QED
    BY <2>1, <2>2
<1>11. ASSUME NEW n \in Nat, n \in S PROVE n + 1 \in S
  <2> SUFFICES ASSUME n + 1 <= l PROVE Agrees(n + 1)
    OBVIOUS
  <2>1. n \in 0 .. l - 1 /\ n \in 0 .. l /\ n + 1 \in 1 .. l /\ Agrees(n)
    BY <1>1, <1>11
  <2> DEFINE r == RowTally(rows[n + 1], k)
  <2>2. f[n] \in Tallies /\ f[n + 1] = Plus(f[n], s[n + 1])
    BY <1>2, <1>7, <2>1 DEF PartialTallies
  <2>3. g[n + 1] = g[n] + ones[n + 1] /\ h[n + 1] = h[n] + vals[n + 1]
    BY <1>6, <1>8, <1>9, <2>1 DEF PartialSums
  <2>4. rows[n + 1] \in RowSet /\ s[n + 1] = r
    BY <1>1, <1>2, <2>1
  <2>5. r.rows = ones[n + 1] /\ r.up \in Nat /\ r.down \in Nat /\ r.up - r.down = vals[n + 1]
    BY <1>3, <1>4, <2>1, <2>4, RowTallyIs
  <2> HIDE DEF r, S
  <2>6. /\ f[n].up \in Nat /\ f[n].down \in Nat
        /\ f[n + 1].rows = f[n].rows + r.rows /\ f[n + 1].up = f[n].up + r.up
        /\ f[n + 1].down = f[n].down + r.down
    BY <2>2, <2>4 DEF Plus, Tallies
  <2>7. g[n + 1] = f[n + 1].rows
    BY <2>1, <2>3, <2>5, <2>6
  <2>8. h[n + 1] = f[n + 1].up - f[n + 1].down
    BY <2>1, <2>3, <2>5, <2>6
  <2> QED
    BY <2>7, <2>8
<1> HIDE DEF S
<1>12. Nat \subseteq S
  BY <1>10, <1>11, NatInd
<1>13. Agrees(l)
  <2>1. l \in S /\ l <= l
    BY <1>1, <1>12
  <2> QED
    BY <2>1 DEF S
<1> QED
  BY <1>2, <1>5, <1>6, <1>7, <1>8, <1>9, <1>13 DEF ones, vals

\* The row of a key with the tally n.
TallyRow(k, n) ==
    [k |-> k, count |-> n.rows, sum |-> IF n.values = 0 THEN Null ELSE Saturate(n.up - n.down)]

\* COUNT counts every row of the file: it is COUNT(*), or its column has no NULL.
AllCounted == \A i \in DOMAIN AllRows : Counted(AllRows[i])

\* SQL's row for a key is that of its tally.
LEMMA SqlGroupIs ==
    ASSUME AllRows \in Seq(RowSet), AllCounted, NEW k
    PROVE  SqlGroup(k) = TallyRow(k, Tally(AllRows, k))
<1> DEFINE all == AllRows
           mine == {i \in DOMAIN all : all[i].k = k}
           values == {i \in mine : all[i].v # Null}
           t == Tally(all, k)
<1>1. SqlGroup(k) = [k |-> k,
                     count |-> Total([i \in DOMAIN all |-> IF i \in mine /\ Counted(all[i]) THEN 1 ELSE 0]),
                     sum |-> IF values = {} THEN Null
                             ELSE Saturate(Total([i \in DOMAIN all |-> IF i \in values THEN all[i].v ELSE 0]))]
  BY DEF SqlGroup
<1>2. [i \in DOMAIN all |-> IF i \in mine /\ Counted(all[i]) THEN 1 ELSE 0] = OnesOf(all, k)
  BY DEF OnesOf, AllCounted
<1>3. [i \in DOMAIN all |-> IF i \in values THEN all[i].v ELSE 0] = ValuesOf(all, k)
  BY DEF ValuesOf
<1>4. values = {} <=> t.values = 0
  <2>1. DOMAIN all = 1 .. Len(all)
    OBVIOUS
  <2>2. t.values = 0 <=> \A i \in 1 .. Len(all) : all[i].k = k => all[i].v = Null
    BY TallyPositive
  <2> HIDE DEF t, all
  <2> QED
    BY <2>1, <2>2
<1>5. Total(OnesOf(all, k)) = t.rows /\ Total(ValuesOf(all, k)) = t.up - t.down
  BY ColumnsTotal
<1> HIDE DEF mine, values, t, all
<1> QED
  BY <1>1, <1>2, <1>3, <1>4, <1>5 DEF TallyRow, t, all

-----------------------------------------------------------------------------
(* The answer.                                                             *)

\* The rows of an answer show the tally n for the key k.
AnswerShows(rows, k, n) ==
    /\ \A r \in rows : r.k = k => n.rows # 0 /\ r.count = n.rows /\ (Fits(n) => r = TallyRow(k, n))
    /\ n.rows # 0 => \E r \in rows : r.k = k

\* A group's row.
LEMMA ResultRowIs ==
    ASSUME NEW g, NEW n, Sums(g, n), NEW k
    PROVE  /\ ResultRow(k, g).k = k /\ ResultRow(k, g).count = n.rows
           /\ Fits(n) => ResultRow(k, g) = TallyRow(k, n)
  BY DEF Sums, ResultRow, TallyRow

\* finish with groups.
LEMMA FinishGroups ==
    ASSUME NEW state, ~(state.open /\ state.groups = <<>>), NEW k, NEW n, Shows(state.groups, k, n)
    PROVE  AnswerShows(Finish(state), k, n)
<1> DEFINE g == state.groups
<1>1. Finish(state) = {ResultRow(x, g[x]) : x \in DOMAIN g}
  BY DEF Finish
<1>2. ASSUME NEW r \in Finish(state), r.k = k
      PROVE  n.rows # 0 /\ r.count = n.rows /\ (Fits(n) => r = TallyRow(k, n))
  <2>1. PICK x \in DOMAIN g : r = ResultRow(x, g[x])
    BY <1>1, <1>2
  <2>2. x = k
    BY <1>2, <2>1 DEF ResultRow
  <2>3. n.rows # 0 /\ Sums(g[k], n)
    BY <2>1, <2>2 DEF Shows
  <2> QED
    BY <2>1, <2>2, <2>3, ResultRowIs
<1>3. ASSUME n.rows # 0 PROVE \E r \in Finish(state) : r.k = k
  <2>1. k \in DOMAIN g /\ Sums(g[k], n)
    BY <1>3 DEF Shows
  <2>2. ResultRow(k, g[k]) \in Finish(state)
    BY <1>1, <2>1
  <2>3. ResultRow(k, g[k]).k = k
    BY <2>1, ResultRowIs
  <2> QED
    BY <2>2, <2>3
<1> QED
  BY <1>2, <1>3 DEF AnswerShows

\* Keys in order differ.
LEMMA OrderedKeys ==
    ASSUME NEW rows \in Seq(RowSet), NullFree(rows), Increasing(rows)
    PROVE  \A i, j \in 1 .. Len(rows) : i # j => rows[i].k # rows[j].k
<1> DEFINE l == Len(rows)
           Before(n) == \A i \in 1 .. l : i < n => rows[i].k < rows[n].k
           S == {n \in Nat : n + 1 <= l => Before(n + 1)}
<1>1. l \in Nat /\ \A i \in 1 .. l : rows[i].k \in Int
  <2>1. \A i \in 1 .. l : rows[i] \in RowSet /\ rows[i].k # Null
    BY DEF NullFree
  <2>2. \A row \in RowSet : row.k \in Int \cup {Null}
    BY DEF RowSet
  <2> QED
    BY <2>1, <2>2
<1>2. \A i \in 1 .. l - 1 : rows[i].k < rows[i + 1].k
  BY DEF Increasing
<1> HIDE DEF l
<1>3. 0 \in S
  BY <1>1
<1>4. ASSUME NEW n \in Nat, n \in S PROVE n + 1 \in S
  <2> SUFFICES ASSUME (n + 1) + 1 <= l, NEW i \in 1 .. l, i < (n + 1) + 1
               PROVE  rows[i].k < rows[(n + 1) + 1].k
    OBVIOUS
  <2>1. n + 1 <= l /\ n + 1 \in 1 .. l - 1 /\ n + 1 \in 1 .. l /\ (n + 1) + 1 \in 1 .. l
    BY <1>1
  <2>2. rows[n + 1].k < rows[(n + 1) + 1].k
    BY <1>2, <2>1
  <2>3. CASE i = n + 1
    BY <2>2, <2>3
  <2>4. CASE i < n + 1
    <3>1. rows[i].k < rows[n + 1].k
      BY <1>4, <2>1, <2>4
    <3>2. rows[i].k \in Int /\ rows[n + 1].k \in Int /\ rows[(n + 1) + 1].k \in Int
      BY <1>1, <2>1
    <3> HIDE DEF S
    <3> QED
      BY <2>2, <3>1, <3>2
  <2> QED
    BY <2>1, <2>3, <2>4
<1> HIDE DEF S
<1>5. Nat \subseteq S
  BY <1>3, <1>4, NatInd
<1>6. ASSUME NEW i \in 1 .. l, NEW j \in 1 .. l, i < j PROVE rows[i].k < rows[j].k
  <2>1. j - 1 \in Nat /\ (j - 1) + 1 = j
    BY <1>1
  <2>2. j - 1 \in S
    BY <1>5, <2>1
  <2>3. (j - 1) + 1 <= l => Before((j - 1) + 1)
    BY <2>2 DEF S
  <2>4. Before(j)
    BY <2>1, <2>3, <1>1
  <2> QED
    BY <2>4, <1>6
<1>7. ASSUME NEW i \in 1 .. l, NEW j \in 1 .. l, i # j PROVE rows[i].k # rows[j].k
  <2>1. i < j \/ j < i
    BY <1>1, <1>7
  <2>2. rows[i].k \in Int /\ rows[j].k \in Int
    BY <1>1
  <2> QED
    BY <1>6, <2>1, <2>2
<1> QED
  BY <1>7 DEF l

\* finish with unique rows alone.
LEMMA FinishUnique ==
    ASSUME NEW state, StateOK(state), state.open, state.groups = <<>>, NEW k
    PROVE  AnswerShows(Finish(state), k, Tally(state.unique, k))
<1> DEFINE u == state.unique
           s == RowTallies(u, k)
           n == Tally(u, k)
<1>1. Finish(state) = {ResultRow(u[i].k, RowGroup(u[i])) : i \in DOMAIN u}
  BY DEF Finish
<1>2. u \in Seq(RowSet) /\ NullFree(u) /\ Increasing(u)
  BY DEF StateOK
<1>3. /\ s \in Seq(Tallies) /\ Len(s) = Len(u) /\ DOMAIN u = 1 .. Len(u)
      /\ \A i \in 1 .. Len(u) : s[i] = RowTally(u[i], k) /\ u[i] \in RowSet
  BY <1>2, RowTalliesType
<1>a. n = Added(s)
  BY DEF Tally
<1> HIDE DEF u, s, n
<1>4. ASSUME NEW i \in 1 .. Len(u), u[i].k = k
      PROVE  n = RowTally(u[i], u[i].k)
  <2>1. \A j \in 1 .. Len(s) : j # i => s[j] = NoRows
    <3> TAKE j \in 1 .. Len(s)
    <3> HAVE j # i
    <3>1. u[j].k # u[i].k
      BY <1>2, <1>3, OrderedKeys
    <3> QED
      BY <1>3, <1>4, <3>1 DEF RowTally
  <2>2. Only(s, i)
    BY <1>3, <2>1 DEF Only
  <2>3. Added(s) = s[i]
    BY <2>2, AddedOne
  <2> QED
    BY <1>3, <1>4, <1>a, <2>3
<1>5. ASSUME NEW r \in Finish(state), r.k = k
      PROVE  n.rows # 0 /\ r.count = n.rows /\ (Fits(n) => r = TallyRow(k, n))
  <2>1. PICK i \in DOMAIN u : r = ResultRow(u[i].k, RowGroup(u[i]))
    BY <1>1, <1>5
  <2>2. u[i].k = k /\ u[i] \in RowSet /\ i \in 1 .. Len(u)
    BY <1>3, <1>5, <2>1 DEF ResultRow
  <2>3. Sums(RowGroup(u[i]), n) /\ n.rows = 1
    BY <1>4, <2>2, RowGroupSums
  <2>4. r.count = n.rows /\ (Fits(n) => r = TallyRow(k, n))
    BY <2>1, <2>2, <2>3, ResultRowIs
  <2> QED
    BY <2>3, <2>4
<1>6. ASSUME n.rows # 0 PROVE \E r \in Finish(state) : r.k = k
  <2>1. PICK i \in 1 .. Len(u) : u[i].k = k
    BY <1>2, <1>6, TallyPositive DEF n
  <2>2. ResultRow(u[i].k, RowGroup(u[i])) \in Finish(state)
    BY <1>1, <1>3
  <2> QED
    BY <2>1, <2>2 DEF ResultRow
<1>7. AnswerShows(Finish(state), k, n)
  BY <1>5, <1>6 DEF AnswerShows
<1> QED
  BY <1>7 DEF n, u

\* An answer that shows every key's tally is the one SQL gives.
LEMMA ShownExactly ==
    ASSUME AllRows \in Seq(RowSet), AllCounted, NEW rows,
           \A k : AnswerShows(rows, k, Tally(AllRows, k)) /\ Fits(Tally(AllRows, k))
    PROVE  rows = {SqlGroup(k) : k \in {AllRows[i].k : i \in DOMAIN AllRows}}
<1> DEFINE all == AllRows
           keys == {all[i].k : i \in DOMAIN all}
<1>1. \A k : k \in keys <=> Tally(all, k).rows # 0
  <2> TAKE k
  <2>1. Tally(all, k).rows = 0 <=> \A i \in 1 .. Len(all) : all[i].k # k
    BY TallyPositive
  <2>2. DOMAIN all = 1 .. Len(all)
    OBVIOUS
  <2> HIDE DEF all
  <2> QED
    BY <2>1, <2>2
<1>2. \A k : SqlGroup(k) = TallyRow(k, Tally(all, k))
  BY SqlGroupIs
<1>3. \A k : AnswerShows(rows, k, Tally(all, k)) /\ Fits(Tally(all, k))
  OBVIOUS
<1> HIDE DEF all, keys
<1>4. ASSUME NEW r \in rows PROVE \E k \in keys : r = SqlGroup(k)
  <2> DEFINE k == r.k
  <2>1. Tally(all, k).rows # 0 /\ r = TallyRow(k, Tally(all, k))
    BY <1>3 DEF AnswerShows
  <2>2. k \in keys
    BY <1>1, <2>1
  <2> QED
    BY <1>2, <2>1, <2>2
<1>5. ASSUME NEW k \in keys PROVE SqlGroup(k) \in rows
  <2>1. Tally(all, k).rows # 0
    BY <1>1
  <2>2. AnswerShows(rows, k, Tally(all, k)) /\ Fits(Tally(all, k))
    BY <1>3
  <2>3. PICK r \in rows : r.k = k
    BY <2>1, <2>2 DEF AnswerShows
  <2>4. r = TallyRow(k, Tally(all, k))
    BY <2>2, <2>3 DEF AnswerShows
  <2> QED
    BY <1>2, <2>4
<1>6. rows = {SqlGroup(k) : k \in keys}
  BY <1>4, <1>5
<1> QED
  BY <1>6 DEF keys, all

\* An answer that shows fewer rows of a key is not.
LEMMA ShownWrongly ==
    ASSUME AllRows \in Seq(RowSet), AllCounted, NEW rows, NEW k, NEW n,
           AnswerShows(rows, k, n), n.rows # Tally(AllRows, k).rows
    PROVE  rows # {SqlGroup(x) : x \in {AllRows[i].k : i \in DOMAIN AllRows}}
<1> DEFINE all == AllRows
           keys == {all[i].k : i \in DOMAIN all}
           t == Tally(all, k)
<1> SUFFICES ASSUME rows = {SqlGroup(x) : x \in keys} PROVE FALSE
  OBVIOUS
<1>1. k \in keys <=> t.rows # 0
  <2>1. t.rows = 0 <=> \A i \in 1 .. Len(all) : all[i].k # k
    BY TallyPositive
  <2>2. DOMAIN all = 1 .. Len(all)
    OBVIOUS
  <2> HIDE DEF all, t
  <2> QED
    BY <2>1, <2>2
<1>2. \A x : SqlGroup(x) = TallyRow(x, Tally(all, x))
  BY SqlGroupIs
<1>3. \A x : SqlGroup(x).k = x /\ SqlGroup(x).count = Tally(all, x).rows
  BY <1>2 DEF TallyRow
<1>4. n.rows # t.rows
  OBVIOUS
<1> HIDE DEF all, keys, t
<1>5. CASE t.rows # 0
  <2>1. SqlGroup(k) \in rows
    BY <1>1, <1>5
  <2>2. SqlGroup(k).k = k /\ SqlGroup(k).count = t.rows
    BY <1>3 DEF t
  <2>3. SqlGroup(k).count = n.rows
    BY <2>1, <2>2 DEF AnswerShows
  <2> QED
    BY <1>4, <2>2, <2>3
<1>6. CASE t.rows = 0
  <2>1. PICK r \in rows : r.k = k
    BY <1>4, <1>6 DEF AnswerShows
  <2>2. PICK x \in keys : r = SqlGroup(x)
    BY <2>1
  <2>3. x = k
    BY <1>3, <2>1, <2>2
  <2> QED
    BY <1>1, <1>6, <2>2, <2>3
<1> QED
  BY <1>5, <1>6

-----------------------------------------------------------------------------
(* A worker.                                                               *)

FirstOf(f, a, w) == ChunkFirst(Len(f.groups), Threads(a), w)
LastOf(f, a, w) == ChunkLast(Len(f.groups), Threads(a), w)
WorkersOf(f, a) == 1 .. ChunkCount(Len(f.groups), Threads(a))

\* A reader that takes nothing of the file.
BlockedFor(f, r) ==
    \/ r \in {"pages", "stream"} /\ (f.keyOptional \/ f.sumOptional)
    \/ ~f.sumInt64

\* Worker w in attempt a: its reader r, its position p and its result have got along, and
\* its state s has the row groups before p, each once if no reader gives up in between.
WorkerOK(f, a, w, r, p, res, s) ==
    /\ p \in FirstOf(f, a, w) .. LastOf(f, a, w) + 1
    /\ res = "some" => p = LastOf(f, a, w) + 1
    /\ BlockedFor(f, r) => p = FirstOf(f, a, w)
    /\ a = "pages" => r = "pages"
    /\ r # "column" => \A i \in FirstOf(f, a, w) .. p - 1 : ~EndsReader(f.groups[i])
    /\ StateOK(s)
    /\ ReadsOnce(f) => \A k : Holds(s, k, GTally(f.groups, FirstOf(f, a, w) .. p - 1, k))
    /\ (\A i \in DOMAIN f.groups : NullFree(f.groups[i].rows)) => (s.open => s.groups = <<>>)
    /\ (\A i \in DOMAIN f.groups : Settled(f.groups[i].rows)) => s.unique = <<>>

\* A chunk is not empty and lies in the file.
LEMMA ChunkBounds ==
    ASSUME NEW f, f.groups \in Seq(RowGroupSet), NEW a, NEW w \in WorkersOf(f, a)
    PROVE  /\ FirstOf(f, a, w) \in Nat \ {0} /\ LastOf(f, a, w) \in Nat
           /\ FirstOf(f, a, w) <= LastOf(f, a, w)
           /\ LastOf(f, a, w) <= Len(f.groups)
           /\ DOMAIN f.groups = 1 .. Len(f.groups) /\ Len(f.groups) \in Nat
<1> DEFINE n == Len(f.groups)
           t == Threads(a)
           d == ChunkSize(n, t)
           c == ChunkCount(n, t)
<1>1. n \in Nat /\ t \in Nat \ {0} /\ DOMAIN f.groups = 1 .. n
  BY FoldAssumption, RowsType DEF Threads
<1>2. d \in Nat \ {0}
  BY <1>1, ChunkSizePositive
<1>3. c \in Nat /\ c * d < n + d
  BY <1>1, <1>2, CeilBounds DEF ChunkCount
<1>4. w \in 1 .. c
  BY DEF WorkersOf
<1>5. FirstOf(f, a, w) = (w - 1) * d + 1 /\ LastOf(f, a, w) = IF w * d < n THEN w * d ELSE n
  BY DEF FirstOf, LastOf, ChunkFirst, ChunkLast, Smaller
<1> HIDE DEF n, t, d, c
<1>6. w \in Nat /\ w - 1 \in Nat /\ (w - 1) + 1 = w /\ w <= c
  BY <1>3, <1>4
<1>7. \A x \in Nat : x * d \in Nat /\ (x + 1) * d = x * d + d
  BY <1>2
<1>8. \A x, y \in Nat : x <= y => x * d <= y * d
  BY <1>2
<1>9. (w - 1) * d \in Nat /\ w * d = (w - 1) * d + d /\ w * d <= c * d /\ c * d \in Nat /\ w * d \in Nat
  <2>1. (w - 1) * d \in Nat /\ ((w - 1) + 1) * d = (w - 1) * d + d
    BY <1>6, <1>7
  <2>2. w * d <= c * d /\ c * d \in Nat /\ w * d \in Nat
    BY <1>3, <1>6, <1>7, <1>8
  <2> QED
    BY <1>6, <2>1, <2>2
<1>10. (w - 1) * d < n
  BY <1>1, <1>2, <1>3, <1>9
<1> QED
  BY <1>1, <1>2, <1>5, <1>9, <1>10 DEF n

\* A new state has nothing.
LEMMA FreshHolds ==
    ASSUME NEW k
    PROVE  StateOK(Fresh) /\ Holds(Fresh, k, NoRows)
<1>1. Fresh.open = TRUE /\ Fresh.unique = <<>> /\ Fresh.groups = <<>>
      /\ Fresh = [open |-> Fresh.open, unique |-> Fresh.unique, groups |-> Fresh.groups]
  BY DEF Fresh
<1>2. StateOK(Fresh)
  BY <1>1, NothingOrdered DEF StateOK
<1>3. Shows(Fresh.groups, k, NoRows)
  BY <1>1 DEF Shows, NoRows
<1>4. NoRows \in Tallies
  BY DEF NoRows, Tallies
<1>5. NoRows = Plus(Tally(Fresh.unique, k), NoRows)
  BY <1>1, <1>4, TallyNothing, PlusNothing
<1> QED
  BY <1>2, <1>3, <1>4, <1>5 DEF Holds

\* A worker starts with nothing read.
LEMMA StartOK ==
    ASSUME NEW f, f.groups \in Seq(RowGroupSet), NEW a \in {"pages", "columns"}, NEW w \in WorkersOf(f, a)
    PROVE  WorkerOK(f, a, w, FirstReader(a), FirstOf(f, a, w), "running", Fresh)
<1> DEFINE x == FirstOf(f, a, w)
           y == LastOf(f, a, w)
<1>1. x \in Nat \ {0} /\ y \in Nat /\ x <= y
  BY ChunkBounds
<1>2. x \in x .. y + 1 /\ x .. x - 1 = {}
  BY <1>1
<1>3. StateOK(Fresh) /\ Fresh.open = TRUE /\ Fresh.groups = <<>> /\ Fresh.unique = <<>>
  BY FreshHolds DEF Fresh
<1>4. \A k : Holds(Fresh, k, GTally(f.groups, x .. x - 1, k))
  <2> TAKE k
  <2>1. GTally(f.groups, {}, k) = NoRows
    BY GTallyEmpty
  <2> QED
    BY <1>2, <2>1, FreshHolds
<1>5. a = "pages" => FirstReader(a) = "pages"
  BY DEF FirstReader
<1> HIDE DEF x, y
<1>6. WorkerOK(f, a, w, FirstReader(a), x, "running", Fresh)
  BY <1>2, <1>3, <1>4, <1>5 DEF WorkerOK, x, y
<1> QED
  BY <1>6 DEF x

\* A worker sends.
LEMMA SentOK ==
    ASSUME NEW f, f.groups \in Seq(RowGroupSet), NEW a, NEW w \in WorkersOf(f, a), NEW r, NEW p, NEW s,
           WorkerOK(f, a, w, r, p, "running", s), NEW res, res = "some" => p > LastOf(f, a, w)
    PROVE  WorkerOK(f, a, w, r, p, res, s)
<1>1. LastOf(f, a, w) \in Nat /\ FirstOf(f, a, w) \in Nat
  BY ChunkBounds
<1>2. p \in FirstOf(f, a, w) .. LastOf(f, a, w) + 1
  BY DEF WorkerOK
<1>3. res = "some" => p = LastOf(f, a, w) + 1
  BY <1>1, <1>2
<1> QED
  BY <1>3 DEF WorkerOK

\* A worker falls back to the next reader: what it has read was nothing.
LEMMA FallenOK ==
    ASSUME NEW f, f.groups \in Seq(RowGroupSet), NEW a \in {"pages", "columns"}, NEW w \in WorkersOf(f, a),
           NEW r, NEW p, NEW s, WorkerOK(f, a, w, r, p, "running", s),
           p <= LastOf(f, a, w), r \in {"stream", "page"},
           BlockedFor(f, r) \/ EndsReader(f.groups[p]), NEW q
    PROVE  WorkerOK(f, a, w, q, FirstOf(f, a, w), "running", s)
<1> DEFINE x == FirstOf(f, a, w)
           y == LastOf(f, a, w)
<1>1. x \in Nat \ {0} /\ y \in Nat /\ x <= y /\ y <= Len(f.groups) /\ DOMAIN f.groups = 1 .. Len(f.groups)
      /\ Len(f.groups) \in Nat
  BY ChunkBounds
<1>2. x \in x .. y + 1 /\ x .. x - 1 = {}
  BY <1>1
<1>3. /\ p \in x .. y + 1 /\ StateOK(s) /\ a # "pages" /\ (BlockedFor(f, r) => p = x)
      /\ \A i \in x .. p - 1 : ~EndsReader(f.groups[i])
      /\ ReadsOnce(f) => \A k : Holds(s, k, GTally(f.groups, x .. p - 1, k))
      /\ (\A i \in DOMAIN f.groups : NullFree(f.groups[i].rows)) => (s.open => s.groups = <<>>)
      /\ (\A i \in DOMAIN f.groups : Settled(f.groups[i].rows)) => s.unique = <<>>
  BY DEF WorkerOK
<1>4. ASSUME ReadsOnce(f), NEW k PROVE Holds(s, k, GTally(f.groups, x .. x - 1, k))
  <2>1. CASE p = x
    BY <1>3, <1>4, <2>1
  <2>2. CASE p # x
    <3>1. EndsReader(f.groups[p])
      BY <1>3, <2>2
    <3>2. a = "columns" /\ Threads(a) = Parallelism
      BY <1>3 DEF Threads
    <3>3. \A i, j \in x .. y : i < j /\ f.groups[i].rows # <<>> /\ EndsReader(f.groups[j]) =>
                                   \E h \in x .. i : EndsReader(f.groups[h])
      <4>1. w \in 1 .. ChunkCount(Len(f.groups), Parallelism)
        BY <3>2 DEF WorkersOf
      <4>2. x = ChunkFirst(Len(f.groups), Parallelism, w) /\ y = ChunkLast(Len(f.groups), Parallelism, w)
        BY <3>2 DEF FirstOf, LastOf
      <4> HIDE DEF x, y
      <4> QED
        BY <1>4, <4>1, <4>2 DEF ReadsOnce
    <3> HIDE DEF x, y
    <3>4. ASSUME NEW i \in x .. p - 1 PROVE f.groups[i].rows = <<>>
      <4>1. i \in x .. y /\ p \in x .. y /\ i < p
        BY <1>1, <1>3 DEF y
      <4>2. SUFFICES ASSUME f.groups[i].rows # <<>> PROVE FALSE
        OBVIOUS
      <4>3. PICK h \in x .. i : EndsReader(f.groups[h])
        BY <3>1, <3>3, <4>1, <4>2
      <4>4. h \in x .. p - 1
        BY <1>1, <1>3, <4>1
      <4> QED
        BY <1>3, <4>3, <4>4
    <3>5. GTally(f.groups, x .. p - 1, k) = NoRows
      BY <3>4, GTallyEmpty
    <3>6. GTally(f.groups, {}, k) = NoRows
      BY GTallyEmpty
    <3>7. Holds(s, k, GTally(f.groups, x .. p - 1, k))
      BY <1>3, <1>4
    <3> QED
      BY <1>2, <3>5, <3>6, <3>7
  <2> QED
    BY <2>1, <2>2
<1>5. WorkerOK(f, a, w, q, x, "running", s)
  <2>1. "running" # "some"
    OBVIOUS
  <2> HIDE DEF x, y
  <2>2. \A i \in x .. x - 1 : ~EndsReader(f.groups[i])
    BY <1>2
  <2> QED
    BY <1>2, <1>3, <1>4, <2>1, <2>2 DEF WorkerOK, x, y
<1> QED
  BY <1>5 DEF x

\* A worker reads a row group.
LEMMA ReadOK ==
    ASSUME NEW f, f.groups \in Seq(RowGroupSet), NEW a \in {"pages", "columns"}, NEW w \in WorkersOf(f, a),
           NEW r, NEW p, NEW s, WorkerOK(f, a, w, r, p, "running", s),
           p <= LastOf(f, a, w), ~BlockedFor(f, r), r # "column" => ~EndsReader(f.groups[p])
    PROVE  WorkerOK(f, a, w, r, p + 1, "running", ConsumeGroup(s, f.groups[p]))
<1> DEFINE x == FirstOf(f, a, w)
           y == LastOf(f, a, w)
           g == f.groups[p]
           new == ConsumeGroup(s, g)
<1>1. x \in Nat \ {0} /\ y \in Nat /\ x <= y /\ y <= Len(f.groups) /\ DOMAIN f.groups = 1 .. Len(f.groups)
      /\ Len(f.groups) \in Nat
  BY ChunkBounds
<1>3. /\ p \in x .. y + 1 /\ StateOK(s) /\ (a = "pages" => r = "pages")
      /\ r # "column" => \A i \in x .. p - 1 : ~EndsReader(f.groups[i])
      /\ ReadsOnce(f) => \A k : Holds(s, k, GTally(f.groups, x .. p - 1, k))
      /\ (\A i \in DOMAIN f.groups : NullFree(f.groups[i].rows)) => (s.open => s.groups = <<>>)
      /\ (\A i \in DOMAIN f.groups : Settled(f.groups[i].rows)) => s.unique = <<>>
  BY DEF WorkerOK
<1>4. p \in Nat /\ p + 1 \in x .. y + 1 /\ (p + 1) - 1 = p /\ p \in DOMAIN f.groups /\ p \in 1 .. Len(f.groups)
  BY <1>1, <1>3
<1>5. g.rows \in Seq(RowSet)
  BY <1>4, RowsType
<1> HIDE DEF x, y, g, new
<1>6. x .. p = (x .. p - 1) \cup {p} /\ (x .. p - 1) \cap {p} = {}
  BY <1>1, <1>3, <1>4
<1>7. StateOK(new)
  BY <1>3, <1>5, ConsumeGroupOK DEF new
<1>8. ASSUME ReadsOnce(f), NEW k PROVE Holds(new, k, GTally(f.groups, x .. p, k))
  <2> DEFINE t == GTally(f.groups, x .. p - 1, k)
  <2>1. t \in Tallies
    BY GroupTalliesType
  <2>2. Holds(s, k, t)
    BY <1>3, <1>8
  <2>3. GTally(f.groups, {p}, k) = Tally(g.rows, k)
    BY <1>4, GTallyOne DEF g
  <2>4. GTally(f.groups, (x .. p - 1) \cup {p}, k) = Plus(t, GTally(f.groups, {p}, k))
    <3> DEFINE M == x .. p - 1
               L == {p}
               gs == f.groups
    <3>1. M \cap L = {} /\ gs \in Seq(RowGroupSet)
      BY <1>6
    <3> HIDE DEF M, L, gs
    <3>2. GTally(gs, M \cup L, k) = Plus(GTally(gs, M, k), GTally(gs, L, k))
      BY <3>1, GTallyUnion
    <3> QED
      BY <3>2 DEF M, L, gs
  <2> HIDE DEF t
  <2>5. Holds(new, k, Plus(t, Tally(g.rows, k)))
    BY <1>3, <1>5, <2>1, <2>2, ConsumeGroupHolds DEF new
  <2> QED
    BY <1>6, <2>3, <2>4, <2>5
<1>9. ASSUME \A i \in DOMAIN f.groups : NullFree(f.groups[i].rows) PROVE new.open => new.groups = <<>>
  <2>1. NullFree(g.rows) /\ (s.open => s.groups = <<>>)
    BY <1>3, <1>4, <1>9 DEF g
  <2> QED
    BY <1>3, <1>5, <2>1, NullFreeStaysUnique DEF new
<1>10. ASSUME \A i \in DOMAIN f.groups : Settled(f.groups[i].rows) PROVE new.unique = <<>>
  <2>1. Settled(g.rows) /\ s.unique = <<>>
    BY <1>3, <1>4, <1>10 DEF g
  <2> QED
    BY <1>3, <1>5, <2>1, SettledLeavesNone DEF new
<1>11. r # "column" => \A i \in x .. p : ~EndsReader(f.groups[i])
  BY <1>3, <1>6
<1>12. WorkerOK(f, a, w, r, p + 1, "running", new)
  <2>1. "running" # "some"
    OBVIOUS
  <2> QED
    BY <1>3, <1>4, <1>7, <1>8, <1>9, <1>10, <1>11, <2>1 DEF WorkerOK, x, y
<1> QED
  BY <1>12 DEF new, g

-----------------------------------------------------------------------------
(* All workers.                                                            *)

\* The state of every worker is that of the row groups it has read.
WorkerInv ==
    /\ partial = [w \in Workers(attempt) |-> partial[w]]
    /\ \A w \in Workers(attempt) :
          WorkerOK(File, attempt, w, reader[w], pos[w], result[w], partial[w])

\* The file of the query, and the names of DirectFold in terms of it.
LEMMA FileType ==
    ASSUME query \in Queries
    PROVE  /\ File.groups \in Seq(RowGroupSet) /\ Groups = File.groups
           /\ \A a : Workers(a) = WorkersOf(File, a)
           /\ \A w : LastGroup(w) = LastOf(File, attempt, w)
           /\ \A a, w : ChunkFirst(Len(Groups), Threads(a), w) = FirstOf(File, a, w)
<1>1. File.groups \in Seq(RowGroupSet)
  BY FoldAssumption DEF File, RowGroupSet
<1> QED
  BY <1>1 DEF Groups, Workers, WorkersOf, LastGroup, LastOf, FirstOf

\* What an attempt starts with is in order.
LEMMA StartedInv ==
    ASSUME query \in Queries, NEW a \in {"pages", "columns"}, NEW w \in Workers(a)
    PROVE  /\ Started(a).partial = [x \in Workers(a) |-> Fresh]
           /\ WorkerOK(File, a, w, Started(a).reader[w], Started(a).pos[w], Started(a).result[w],
                       Started(a).partial[w])
<1>1. /\ Started(a).reader[w] = FirstReader(a) /\ Started(a).result[w] = "running"
      /\ Started(a).partial[w] = Fresh
      /\ Started(a).pos[w] = ChunkFirst(Len(Groups), Threads(a), w)
      /\ Started(a).partial = [x \in Workers(a) |-> Fresh]
  BY DEF Started
<1>2. ChunkFirst(Len(Groups), Threads(a), w) = FirstOf(File, a, w) /\ w \in WorkersOf(File, a)
  BY FileType
<1>3. WorkerOK(File, a, w, FirstReader(a), FirstOf(File, a, w), "running", Fresh)
  BY <1>2, FileType, StartOK
<1> QED
  BY <1>1, <1>2, <1>3

\* WorkerInv, at the start and for each step.
LEMMA WorkerInit == Init => WorkerInv
<1> SUFFICES ASSUME Init PROVE WorkerInv
  OBVIOUS
<1>1. /\ query \in Queries /\ attempt = "pages"
      /\ reader = Started("pages").reader /\ pos = Started("pages").pos
      /\ partial = Started("pages").partial /\ result = Started("pages").result
  BY DEF Init
<1>2. Started("pages").partial = [x \in Workers("pages") |-> Fresh]
  BY DEF Started
<1>3. \A w \in Workers("pages") :
          WorkerOK(File, "pages", w, reader[w], pos[w], result[w], partial[w])
  BY <1>1, StartedInv
<1> QED
  BY <1>1, <1>2, <1>3 DEF WorkerInv

\* A step of one worker.
LEMMA OneWorker ==
    ASSUME FoldInv, WorkerInv, NEW w \in Workers(attempt), UNCHANGED <<query, attempt>>,
           NEW r, NEW p, NEW res, NEW s,
           reader' = [reader EXCEPT ![w] = r], pos' = [pos EXCEPT ![w] = p],
           result' = [result EXCEPT ![w] = res], partial' = [partial EXCEPT ![w] = s],
           WorkerOK(File, attempt, w, r, p, res, s)
    PROVE  WorkerInv'
<1>1. Workers(attempt)' = Workers(attempt) /\ File' = File /\ attempt' = attempt
  BY DEF Workers, Groups, File, Threads
<1>2. /\ DOMAIN reader = Workers(attempt) /\ DOMAIN pos = Workers(attempt)
      /\ DOMAIN result = Workers(attempt)
  BY DEF FoldInv
<1>3. partial = [x \in Workers(attempt) |-> partial[x]]
  BY DEF WorkerInv
<1>4. partial' = [x \in Workers(attempt) |-> partial'[x]] /\ partial'[w] = s
      /\ \A x \in Workers(attempt) : x # w => partial'[x] = partial[x]
  BY <1>3
<1>5. ASSUME NEW x \in Workers(attempt)
      PROVE  WorkerOK(File, attempt, x, reader'[x], pos'[x], result'[x], partial'[x])
  <2>1. CASE x = w
    <3>1. reader'[x] = r /\ pos'[x] = p /\ result'[x] = res /\ partial'[x] = s
      BY <1>2, <1>4, <2>1
    <3> QED
      BY <2>1, <3>1
  <2>2. CASE x # w
    <3>1. /\ reader'[x] = reader[x] /\ pos'[x] = pos[x] /\ result'[x] = result[x]
          /\ partial'[x] = partial[x]
      BY <1>2, <1>4, <2>2
    <3>2. WorkerOK(File, attempt, x, reader[x], pos[x], result[x], partial[x])
      BY DEF WorkerInv
    <3> QED
      BY <3>1, <3>2
  <2> QED
    BY <2>1, <2>2
<1> QED
  BY <1>1, <1>4, <1>5 DEF WorkerInv

\* A function that is not changed, as one changed in one place to what it was.
LEMMA SamePlace ==
    ASSUME NEW D, NEW g, g = [x \in D |-> g[x]], NEW w \in D
    PROVE  g = [g EXCEPT ![w] = g[w]]
  OBVIOUS

\* A worker refuses, fails, reads or sends.
LEMMA WorkerStep ==
    ASSUME FoldInv, WorkerInv, NEW w \in DOMAIN result, Work(w)
    PROVE  WorkerInv'
<1> DEFINE r == reader[w]
           p == pos[w]
           s == partial[w]
<1>1. w \in Workers(attempt) /\ query \in Queries /\ attempt \in {"pages", "columns"}
  BY DEF FoldInv
<1>2. UNCHANGED <<query, attempt>>
  BY DEF Work, Refuse, ReadError, ReadGroup, EndOfChunk
<1>3. Running(w) /\ result[w] = "running"
  BY DEF Work, Refuse, ReadError, ReadGroup, EndOfChunk, Reading, Running
<1>4. WorkerOK(File, attempt, w, r, p, "running", s)
  BY <1>1, <1>3 DEF WorkerInv
<1>5. /\ File.groups \in Seq(RowGroupSet) /\ Groups = File.groups /\ w \in WorkersOf(File, attempt)
      /\ LastGroup(w) = LastOf(File, attempt, w)
      /\ ChunkFirst(Len(Groups), Threads(attempt), w) = FirstOf(File, attempt, w)
  BY <1>1, FileType
<1>6. /\ reader = [reader EXCEPT ![w] = r] /\ pos = [pos EXCEPT ![w] = p]
      /\ partial = [partial EXCEPT ![w] = s]
  <2>1. reader = [x \in Workers(attempt) |-> reader[x]] /\ pos = [x \in Workers(attempt) |-> pos[x]]
    BY DEF FoldInv
  <2>2. partial = [x \in Workers(attempt) |-> partial[x]]
    BY DEF WorkerInv
  <2> QED
    BY <1>1, <2>1, <2>2
<1> HIDE DEF r, p, s
<1>7. ASSUME NEW res, Send(w, res), UNCHANGED <<reader, pos, partial>>, res = "some" => p > LastGroup(w)
      PROVE  WorkerInv'
  <2>1. WorkerOK(File, attempt, w, r, p, res, s)
    BY <1>4, <1>5, <1>7, SentOK
  <2>2. /\ reader' = [reader EXCEPT ![w] = r] /\ pos' = [pos EXCEPT ![w] = p]
        /\ partial' = [partial EXCEPT ![w] = s] /\ result' = [result EXCEPT ![w] = res]
    BY <1>6, <1>7 DEF Send
  <2> QED
    BY <1>1, <1>2, <2>1, <2>2, OneWorker
<1>8. CASE Refuse(w)
  <2>1. Reading(w) /\ p <= LastGroup(w)
    BY <1>8 DEF Refuse, Reading, p
  <2>2. CASE r \in DOMAIN NextReader
    <3>1. /\ reader' = [reader EXCEPT ![w] = NextReader[r]]
          /\ pos' = [pos EXCEPT ![w] = FirstOf(File, attempt, w)]
          /\ UNCHANGED <<partial, result>>
      BY <1>5, <1>8, <2>2 DEF Refuse, FallBack, r
    <3>2. r \in {"stream", "page"}
      BY <2>2 DEF NextReader
    <3>3. BlockedFor(File, r) \/ EndsReader(File.groups[p])
      BY <1>5, <1>8, <3>2 DEF Refuse, RefusesFile, RefusesGroup, BlockedFor, EndsReader, r, p
    <3>4. WorkerOK(File, attempt, w, NextReader[r], FirstOf(File, attempt, w), "running", s)
      BY <1>1, <1>4, <1>5, <2>1, <3>2, <3>3, FallenOK
    <3>5. partial' = [partial EXCEPT ![w] = s] /\ result' = [result EXCEPT ![w] = "running"]
      <4>1. result = [x \in Workers(attempt) |-> result[x]]
        BY DEF FoldInv
      <4>2. result = [result EXCEPT ![w] = result[w]]
        BY <1>1, <4>1, SamePlace
      <4> QED
        BY <1>3, <1>6, <3>1, <4>2
    <3> QED
      BY <1>1, <1>2, <3>1, <3>4, <3>5, OneWorker
  <2>3. CASE r \notin DOMAIN NextReader
    BY <1>7, <1>8, <2>3 DEF Refuse, FallBack, r
  <2> QED
    BY <2>2, <2>3
<1>9. CASE ReadError(w)
  BY <1>7, <1>9 DEF ReadError
<1>10. CASE EndOfChunk(w)
  BY <1>7, <1>10 DEF EndOfChunk, p
<1>11. CASE ReadGroup(w)
  <2>1. /\ p <= LastGroup(w) /\ ~RefusesFile(r) /\ ~RefusesGroup(r, Groups[p])
        /\ partial' = [partial EXCEPT ![w] = ConsumeGroup(s, Groups[p])]
        /\ pos' = [pos EXCEPT ![w] = p + 1] /\ UNCHANGED <<reader, result>>
    BY <1>11 DEF ReadGroup, Reading, r, p, s
  <2>2. ~BlockedFor(File, r) /\ (r # "column" => ~EndsReader(File.groups[p]))
    BY <1>5, <2>1 DEF RefusesFile, RefusesGroup, BlockedFor, EndsReader
  <2>3. WorkerOK(File, attempt, w, r, p + 1, "running", ConsumeGroup(s, File.groups[p]))
    BY <1>1, <1>4, <1>5, <2>1, <2>2, ReadOK
  <2>4. reader' = [reader EXCEPT ![w] = r] /\ result' = [result EXCEPT ![w] = "running"]
    <3>1. result = [x \in Workers(attempt) |-> result[x]]
      BY DEF FoldInv
    <3>2. result = [result EXCEPT ![w] = result[w]]
      BY <1>1, <3>1, SamePlace
    <3> QED
      BY <1>3, <1>6, <2>1, <3>2
  <2> QED
    BY <1>1, <1>2, <1>5, <2>1, <2>3, <2>4, OneWorker
<1> QED
  BY <1>8, <1>9, <1>10, <1>11 DEF Work

\* The steps of the main thread leave the workers alone or start new ones.
LEMMA WorkerKept ==
    ASSUME WorkerInv, UNCHANGED <<query, attempt, reader, pos, partial, result>>
    PROVE  WorkerInv'
<1>1. Workers(attempt)' = Workers(attempt) /\ File' = File /\ attempt' = attempt
  BY DEF Workers, Groups, File, Threads
<1> QED
  BY <1>1 DEF WorkerInv

\* The columns start with new workers.
LEMMA WorkersStarted ==
    ASSUME FoldInv, StartColumns
    PROVE  WorkerInv'
<1>1. /\ attempt' = "columns" /\ query' = query
      /\ reader' = Started("columns").reader /\ pos' = Started("columns").pos
      /\ partial' = Started("columns").partial /\ result' = Started("columns").result
  BY DEF StartColumns
<1>2. Workers(attempt)' = Workers("columns") /\ File' = File /\ query \in Queries
  BY <1>1 DEF Workers, Groups, File, Threads, FoldInv
<1>3. Started("columns").partial = [x \in Workers("columns") |-> Fresh]
  BY DEF Started
<1>4. \A w \in Workers("columns") :
          WorkerOK(File, "columns", w, reader'[w], pos'[w], result'[w], partial'[w])
  BY <1>1, <1>2, StartedInv
<1>5. partial' = [x \in Workers("columns") |-> partial'[x]]
  BY <1>1, <1>3
<1> QED
  BY <1>1, <1>2, <1>4, <1>5 DEF WorkerInv

\* WorkerInv is kept by every step.
LEMMA WorkerNext ==
    ASSUME FoldInv, WorkerInv, [Next]_vars
    PROVE  WorkerInv'
<1>1. CASE Join
  BY <1>1, WorkerKept DEF Join, workerVars
<1>2. CASE Take
  <2>1. CASE StartColumns
    BY <2>1, WorkersStarted
  <2>2. CASE ~StartColumns
    BY <1>2, <2>2, WorkerKept DEF Take, workerVars
  <2> QED
    BY <2>1, <2>2
<1>3. CASE Answer
  BY <1>3, WorkerKept DEF Answer, workerVars
<1>4. ASSUME NEW w \in DOMAIN result, Work(w) PROVE WorkerInv'
  BY <1>4, WorkerStep
<1>5. CASE UNCHANGED vars
  BY <1>5, WorkerKept DEF vars
<1> QED
  BY <1>1, <1>2, <1>3, <1>4, <1>5 DEF Next

-----------------------------------------------------------------------------
(* The merged state.                                                       *)

\* The workers taken, and their row groups.
Taken(order, n) == {order[i] : i \in 1 .. n}
TakenGroups(f, a, T) == UNION {FirstOf(f, a, w) .. LastOf(f, a, w) : w \in T}

\* Some of these workers has unique rows of the key k.
LeavesUnique(parts, T, k) == \E w \in T : Tally(parts[w].unique, k).rows # 0

\* The state s has what the workers in T have read of the key k, but for l rows, the
\* unique rows of these workers.
MergedShows(f, a, parts, T, s, k) ==
    \E l, m \in Tallies :
        /\ Plus(l, m) = GTally(f.groups, TakenGroups(f, a, T), k)
        /\ Shows(s.groups, k, m)
        /\ l.rows # 0 <=> LeavesUnique(parts, T, k)

\* The state into which the workers in T have been merged.
MergedOK(f, a, parts, T, s) ==
    /\ StateOK(s) /\ s.open /\ s.unique = <<>>
    /\ ReadsOnce(f) => \A k : MergedShows(f, a, parts, T, s, k)

\* No row group is in the chunks of two workers.
LEMMA ChunksDisjoint ==
    ASSUME NEW f, f.groups \in Seq(RowGroupSet), NEW a, NEW w \in WorkersOf(f, a), NEW x \in WorkersOf(f, a),
           NEW g \in FirstOf(f, a, w) .. LastOf(f, a, w), g \in FirstOf(f, a, x) .. LastOf(f, a, x)
    PROVE  x = w
<1> DEFINE n == Len(f.groups)
           t == Threads(a)
<1>1. n \in Nat /\ t \in Nat \ {0}
  BY FoldAssumption, RowsType DEF Threads
<1>2. FirstOf(f, a, w) \in Nat \ {0} /\ LastOf(f, a, w) \in Nat /\ LastOf(f, a, w) <= n
  BY ChunkBounds
<1>3. g \in 1 .. n
  BY <1>1, <1>2
<1>4. /\ w \in 1 .. ChunkCount(n, t) /\ x \in 1 .. ChunkCount(n, t)
      /\ g \in ChunkFirst(n, t, w) .. ChunkLast(n, t, w) /\ g \in ChunkFirst(n, t, x) .. ChunkLast(n, t, x)
  BY DEF WorkersOf, FirstOf, LastOf
<1> HIDE DEF n, t
<1>5. PICK y \in 1 .. ChunkCount(n, t) :
          \A z \in 1 .. ChunkCount(n, t) : g \in ChunkFirst(n, t, z) .. ChunkLast(n, t, z) => z = y
  BY <1>1, <1>3, ChunksPartition
<1> QED
  BY <1>4, <1>5

\* Together the chunks are the file.
LEMMA ChunksCover ==
    ASSUME NEW f, f.groups \in Seq(RowGroupSet), NEW a
    PROVE  TakenGroups(f, a, WorkersOf(f, a)) = DOMAIN f.groups
<1> DEFINE n == Len(f.groups)
           t == Threads(a)
<1>1. n \in Nat /\ t \in Nat \ {0} /\ DOMAIN f.groups = 1 .. n
  BY FoldAssumption, RowsType DEF Threads
<1>2. ASSUME NEW g \in 1 .. n PROVE g \in TakenGroups(f, a, WorkersOf(f, a))
  <2> HIDE DEF n, t
  <2>1. PICK y \in 1 .. ChunkCount(n, t) : g \in ChunkFirst(n, t, y) .. ChunkLast(n, t, y)
    BY <1>1, ChunksPartition
  <2>2. y \in WorkersOf(f, a) /\ g \in FirstOf(f, a, y) .. LastOf(f, a, y)
    BY <2>1 DEF WorkersOf, FirstOf, LastOf, n, t
  <2> QED
    BY <2>2 DEF TakenGroups
<1>3. ASSUME NEW g \in TakenGroups(f, a, WorkersOf(f, a)) PROVE g \in 1 .. n
  <2>1. PICK y \in WorkersOf(f, a) : g \in FirstOf(f, a, y) .. LastOf(f, a, y)
    BY <1>3 DEF TakenGroups
  <2>2. FirstOf(f, a, y) \in Nat \ {0} /\ LastOf(f, a, y) \in Nat /\ LastOf(f, a, y) <= n
    BY ChunkBounds
  <2> QED
    BY <1>1, <2>1, <2>2
<1> QED
  BY <1>1, <1>2, <1>3

\* Nothing has been merged yet.
LEMMA NothingMerged ==
    ASSUME NEW f, f.groups \in Seq(RowGroupSet), NEW a, NEW parts
    PROVE  MergedOK(f, a, parts, {}, Fresh)
<1>1. TakenGroups(f, a, {}) = {}
  BY DEF TakenGroups
<1>2. ASSUME NEW k PROVE MergedShows(f, a, parts, {}, Fresh, k)
  <2>1. GTally(f.groups, {}, k) = NoRows
    BY GTallyEmpty
  <2>2. NoRows \in Tallies /\ Plus(NoRows, NoRows) = NoRows /\ NoRows.rows = 0
    BY DEF NoRows, Tallies, Plus
  <2>3. Shows(Fresh.groups, k, NoRows)
    BY DEF Shows, NoRows, Fresh
  <2>4. ~LeavesUnique(parts, {}, k)
    BY DEF LeavesUnique
  <2> QED
    BY <1>1, <2>1, <2>2, <2>3, <2>4 DEF MergedShows
<1>3. StateOK(Fresh) /\ Fresh.open /\ Fresh.unique = <<>>
  BY FreshHolds DEF Fresh
<1> QED
  BY <1>2, <1>3 DEF MergedOK

\* What has been merged does not change with the others.
LEMMA MergedKept ==
    ASSUME NEW f, NEW a, NEW parts, NEW T, NEW s, MergedOK(f, a, parts, T, s),
           NEW new, \A w \in T : new[w] = parts[w]
    PROVE  MergedOK(f, a, new, T, s)
<1>1. ASSUME NEW k PROVE LeavesUnique(new, T, k) <=> LeavesUnique(parts, T, k)
  BY DEF LeavesUnique
<1>2. ASSUME NEW k, MergedShows(f, a, parts, T, s, k) PROVE MergedShows(f, a, new, T, s, k)
  BY <1>1, <1>2 DEF MergedShows
<1> QED
  BY <1>2 DEF MergedOK

\* merge: the groups of one more worker, read to the end.
LEMMA MergeOK ==
    ASSUME NEW f, f.groups \in Seq(RowGroupSet), NEW a \in {"pages", "columns"}, NEW parts,
           NEW T, T \subseteq WorkersOf(f, a), NEW w \in WorkersOf(f, a), w \notin T, NEW r, NEW p,
           WorkerOK(f, a, w, r, p, "some", parts[w]), NEW s, MergedOK(f, a, parts, T, s)
    PROVE  MergedOK(f, a, parts, T \cup {w}, Merge(s, parts[w]))
<1> DEFINE x == FirstOf(f, a, w)
           y == LastOf(f, a, w)
           G == TakenGroups(f, a, T)
           C == x .. y
           gs == f.groups
           part == parts[w]
           new == Merge(s, part)
           all == T \cup {w}
<1>1. /\ StateOK(part) /\ p = y + 1
      /\ ReadsOnce(f) => \A k : Holds(part, k, GTally(gs, x .. p - 1, k))
  BY DEF WorkerOK
<1>2. x .. p - 1 = C
  <2>1. y \in Nat
    BY ChunkBounds
  <2> QED
    BY <1>1, <2>1
<1>3. TakenGroups(f, a, all) = G \cup C
  BY DEF TakenGroups
<1>4. G \cap C = {}
  <2> SUFFICES ASSUME NEW g \in C, g \in G PROVE FALSE
    OBVIOUS
  <2>1. PICK v \in T : g \in FirstOf(f, a, v) .. LastOf(f, a, v)
    BY DEF TakenGroups
  <2>2. v = w
    BY <2>1, ChunksDisjoint
  <2> QED
    BY <2>1, <2>2
<1>5. gs \in Seq(RowGroupSet)
  OBVIOUS
<1>6. StateOK(s) /\ s.open /\ s.unique = <<>>
  BY DEF MergedOK
<1>7. new.open = s.open /\ new.unique = s.unique /\ new.groups = MergeGroups(s.groups, part.groups)
      /\ new = [open |-> new.open, unique |-> new.unique, groups |-> new.groups]
  <2> DEFINE o == s.open
             u == s.unique
             g == s.groups
             h == MergeGroups(g, part.groups)
  <2>1. s = [open |-> o, unique |-> u, groups |-> g]
    BY <1>6 DEF StateOK
  <2>2. new = [s EXCEPT !.groups = h]
    BY DEF Merge
  <2> HIDE DEF o, u, g, h, new
  <2>3. new = [open |-> o, unique |-> u, groups |-> h]
    BY <2>1, <2>2
  <2>4. new.open = o /\ new.unique = u /\ new.groups = h
    BY <2>3
  <2> QED
    BY <2>3, <2>4 DEF o, u, g, h
<1> HIDE DEF x, y, G, C, gs, part, new, all
<1>8. StateOK(new) /\ new.open /\ new.unique = <<>>
  BY <1>6, <1>7 DEF StateOK
<1>9. ASSUME ReadsOnce(f), NEW k PROVE MergedShows(f, a, parts, all, new, k)
  <2> DEFINE u == Tally(part.unique, k)
  <2>1. PICK b \in Tallies : Shows(part.groups, k, b) /\ GTally(gs, C, k) = Plus(u, b)
    <3>1. Holds(part, k, GTally(gs, C, k))
      BY <1>1, <1>2, <1>9
    <3> QED
      BY <3>1 DEF Holds
  <2>2. MergedShows(f, a, parts, T, s, k)
    BY <1>9 DEF MergedOK
  <2>3. PICK l \in Tallies, m \in Tallies :
          /\ Plus(l, m) = GTally(gs, G, k)
          /\ Shows(s.groups, k, m)
          /\ l.rows # 0 <=> LeavesUnique(parts, T, k)
    BY <2>2 DEF MergedShows, gs, G
  <2>4. u \in Tallies
    <3>1. part.unique \in Seq(RowSet)
      BY <1>1 DEF StateOK
    <3> QED
      BY <3>1, RowTalliesType
  <2>5. u.rows # 0 \/ LeavesUnique(parts, T, k) <=> LeavesUnique(parts, all, k)
    BY DEF LeavesUnique, all, part
  <2> HIDE DEF u
  <2>6. GTally(gs, G \cup C, k) = Plus(GTally(gs, G, k), GTally(gs, C, k))
    BY <1>4, <1>5, GTallyUnion
  <2>7. Plus(Plus(l, m), Plus(u, b)) = Plus(Plus(l, u), Plus(m, b))
    BY <2>4, PlusPlus
  <2>8. Plus(l, u) \in Tallies /\ Plus(m, b) \in Tallies
    BY <2>4, PlusType
  <2>9. Shows(new.groups, k, Plus(m, b))
    BY <1>7, <2>1, <2>3, MergeGroupsShows
  <2>10. Plus(l, u).rows # 0 <=> LeavesUnique(parts, all, k)
    <3>1. Plus(l, u).rows = l.rows + u.rows /\ l.rows \in Nat /\ u.rows \in Nat
      BY <2>4, PlusRows
    <3>2. Plus(l, u).rows # 0 <=> l.rows # 0 \/ u.rows # 0
      BY <3>1
    <3> QED
      BY <2>3, <2>5, <3>2
  <2>11. Plus(Plus(l, u), Plus(m, b)) = GTally(gs, TakenGroups(f, a, all), k)
    BY <1>3, <2>1, <2>3, <2>6, <2>7
  <2> QED
    BY <2>8, <2>9, <2>10, <2>11 DEF MergedShows, gs
<1>10. MergedOK(f, a, parts, all, new)
  BY <1>8, <1>9 DEF MergedOK
<1> QED
  BY <1>10 DEF all, new, part

\* The main thread's state: the merge of the workers taken, or the one worker's state.
TotalInv ==
    /\ Len(Groups) > 1 => MergedOK(File, attempt, partial, Taken(arrived, received), total)
    /\ Len(Groups) <= 1 => total = IF received = 0 THEN Fresh ELSE partial[arrived[received]]
    /\ answer.kind = "groups" => answer.rows = Finish(total)

\* TotalInv, at the start and for each step.
LEMMA TotalInit == Init => TotalInv
<1> SUFFICES ASSUME Init PROVE TotalInv
  OBVIOUS
<1>1. /\ query \in Queries /\ arrived = <<>> /\ received = 0 /\ total = Fresh
      /\ answer = [kind |-> "waiting"]
  BY DEF Init
<1>2. Taken(arrived, received) = {}
  BY <1>1 DEF Taken
<1>3. MergedOK(File, attempt, partial, {}, Fresh)
  BY <1>1, FileType, NothingMerged
<1> QED
  BY <1>1, <1>2, <1>3 DEF TotalInv

\* Who has been taken is done and does not change.
LEMMA TakenDone ==
    ASSUME FoldInv
    PROVE  /\ Taken(arrived, received) \subseteq Workers(attempt)
           /\ \A w \in Taken(arrived, received) : result[w] = "some"
           /\ received \in Nat /\ (received # 0 => arrived[received] \in Taken(arrived, received))
           /\ Len(arrived) \in Nat /\ received <= Len(arrived)
<1>1. /\ arrived \in Seq(Workers(attempt)) /\ received \in 0 .. Len(arrived)
      /\ \A i \in 1 .. received : result[arrived[i]] = "some"
  BY DEF FoldInv
<1>2. Len(arrived) \in Nat
  BY <1>1
<1>3. \A i \in 1 .. received : i \in 1 .. Len(arrived) /\ arrived[i] \in Workers(attempt)
  BY <1>1, <1>2
<1>4. received # 0 => received \in 1 .. received
  BY <1>1, <1>2
<1> QED
  BY <1>1, <1>2, <1>3, <1>4 DEF Taken

\* A step of a worker leaves the main thread's state alone.
LEMMA TotalKept ==
    ASSUME FoldInv, TotalInv, UNCHANGED <<query, attempt, received, total, answer>>,
           \A i \in 1 .. received : arrived'[i] = arrived[i],
           \A w \in Taken(arrived, received) : partial'[w] = partial[w]
    PROVE  TotalInv'
<1>1. Groups' = Groups /\ File' = File
  BY DEF Groups, File
<1>2. Taken(arrived', received') = Taken(arrived, received)
  BY DEF Taken
<1>3. ASSUME Len(Groups) > 1
      PROVE  MergedOK(File, attempt, partial', Taken(arrived, received), total)
  <2>1. MergedOK(File, attempt, partial, Taken(arrived, received), total)
    BY <1>3 DEF TotalInv
  <2> QED
    BY <2>1, MergedKept
<1>4. ASSUME received # 0 PROVE partial'[arrived'[received]] = partial[arrived[received]]
  <2>1. received \in Nat /\ arrived[received] \in Taken(arrived, received)
    BY <1>4, TakenDone
  <2>2. arrived'[received] = arrived[received]
    BY <1>4, <2>1
  <2> QED
    BY <2>1, <2>2
<1> QED
  BY <1>1, <1>2, <1>3, <1>4 DEF TotalInv

\* Workers do not touch what has been taken.
LEMMA TotalWork ==
    ASSUME FoldInv, TotalInv, WorkerInv, NEW w \in DOMAIN result, Work(w)
    PROVE  TotalInv'
<1>1. UNCHANGED <<query, attempt, received, total, answer>>
  BY DEF Work, Refuse, ReadError, ReadGroup, EndOfChunk
<1>2. result[w] = "running"
  BY DEF Work, Refuse, ReadError, ReadGroup, EndOfChunk, Reading, Running
<1>3. arrived' = arrived \/ arrived' = Append(arrived, w)
  BY DEF Work, Refuse, FallBack, ReadError, ReadGroup, EndOfChunk, Send
<1>4. partial' = partial \/ \E s : partial' = [partial EXCEPT ![w] = s]
  BY DEF Work, Refuse, FallBack, ReadError, ReadGroup, EndOfChunk
<1>5. \A i \in 1 .. received : arrived'[i] = arrived[i]
  <2>1. arrived \in Seq(Workers(attempt)) /\ Len(arrived) \in Nat /\ received \in Nat /\ received <= Len(arrived)
    BY TakenDone DEF FoldInv
  <2> QED
    BY <1>3, <2>1
<1>6. \A v \in Taken(arrived, received) : partial'[v] = partial[v]
  <2> TAKE v \in Taken(arrived, received)
  <2>1. v # w /\ v \in Workers(attempt)
    BY <1>2, TakenDone
  <2>2. partial = [x \in Workers(attempt) |-> partial[x]]
    BY DEF WorkerInv
  <2> QED
    BY <1>4, <2>1, <2>2
<1> QED
  BY <1>1, <1>5, <1>6, TotalKept

\* The receive loop.
LEMMA TotalTake ==
    ASSUME FoldInv, TotalInv, WorkerInv, Take
    PROVE  TotalInv'
<1> DEFINE w == arrived[received + 1]
           T == Taken(arrived, received)
<1>0. /\ phase = "receiving" /\ received < Len(arrived) /\ answer.kind # "groups"
      /\ query \in Queries /\ attempt \in {"pages", "columns"}
  BY DEF Take, FoldInv
<1>1. /\ T \subseteq Workers(attempt) /\ received \in Nat /\ Len(arrived) \in Nat
      /\ received + 1 \in 1 .. Len(arrived) /\ w \in Workers(attempt)
  <2>1. /\ T \subseteq Workers(attempt) /\ received \in Nat /\ Len(arrived) \in Nat
    BY TakenDone
  <2>2. received + 1 \in 1 .. Len(arrived) /\ arrived \in Seq(Workers(attempt))
    BY <1>0, <2>1 DEF FoldInv
  <2> QED
    BY <2>1, <2>2
<1>2. w \notin T
  <2> SUFFICES ASSUME w \in T PROVE FALSE
    OBVIOUS
  <2>1. PICK i \in 1 .. received : arrived[i] = arrived[received + 1]
    BY DEF Taken
  <2>2. i \in 1 .. Len(arrived) /\ i # received + 1
    BY <1>1
  <2>3. \A m, n \in 1 .. Len(arrived) : arrived[m] = arrived[n] => m = n
    BY DEF FoldInv
  <2> QED
    BY <1>1, <2>1, <2>2, <2>3
<1>3. Taken(arrived, received + 1) = T \cup {w}
  <2>1. 1 .. received + 1 = (1 .. received) \cup {received + 1}
    BY <1>1
  <2> QED
    BY <2>1 DEF Taken
<1>4. File.groups \in Seq(RowGroupSet) /\ Groups = File.groups /\ Workers(attempt) = WorkersOf(File, attempt)
  BY <1>0, FileType
<1> HIDE DEF T, w
<1>5. CASE /\ result[w] = "some" /\ received' = received + 1
           /\ total' = IF Len(Groups) <= 1 THEN partial[w] ELSE Merge(total, partial[w])
           /\ UNCHANGED <<query, attempt, phase, workerVars, answer>>
  <2>1. /\ Groups' = Groups /\ File' = File /\ attempt' = attempt /\ arrived' = arrived /\ partial' = partial
        /\ answer' = answer
    BY <1>5 DEF Groups, File, workerVars
  <2>2. Taken(arrived, received)' = T \cup {w}
    BY <1>3, <1>5, <2>1
  <2>3. ASSUME Len(Groups) > 1 PROVE MergedOK(File, attempt, partial, T \cup {w}, total')
    <3>1. MergedOK(File, attempt, partial, T, total)
      BY <2>3 DEF TotalInv, T
    <3>2. WorkerOK(File, attempt, w, reader[w], pos[w], "some", partial[w])
      BY <1>1, <1>5 DEF WorkerInv
    <3>3. Len(Groups) \in Nat
      BY <1>4, RowsType
    <3>4. total' = Merge(total, partial[w])
      BY <1>5, <2>3, <3>3
    <3>5. MergedOK(File, attempt, partial, T \cup {w}, Merge(total, partial[w]))
      BY <1>0, <1>1, <1>2, <1>4, <3>1, <3>2, MergeOK
    <3> QED
      BY <3>4, <3>5
  <2>4. ASSUME Len(Groups) <= 1 PROVE total' = partial[arrived[received']] /\ received' # 0
    BY <1>1, <1>5, <2>4 DEF w
  <2> QED
    BY <1>0, <2>1, <2>2, <2>3, <2>4 DEF TotalInv
<1>6. CASE /\ UNCHANGED <<query, attempt, workerVars, received, total>>
           /\ answer' = [kind |-> "error"] \/ answer' = [kind |-> "declined"]
  <2>1. /\ Groups' = Groups /\ File' = File /\ attempt' = attempt /\ arrived' = arrived /\ partial' = partial
        /\ received' = received /\ total' = total /\ answer'.kind # "groups"
    BY <1>6 DEF Groups, File, workerVars
  <2> QED
    BY <2>1 DEF TotalInv
<1>7. CASE StartColumns
  <2>1. /\ Groups' = Groups /\ File' = File /\ attempt' = "columns" /\ arrived' = <<>> /\ received' = 0
        /\ total' = Fresh /\ answer' = answer
    BY <1>7 DEF StartColumns, Groups, File
  <2>2. Taken(arrived, received)' = {}
    BY <2>1 DEF Taken
  <2>3. MergedOK(File, "columns", partial', {}, Fresh)
    BY <1>4, NothingMerged
  <2> QED
    BY <1>0, <2>1, <2>2, <2>3 DEF TotalInv
<1> QED
  BY <1>5, <1>6, <1>7 DEF Take, Return, w

\* The answer is what finish makes of the main thread's state.
LEMMA TotalAnswer ==
    ASSUME FoldInv, TotalInv, Answer
    PROVE  TotalInv'
<1>1. /\ answer' = [kind |-> "groups", rows |-> Finish(total)]
      /\ UNCHANGED <<query, attempt, workerVars, received, total>>
  BY DEF Answer, Return
<1>2. /\ Groups' = Groups /\ File' = File /\ attempt' = attempt /\ arrived' = arrived /\ partial' = partial
      /\ received' = received /\ total' = total /\ answer'.rows = Finish(total)
  BY <1>1 DEF Groups, File, workerVars
<1> QED
  BY <1>2 DEF TotalInv

\* TotalInv is kept by every step.
LEMMA TotalNext ==
    ASSUME FoldInv, WorkerInv, TotalInv, [Next]_vars
    PROVE  TotalInv'
<1>1. ASSUME UNCHANGED <<query, attempt, received, total, answer, arrived, partial>> PROVE TotalInv'
  BY <1>1, TotalKept
<1>2. CASE Join
  BY <1>1, <1>2 DEF Join, workerVars
<1>3. CASE Take
  BY <1>3, TotalTake
<1>4. CASE Answer
  BY <1>4, TotalAnswer
<1>5. ASSUME NEW w \in DOMAIN result, Work(w) PROVE TotalInv'
  BY <1>5, TotalWork
<1>6. CASE UNCHANGED vars
  BY <1>1, <1>6 DEF vars
<1> QED
  BY <1>2, <1>3, <1>4, <1>5, <1>6 DEF Next

\* All three are invariants.
LEMMA AnswerInvariant == Spec => [](FoldInv /\ WorkerInv /\ TotalInv)
<1> DEFINE I == FoldInv /\ WorkerInv /\ TotalInv
<1>1. Init => WorkerInv /\ TotalInv
  BY WorkerInit, TotalInit
<1>2. FoldInv /\ (WorkerInv /\ TotalInv) /\ [Next]_vars => (WorkerInv /\ TotalInv)'
  BY WorkerNext, TotalNext
<1> QED
  BY <1>1, <1>2, FoldInvariant, PTL DEF Spec

-----------------------------------------------------------------------------
(* What is answered.                                                       *)

\* finish shows what the state has of a key, but for l rows: its unique rows if there are
\* groups beside them.
LEMMA FinishIs ==
    ASSUME NEW s, StateOK(s), NEW k, NEW n, Holds(s, k, n)
    PROVE  \E l, m \in Tallies :
               /\ Plus(l, m) = n /\ AnswerShows(Finish(s), k, m)
               /\ l.rows # 0 <=> s.groups # <<>> /\ Tally(s.unique, k).rows # 0
<1> DEFINE u == Tally(s.unique, k)
<1>1. s.unique \in Seq(RowSet) /\ (~s.open => s.unique = <<>>) /\ s.open \in BOOLEAN
  BY DEF StateOK
<1>2. u \in Tallies
  BY <1>1, RowTalliesType
<1>3. PICK a \in Tallies : Shows(s.groups, k, a) /\ n = Plus(u, a)
  BY DEF Holds
<1>4. NoRows \in Tallies /\ NoRows.rows = 0 /\ Plus(NoRows, u) = u /\ Plus(u, NoRows) = u
  BY <1>2, PlusNothing DEF NoRows
<1>5. CASE s.groups = <<>>
  <2>1. a = NoRows
    <3>1. a.rows = 0
      BY <1>3, <1>5 DEF Shows
    <3> QED
      BY <3>1, PlusNothing
  <2>2. n = u
    BY <1>3, <1>4, <2>1
  <2>3. AnswerShows(Finish(s), k, u)
    <3>1. CASE s.open
      BY <1>5, <3>1, FinishUnique
    <3>2. CASE ~s.open
      <4>1. u = NoRows
        BY <1>1, <3>2, TallyNothing
      <4> QED
        BY <1>3, <2>1, <3>2, <4>1, FinishGroups
    <3> QED
      BY <3>1, <3>2
  <2> HIDE DEF u
  <2> QED
    BY <1>2, <1>4, <1>5, <2>2, <2>3
<1>6. CASE s.groups # <<>>
  <2>1. AnswerShows(Finish(s), k, a)
    BY <1>3, <1>6, FinishGroups
  <2> QED
    BY <1>2, <1>3, <1>6, <2>1
<1> QED
  BY <1>5, <1>6

\* Some worker has unique rows of the key k that finish or a merge looks past.
Forgets(k) ==
    \E w \in DOMAIN partial :
        /\ Tally(partial[w].unique, k).rows # 0
        /\ Len(Groups) > 1 \/ partial[w].groups # <<>>

\* Rows are forgotten if those of some key are.
LEMMA ForgetsIs ==
    ASSUME WorkerInv
    PROVE  ForgetsRows <=> \E k : Forgets(k)
<1>1. DOMAIN partial = Workers(attempt) /\ \A w \in DOMAIN partial : StateOK(partial[w])
  BY DEF WorkerInv, WorkerOK
<1>2. ASSUME NEW w \in DOMAIN partial
      PROVE  partial[w].unique # <<>> <=> \E k : Tally(partial[w].unique, k).rows # 0
  <2> DEFINE u == partial[w].unique
  <2>1. u \in Seq(RowSet)
    BY <1>1 DEF StateOK
  <2>2. \A k : Tally(u, k).rows = 0 <=> \A i \in 1 .. Len(u) : u[i].k # k
    BY <2>1, TallyPositive
  <2> HIDE DEF u
  <2>3. u = <<>> <=> Len(u) = 0
    BY <2>1
  <2>4. ASSUME u # <<>> PROVE \E k : Tally(u, k).rows # 0
    <3>1. 1 \in 1 .. Len(u)
      BY <2>1, <2>3, <2>4
    <3>2. Tally(u, u[1].k).rows # 0
      BY <2>2, <3>1
    <3> QED
      BY <3>2
  <2>5. ASSUME NEW k, Tally(u, k).rows # 0 PROVE u # <<>>
    <3>1. PICK i \in 1 .. Len(u) : u[i].k = k
      BY <2>2, <2>5
    <3> QED
      BY <2>1, <2>3, <3>1
  <2> QED
    BY <2>4, <2>5 DEF u
<1> QED
  BY <1>2 DEF ForgetsRows, Forgets

\* The answer shows what the file has of a key, but for the rows forgotten.
LEMMA AnswerMade ==
    ASSUME FoldInv, WorkerInv, TotalInv, answer.kind = "groups", ReadsOnce(File), NEW k
    PROVE  \E l, m \in Tallies :
               /\ Plus(l, m) = Tally(AllRows, k) /\ AnswerShows(answer.rows, k, m)
               /\ l.rows # 0 <=> Forgets(k)
<1> DEFINE gs == File.groups
           T == Taken(arrived, received)
           n == Len(gs)
<1>1. /\ query \in Queries /\ attempt \in {"pages", "columns"} /\ phase = "done" /\ received = Len(arrived)
      /\ DOMAIN result = Workers(attempt) /\ answer.rows = Finish(total)
  BY DEF FoldInv, TotalInv
<1>2. gs \in Seq(RowGroupSet) /\ Groups = gs /\ Workers(attempt) = WorkersOf(File, attempt)
  BY <1>1, FileType
<1>3. DOMAIN partial = Workers(attempt)
      /\ \A w \in Workers(attempt) : WorkerOK(File, attempt, w, reader[w], pos[w], result[w], partial[w])
  BY DEF WorkerInv
<1>4. T = Workers(attempt)
  <2>1. \A w \in Workers(attempt) : \E i \in 1 .. Len(arrived) : arrived[i] = w
    BY <1>1 DEF FoldInv
  <2> QED
    BY <1>1, <2>1, TakenDone DEF Taken
<1>5. Tally(AllRows, k) = GTally(gs, DOMAIN gs, k)
  <2>1. AllRows = FlattenSeq([i \in DOMAIN gs |-> gs[i].rows])
    BY <1>2 DEF AllRows
  <2> HIDE DEF gs
  <2> QED
    BY <1>2, <2>1, FlattenTally
<1>6. n \in Nat /\ DOMAIN gs = 1 .. n
  BY <1>2, RowsType
<1>7. CASE n > 1
  <2>1. StateOK(total) /\ total.unique = <<>> /\ MergedShows(File, attempt, partial, T, total, k)
    BY <1>2, <1>7 DEF TotalInv, MergedOK
  <2>2. TakenGroups(File, attempt, T) = DOMAIN gs
    BY <1>2, <1>4, ChunksCover
  <2>3. PICK l \in Tallies, m \in Tallies :
          /\ Plus(l, m) = GTally(gs, DOMAIN gs, k)
          /\ Shows(total.groups, k, m)
          /\ l.rows # 0 <=> LeavesUnique(partial, T, k)
    BY <2>1, <2>2 DEF MergedShows
  <2>4. Tally(total.unique, k) = NoRows /\ Plus(NoRows, m) = m /\ NoRows.rows = 0
    BY <2>1, TallyNothing, PlusNothing DEF NoRows
  <2>5. Holds(total, k, m)
    BY <2>3, <2>4 DEF Holds
  <2>6. PICK o \in Tallies, a \in Tallies :
          /\ Plus(o, a) = m /\ AnswerShows(Finish(total), k, a)
          /\ o.rows # 0 <=> total.groups # <<>> /\ Tally(total.unique, k).rows # 0
    BY <2>1, <2>5, FinishIs
  <2>7. o = NoRows /\ a = m
    BY <2>4, <2>6, PlusNothing
  <2>8. LeavesUnique(partial, T, k) <=> Forgets(k)
    BY <1>2, <1>3, <1>4, <1>7 DEF LeavesUnique, Forgets
  <2> QED
    BY <1>1, <1>5, <2>3, <2>6, <2>7, <2>8
<1>8. CASE n <= 1 /\ received = 0
  <2>1. Workers(attempt) = {}
    BY <1>4, <1>8 DEF Taken
  <2>2. DOMAIN gs = {}
    <3>1. TakenGroups(File, attempt, WorkersOf(File, attempt)) = {}
      BY <1>2, <2>1 DEF TakenGroups
    <3> QED
      BY <1>2, <3>1, ChunksCover
  <2>3. total = Fresh
    BY <1>2, <1>8 DEF TotalInv
  <2>4. GTally(gs, DOMAIN gs, k) = NoRows
    BY <1>2, <2>2, GTallyEmpty
  <2>5. StateOK(Fresh) /\ Holds(Fresh, k, NoRows) /\ Fresh.groups = <<>>
    BY FreshHolds DEF Fresh
  <2>6. PICK l \in Tallies, m \in Tallies :
          /\ Plus(l, m) = NoRows /\ AnswerShows(Finish(Fresh), k, m)
          /\ l.rows # 0 <=> Fresh.groups # <<>> /\ Tally(Fresh.unique, k).rows # 0
    BY <2>5, FinishIs
  <2>7. ~Forgets(k)
    BY <1>3, <2>1 DEF Forgets
  <2> QED
    BY <1>1, <1>5, <2>3, <2>4, <2>5, <2>6, <2>7
<1>9. CASE n <= 1 /\ received # 0
  <2> DEFINE w == arrived[received]
             s == partial[w]
  <2>1. w \in Workers(attempt) /\ result[w] = "some" /\ total = s
    <3>1. w \in T /\ T \subseteq Workers(attempt) /\ \A x \in T : result[x] = "some"
      BY <1>9, TakenDone
    <3>2. total = s
      BY <1>2, <1>9 DEF TotalInv
    <3> HIDE DEF w, s, T
    <3> QED
      BY <3>1, <3>2
  <2>2. /\ FirstOf(File, attempt, w) \in Nat \ {0} /\ LastOf(File, attempt, w) \in Nat
        /\ FirstOf(File, attempt, w) <= LastOf(File, attempt, w) /\ LastOf(File, attempt, w) <= n
    BY <1>2, <2>1, ChunkBounds
  <2>3. n = 1 /\ FirstOf(File, attempt, w) = 1 /\ LastOf(File, attempt, w) = 1
    <3>1. \A x, y, z \in Nat : x # 0 /\ x <= y /\ y <= z /\ z <= 1 => z = 1 /\ x = 1 /\ y = 1
      OBVIOUS
    <3> HIDE DEF n, w, gs
    <3> QED
      BY <1>6, <1>9, <2>2, <3>1
  <2>4. ASSUME NEW x \in Workers(attempt) PROVE x = w
    <3>1. /\ FirstOf(File, attempt, x) \in Nat \ {0} /\ LastOf(File, attempt, x) \in Nat
          /\ FirstOf(File, attempt, x) <= LastOf(File, attempt, x) /\ LastOf(File, attempt, x) <= n
      BY <1>2, ChunkBounds
    <3>2. 1 \in FirstOf(File, attempt, x) .. LastOf(File, attempt, x)
      BY <2>3, <3>1
    <3>3. 1 \in FirstOf(File, attempt, w) .. LastOf(File, attempt, w)
      BY <2>3
    <3> HIDE DEF w
    <3> QED
      BY <1>2, <2>1, <3>2, <3>3, ChunksDisjoint
  <2>5. WorkerOK(File, attempt, w, reader[w], pos[w], "some", s)
    BY <1>3, <2>1
  <2>6. pos[w] = 2 /\ FirstOf(File, attempt, w) .. pos[w] - 1 = DOMAIN gs
    <3>1. pos[w] = 2
      BY <2>3, <2>5 DEF WorkerOK
    <3> QED
      BY <1>6, <2>3, <3>1
  <2>7. StateOK(s) /\ Holds(s, k, GTally(gs, DOMAIN gs, k))
    <3>1. StateOK(s) /\ Holds(s, k, GTally(gs, FirstOf(File, attempt, w) .. pos[w] - 1, k))
      BY <2>5 DEF WorkerOK
    <3> QED
      BY <2>6, <3>1
  <2>8. PICK l \in Tallies, m \in Tallies :
          /\ Plus(l, m) = GTally(gs, DOMAIN gs, k) /\ AnswerShows(Finish(s), k, m)
          /\ l.rows # 0 <=> s.groups # <<>> /\ Tally(s.unique, k).rows # 0
    BY <2>7, FinishIs
  <2>9. Forgets(k) <=> s.groups # <<>> /\ Tally(s.unique, k).rows # 0
    <3>1. ~(Len(Groups) > 1)
      BY <1>2, <1>6, <1>9
    <3> QED
      BY <1>3, <2>1, <2>4, <3>1 DEF Forgets
  <2> QED
    BY <1>1, <1>5, <2>1, <2>8, <2>9
<1> QED
  BY <1>6, <1>7, <1>8, <1>9

\* No group's values leave the range of the sum on the way.
SumsFit == \A i \in DOMAIN AllRows : Fits(Tally(AllRows, AllRows[i].k))

\* A key without rows fits too.
LEMMA AllFit ==
    ASSUME AllRows \in Seq(RowSet), SumsFit, NEW k
    PROVE  Fits(Tally(AllRows, k))
<1> DEFINE all == AllRows
           t == Tally(all, k)
<1>1. t \in Tallies
  BY RowTalliesType
<1>2. t.rows = 0 <=> \A i \in 1 .. Len(all) : all[i].k # k
  BY TallyPositive
<1>3. DOMAIN all = 1 .. Len(all)
  OBVIOUS
<1>4. CASE t.rows = 0
  BY <1>1, <1>4 DEF Tallies, Fits
<1>5. CASE t.rows # 0
  BY <1>2, <1>3, <1>5 DEF SumsFit
<1> QED
  BY <1>4, <1>5

\* The answer is the one SQL gives, or a row has been forgotten.
LEMMA ExactUnlessForgotten ==
    ASSUME FoldInv, WorkerInv, TotalInv, answer.kind = "groups", ReadsOnce(File), AllCounted, SumsFit
    PROVE  GroupsExact <=> ~ForgetsRows
<1> DEFINE rows == answer.rows
<1>1. AllRows \in Seq(RowSet)
  <2>1. File.groups \in Seq(RowGroupSet) /\ Groups = File.groups
    BY FileType DEF FoldInv
  <2>2. \A gs \in Seq(RowGroupSet) : FlattenSeq([i \in DOMAIN gs |-> gs[i].rows]) \in Seq(RowSet)
    BY FlattenTally
  <2> QED
    BY <2>1, <2>2 DEF AllRows
<1>2. GroupsExact <=> rows = {SqlGroup(k) : k \in {AllRows[i].k : i \in DOMAIN AllRows}}
  BY DEF GroupsExact
<1>3. ASSUME ~ForgetsRows PROVE GroupsExact
  <2>1. ASSUME NEW k PROVE AnswerShows(rows, k, Tally(AllRows, k)) /\ Fits(Tally(AllRows, k))
    <3>1. PICK l \in Tallies, m \in Tallies :
            /\ Plus(l, m) = Tally(AllRows, k) /\ AnswerShows(rows, k, m)
            /\ l.rows # 0 <=> Forgets(k)
      BY AnswerMade
    <3>2. l.rows = 0
      BY <1>3, <3>1, ForgetsIs
    <3>3. m = Tally(AllRows, k)
      BY <3>1, <3>2, PlusNothing
    <3> QED
      BY <1>1, <3>1, <3>3, AllFit
  <2> HIDE DEF rows
  <2>2. rows = {SqlGroup(k) : k \in {AllRows[i].k : i \in DOMAIN AllRows}}
    BY <1>1, <2>1, ShownExactly
  <2> QED
    BY <1>2, <2>2
<1>4. ASSUME ForgetsRows PROVE ~GroupsExact
  <2>1. PICK k : Forgets(k)
    BY <1>4, ForgetsIs
  <2>2. PICK l \in Tallies, m \in Tallies :
          /\ Plus(l, m) = Tally(AllRows, k) /\ AnswerShows(rows, k, m)
          /\ l.rows # 0 <=> Forgets(k)
    BY AnswerMade
  <2>3. m.rows # Tally(AllRows, k).rows
    <3>1. Plus(l, m).rows = l.rows + m.rows /\ l.rows \in Nat /\ m.rows \in Nat
      BY PlusRows
    <3>2. l.rows # 0
      BY <2>1, <2>2
    <3>3. Plus(l, m).rows # m.rows
      BY <3>1, <3>2
    <3> QED
      BY <2>2, <3>3
  <2> HIDE DEF rows
  <2>4. rows # {SqlGroup(x) : x \in {AllRows[i].k : i \in DOMAIN AllRows}}
    BY <1>1, <2>2, <2>3, ShownWrongly
  <2> QED
    BY <1>2, <2>4
<1> QED
  BY <1>3, <1>4

\* A file that keeps rows never has one forgotten.
LEMMA KeptNotForgotten ==
    ASSUME FoldInv, WorkerInv, KeepsRows(File)
    PROVE  ~ForgetsRows
<1> SUFFICES ASSUME NEW w \in DOMAIN partial, partial[w].unique # <<>>,
                    Len(Groups) > 1 \/ partial[w].groups # <<>>
             PROVE  FALSE
  BY DEF ForgetsRows
<1>1. WorkerOK(File, attempt, w, reader[w], pos[w], result[w], partial[w])
  BY DEF WorkerInv
<1>2. StateOK(partial[w]) /\ partial[w].open
  BY <1>1 DEF WorkerOK, StateOK
<1>3. /\ (\A i \in DOMAIN File.groups : NullFree(File.groups[i].rows)) => partial[w].groups = <<>>
      /\ ~(\A i \in DOMAIN File.groups : Settled(File.groups[i].rows))
  BY <1>1, <1>2 DEF WorkerOK
<1>4. Groups = File.groups /\ Len(Groups) \in Nat
  <2>1. File.groups \in Seq(RowGroupSet) /\ Groups = File.groups
    BY FileType DEF FoldInv
  <2> QED
    BY <2>1, RowsType
<1> QED
  BY <1>3, <1>4 DEF KeepsRows

\* If COUNT counts rows, no sum leaves i64 on the way and no reader gives up after it has
\* read rows, the groups are those of SQL exactly when no worker ended with unique rows
\* that finish or merge drops: for every file, parallelism, batch size and schedule.
THEOREM ExactExactlyIfNothingForgotten ==
    Spec => [](answer.kind = "groups" /\ ReadsOnce(File) /\ AllCounted /\ SumsFit
               => (GroupsExact <=> ~ForgetsRows))
<1>1. FoldInv /\ WorkerInv /\ TotalInv =>
          (answer.kind = "groups" /\ ReadsOnce(File) /\ AllCounted /\ SumsFit => (GroupsExact <=> ~ForgetsRows))
  BY ExactUnlessForgotten
<1> QED
  BY <1>1, AnswerInvariant, PTL

\* For the files in which no row can be forgotten, GROUP BY is exact.
THEOREM FoldExact ==
    Spec => [](KeepsRows(File) /\ ReadsOnce(File) /\ AllCounted /\ SumsFit => GroupsExact)
<1>1. FoldInv /\ WorkerInv /\ TotalInv =>
          (KeepsRows(File) /\ ReadsOnce(File) /\ AllCounted /\ SumsFit => GroupsExact)
  <2> SUFFICES ASSUME FoldInv, WorkerInv, TotalInv, KeepsRows(File), ReadsOnce(File), AllCounted, SumsFit
               PROVE  GroupsExact
    OBVIOUS
  <2>1. CASE answer.kind = "groups"
    BY <2>1, KeptNotForgotten, ExactUnlessForgotten
  <2>2. CASE answer.kind # "groups"
    BY <2>2 DEF GroupsExact
  <2> QED
    BY <2>1, <2>2
<1> QED
  BY <1>1, AnswerInvariant, PTL
=============================================================================
