----------------------- MODULE ParquetFileCacheProofs -----------------------
(***************************************************************************)
(* Proofs about the chunk cache, for any number of threads, shards, chunks *)
(* and rewrites and any assignment of chunks to shards.                    *)
(***************************************************************************)
EXTENDS ParquetFileCache, FiniteSetTheorems, TLAPS

-----------------------------------------------------------------------------
(* Counting bytes                                                          *)

\* The bytes of a finite set of chunks are finitely many.
LEMMA AreaFinite ==
    ASSUME NEW S, IsFiniteSet(S), NEW len
    PROVE  /\ IsFiniteSet(Area(S, len))
           /\ Cardinality(Area(S, len)) \in Nat
<1>1. IsFiniteSet(1..MaxChunk)
  BY FS_Interval, SizesAssumption
<1>2. IsFiniteSet(S \X (1..MaxChunk))
  BY <1>1, FS_Product
<1>3. Area(S, len) \subseteq S \X (1..MaxChunk)
  BY DEF Area
<1> QED
  BY <1>2, <1>3, FS_Subset, FS_CardinalityType

\* Adding a chunk adds its length.
LEMMA AreaAdd ==
    ASSUME NEW S, IsFiniteSet(S), NEW x, x \notin S, NEW f, NEW g,
           \A y \in S : f[y] = g[y],
           g[x] \in 0..MaxChunk
    PROVE  Cardinality(Area(S \cup {x}, g)) = Cardinality(Area(S, f)) + g[x]
<1> DEFINE R == {x} \X (1..g[x])
<1>1. Area(S \cup {x}, g) = Area(S, f) \cup R
  BY SizesAssumption DEF Area
<1>2. Area(S, f) \cap R = {}
  BY DEF Area
<1>3. IsFiniteSet(1..g[x]) /\ Cardinality(1..g[x]) = g[x]
  <2>1. 1 \in Int /\ g[x] \in Int /\ g[x] >= 0
    BY SizesAssumption
  <2>2. IsFiniteSet(1..g[x]) /\ Cardinality(1..g[x]) = IF 1 > g[x] THEN 0 ELSE g[x] - 1 + 1
    BY <2>1, FS_Interval
  <2> QED BY <2>1, <2>2
<1>4. IsFiniteSet({x}) /\ Cardinality({x}) = 1
  BY FS_Singleton
<1>5. IsFiniteSet(R) /\ Cardinality(R) = g[x]
  <2>1. IsFiniteSet(R) /\ Cardinality(R) = Cardinality({x}) * Cardinality(1..g[x])
    BY <1>3, <1>4, FS_Product
  <2> QED BY <2>1, <1>3, <1>4, SizesAssumption
<1>6. IsFiniteSet(Area(S, f)) /\ Cardinality(Area(S, f)) \in Nat
  BY AreaFinite
<1>7. Cardinality(Area(S, f) \cup R)
        = Cardinality(Area(S, f)) + Cardinality(R) - Cardinality(Area(S, f) \cap R)
  BY <1>5, <1>6, FS_Union
<1>8. Cardinality({}) = 0
  BY FS_EmptySet
<1>9. g[x] \in Nat
  BY SizesAssumption
<1> HIDE DEF R
<1>10. Cardinality(Area(S, f) \cup R) = Cardinality(Area(S, f)) + g[x]
  <2>1. Cardinality(Area(S, f) \cap R) = 0
    BY <1>2, <1>8, Zenon
  <2> QED BY <2>1, <1>5, <1>6, <1>7, <1>9
<1> QED
  BY <1>1, <1>10

\* There are finitely many keys.
LEMMA KeysFinite == IsFiniteSet(Keys)
<1>1. IsFiniteSet(0..MaxVersion)
  BY FS_Interval, SizesAssumption
<1> QED
  BY <1>1, FS_Product, ThreadsAssumption DEF Keys, Versions

-----------------------------------------------------------------------------
(* The inductive invariant                                                 *)

Requesting == PCs \ {"idle", "stated", "open"}
Holding == {"recheck", "bypass", "fill", "check", "attempt", "sub", "insert", "count"}
Filling == {"fill", "check", "attempt", "sub", "insert"}

\* Which shard locks a thread holds at each step, and what it may rely on there.
LockInv ==
    /\ \A s \in Shards : \A t, u \in writer[s] : t = u
    /\ \A t \in Threads :
          /\ pc[t] \in Requesting => key[t] \in Keys
          /\ pc[t] \in Holding => t \in writer[ShardOf[key[t]]]
          /\ pc[t] \in Filling => key[t] \notin cached
          /\ pc[t] = "count" => key[t] \in cached
          /\ pc[t] = "sub" => /\ victim[t] \in Keys
                              /\ victim[t] \notin cached
                              /\ t \in writer[ShardOf[victim[t]]]

IInv == TypeOK /\ LockInv /\ BytesMatchEntries

\* The counter moves with Counted: it is what keeps bytes from underflowing.
LEMMA CountedFinite == IsFiniteSet(Counted)
  BY KeysFinite, FS_Subset DEF Counted

\* The initial state satisfies the invariant.
LEMMA InitIInv == Init => IInv
<1> SUFFICES ASSUME Init PROVE IInv
  OBVIOUS
<1>1. TypeOK
  BY SizesAssumption DEF Init, TypeOK, Versions, Shards, PCs, NoKey
<1>2. LockInv
  BY DEF Init, LockInv, Requesting, Holding, Filling, PCs
<1>3. BytesMatchEntries
  <2>1. Counted = {}
    BY DEF Init, Counted
  <2>2. Area({}, ChunkLen) = {}
    BY DEF Area
  <2> QED BY <2>1, <2>2, FS_EmptySet DEF Init, BytesMatchEntries
<1> QED
  BY <1>1, <1>2, <1>3 DEF IInv

\* An action that leaves entries, counter and the threads at "count" and "sub"
\* alone leaves the accounting alone.
LEMMA AccountingFrame ==
    ASSUME BytesMatchEntries, UNCHANGED <<cached, bytes>>,
           NEW t \in Threads, pc[t] \notin {"count", "sub"}, pc'[t] \notin {"count", "sub"},
           \A u \in Threads \ {t} : pc'[u] = pc[u] /\ key'[u] = key[u] /\ victim'[u] = victim[u]
    PROVE  BytesMatchEntries'
<1>1. Counted' = Counted
  BY DEF Counted
<1> QED
  BY <1>1 DEF BytesMatchEntries

\* Types and locks are preserved by every step of a thread.
LEMMA StepTypeLocks ==
    ASSUME IInv, NEW t \in Threads, Step(t), bytes' \in Nat
    PROVE  TypeOK' /\ LockInv'
<1> USE SizesAssumption, KeysAssumption DEF IInv, TypeOK, LockInv, Goto, Finish, Unlock, ReadUnlock, MyShard,
        shared, locks, reader, request, PCs, Requesting, Holding, Filling
<1>a. 0 \in Shards
  BY DEF Shards
<1>b. Readable(t) \subseteq Versions
  <2>1. version \in Int /\ handle[t] \in Int /\ handle[t] >= 0 /\ version <= MaxVersion
    BY DEF Versions
  <2> QED BY <2>1 DEF Readable, Versions
<1>1. CASE ReadLock(t)
  BY <1>1 DEF ReadLock
<1>2. CASE Hit(t)
  <2>1. TypeOK'
    BY <1>2, <1>a DEF Hit
  <2>2. LockInv'
    BY <1>2 DEF Hit
  <2> QED BY <2>1, <2>2
<1>3. CASE Miss(t)
  BY <1>3 DEF Miss
<1>4. CASE ReadDirect(t)
  <2>0. PICK r \in Versions : Finish(t, "direct", r)
    BY <1>4, <1>b DEF ReadDirect, RangeRead
  <2>3. UNCHANGED <<shared, locks, gaveUp>>
    BY <1>4 DEF ReadDirect
  <2>1. TypeOK'
    BY <2>0, <2>3, <1>a
  <2>2. LockInv'
    BY <2>0, <2>3, <1>a
  <2> QED BY <2>1, <2>2
<1>5. CASE WriteLock(t)
  BY <1>5 DEF WriteLock, Free
<1>6. CASE HitOnRecheck(t)
  <2>1. TypeOK'
    BY <1>6, <1>a DEF HitOnRecheck
  <2>2. LockInv'
    BY <1>6 DEF HitOnRecheck
  <2> QED BY <2>1, <2>2
<1>7. CASE Admit(t)
  BY <1>7 DEF Admit
<1>8. CASE Defer(t)
  BY <1>8 DEF Defer
<1>9. CASE ReadBypass(t)
  <2>0. PICK r \in Versions : Finish(t, "bypass", r)
    BY <1>9, <1>b DEF ReadBypass, RangeRead
  <2>3. UNCHANGED <<shared, readers, gaveUp>> /\ Unlock(t)
    BY <1>9 DEF ReadBypass
  <2>1. TypeOK'
    BY <2>0, <2>3, <1>a
  <2>2. LockInv'
    BY <2>0, <2>3, <1>a
  <2> QED BY <2>1, <2>2
<1>10. CASE Fill(t)
  <2>0. PICK r \in Versions : result' = [result EXCEPT ![t] = r]
    BY <1>10, <1>b DEF Fill
  <2>1. TypeOK'
    BY <1>10, <2>0 DEF Fill
  <2>2. LockInv'
    BY <1>10, <2>0 DEF Fill
  <2> QED BY <2>1, <2>2
<1>11. CASE FillFails(t)
  <2>1. TypeOK'
    BY <1>11, <1>a DEF FillFails
  <2>2. LockInv'
    BY <1>11 DEF FillFails
  <2> QED BY <2>1, <2>2
<1>12. CASE EvictCheck(t)
  BY <1>12 DEF EvictCheck
<1>13. CASE EvictRemove(t)
  BY <1>13 DEF EvictRemove, Free, Oldest, ShardEntries, Versions
<1>14. CASE EvictSkip(t)
  BY <1>14 DEF EvictSkip
<1>15. CASE EvictSub(t)
  BY <1>15 DEF EvictSub
<1>16. CASE Insert(t)
  BY <1>16 DEF Insert
<1>17. CASE Count(t)
  <2>1. TypeOK'
    BY <1>17, <1>a DEF Count
  <2>2. LockInv'
    BY <1>17 DEF Count
  <2> QED BY <2>1, <2>2
<1> QED
  BY <1>1, <1>2, <1>3, <1>4, <1>5, <1>6, <1>7, <1>8, <1>9, <1>10, <1>11, <1>12,
     <1>13, <1>14, <1>15, <1>16, <1>17 DEF Step

\* The counter follows the entries at every step of a thread.
LEMMA StepAccounting ==
    ASSUME IInv, NEW t \in Threads, Step(t)
    PROVE  BytesMatchEntries'
<1> USE DEF IInv
<1>1. CASE EvictRemove(t)
  <2>1. PICK k \in Oldest(Target(t)) : /\ victim' = [victim EXCEPT ![t] = k]
                                       /\ cached' = cached \ {k}
    BY <1>1 DEF EvictRemove
  <2>2. k \in cached /\ k \in Keys /\ ShardOf[k] = Target(t)
    BY <2>1 DEF Oldest, ShardEntries, TypeOK
  <2>3. \A u \in Threads : ~(pc[u] = "count" /\ key[u] = k)
    <3> SUFFICES ASSUME NEW u \in Threads, pc[u] = "count", key[u] = k
                 PROVE  FALSE
      OBVIOUS
    <3>1. u \in writer[Target(t)] /\ u # t
      BY <1>1, <2>2 DEF LockInv, Holding, EvictRemove, Goto
    <3>2. Target(t) = MyShard(t)
      BY <1>1, <3>1 DEF EvictRemove, Free
    <3>3. t \in writer[Target(t)]
      BY <1>1, <3>2 DEF LockInv, Holding, EvictRemove, Goto, MyShard
    <3> QED
      BY <3>1, <3>3, <2>2, KeysAssumption DEF LockInv
  <2>4. k \in Counted
    BY <2>2, <2>3 DEF Counted
  <2>5. /\ pc' = [pc EXCEPT ![t] = "sub"] /\ pc[t] = "attempt"
        /\ key' = key /\ bytes' = bytes
    BY <1>1 DEF EvictRemove, Goto
  <2>6. \A u \in Threads : (pc'[u] = "count") = (pc[u] = "count")
    BY <2>5 DEF TypeOK
  <2>7. \A j \in Keys : (\E u \in Threads : pc'[u] = "sub" /\ victim'[u] = j)
                          <=> (j = k \/ \E u \in Threads : pc[u] = "sub" /\ victim[u] = j)
    BY <2>1, <2>5 DEF TypeOK
  <2>8. Counted' = Counted
    BY <2>1, <2>2, <2>4, <2>5, <2>6, <2>7 DEF Counted
  <2> QED
    BY <2>5, <2>8 DEF BytesMatchEntries
<1>2. CASE EvictSub(t)
  <2> DEFINE k == victim[t]
  <2>1. /\ pc[t] = "sub" /\ pc' = [pc EXCEPT ![t] = "check"]
        /\ key' = key /\ cached' = cached
        /\ victim' = [victim EXCEPT ![t] = NoKey]
        /\ bytes' = bytes - Size(k)
    BY <1>2 DEF EvictSub, Goto
  <2>2. k \in Keys /\ k \notin cached /\ t \in writer[ShardOf[k]]
    BY <2>1 DEF LockInv
  <2>3. \A u \in Threads \ {t} : ~(pc[u] = "sub" /\ victim[u] = k)
    BY <2>2, KeysAssumption DEF LockInv
  <2>4. Counted' = Counted \ {k}
    BY <2>1, <2>2, <2>3 DEF Counted, TypeOK
  <2>5. k \in Counted
    BY <2>1, <2>2 DEF Counted
  <2>6. IsFiniteSet(Counted') /\ k \notin Counted' /\ Counted = Counted' \cup {k}
    BY <2>4, <2>5, CountedFinite, FS_Subset
  <2>7. ChunkLen[k] \in 0..MaxChunk
    BY <2>2, KeysAssumption
  <2>8. Cardinality(Area(Counted, ChunkLen))
          = Cardinality(Area(Counted', ChunkLen)) + ChunkLen[k]
    BY <2>6, <2>7, AreaAdd
  <2>9. Cardinality(Area(Counted', ChunkLen)) \in Nat
    BY <2>6, AreaFinite
  <2> QED
    BY <2>1, <2>7, <2>8, <2>9, SizesAssumption DEF BytesMatchEntries, Size
<1>3. CASE Insert(t)
  <2>1. /\ pc[t] = "insert" /\ pc' = [pc EXCEPT ![t] = "count"]
        /\ key' = key /\ victim' = victim /\ bytes' = bytes
        /\ cached' = cached \cup {key[t]}
    BY <1>3 DEF Insert, Goto, request
  <2>2. key[t] \in Keys /\ key[t] \notin cached /\ t \in writer[ShardOf[key[t]]]
    BY <2>1 DEF LockInv, Requesting, Holding, Filling, PCs
  <2>3. \A u \in Threads : ~(pc[u] = "sub" /\ victim[u] = key[t])
    BY <2>1, <2>2, KeysAssumption DEF LockInv
  <2>4. Counted' = Counted
    BY <2>1, <2>2, <2>3 DEF Counted, TypeOK
  <2> QED
    BY <2>1, <2>4 DEF BytesMatchEntries
<1>4. CASE Count(t)
  <2> DEFINE k == key[t]
  <2>1. /\ pc[t] = "count" /\ pc' = [pc EXCEPT ![t] = "open"]
        /\ key' = [key EXCEPT ![t] = NoKey] /\ cached' = cached
        /\ victim' = [victim EXCEPT ![t] = NoKey]
        /\ bytes' = bytes + Size(k)
    BY <1>4 DEF Count, Finish, Goto
  <2>2. k \in Keys /\ k \in cached /\ t \in writer[ShardOf[k]]
    BY <2>1 DEF LockInv, Requesting, Holding, PCs
  <2>3. \A u \in Threads \ {t} : ~(pc[u] = "count" /\ key[u] = k)
    BY <2>2, KeysAssumption DEF LockInv, Holding
  <2>4. \A u \in Threads : ~(pc[u] = "sub" /\ victim[u] = k)
    BY <2>2 DEF LockInv
  <2>5. Counted' = Counted \cup {k}
    BY <2>1, <2>2, <2>3 DEF Counted, TypeOK
  <2>6. k \notin Counted
    BY <2>1, <2>2, <2>4 DEF Counted
  <2>7. ChunkLen[k] \in 0..MaxChunk
    BY <2>2, KeysAssumption
  <2>8. Cardinality(Area(Counted', ChunkLen))
          = Cardinality(Area(Counted, ChunkLen)) + ChunkLen[k]
    BY <2>5, <2>6, <2>7, CountedFinite, AreaAdd
  <2> QED
    BY <2>1, <2>8 DEF BytesMatchEntries, Size
<1>5. CASE \/ ReadLock(t) \/ Hit(t) \/ Miss(t) \/ ReadDirect(t) \/ WriteLock(t)
           \/ HitOnRecheck(t) \/ Admit(t) \/ Defer(t) \/ ReadBypass(t) \/ Fill(t)
           \/ FillFails(t) \/ EvictCheck(t) \/ EvictSkip(t)
  <2>1. pc'[t] \notin {"count", "sub"} /\ \A u \in Threads \ {t} : pc'[u] = pc[u]
    BY <1>5 DEF TypeOK, ReadLock, Hit, Miss, ReadDirect, WriteLock, HitOnRecheck, Admit, Defer,
       ReadBypass, Fill, FillFails, EvictCheck, EvictSkip, Finish, Goto
  <2>2. pc[t] \notin {"count", "sub"}
    BY <1>5 DEF ReadLock, Hit, Miss, ReadDirect, WriteLock, HitOnRecheck, Admit, Defer,
       ReadBypass, Fill, FillFails, EvictCheck, EvictSkip, Finish, Goto
  <2>3. cached' = cached /\ bytes' = bytes
    BY <1>5 DEF ReadLock, Hit, Miss, ReadDirect, WriteLock, HitOnRecheck, Admit, Defer,
       ReadBypass, Fill, FillFails, EvictCheck, EvictSkip, Finish, Goto, shared
  <2>4. \A u \in Threads \ {t} : key'[u] = key[u] /\ victim'[u] = victim[u]
    BY <1>5 DEF ReadLock, Hit, Miss, ReadDirect, WriteLock, HitOnRecheck, Admit, Defer,
       ReadBypass, Fill, FillFails, EvictCheck, EvictSkip, Finish, Goto, request, TypeOK
  <2> QED
    BY <2>1, <2>2, <2>3, <2>4, AccountingFrame
<1> QED
  BY <1>1, <1>2, <1>3, <1>4, <1>5 DEF Step

\* Opening, closing and starting a request touch neither entries nor locks.
LEMMA ReaderStep ==
    ASSUME IInv, NEW t \in Threads,
           Stat(t) \/ Open(t) \/ Close(t) \/ \E c \in Chunks : Get(t, c)
    PROVE  IInv'
<1> USE SizesAssumption, KeysAssumption DEF IInv
<1>0. 0 \in Versions
  BY DEF Versions
<1>1. CASE Stat(t)
  <2>1. TypeOK' /\ LockInv'
    BY <1>1 DEF TypeOK, LockInv, Stat, Goto, shared, locks, request, PCs, Requesting, Holding, Filling
  <2>2. BytesMatchEntries'
    <3>1. /\ pc[t] \notin {"count", "sub"} /\ pc'[t] \notin {"count", "sub"}
          /\ \A u \in Threads \ {t} : pc'[u] = pc[u]
      BY <1>1 DEF Stat, Goto, TypeOK
    <3>2. cached' = cached /\ bytes' = bytes /\ key' = key /\ victim' = victim
      BY <1>1 DEF Stat, shared, request
    <3> QED
      BY <3>1, <3>2, AccountingFrame
  <2> QED BY <2>1, <2>2
<1>2. CASE Open(t)
  <2>1. TypeOK' /\ LockInv'
    BY <1>2 DEF TypeOK, LockInv, Open, Goto, shared, locks, request, PCs, Requesting, Holding, Filling
  <2>2. BytesMatchEntries'
    <3>1. /\ pc[t] \notin {"count", "sub"} /\ pc'[t] \notin {"count", "sub"}
          /\ \A u \in Threads \ {t} : pc'[u] = pc[u]
      BY <1>2 DEF Open, Goto, TypeOK
    <3>2. cached' = cached /\ bytes' = bytes /\ key' = key /\ victim' = victim
      BY <1>2 DEF Open, shared, request
    <3> QED
      BY <3>1, <3>2, AccountingFrame
  <2> QED BY <2>1, <2>2
<1>3. CASE Close(t)
  <2>1. TypeOK' /\ LockInv'
    BY <1>3, <1>0 DEF TypeOK, LockInv, Close, Goto, shared, locks, request, PCs, Requesting, Holding, Filling
  <2>2. BytesMatchEntries'
    <3>1. /\ pc[t] \notin {"count", "sub"} /\ pc'[t] \notin {"count", "sub"}
          /\ \A u \in Threads \ {t} : pc'[u] = pc[u]
      BY <1>3 DEF Close, Goto, TypeOK
    <3>2. cached' = cached /\ bytes' = bytes /\ key' = key /\ victim' = victim
      BY <1>3 DEF Close, shared, request
    <3> QED
      BY <3>1, <3>2, AccountingFrame
  <2> QED BY <2>1, <2>2
<1>4. ASSUME NEW c \in Chunks, Get(t, c)
      PROVE  IInv'
  <2>0. <<c, stamp[t]>> \in Keys
    BY DEF Keys, TypeOK
  <2>1. /\ pc[t] = "open" /\ pc' = [pc EXCEPT ![t] = "rlock"]
        /\ key' = [key EXCEPT ![t] = <<c, stamp[t]>>]
        /\ myEpoch' = [myEpoch EXCEPT ![t] = epoch]
        /\ epoch' = epoch + 1
        /\ UNCHANGED <<version, cached, content, lastAccess, admissions, bytes, writer,
                       readers, stamp, handle, result, start, attempts, victim, gaveUp>>
    BY <1>4 DEF Get, Goto, locks, reader
  <2>2. TypeOK'
    BY <2>0, <2>1 DEF TypeOK, PCs
  <2>3. LockInv'
    BY <2>0, <2>1 DEF TypeOK, LockInv, PCs, Requesting, Holding, Filling
  <2>4. \A u \in Threads \ {t} : key'[u] = key[u] /\ victim'[u] = victim[u]
    BY <2>1 DEF TypeOK
  <2>5. BytesMatchEntries'
    <3>1. Counted' = Counted
      BY <2>1, <2>4 DEF Counted, TypeOK
    <3> QED BY <2>1, <3>1 DEF BytesMatchEntries
  <2> QED BY <2>2, <2>3, <2>5
<1> QED
  BY <1>1, <1>2, <1>3, <1>4

\* The invariant is inductive.
LEMMA NextIInv == IInv /\ [Next]_vars => IInv'
<1> SUFFICES ASSUME IInv, [Next]_vars PROVE IInv'
  OBVIOUS
<1>1. ASSUME NEW t \in Threads, Step(t) PROVE IInv'
  <2>1. BytesMatchEntries'
    BY <1>1, StepAccounting
  <2>2. IsFiniteSet(Counted')
    BY KeysFinite, FS_Subset DEF Counted
  <2>3. bytes' \in Nat
    BY <2>1, <2>2, AreaFinite DEF BytesMatchEntries
  <2> QED
    BY <1>1, <2>1, <2>3, StepTypeLocks DEF IInv
<1>2. CASE Rewrite
  <2>1. version' \in Versions
    BY <1>2, SizesAssumption DEF Rewrite, Versions, IInv, TypeOK
  <2>2. UNCHANGED <<shared, locks, pc, reader, request, gaveUp>>
    BY <1>2 DEF Rewrite
  <2>3. TypeOK' /\ LockInv'
    BY <2>1, <2>2 DEF IInv, TypeOK, LockInv, shared, locks, reader, request
  <2>4. Counted' = Counted
    BY <2>2 DEF Counted, shared, request
  <2> QED
    BY <2>2, <2>3, <2>4 DEF IInv, BytesMatchEntries, shared
<1>3. CASE UNCHANGED vars
  <2>1. TypeOK' /\ LockInv'
    BY <1>3 DEF IInv, TypeOK, LockInv, vars, shared, locks, reader, request
  <2>2. Counted' = Counted
    BY <1>3 DEF Counted, vars, shared, request
  <2> QED
    BY <1>3, <2>1, <2>2 DEF IInv, BytesMatchEntries, vars, shared
<1> QED
  BY <1>1, <1>2, <1>3, ReaderStep DEF Next

\* The invariant holds in every reachable state.
THEOREM Invariance == Spec => []IInv
  BY InitIInv, NextIInv, PTL DEF Spec

\* Every reachable state of the chunk cache is well typed: no fetch_sub of
\* evict_one_from_entries wraps the bytes counter.
THEOREM TypeCorrect == Spec => []TypeOK
<1>1. IInv => TypeOK
  BY DEF IInv
<1> QED
  BY <1>1, Invariance, PTL

\* The bytes counter of the chunk cache is the total size of the entries it
\* stands for, whatever the interleaving of inserts and evictions.
THEOREM AccountingCorrect == Spec => []BytesMatchEntries
<1>1. IInv => BytesMatchEntries
  BY DEF IInv
<1> QED
  BY <1>1, Invariance, PTL

-----------------------------------------------------------------------------
(* Freshness                                                               *)

\* A stamp is taken before the handle, the handle before the bytes.
FreshInv ==
    /\ NeverOlderThanStat
    /\ \A t \in Threads :
          /\ pc[t] # "idle" => stamp[t] <= version
          /\ pc[t] \notin {"idle", "stated"} => stamp[t] <= handle[t] /\ handle[t] <= version
          /\ pc[t] \in Requesting => StampOf(key[t]) = stamp[t]

\* Bytes that a read through the handle delivers are as new as the stamp.
LEMMA ReadableFresh ==
    ASSUME IInv, FreshInv, NEW t \in Threads, pc[t] \notin {"idle", "stated"},
           NEW v \in Readable(t)
    PROVE  v \in Int /\ v >= stamp[t]
<1>1. stamp[t] \in Int /\ handle[t] \in Int /\ version \in Int
  BY DEF IInv, TypeOK, Versions
<1> QED
  BY <1>1 DEF FreshInv, Readable

\* Freshness is preserved by every step of a thread.
LEMMA StepFresh ==
    ASSUME IInv, FreshInv, NEW t \in Threads, Step(t)
    PROVE  FreshInv'
<1> USE DEF IInv, TypeOK, FreshInv, NeverOlderThanStat, Goto, Finish, shared, locks, reader,
            request, PCs, Requesting
<1>1. CASE ReadLock(t)
  BY <1>1 DEF ReadLock
<1>2. CASE Hit(t)
  BY <1>2 DEF Hit
<1>3. CASE Miss(t)
  BY <1>3 DEF Miss
<1>4. CASE ReadDirect(t)
  <2>1. PICK v \in Readable(t) : \E r \in RangeRead(t, v) : Finish(t, "direct", r)
    BY <1>4 DEF ReadDirect
  <2>2. PICK r \in RangeRead(t, v) : Finish(t, "direct", r)
    BY <2>1
  <2>3. r >= stamp[t]
    BY <1>4, <2>2, ReadableFresh DEF RangeRead, ReadDirect
  <2>4. UNCHANGED shared
    BY <1>4 DEF ReadDirect
  <2> QED BY <2>2, <2>3, <2>4
<1>5. CASE WriteLock(t)
  BY <1>5 DEF WriteLock
<1>6. CASE HitOnRecheck(t)
  BY <1>6 DEF HitOnRecheck
<1>7. CASE Admit(t)
  BY <1>7 DEF Admit
<1>8. CASE Defer(t)
  BY <1>8 DEF Defer
<1>9. CASE ReadBypass(t)
  <2>1. PICK v \in Readable(t) : \E r \in RangeRead(t, v) : Finish(t, "bypass", r)
    BY <1>9 DEF ReadBypass
  <2>2. PICK r \in RangeRead(t, v) : Finish(t, "bypass", r)
    BY <2>1
  <2>3. r >= stamp[t]
    BY <1>9, <2>2, ReadableFresh DEF RangeRead, ReadBypass
  <2>4. UNCHANGED shared
    BY <1>9 DEF ReadBypass
  <2> QED BY <2>2, <2>3, <2>4
<1>10. CASE Fill(t)
  <2>1. PICK v \in Readable(t) : result' = [result EXCEPT ![t] = v]
    BY <1>10 DEF Fill
  <2>2. v >= stamp[t]
    BY <1>10, ReadableFresh DEF Fill
  <2>3. /\ pc[t] = "fill" /\ pc' = [pc EXCEPT ![t] = "check"]
        /\ UNCHANGED <<version, shared, stamp, handle, key>>
    BY <1>10 DEF Fill
  <2> QED BY <2>1, <2>2, <2>3
<1>11. CASE FillFails(t)
  BY <1>11 DEF FillFails
<1>12. CASE EvictCheck(t)
  BY <1>12 DEF EvictCheck
<1>13. CASE EvictRemove(t)
  BY <1>13 DEF EvictRemove
<1>14. CASE EvictSkip(t)
  BY <1>14 DEF EvictSkip
<1>15. CASE EvictSub(t)
  BY <1>15 DEF EvictSub
<1>16. CASE Insert(t)
  BY <1>16 DEF Insert, LockInv
<1>17. CASE Count(t)
  BY <1>17 DEF Count
<1> QED
  BY <1>1, <1>2, <1>3, <1>4, <1>5, <1>6, <1>7, <1>8, <1>9, <1>10, <1>11, <1>12,
     <1>13, <1>14, <1>15, <1>16, <1>17 DEF Step

\* Freshness is preserved by every other step.
LEMMA NextFresh == IInv /\ FreshInv /\ [Next]_vars => FreshInv'
<1> SUFFICES ASSUME IInv, FreshInv, [Next]_vars PROVE FreshInv'
  OBVIOUS
<1> USE DEF IInv, TypeOK, FreshInv, NeverOlderThanStat, Goto, shared, locks, reader, request,
            PCs, Requesting
<1>1. ASSUME NEW t \in Threads, Stat(t) PROVE FreshInv'
  <2>1. version <= version
    BY DEF Versions
  <2> QED BY <1>1, <2>1 DEF Stat
<1>2. ASSUME NEW t \in Threads, Open(t) PROVE FreshInv'
  <2>1. version <= version /\ version >= stamp[t]
    BY <1>2 DEF Versions, Open
  <2> QED BY <1>2, <2>1 DEF Open
<1>3. ASSUME NEW t \in Threads, Close(t) PROVE FreshInv'
  BY <1>3 DEF Close
<1>4. ASSUME NEW t \in Threads, NEW c \in Chunks, Get(t, c) PROVE FreshInv'
  <2>1. StampOf(<<c, stamp[t]>>) = stamp[t]
    BY DEF StampOf
  <2> QED BY <1>4, <2>1 DEF Get
<1>5. CASE Rewrite
  <2>1. \A v \in Versions : v <= version => v <= version'
    BY <1>5 DEF Rewrite, Versions
  <2> QED BY <1>5, <2>1 DEF Rewrite
<1>6. CASE UNCHANGED vars
  BY <1>6 DEF vars
<1> QED
  BY <1>1, <1>2, <1>3, <1>4, <1>5, <1>6, StepFresh DEF Next

\* A reader of the chunk cache never gets bytes older than the file that its
\* stat saw, however often the file is rewritten and whoever filled the cache.
THEOREM FreshnessCorrect == Spec => []NeverOlderThanStat
<1>1. Init => FreshInv
  BY DEF Init, FreshInv, NeverOlderThanStat, Requesting, PCs
<1>2. FreshInv => NeverOlderThanStat
  BY DEF FreshInv
<1> QED
  BY <1>1, <1>2, NextFresh, Invariance, PTL DEF Spec

-----------------------------------------------------------------------------
(* The budget                                                              *)

\* Only a chunk that fits into the budget gets past the first lookup.
BudgetInv ==
    /\ BoundedOvershoot
    /\ \A t \in Threads : pc[t] \in Holding \cup {"wlock"} => Size(key[t]) <= MaxBytes

\* What the other threads may still add is at most one largest entry each.
LEMMA OthersPending ==
    ASSUME IInv, BudgetInv, NEW t \in Threads \ Pending
    PROVE  Cardinality(PendingArea) <= (Cardinality(Threads) - 1) * LargestEntry
<1> DEFINE Others == (Threads \ {t}) \X (1..LargestEntry)
<1>1. LargestEntry \in Nat
  BY EntryAssumption
<1>2. IsFiniteSet(1..LargestEntry) /\ Cardinality(1..LargestEntry) = LargestEntry
  <2>1. 1 \in Int /\ LargestEntry \in Int /\ LargestEntry >= 0
    BY <1>1
  <2>2. /\ IsFiniteSet(1..LargestEntry)
        /\ Cardinality(1..LargestEntry)
             = IF 1 > LargestEntry THEN 0 ELSE LargestEntry - 1 + 1
    BY <2>1, FS_Interval
  <2> QED BY <2>1, <2>2
<1>3. IsFiniteSet(Threads \ {t}) /\ Cardinality(Threads \ {t}) = Cardinality(Threads) - 1
  BY FS_RemoveElement, ThreadsAssumption
<1>4. IsFiniteSet(Others) /\ Cardinality(Others) = (Cardinality(Threads) - 1) * LargestEntry
  <2>1. /\ IsFiniteSet(Others)
        /\ Cardinality(Others) = Cardinality(Threads \ {t}) * Cardinality(1..LargestEntry)
    BY <1>2, <1>3, FS_Product
  <2> QED BY <2>1, <1>2, <1>3
<1>5. PendingArea \subseteq Others
  <2> SUFFICES ASSUME NEW b \in PendingArea PROVE b \in Others
    OBVIOUS
  <2>1. b \in Pending \X (1..MaxChunk) /\ b[2] <= Size(key[b[1]])
    BY DEF PendingArea, Area
  <2>2. Size(key[b[1]]) <= MaxBytes /\ Size(key[b[1]]) \in 0..MaxChunk
    BY <2>1, KeysAssumption
       DEF Pending, BudgetInv, Holding, IInv, LockInv, Requesting, PCs, Size
  <2>3. Size(key[b[1]]) <= LargestEntry
    BY <2>1, <2>2, EntryAssumption DEF Pending, IInv, LockInv, Requesting, PCs, Size
  <2>4. b[2] \in 1..LargestEntry
    BY <1>1, <2>1, <2>2, <2>3
  <2>5. b[1] \in Threads \ {t}
    BY <2>1 DEF Pending
  <2> QED BY <2>1, <2>4, <2>5
<1> QED
  BY <1>4, <1>5, FS_Subset

\* A step that keeps counter, pending threads and their keys keeps the bound.
LEMMA OvershootFrame ==
    ASSUME BoundedOvershoot, bytes' = bytes, gaveUp' = gaveUp, Pending' = Pending,
           \A t \in Pending : key'[t] = key[t]
    PROVE  BoundedOvershoot'
<1>1. PendingArea' = PendingArea
  BY DEF PendingArea, Area, Size
<1> QED
  BY <1>1 DEF BoundedOvershoot

\* The pending threads are finitely many, and so are their bytes.
LEMMA PendingFinite == IsFiniteSet(Pending) /\ IsFiniteSet(PendingArea) /\ Cardinality(PendingArea) \in Nat
<1>1. IsFiniteSet(Pending)
  BY ThreadsAssumption, FS_Subset DEF Pending
<1> QED
  BY <1>1, AreaFinite DEF PendingArea

\* Leaving the eviction loop is the only step that raises what is promised.
LEMMA CheckOvershoot ==
    ASSUME IInv, BudgetInv, NEW t \in Threads, EvictCheck(t)
    PROVE  BoundedOvershoot'
<1>1. /\ pc[t] = "check" /\ bytes' = bytes /\ key' = key
      /\ pc' = [pc EXCEPT ![t] = IF NeedsSpace(t) /\ attempts[t] < EvictAttempts
                                 THEN "attempt" ELSE "insert"]
  BY DEF EvictCheck, Goto, shared, request
<1>2. t \notin Pending
  BY <1>1 DEF Pending
<1>3. /\ Size(key[t]) \in 0..MaxChunk /\ Size(key[t]) \in Nat
      /\ Size(key[t]) <= LargestEntry
  BY <1>1, KeysAssumption, SizesAssumption, EntryAssumption
     DEF BudgetInv, Holding, IInv, LockInv, Requesting, PCs, Size
<1>4. LargestEntry \in Nat /\ MaxBytes \in Nat /\ bytes \in Nat /\ gaveUp \in Nat
  BY SizesAssumption, EntryAssumption DEF IInv, TypeOK
<1>5. Cardinality(Threads) \in Nat
  BY ThreadsAssumption, FS_CardinalityType
<1>6. CASE NeedsSpace(t) /\ attempts[t] < EvictAttempts
  <2>1. Pending' = Pending
    BY <1>1, <1>6 DEF Pending, IInv, TypeOK
  <2>2. gaveUp' = gaveUp
    BY <1>6, SizesAssumption DEF EvictCheck, IInv, TypeOK
  <2> QED BY <1>1, <2>1, <2>2, OvershootFrame DEF BudgetInv
<1>7. CASE ~(NeedsSpace(t) /\ attempts[t] < EvictAttempts)
  <2>1. Pending' = Pending \cup {t}
    BY <1>1, <1>7 DEF Pending, IInv, TypeOK
  <2> DEFINE f == [u \in Pending |-> Size(key[u])]
             g == [u \in Pending' |-> Size(key'[u])]
  <2>2. \A u \in Pending : f[u] = g[u]
    BY <1>1, <2>1
  <2>3. g[t] = Size(key[t])
    BY <1>1, <2>1
  <2>4. PendingArea = Area(Pending, f) /\ PendingArea' = Area(Pending \cup {t}, g)
    BY <2>1 DEF PendingArea, Area, Size
  <2> HIDE DEF f, g
  <2>5. Cardinality(Area(Pending \cup {t}, g)) = Cardinality(Area(Pending, f)) + g[t]
    BY <1>2, <1>3, <2>2, <2>3, PendingFinite, AreaAdd
  <2>6. Cardinality(PendingArea') = Cardinality(PendingArea) + Size(key[t])
    BY <2>3, <2>4, <2>5
  <2>7. Cardinality(PendingArea) \in Nat
    BY PendingFinite
  <2>8. CASE NeedsSpace(t)
    <3>1. gaveUp' = gaveUp + 1
      BY <1>7, <2>8, SizesAssumption DEF EvictCheck, IInv, TypeOK
    <3>2. bytes + Cardinality(PendingArea)
            <= MaxBytes + (Cardinality(Threads) - 1 + gaveUp) * LargestEntry
      BY DEF BudgetInv, BoundedOvershoot
    <3>3. (Cardinality(Threads) - 1 + (gaveUp + 1)) * LargestEntry
            = (Cardinality(Threads) - 1 + gaveUp) * LargestEntry + LargestEntry
      BY <1>4, <1>5
    <3>4. (Cardinality(Threads) - 1 + gaveUp) * LargestEntry \in Int
      BY <1>4, <1>5
    <3> QED
      BY <1>1, <1>3, <1>4, <2>6, <2>7, <3>1, <3>2, <3>3, <3>4 DEF BoundedOvershoot
  <2>9. CASE ~NeedsSpace(t)
    <3>1. gaveUp' = gaveUp
      BY <2>9 DEF EvictCheck
    <3>2. bytes + Size(key[t]) <= MaxBytes
      BY <2>9, <1>3, <1>4 DEF NeedsSpace
    <3>3. Cardinality(PendingArea) <= (Cardinality(Threads) - 1) * LargestEntry
      BY <1>2, OthersPending
    <3>4. (Cardinality(Threads) - 1 + gaveUp) * LargestEntry
            = (Cardinality(Threads) - 1) * LargestEntry + gaveUp * LargestEntry
      BY <1>4, <1>5
    <3>5. gaveUp * LargestEntry \in Nat /\ (Cardinality(Threads) - 1) * LargestEntry \in Int
      BY <1>4, <1>5
    <3> QED
      BY <1>1, <1>3, <1>4, <2>6, <2>7, <3>1, <3>2, <3>3, <3>4, <3>5 DEF BoundedOvershoot
  <2> QED BY <2>8, <2>9
<1> QED
  BY <1>6, <1>7

\* Adding the chunk turns promised bytes into counted ones.
LEMMA CountOvershoot ==
    ASSUME IInv, BudgetInv, NEW t \in Threads, Count(t)
    PROVE  BoundedOvershoot'
<1>1. /\ pc[t] = "count" /\ pc' = [pc EXCEPT ![t] = "open"] /\ gaveUp' = gaveUp
      /\ key' = [key EXCEPT ![t] = NoKey] /\ bytes' = bytes + Size(key[t])
  BY DEF Count, Finish, Goto
<1>2. t \in Pending /\ Pending' = Pending \ {t}
  BY <1>1 DEF Pending, IInv, TypeOK
<1>3. Size(key[t]) \in 0..MaxChunk
  BY <1>1, KeysAssumption DEF IInv, LockInv, Requesting, PCs, Size
<1> DEFINE f == [u \in Pending' |-> Size(key'[u])]
           g == [u \in Pending |-> Size(key[u])]
<1>4. \A u \in Pending' : f[u] = g[u]
  BY <1>1, <1>2 DEF IInv, TypeOK, Pending
<1>5. g[t] = Size(key[t]) /\ t \notin Pending' /\ Pending = Pending' \cup {t}
  BY <1>2
<1>6. PendingArea = Area(Pending, g) /\ PendingArea' = Area(Pending', f)
  BY DEF PendingArea, Area, Size
<1>7. IsFiniteSet(Pending')
  BY <1>2, PendingFinite, FS_Subset
<1> HIDE DEF f, g
<1>8. Cardinality(Area(Pending' \cup {t}, g)) = Cardinality(Area(Pending', f)) + g[t]
  BY <1>3, <1>4, <1>5, <1>7, AreaAdd
<1>9. Cardinality(PendingArea) = Cardinality(PendingArea') + Size(key[t])
  BY <1>5, <1>6, <1>8
<1>10. Cardinality(PendingArea') \in Nat /\ bytes \in Nat /\ Size(key[t]) \in Int
  BY <1>3, <1>6, <1>7, AreaFinite, SizesAssumption DEF IInv, TypeOK
<1>11. bytes' + Cardinality(PendingArea') = bytes + Cardinality(PendingArea)
  BY <1>1, <1>9, <1>10
<1> QED
  BY <1>1, <1>11 DEF BudgetInv, BoundedOvershoot

\* Freeing a victim only lowers the counter.
LEMMA SubOvershoot ==
    ASSUME IInv, BudgetInv, NEW t \in Threads, EvictSub(t), bytes' \in Nat
    PROVE  BoundedOvershoot'
<1>1. /\ pc[t] = "sub" /\ pc' = [pc EXCEPT ![t] = "check"] /\ gaveUp' = gaveUp
      /\ key' = key /\ bytes' = bytes - Size(victim[t])
  BY DEF EvictSub, Goto
<1>2. Pending' = Pending
  BY <1>1 DEF Pending, IInv, TypeOK
<1>3. PendingArea' = PendingArea
  BY <1>1, <1>2 DEF PendingArea, Area, Size
<1>4. Size(victim[t]) \in 0..MaxChunk /\ bytes \in Nat
  BY <1>1, KeysAssumption DEF IInv, TypeOK, LockInv, Size
<1>5. Cardinality(PendingArea) \in Nat
  BY PendingFinite
<1>6. bytes' + Cardinality(PendingArea') <= bytes + Cardinality(PendingArea)
  BY <1>1, <1>3, <1>4, <1>5, SizesAssumption
<1>7. (Cardinality(Threads) - 1 + gaveUp) * LargestEntry \in Int /\ MaxBytes \in Nat
  BY ThreadsAssumption, FS_CardinalityType, SizesAssumption, EntryAssumption DEF IInv, TypeOK
<1> QED
  BY <1>1, <1>3, <1>4, <1>5, <1>6, <1>7 DEF BudgetInv, BoundedOvershoot

\* The budget invariant is inductive.
LEMMA NextBudget == IInv /\ IInv' /\ BudgetInv /\ [Next]_vars => BudgetInv'
<1> SUFFICES ASSUME IInv, IInv', BudgetInv, [Next]_vars PROVE BudgetInv'
  OBVIOUS
<1>a. bytes' \in Nat
  BY DEF IInv, TypeOK
<1> USE DEF Goto, Finish, shared, locks, reader, request
<1>1. ASSUME NEW t \in Threads, EvictCheck(t) PROVE BudgetInv'
  <2>1. BoundedOvershoot'
    BY <1>1, CheckOvershoot
  <2> QED
    BY <1>1, <2>1 DEF BudgetInv, EvictCheck, Holding, Size, IInv, TypeOK
<1>2. ASSUME NEW t \in Threads, Count(t) PROVE BudgetInv'
  <2>1. BoundedOvershoot'
    BY <1>2, CountOvershoot
  <2> QED
    BY <1>2, <2>1 DEF BudgetInv, Count, Holding, Size, IInv, TypeOK
<1>3. ASSUME NEW t \in Threads, EvictSub(t) PROVE BudgetInv'
  <2>1. BoundedOvershoot'
    BY <1>3, <1>a, SubOvershoot
  <2> QED
    BY <1>3, <2>1 DEF BudgetInv, EvictSub, Holding, Size, IInv, TypeOK
<1>4. ASSUME NEW t \in Threads,
             \/ ReadLock(t) \/ Hit(t) \/ Miss(t) \/ ReadDirect(t) \/ WriteLock(t)
             \/ HitOnRecheck(t) \/ Admit(t) \/ Defer(t) \/ ReadBypass(t) \/ Fill(t)
             \/ FillFails(t) \/ EvictRemove(t) \/ EvictSkip(t) \/ Insert(t)
             \/ Stat(t) \/ Open(t) \/ Close(t) \/ (\E c \in Chunks : Get(t, c))
      PROVE  BudgetInv'
  <2>1. bytes' = bytes /\ gaveUp' = gaveUp
    BY <1>4 DEF ReadLock, Hit, Miss, ReadDirect, WriteLock, HitOnRecheck, Admit, Defer,
       ReadBypass, Fill, FillFails, EvictRemove, EvictSkip, Insert, Stat, Open, Close, Get
  <2>2. PICK p : /\ pc' = [pc EXCEPT ![t] = p]
                 /\ p \in {"insert", "count"} <=> pc[t] \in {"insert", "count"}
                 /\ p \in Holding \cup {"wlock"} =>
                       \/ pc[t] \in Holding \cup {"wlock"}
                       \/ Size(key[t]) <= MaxBytes
    <3>1. CASE Miss(t)
      <4>1. pc[t] = "lookup" /\ key[t] \in Keys
        BY <3>1 DEF Miss, IInv, LockInv, Requesting, PCs
      <4>2. Size(key[t]) \in 0..MaxChunk
        BY <4>1, KeysAssumption DEF Size
      <4>3. CASE Size(key[t]) > MaxBytes
        <5>1. pc' = [pc EXCEPT ![t] = "direct"]
          BY <3>1, <4>3 DEF Miss
        <5>2. "direct" \notin Holding \cup {"wlock"} /\ "direct" \notin {"insert", "count"}
          BY DEF Holding
        <5>3. pc[t] \notin {"insert", "count"}
          BY <4>1
        <5> QED BY <5>1, <5>2, <5>3, Zenon
      <4>4. CASE ~(Size(key[t]) > MaxBytes)
        <5>1. Size(key[t]) <= MaxBytes
          BY <4>2, <4>4, SizesAssumption
        <5> QED BY <3>1, <4>1, <4>4, <5>1 DEF Miss, Holding
      <4> QED BY <4>3, <4>4
    <3>2. CASE ReadLock(t) \/ WriteLock(t) \/ Admit(t) \/ Defer(t) \/ Fill(t)
      BY <3>2 DEF ReadLock, WriteLock, Admit, Defer, Fill, Holding
    <3>4. CASE EvictRemove(t) \/ EvictSkip(t) \/ Insert(t)
      BY <3>4 DEF EvictRemove, EvictSkip, Insert, Holding
    <3>5. CASE Stat(t) \/ Open(t) \/ Close(t)
      BY <3>5 DEF Stat, Open, Close, Holding
    <3>6. CASE \E c \in Chunks : Get(t, c)
      BY <3>6 DEF Get, Holding
    <3>3. CASE Hit(t) \/ ReadDirect(t) \/ HitOnRecheck(t) \/ ReadBypass(t) \/ FillFails(t)
      BY <3>3 DEF Hit, ReadDirect, HitOnRecheck, ReadBypass, FillFails, Holding
    <3> QED BY <1>4, <3>1, <3>2, <3>3, <3>4, <3>5, <3>6
  <2>3. /\ \A u \in Threads \ {t} : key'[u] = key[u]
        /\ pc'[t] \in Holding \cup {"wlock"} => key'[t] = key[t]
    <3>1. CASE \/ ReadLock(t) \/ Miss(t) \/ WriteLock(t) \/ Admit(t) \/ Defer(t) \/ Fill(t)
               \/ EvictRemove(t) \/ EvictSkip(t) \/ Insert(t)
               \/ Stat(t) \/ Open(t) \/ Close(t)
      <4>1. key' = key
        BY <3>1 DEF ReadLock, Miss, WriteLock, Admit, Defer, Fill, EvictRemove, EvictSkip,
           Insert, Stat, Open, Close
      <4> QED BY <4>1
    <3>2. CASE Hit(t) \/ ReadDirect(t) \/ HitOnRecheck(t) \/ ReadBypass(t) \/ FillFails(t)
      BY <3>2 DEF Hit, ReadDirect, HitOnRecheck, ReadBypass, FillFails, Holding, IInv, TypeOK
    <3>3. CASE \E c \in Chunks : Get(t, c)
      BY <3>3 DEF Get, Holding, IInv, TypeOK
    <3> QED BY <1>4, <3>1, <3>2, <3>3
  <2>4. Pending' = Pending
    BY <2>2 DEF Pending, IInv, TypeOK
  <2>5. \A u \in Pending : key'[u] = key[u]
    BY <2>2, <2>3, <2>4 DEF Pending, Holding, IInv, TypeOK
  <2>6. BoundedOvershoot'
    BY <2>1, <2>4, <2>5, OvershootFrame DEF BudgetInv
  <2>7. \A u \in Threads : pc'[u] \in Holding \cup {"wlock"} => Size(key'[u]) <= MaxBytes
    BY <2>2, <2>3 DEF BudgetInv, IInv, TypeOK
  <2> QED
    BY <2>6, <2>7 DEF BudgetInv, Size
<1>5. CASE Rewrite \/ UNCHANGED vars
  <2>1. UNCHANGED <<bytes, gaveUp, pc, key>>
    BY <1>5 DEF Rewrite, vars
  <2>2. Pending' = Pending
    BY <2>1 DEF Pending
  <2> QED
    BY <2>1, <2>2, OvershootFrame DEF BudgetInv, Size
<1> QED
  BY <1>1, <1>2, <1>3, <1>4, <1>5 DEF Next, Step

\* An empty cache is within its budget.
LEMMA InitBudget == ASSUME Threads # {} PROVE Init => BudgetInv
<1> SUFFICES ASSUME Init PROVE BudgetInv
  OBVIOUS
<1>1. Pending = {} /\ bytes = 0 /\ gaveUp = 0
  BY DEF Init, Pending
<1>2. PendingArea = {}
  BY <1>1 DEF PendingArea, Area
<1>3. Cardinality(PendingArea) = 0
  BY <1>2, FS_EmptySet
<1>4. Cardinality(Threads) \in Nat /\ Cardinality(Threads) # 0
  BY ThreadsAssumption, FS_CardinalityType, FS_EmptySet
<1>5. LargestEntry \in Nat /\ MaxBytes \in Nat
  BY SizesAssumption, EntryAssumption
<1>6. (Cardinality(Threads) - 1) * LargestEntry \in Nat
  BY <1>4, <1>5
<1> QED
  BY <1>1, <1>3, <1>4, <1>5, <1>6 DEF BudgetInv, BoundedOvershoot, Init, Holding

\* The chunk cache exceeds its budget by at most one chunk per thread beyond the
\* first, plus one for each time the eviction loop ran out of attempts.
THEOREM BudgetCorrect == ASSUME Threads # {} PROVE Spec => []BoundedOvershoot
<1>1. BudgetInv => BoundedOvershoot
  BY DEF BudgetInv
<1> QED
  BY <1>1, InitBudget, NextBudget, Invariance, PTL DEF Spec

-----------------------------------------------------------------------------
(* Evicting for one shortage                                               *)

\* Threads between the space check and the end of the eviction it led to.
Evicting == {t \in Threads : pc[t] \in {"attempt", "sub"}}

\* What is missing from a full cache: one chunk, and one more for every thread
\* that is not evicting now, since it may have evicted after the last check.
Shortage == (1 + Cardinality(Threads) - Cardinality(Evicting)) * LargestEntry

EvictionInv ==
    /\ Evicting # {} => bytes + Shortage > MaxBytes
    /\ \A k \in cached : Size(k) <= MaxBytes
    /\ \A t \in Threads : pc[t] = "sub" => Size(victim[t]) <= MaxBytes

\* The evicting threads are some of finitely many.
LEMMA EvictingFinite ==
    /\ IsFiniteSet(Evicting) /\ Cardinality(Evicting) \in Nat
    /\ Cardinality(Threads) \in Nat /\ Cardinality(Evicting) <= Cardinality(Threads)
    /\ LargestEntry \in Nat /\ Shortage \in Int
<1>1. Evicting \subseteq Threads
  BY DEF Evicting
<1>2. /\ IsFiniteSet(Evicting) /\ Cardinality(Evicting) \in Nat
      /\ Cardinality(Threads) \in Nat /\ Cardinality(Evicting) <= Cardinality(Threads)
  BY <1>1, ThreadsAssumption, FS_Subset, FS_CardinalityType
<1>3. LargestEntry \in Nat
  BY EntryAssumption
<1>4. (1 + Cardinality(Threads) - Cardinality(Evicting)) * LargestEntry \in Int
  BY <1>2, <1>3
<1> QED
  BY <1>2, <1>3, <1>4 DEF Shortage

\* A thread that enters the eviction has just seen that its chunk does not fit.
LEMMA CheckShortage ==
    ASSUME IInv, IInv', BudgetInv, EvictionInv, NEW t \in Threads, EvictCheck(t)
    PROVE  Evicting' # {} => bytes' + Shortage' > MaxBytes
<1>1. /\ pc[t] = "check" /\ bytes' = bytes
      /\ pc' = [pc EXCEPT ![t] = IF NeedsSpace(t) /\ attempts[t] < EvictAttempts
                                 THEN "attempt" ELSE "insert"]
  BY DEF EvictCheck, Goto, shared
<1>2. bytes \in Nat /\ MaxBytes \in Nat
  BY SizesAssumption DEF IInv, TypeOK
<1>3. CASE NeedsSpace(t) /\ attempts[t] < EvictAttempts
  <2>1. Size(key[t]) \in 0..MaxChunk /\ Size(key[t]) <= LargestEntry
    BY <1>1, KeysAssumption, SizesAssumption, EntryAssumption
       DEF BudgetInv, Holding, IInv, LockInv, Requesting, PCs, Size
  <2>2. bytes + LargestEntry > MaxBytes
    BY <1>2, <1>3, <2>1, EvictingFinite, SizesAssumption DEF NeedsSpace
  <2>3. /\ Cardinality(Evicting') \in Nat /\ Cardinality(Threads) \in Nat
        /\ Cardinality(Evicting') <= Cardinality(Threads)
    <3>1. Evicting' \subseteq Threads
      BY DEF Evicting
    <3> QED BY <3>1, ThreadsAssumption, FS_Subset, FS_CardinalityType
  <2> DEFINE d == Cardinality(Threads) - Cardinality(Evicting')
  <2>4. d \in Nat
    BY <2>3
  <2>5. Shortage' = (1 + d) * LargestEntry
    <3>1. 1 + Cardinality(Threads) - Cardinality(Evicting') = 1 + d
      BY <2>3
    <3>2. Shortage' = (1 + Cardinality(Threads) - Cardinality(Evicting')) * LargestEntry
      BY DEF Shortage
    <3> QED BY <3>1, <3>2
  <2> HIDE DEF d
  <2>6. (1 + d) * LargestEntry = LargestEntry + d * LargestEntry /\ d * LargestEntry \in Nat
    BY <2>4, EvictingFinite
  <2> QED
    BY <1>1, <1>2, <2>2, <2>5, <2>6, EvictingFinite
<1>4. CASE ~(NeedsSpace(t) /\ attempts[t] < EvictAttempts)
  <2>1. Evicting' = Evicting
    BY <1>1, <1>4 DEF Evicting, IInv, TypeOK
  <2>2. Shortage' = Shortage
    BY <2>1 DEF Shortage
  <2> QED BY <1>1, <2>1, <2>2 DEF EvictionInv
<1> QED
  BY <1>3, <1>4

\* A thread that leaves the eviction takes at most one largest entry with it.
LEMMA LeaveShortage ==
    ASSUME IInv, EvictionInv, NEW t \in Evicting, Evicting' = Evicting \ {t},
           bytes' \in Nat, bytes' >= bytes - LargestEntry
    PROVE  Evicting' # {} => bytes' + Shortage' > MaxBytes
<1>1. Cardinality(Evicting') = Cardinality(Evicting) - 1
  BY EvictingFinite, FS_RemoveElement
<1> DEFINE d == 1 + Cardinality(Threads) - Cardinality(Evicting)
<1>2. d \in Int
  BY EvictingFinite
<1>3. Shortage = d * LargestEntry
  BY DEF Shortage
<1>4. Shortage' = (d + 1) * LargestEntry
  <2>1. 1 + Cardinality(Threads) - Cardinality(Evicting') = d + 1
    BY <1>1, EvictingFinite
  <2>2. Shortage' = (1 + Cardinality(Threads) - Cardinality(Evicting')) * LargestEntry
    BY DEF Shortage
  <2> QED BY <2>1, <2>2
<1> HIDE DEF d
<1>5. (d + 1) * LargestEntry = d * LargestEntry + LargestEntry /\ d * LargestEntry \in Int
  BY <1>2, EvictingFinite
<1>6. bytes + Shortage > MaxBytes
  BY DEF EvictionInv
<1> QED
  BY <1>3, <1>4, <1>5, <1>6, EvictingFinite, SizesAssumption DEF IInv, TypeOK

\* While the same threads evict, the counter only grows.
LEMMA ShortageFrame ==
    ASSUME IInv, EvictionInv, Evicting' = Evicting, bytes' \in Nat, bytes' >= bytes
    PROVE  Evicting' # {} => bytes' + Shortage' > MaxBytes
<1> SUFFICES ASSUME Evicting' # {} PROVE bytes' + Shortage' > MaxBytes
  OBVIOUS
<1>1. Shortage' = Shortage
  BY DEF Shortage
<1>2. bytes \in Int /\ MaxBytes \in Int /\ Shortage \in Int
  BY EvictingFinite, SizesAssumption DEF IInv, TypeOK
<1>3. bytes + Shortage > MaxBytes
  BY DEF EvictionInv
<1>4. PICK after \in Int : after = bytes'
  OBVIOUS
<1>5. after >= bytes
  BY <1>4
<1>6. after + Shortage > MaxBytes
  BY <1>2, <1>3, <1>5
<1> QED
  BY <1>1, <1>4, <1>6

\* Entries and victims are never larger than the budget.
LEMMA EntriesFit ==
    ASSUME IInv, BudgetInv, EvictionInv, [Next]_vars
    PROVE  /\ \A k \in cached' : Size(k) <= MaxBytes
           /\ \A t \in Threads : pc'[t] = "sub" => Size(victim'[t]) <= MaxBytes
<1> USE DEF Goto, Finish, shared, locks, reader, request, EvictionInv, IInv, TypeOK
<1>1. ASSUME NEW t \in Threads, EvictRemove(t)
      PROVE  /\ \A k \in cached' : Size(k) <= MaxBytes
             /\ \A u \in Threads : pc'[u] = "sub" => Size(victim'[u]) <= MaxBytes
  BY <1>1 DEF EvictRemove, Oldest, ShardEntries
<1>2. ASSUME NEW t \in Threads, Insert(t)
      PROVE  /\ \A k \in cached' : Size(k) <= MaxBytes
             /\ \A u \in Threads : pc'[u] = "sub" => Size(victim'[u]) <= MaxBytes
  BY <1>2 DEF Insert, BudgetInv, Holding
<1>3. ASSUME NEW t \in Threads,
             \/ ReadLock(t) \/ Hit(t) \/ Miss(t) \/ ReadDirect(t) \/ WriteLock(t)
             \/ HitOnRecheck(t) \/ Admit(t) \/ Defer(t) \/ ReadBypass(t) \/ Fill(t)
             \/ FillFails(t) \/ EvictCheck(t) \/ EvictSkip(t) \/ EvictSub(t) \/ Count(t)
             \/ Stat(t) \/ Open(t) \/ Close(t) \/ (\E c \in Chunks : Get(t, c))
      PROVE  /\ \A k \in cached' : Size(k) <= MaxBytes
             /\ \A u \in Threads : pc'[u] = "sub" => Size(victim'[u]) <= MaxBytes
  <2>1. cached' = cached
    BY <1>3 DEF ReadLock, Hit, Miss, ReadDirect, WriteLock, HitOnRecheck, Admit, Defer,
       ReadBypass, Fill, FillFails, EvictCheck, EvictSkip, EvictSub, Count, Stat, Open,
       Close, Get
  <2>2. pc'[t] # "sub" /\ \A u \in Threads \ {t} : pc'[u] = pc[u]
    BY <1>3 DEF ReadLock, Hit, Miss, ReadDirect, WriteLock, HitOnRecheck, Admit, Defer,
       ReadBypass, Fill, FillFails, EvictCheck, EvictSkip, EvictSub, Count, Stat, Open,
       Close, Get
  <2>3. \A u \in Threads \ {t} : victim'[u] = victim[u]
    BY <1>3 DEF ReadLock, Hit, Miss, ReadDirect, WriteLock, HitOnRecheck, Admit, Defer,
       ReadBypass, Fill, FillFails, EvictCheck, EvictSkip, EvictSub, Count, Stat, Open,
       Close, Get
  <2> QED
    BY <2>1, <2>2, <2>3
<1>4. CASE Rewrite \/ UNCHANGED vars
  BY <1>4 DEF Rewrite, vars
<1> QED
  BY <1>1, <1>2, <1>3, <1>4 DEF Next, Step

\* The eviction invariant is inductive.
LEMMA NextEviction == IInv /\ IInv' /\ BudgetInv /\ EvictionInv /\ [Next]_vars => EvictionInv'
<1> SUFFICES ASSUME IInv, IInv', BudgetInv, EvictionInv, [Next]_vars PROVE EvictionInv'
  OBVIOUS
<1> DEFINE Short == Evicting # {} => bytes + Shortage > MaxBytes
<1>a. bytes \in Nat /\ bytes' \in Nat
  BY DEF IInv, TypeOK
<1>1. ASSUME NEW t \in Threads, EvictCheck(t) PROVE Short'
  BY <1>1, CheckShortage
<1>2. ASSUME NEW t \in Threads, EvictSub(t) PROVE Short'
  <2>1. /\ pc[t] = "sub" /\ pc' = [pc EXCEPT ![t] = "check"]
        /\ bytes' = bytes - Size(victim[t])
    BY <1>2 DEF EvictSub, Goto
  <2>2. t \in Evicting /\ Evicting' = Evicting \ {t}
    BY <2>1 DEF Evicting, IInv, TypeOK
  <2>3. Size(victim[t]) \in 0..MaxChunk /\ Size(victim[t]) <= LargestEntry
    BY <2>1, KeysAssumption, EntryAssumption DEF EvictionInv, IInv, LockInv, Size
  <2>4. bytes' >= bytes - LargestEntry
    BY <1>a, <2>1, <2>3, EvictingFinite, SizesAssumption
  <2> QED BY <1>a, <2>2, <2>4, LeaveShortage
<1>3. ASSUME NEW t \in Threads, EvictSkip(t) PROVE Short'
  <2>1. /\ pc[t] = "attempt" /\ pc' = [pc EXCEPT ![t] = "check"] /\ bytes' = bytes
    BY <1>3 DEF EvictSkip, Goto, shared
  <2>2. t \in Evicting /\ Evicting' = Evicting \ {t}
    BY <2>1 DEF Evicting, IInv, TypeOK
  <2>3. bytes' >= bytes - LargestEntry
    BY <1>a, <2>1, EvictingFinite
  <2> QED BY <1>a, <2>2, <2>3, LeaveShortage
<1>4. ASSUME NEW t \in Threads, Count(t) PROVE Short'
  <2>1. /\ pc[t] = "count" /\ pc' = [pc EXCEPT ![t] = "open"]
        /\ bytes' = bytes + Size(key[t])
    BY <1>4 DEF Count, Finish, Goto
  <2>2. Evicting' = Evicting
    BY <2>1 DEF Evicting, IInv, TypeOK
  <2>3. Size(key[t]) \in 0..MaxChunk
    BY <2>1, KeysAssumption DEF IInv, LockInv, Requesting, PCs, Size
  <2>4. bytes' >= bytes
    BY <1>a, <2>1, <2>3, SizesAssumption
  <2> QED BY <1>a, <2>2, <2>4, ShortageFrame
<1>5. ASSUME NEW t \in Threads,
             \/ ReadLock(t) \/ Hit(t) \/ Miss(t) \/ ReadDirect(t) \/ WriteLock(t)
             \/ HitOnRecheck(t) \/ Admit(t) \/ Defer(t) \/ ReadBypass(t) \/ Fill(t)
             \/ FillFails(t) \/ EvictRemove(t) \/ Insert(t)
             \/ Stat(t) \/ Open(t) \/ Close(t) \/ (\E c \in Chunks : Get(t, c))
      PROVE  Short'
  <2>1. bytes' = bytes
    BY <1>5 DEF ReadLock, Hit, Miss, ReadDirect, WriteLock, HitOnRecheck, Admit, Defer,
       ReadBypass, Fill, FillFails, EvictRemove, Insert, Stat, Open, Close, Get, Finish, shared
  <2>2. PICK p : /\ pc' = [pc EXCEPT ![t] = p]
                 /\ p \in {"attempt", "sub"} <=> pc[t] \in {"attempt", "sub"}
    BY <1>5 DEF ReadLock, Hit, Miss, ReadDirect, WriteLock, HitOnRecheck, Admit, Defer,
       ReadBypass, Fill, FillFails, EvictRemove, Insert, Stat, Open, Close, Get, Finish, Goto
  <2>3. Evicting' = Evicting
    BY <2>2 DEF Evicting, IInv, TypeOK
  <2> QED BY <1>a, <2>1, <2>3, ShortageFrame
<1>6. ASSUME Rewrite \/ UNCHANGED vars PROVE Short'
  <2>1. bytes' = bytes /\ pc' = pc
    BY <1>6 DEF Rewrite, vars, shared
  <2>2. Evicting' = Evicting
    BY <2>1 DEF Evicting
  <2> QED BY <1>a, <2>1, <2>2, ShortageFrame
<1>7. Short'
  BY <1>1, <1>2, <1>3, <1>4, <1>5, <1>6 DEF Next, Step
<1> QED
  BY <1>7, EntriesFit DEF EvictionInv, Size

\* Whoever evicts does so at most one largest chunk per thread below a full cache,
\* however many threads found the same shortage before.
THEOREM EvictionCorrect == ASSUME Threads # {} PROVE Spec => []BoundedEviction
<1>1. Init => EvictionInv
  BY DEF Init, EvictionInv, Evicting
<1>2. IInv /\ EvictionInv => BoundedEviction
  <2> SUFFICES ASSUME IInv, EvictionInv, NEW t \in Threads, pc[t] = "sub"
               PROVE  bytes + Cardinality(Threads) * LargestEntry > MaxBytes
    BY DEF BoundedEviction
  <2>1. t \in Evicting
    BY DEF Evicting
  <2>2. Cardinality(Evicting) # 0
    BY <2>1, EvictingFinite, FS_EmptySet
  <2> DEFINE d == Cardinality(Evicting) - 1
             n == Cardinality(Threads) - d
  <2>3. d \in Nat /\ n \in Nat
    BY <2>2, EvictingFinite
  <2>4. Shortage = n * LargestEntry /\ Cardinality(Threads) = n + d
    <3>1. 1 + Cardinality(Threads) - Cardinality(Evicting) = n
      BY EvictingFinite
    <3> QED BY <3>1, EvictingFinite DEF Shortage
  <2>5. bytes + Shortage > MaxBytes
    BY <2>1 DEF EvictionInv
  <2> HIDE DEF d, n
  <2>6. (n + d) * LargestEntry = n * LargestEntry + d * LargestEntry
    BY <2>3, EvictingFinite
  <2>7. d * LargestEntry \in Nat /\ n * LargestEntry \in Nat
    BY <2>3, EvictingFinite
  <2> QED
    BY <2>4, <2>5, <2>6, <2>7, SizesAssumption DEF IInv, TypeOK
<1> QED
  BY <1>1, <1>2, InitBudget, NextBudget, NextEviction, Invariance, PTL DEF Spec
=============================================================================
