-------------------------- MODULE ParquetFileCache --------------------------
(***************************************************************************)
(* The sharded chunk cache of src/src/storage.rs (ParquetFileCache and     *)
(* CachedParquetChunkReader), shared by every scan thread of one engine.   *)
(*                                                                         *)
(* A thread stats a file, opens it, and then asks for chunks.  A chunk's   *)
(* key carries the length and modification time that the thread's stat saw *)
(* (its stamp), while the bytes come from the handle it opened afterwards; *)
(* the file may be rewritten at any moment by somebody else.               *)
(*                                                                         *)
(* The atomic steps are the code's: one per lock acquisition, per atomic   *)
(* read-modify-write that another thread can observe, and per file access. *)
(* The statistics counters (hits, misses, evictions, read_bytes,           *)
(* deferred_admissions) steer nothing and are left out.  Byte offsets      *)
(* inside a chunk are left out as well: a request is for a chunk.          *)
(***************************************************************************)
EXTENDS Integers, FiniteSets

CONSTANTS
    Threads,           \* scan threads sharing the cache
    Chunks,            \* chunk positions of the file
    MaxVersion,        \* bound: how often the file is rewritten
    NShards,           \* PARQUET_FILE_CACHE_SHARDS
    ShardOf,           \* shard_index: the hash of a key
    ChunkLen,          \* chunk_len of a key, 0 past the end of the file
    MaxChunk,          \* chunk_bytes
    MaxBytes,          \* max_bytes, the budget
    LargestEntry,      \* no chunk that fits into the budget is larger
    AdmitOnFirstRead,  \* admit_on_first_read
    AdmissionCap,      \* the 4096 of should_admit
    EvictAttempts,     \* PARQUET_FILE_CACHE_SHARDS * 4
    MaxEpoch           \* bound: how many requests are made

\* What a stat tells apart: every rewrite of the file changes its length or
\* its modification time.
Versions == 0..MaxVersion

\* CachedFileChunkKey: the chunk and the stamp (len, modified) of the file.
Keys == Chunks \X Versions
Shards == 0..(NShards - 1)
StampOf(k) == k[2]

ASSUME SizesAssumption ==
    /\ MaxVersion \in Nat /\ NShards \in Nat \ {0} /\ MaxChunk \in Nat
    /\ MaxBytes \in Nat \ {0}     \* a reader is only made when enabled()
    /\ AdmitOnFirstRead \in BOOLEAN
    /\ AdmissionCap \in Nat \ {0} /\ EvictAttempts \in Nat /\ MaxEpoch \in Nat
ASSUME ThreadsAssumption == IsFiniteSet(Threads) /\ IsFiniteSet(Chunks)
ASSUME KeysAssumption ==
    /\ ShardOf \in [Keys -> Shards]
    /\ ChunkLen \in [Keys -> 0..MaxChunk]
ASSUME EntryAssumption ==     \* a miss for more than the budget is not cached
    /\ LargestEntry \in Nat
    /\ \A k \in Keys : ChunkLen[k] <= MaxBytes => ChunkLen[k] <= LargestEntry

VARIABLES
    version,     \* the file on disk
    cached,      \* the keys of all shards' entries
    content,     \* the version whose bytes an entry holds
    lastAccess,  \* last_access_epoch of an entry
    admissions,  \* epoch at which a key was deferred, 0 if it was not
    bytes,       \* the bytes counter
    epoch,       \* access_epoch
    writer,      \* per shard, the set of threads with its write lock
    readers,     \* per shard, the set of threads with its read lock
    pc, stamp, handle, key, myEpoch, start, attempts, victim,
    result,      \* the version of the bytes last returned to the thread
    gaveUp       \* history: inserts made after the eviction loop gave up

shared == <<cached, content, lastAccess, admissions, bytes, epoch>>
locks == <<writer, readers>>
reader == <<stamp, handle, result>>
request == <<key, myEpoch, start, attempts, victim>>
vars == <<version, shared, locks, pc, reader, request, gaveUp>>

Size(k) == ChunkLen[k]
NoKey == <<>>
MyShard(t) == ShardOf[key[t]]
ShardEntries(s) == {k \in cached : ShardOf[k] = s}
Free(s) == writer[s] = {} /\ readers[s] = {}

PCs == {"idle", "stated", "open", "rlock", "lookup", "direct", "wlock", "recheck",
        "bypass", "fill", "check", "attempt", "sub", "insert", "count"}

Init ==
    /\ version = 0
    /\ cached = {}
    /\ content = [k \in Keys |-> 0]
    /\ lastAccess = [k \in Keys |-> 0]
    /\ admissions = [k \in Keys |-> 0]
    /\ bytes = 0
    /\ epoch = 1
    /\ writer = [s \in Shards |-> {}]
    /\ readers = [s \in Shards |-> {}]
    /\ pc = [t \in Threads |-> "idle"]
    /\ stamp = [t \in Threads |-> 0]
    /\ handle = [t \in Threads |-> 0]
    /\ result = [t \in Threads |-> 0]
    /\ key = [t \in Threads |-> NoKey]
    /\ myEpoch = [t \in Threads |-> 0]
    /\ start = [t \in Threads |-> 0]
    /\ attempts = [t \in Threads |-> 0]
    /\ victim = [t \in Threads |-> NoKey]
    /\ gaveUp = 0

Goto(t, from, to) == pc[t] = from /\ pc' = [pc EXCEPT ![t] = to]

-----------------------------------------------------------------------------
(* The file and the reader's view of it.                                   *)

\* Another process replaces or overwrites the file.
Rewrite ==
    /\ version < MaxVersion
    /\ version' = version + 1
    /\ UNCHANGED <<shared, locks, pc, reader, request, gaveUp>>

\* CachedParquetChunkReader::new, first half: store.metadata(path).
Stat(t) ==
    /\ Goto(t, "idle", "stated")
    /\ stamp' = [stamp EXCEPT ![t] = version]
    /\ UNCHANGED <<version, shared, locks, handle, result, request, gaveUp>>

\* Mutant: a pooled handle of an earlier open is used instead of a new one.
OpenPooled(t) ==
    /\ Goto(t, "stated", "open")
    /\ result' = [result EXCEPT ![t] = stamp[t]]
    /\ UNCHANGED <<version, shared, locks, handle, stamp, request, gaveUp>>

\* CachedParquetChunkReader::new, second half: store.open(path).
Open(t) ==
    /\ Goto(t, "stated", "open")
    /\ handle' = [handle EXCEPT ![t] = version]
    /\ result' = [result EXCEPT ![t] = version]
    /\ UNCHANGED <<version, shared, locks, stamp, request, gaveUp>>

\* The scan drops its reader.
Close(t) ==
    /\ Goto(t, "open", "idle")
    /\ stamp' = [stamp EXCEPT ![t] = 0]
    /\ handle' = [handle EXCEPT ![t] = 0]
    /\ result' = [result EXCEPT ![t] = 0]
    /\ UNCHANGED <<version, shared, locks, request, gaveUp>>

\* The versions a read through t's handle can deliver: the opened file, or a
\* later one when the rewrite was done in place.
Readable(t) == handle[t]..version

\* read_file_range fails when the file it reads is too short by now.
ShortRead(t, v) == Size(<<key[t][1], v>>) < Size(key[t])

\* What a read of part of the chunk leaves in result[t]: the bytes, or what was
\* there before when it fails.  The part may still lie inside a shortened file.
RangeRead(t, v) ==
    (IF Size(<<key[t][1], v>>) > 0 THEN {v} ELSE {})
    \cup (IF ShortRead(t, v) THEN {result[t]} ELSE {})

-----------------------------------------------------------------------------
(* get_or_read_range                                                       *)

\* The request is over: its locals are dead.
Finish(t, from, v) ==
    /\ Goto(t, from, "open")
    /\ key' = [key EXCEPT ![t] = NoKey]
    /\ myEpoch' = [myEpoch EXCEPT ![t] = 0]
    /\ start' = [start EXCEPT ![t] = 0]
    /\ attempts' = [attempts EXCEPT ![t] = 0]
    /\ victim' = [victim EXCEPT ![t] = NoKey]
    /\ result' = [result EXCEPT ![t] = v]
    /\ UNCHANGED <<version, stamp, handle>>

Unlock(t) == writer' = [writer EXCEPT ![MyShard(t)] = @ \ {t}]

\* Key and epoch of a request for a chunk inside the file as it was statted
\* (get_bytes answers any other request with an EOF error).
Get(t, c) ==
    /\ epoch < MaxEpoch
    /\ Size(<<c, stamp[t]>>) > 0
    /\ Goto(t, "open", "rlock")
    /\ key' = [key EXCEPT ![t] = <<c, stamp[t]>>]
    /\ myEpoch' = [myEpoch EXCEPT ![t] = epoch]
    /\ epoch' = epoch + 1
    /\ UNCHANGED <<version, cached, content, lastAccess, admissions, bytes, locks,
                   reader, start, attempts, victim, gaveUp>>

\* entries.read()
ReadLock(t) ==
    /\ Goto(t, "rlock", "lookup")
    /\ writer[MyShard(t)] = {}
    /\ readers' = [readers EXCEPT ![MyShard(t)] = @ \cup {t}]
    /\ UNCHANGED <<version, shared, writer, reader, request, gaveUp>>

ReadUnlock(t) == readers' = [readers EXCEPT ![MyShard(t)] = @ \ {t}]

\* Found under the read lock: touch the entry and return its bytes.
Hit(t) ==
    /\ key[t] \in cached
    /\ Finish(t, "lookup", content[key[t]])
    /\ lastAccess' = [lastAccess EXCEPT ![key[t]] = myEpoch[t]]
    /\ ReadUnlock(t)
    /\ UNCHANGED <<cached, content, admissions, bytes, epoch, writer, gaveUp>>

\* Mutant: a chunk larger than the whole budget is cached like any other.
MissOversized(t) ==
    /\ key[t] \notin cached
    /\ Goto(t, "lookup", "wlock")
    /\ ReadUnlock(t)
    /\ UNCHANGED <<version, shared, writer, reader, request, gaveUp>>

\* A miss for a chunk larger than the whole budget reads around the cache.
Miss(t) ==
    /\ key[t] \notin cached
    /\ Goto(t, "lookup", IF Size(key[t]) > MaxBytes THEN "direct" ELSE "wlock")
    /\ ReadUnlock(t)
    /\ UNCHANGED <<version, shared, writer, reader, request, gaveUp>>

\* The read of an oversized chunk.
ReadDirect(t) ==
    /\ pc[t] = "direct"
    /\ \E v \in Readable(t) :
          \E r \in RangeRead(t, v) : Finish(t, "direct", r)
    /\ UNCHANGED <<shared, locks, gaveUp>>

\* entries.write()
WriteLock(t) ==
    /\ Goto(t, "wlock", "recheck")
    /\ Free(MyShard(t))
    /\ writer' = [writer EXCEPT ![MyShard(t)] = {t}]
    /\ UNCHANGED <<version, shared, readers, reader, request, gaveUp>>

\* Somebody inserted the chunk between the two locks.
HitOnRecheck(t) ==
    /\ key[t] \in cached
    /\ Finish(t, "recheck", content[key[t]])
    /\ lastAccess' = [lastAccess EXCEPT ![key[t]] = myEpoch[t]]
    /\ Unlock(t)
    /\ UNCHANGED <<cached, content, admissions, bytes, epoch, readers, gaveUp>>

\* cache_pressure
Pressure(k) == (bytes + Size(k)) * 4 >= MaxBytes * 3

Deferred(s) == {k \in Keys : ShardOf[k] = s /\ admissions[k] # 0}

\* should_admit says yes: at once while there is room, else on the second miss.
AdmitAtOnce(k) == AdmitOnFirstRead /\ ~Pressure(k)
\* Mutant: the second lookup, under the write lock, is missing.
AdmitWithoutRecheck(t) ==
    /\ Goto(t, "recheck", "fill")
    /\ AdmitAtOnce(key[t]) \/ admissions[key[t]] # 0
    /\ admissions' = IF AdmitAtOnce(key[t]) THEN admissions
                     ELSE [admissions EXCEPT ![key[t]] = 0]
    /\ UNCHANGED <<version, cached, content, lastAccess, bytes, epoch, locks, reader,
                   request, gaveUp>>
Admit(t) ==
    /\ Goto(t, "recheck", "fill")
    /\ key[t] \notin cached
    /\ AdmitAtOnce(key[t]) \/ admissions[key[t]] # 0
    /\ admissions' = IF AdmitAtOnce(key[t]) THEN admissions
                     ELSE [admissions EXCEPT ![key[t]] = 0]
    /\ UNCHANGED <<version, cached, content, lastAccess, bytes, epoch, locks, reader,
                   request, gaveUp>>

\* should_admit says no and remembers the key; a full admissions table of the
\* shard forgets its oldest key.
Forgotten(s) ==
    IF Cardinality(Deferred(s)) < AdmissionCap THEN {}
    ELSE {CHOOSE k \in Deferred(s) : \A j \in Deferred(s) : admissions[k] <= admissions[j]}
Defer(t) ==
    /\ Goto(t, "recheck", "bypass")
    /\ key[t] \notin cached
    /\ ~AdmitAtOnce(key[t]) /\ admissions[key[t]] = 0
    /\ admissions' = [k \in Keys |-> IF k = key[t] THEN myEpoch[t]
                                    ELSE IF k \in Forgotten(MyShard(t)) THEN 0
                                    ELSE admissions[k]]
    /\ UNCHANGED <<version, cached, content, lastAccess, bytes, epoch, locks, reader,
                   request, gaveUp>>

\* The read of a chunk that is not admitted, under the shard's write lock.
ReadBypass(t) ==
    /\ pc[t] = "bypass"
    /\ \E v \in Readable(t) :
          \E r \in RangeRead(t, v) : Finish(t, "bypass", r)
    /\ Unlock(t)
    /\ UNCHANGED <<shared, readers, gaveUp>>

\* The read of an admitted chunk; evict_until_has_space loads the epoch its
\* first shard comes from.  The bytes wait in result[t].
Fill(t) ==
    /\ Goto(t, "fill", "check")
    /\ \E v \in Readable(t) : ~ShortRead(t, v) /\ result' = [result EXCEPT ![t] = v]
    /\ start' = [start EXCEPT ![t] = epoch]
    /\ UNCHANGED <<version, shared, locks, stamp, handle, key, myEpoch, attempts,
                   victim, gaveUp>>

FillFails(t) ==
    /\ pc[t] = "fill"
    /\ \E v \in Readable(t) : ShortRead(t, v)
    /\ Finish(t, "fill", result[t])
    /\ Unlock(t)
    /\ UNCHANGED <<shared, readers, gaveUp>>

\* Mutant: the incoming chunk is forgotten in the space check.
NeedsSpaceIgnoringIncoming(t) == bytes > MaxBytes

\* The condition of evict_until_has_space's loop.
NeedsSpace(t) == bytes + Size(key[t]) > MaxBytes
EvictCheck(t) ==
    /\ Goto(t, "check",
            IF NeedsSpace(t) /\ attempts[t] < EvictAttempts THEN "attempt" ELSE "insert")
    /\ gaveUp' = IF NeedsSpace(t) /\ attempts[t] >= EvictAttempts THEN gaveUp + 1 ELSE gaveUp
    /\ UNCHANGED <<version, shared, locks, reader, request>>

\* evict_one_from_entries: the least recently used entry of one shard.
Oldest(s) == {k \in ShardEntries(s) : \A j \in ShardEntries(s) : lastAccess[k] <= lastAccess[j]}
Target(t) == (start[t] + attempts[t]) % NShards

\* Remove a victim from the target shard, holding that shard's write lock.
EvictRemove(t) ==
    LET s == Target(t) IN
    /\ Goto(t, "attempt", "sub")
    /\ s = MyShard(t) \/ Free(s)
    /\ \E k \in Oldest(s) :
          /\ victim' = [victim EXCEPT ![t] = k]
          /\ cached' = cached \ {k}
          /\ content' = [content EXCEPT ![k] = 0]
          /\ lastAccess' = [lastAccess EXCEPT ![k] = 0]
    /\ writer' = [writer EXCEPT ![s] = {t}]
    /\ UNCHANGED <<version, admissions, bytes, epoch, readers, reader, key, myEpoch, start,
                   attempts, gaveUp>>

\* Mutant: a shard that could not be locked does not use up an attempt.
EvictSkipFree(t) ==
    LET s == Target(t) IN
    /\ Goto(t, "attempt", "check")
    /\ (s # MyShard(t) /\ ~Free(s)) \/ ShardEntries(s) = {}
    /\ UNCHANGED <<version, shared, locks, reader, request, gaveUp>>

\* The target shard is empty, or its try_write() fails.
EvictSkip(t) ==
    LET s == Target(t) IN
    /\ Goto(t, "attempt", "check")
    /\ (s # MyShard(t) /\ ~Free(s)) \/ ShardEntries(s) = {}
    /\ attempts' = [attempts EXCEPT ![t] = @ + 1]
    /\ UNCHANGED <<version, shared, locks, reader, key, myEpoch, start, victim, gaveUp>>

\* bytes.fetch_sub for the removed victim; the target's guard is dropped.
EvictSub(t) ==
    LET s == ShardOf[victim[t]] IN
    /\ Goto(t, "sub", "check")
    /\ bytes' = bytes - Size(victim[t])
    /\ writer' = [writer EXCEPT ![s] = IF s = MyShard(t) THEN @ ELSE @ \ {t}]
    /\ attempts' = [attempts EXCEPT ![t] = @ + 1]
    /\ victim' = [victim EXCEPT ![t] = NoKey]
    /\ UNCHANGED <<version, cached, content, lastAccess, admissions, epoch, readers,
                   reader, key, myEpoch, start, gaveUp>>

\* entries.insert
Insert(t) ==
    /\ Goto(t, "insert", "count")
    /\ cached' = cached \cup {key[t]}
    /\ content' = [content EXCEPT ![key[t]] = result[t]]
    /\ lastAccess' = [lastAccess EXCEPT ![key[t]] = myEpoch[t]]
    /\ UNCHANGED <<version, admissions, bytes, epoch, locks, reader, request, gaveUp>>

\* bytes.fetch_add for the inserted entry; the shard's guard is dropped.
Count(t) ==
    /\ Finish(t, "count", result[t])
    /\ bytes' = bytes + Size(key[t])
    /\ Unlock(t)
    /\ UNCHANGED <<cached, content, lastAccess, admissions, epoch, readers, gaveUp>>

-----------------------------------------------------------------------------
Step(t) ==
    \/ ReadLock(t) \/ Hit(t) \/ Miss(t) \/ ReadDirect(t)
    \/ WriteLock(t) \/ HitOnRecheck(t) \/ Admit(t) \/ Defer(t)
    \/ ReadBypass(t) \/ Fill(t) \/ FillFails(t)
    \/ EvictCheck(t) \/ EvictRemove(t) \/ EvictSkip(t) \/ EvictSub(t)
    \/ Insert(t) \/ Count(t)

Next ==
    \/ Rewrite
    \/ \E t \in Threads :
          \/ Stat(t) \/ Open(t) \/ Close(t) \/ Step(t)
          \/ \E c \in Chunks : Get(t, c)

Spec == Init /\ [][Next]_vars

\* A thread inside get_or_read_range keeps running, and the shard locks do not
\* starve a waiter.
FairSpec == Spec /\ \A t \in Threads : WF_vars(Step(t)) /\ SF_vars(ReadLock(t)) /\ SF_vars(WriteLock(t))
-----------------------------------------------------------------------------
(* Properties                                                              *)

\* The reachable states are well typed; in particular the unsigned counter
\* bytes is never driven below zero by a fetch_sub.
TypeOK ==
    /\ version \in Versions
    /\ cached \subseteq Keys
    /\ content \in [Keys -> Versions]
    /\ lastAccess \in [Keys -> Nat]
    /\ admissions \in [Keys -> Nat]
    /\ bytes \in Nat
    /\ epoch \in Nat \ {0}
    /\ writer \in [Shards -> SUBSET Threads]
    /\ readers \in [Shards -> SUBSET Threads]
    /\ pc \in [Threads -> PCs]
    /\ stamp \in [Threads -> Versions]
    /\ handle \in [Threads -> Versions]
    /\ result \in [Threads -> Versions]
    /\ key \in [Threads -> Keys \cup {NoKey}]
    /\ myEpoch \in [Threads -> Nat]
    /\ start \in [Threads -> Nat]
    /\ attempts \in [Threads -> Nat]
    /\ victim \in [Threads -> Keys \cup {NoKey}]
    /\ gaveUp \in Nat

\* The bytes of the chunks in S, one by one: its cardinality is their total size.
Area(S, len) == {b \in S \X (1..MaxChunk) : b[2] <= len[b[1]]}

\* The entries the counter stands for: an inserted entry counts from its
\* fetch_add on, a removed one until its fetch_sub.
Counted ==
    {k \in Keys : \/ k \in cached /\ \A t \in Threads : ~(pc[t] = "count" /\ key[t] = k)
                 \/ \E t \in Threads : pc[t] = "sub" /\ victim[t] = k}

\* However inserts and evictions of different shards interleave, the bytes
\* counter that drives admission and eviction is the total size of the entries
\* it accounts for: nothing is counted twice or subtracted twice.
BytesMatchEntries == bytes = Cardinality(Area(Counted, ChunkLen))

\* Threads that are past the eviction loop and will still add their chunk.
Pending == {t \in Threads : pc[t] \in {"insert", "count"}}
PendingArea == Area(Pending, [t \in Pending |-> Size(key[t])])

\* The space check and the fetch_add are not one step, so the cache exceeds its
\* budget; but by no more than one chunk per other thread, and one more for each
\* insert that went ahead after the eviction loop had used up its attempts.
BoundedOvershoot ==
    bytes + Cardinality(PendingArea)
        <= MaxBytes + (Cardinality(Threads) - 1 + gaveUp) * LargestEntry

\* An eviction and the space check before it are not one step either: several
\* threads evict for one shortage.  But each of them checks again after every
\* eviction, so that whoever evicts does so at most one largest chunk per thread
\* below a full cache: a crowd of misses never empties it.
BoundedEviction ==
    \A t \in Threads : pc[t] = "sub" =>
        bytes + Cardinality(Threads) * LargestEntry > MaxBytes

\* No reader is ever handed bytes older than the file it statted: the stat
\* comes before the open, so what is stored under a stamp is at least that new.
NeverOlderThanStat ==
    /\ \A k \in cached : content[k] >= StampOf(k)
    /\ \A t \in Threads : pc[t] \notin {"idle", "stated"} => result[t] >= stamp[t]

\* Every request returns: the threads, which hold one shard's lock while they
\* try another's, never wait for each other in a circle, and eviction ends.
RequestsReturn == \A t \in Threads : pc[t] = "rlock" ~> pc[t] = "open"

=============================================================================
