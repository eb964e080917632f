---------------------------- MODULE MetadataCache ----------------------------
(***************************************************************************)
(* The footer cache of src/src/storage.rs (ParquetMetadataCache), shared   *)
(* by all queries of an engine, under files that are rewritten while       *)
(* queries run.  A query takes a file's metadata from the cache, or loads  *)
(* and caches it, and then reads the file's column chunks at the offsets   *)
(* the metadata gives.  get_with_store takes the file's size and time of   *)
(* modification first, opens the file later and takes its lock twice, with *)
(* the load in between.                                                    *)
(*                                                                         *)
(* A file's content is the number of times it was written; Sig is the size *)
(* and modification time of each version.  The page_index flag of an entry *)
(* is fixed by the environment and left out.  The chunk reads are those of *)
(* ParquetFileCache: what they return is no older than the moment the      *)
(* reader was made (NeverOlderThanStat there).                             *)
(***************************************************************************)
EXTENDS Integers

CONSTANTS
    Queries,     \* queries running at the same time
    Paths,       \* Parquet files
    MaxVersion,  \* bound: rewrites of a file
    Sig,         \* Sig[v]: size and modification time of version v
    Unreadable,  \* versions that are not valid Parquet
    NoEntry      \* a path that is not in the map

Versions == 0..MaxVersion

\* A rewrite changes the size or the modification time.
ASSUME SigAssumption ==
    /\ MaxVersion \in Nat
    /\ Unreadable \subseteq Versions
    /\ \A v, w \in Versions : Sig[v] = Sig[w] => v = w

Entry == [sig : {Sig[v] : v \in Versions}, metadata : Versions]
ASSUME NoEntryAssumption == NoEntry \notin Entry

VARIABLES
    version,  \* per path: the version on disk
    entries,  \* the map of ParquetMetadataCache
    pc,       \* per query: the step it is at
    path,     \* per query: the file it reads
    began,    \* per query: the version on disk when it started
    stat,     \* per query: the version whose size and time it has
    meta,     \* per query: the version its metadata describes
    opened,   \* per query: the version on disk when its reader was made
    data      \* per query: the version its rows came from

vars == <<version, entries, pc, path, began, stat, meta, opened, data>>

PCs == {"idle", "stat", "lookup", "load", "insert", "open", "read", "done", "failed"}

-----------------------------------------------------------------------------
Init ==
    /\ version = [p \in Paths |-> 0]
    /\ entries = [p \in Paths |-> NoEntry]
    /\ pc = [q \in Queries |-> "idle"]
    /\ path \in [Queries -> Paths]
    /\ began = [q \in Queries |-> 0]
    /\ stat = [q \in Queries |-> 0]
    /\ meta = [q \in Queries |-> 0]
    /\ opened = [q \in Queries |-> 0]
    /\ data = [q \in Queries |-> 0]

Goto(q, s) == pc' = [pc EXCEPT ![q] = s]
Now(q) == version[path[q]]

Start(q, p) ==
    /\ pc[q] = "idle"
    /\ path' = [path EXCEPT ![q] = p]
    /\ began' = [began EXCEPT ![q] = version[p]]
    /\ Goto(q, "stat")
    /\ UNCHANGED <<version, entries, stat, meta, opened, data>>

\* store.metadata(path)
Stat(q) ==
    /\ pc[q] = "stat"
    /\ stat' = [stat EXCEPT ![q] = Now(q)]
    /\ Goto(q, "lookup")
    /\ UNCHANGED <<version, entries, path, began, meta, opened, data>>

Cached(q) == entries[path[q]] # NoEntry /\ entries[path[q]].sig = Sig[stat[q]]

\* The first critical section finds an entry of the same size and time.
Hit(q) ==
    /\ pc[q] = "lookup" /\ Cached(q)
    /\ meta' = [meta EXCEPT ![q] = entries[path[q]].metadata]
    /\ Goto(q, "open")
    /\ UNCHANGED <<version, entries, path, began, stat, opened, data>>

Miss(q) ==
    /\ pc[q] = "lookup" /\ ~Cached(q)
    /\ Goto(q, "load")
    /\ UNCHANGED <<version, entries, path, began, stat, meta, opened, data>>

\* store.open and ArrowReaderMetadata::load, outside the lock.
Load(q) ==
    /\ pc[q] = "load" /\ Now(q) \notin Unreadable
    /\ meta' = [meta EXCEPT ![q] = Now(q)]
    /\ Goto(q, "insert")
    /\ UNCHANGED <<version, entries, path, began, stat, opened, data>>

LoadFails(q) ==
    /\ pc[q] = "load" /\ Now(q) \in Unreadable
    /\ Goto(q, "failed")
    /\ UNCHANGED <<version, entries, path, began, stat, meta, opened, data>>

\* Mutant: the size and time are taken when the entry is made.
InsertStatNow(q) ==
    /\ pc[q] = "insert"
    /\ entries' = [entries EXCEPT ![path[q]] = [sig |-> Sig[Now(q)], metadata |-> meta[q]]]
    /\ Goto(q, "open")
    /\ UNCHANGED <<version, path, began, stat, meta, opened, data>>

\* The second critical section: the entry has the size and time from before the load.
Insert(q) ==
    /\ pc[q] = "insert"
    /\ entries' = [entries EXCEPT ![path[q]] = [sig |-> Sig[stat[q]], metadata |-> meta[q]]]
    /\ Goto(q, "open")
    /\ UNCHANGED <<version, path, began, stat, meta, opened, data>>

\* CachedParquetChunkReader::new
OpenReader(q) ==
    /\ pc[q] = "open"
    /\ opened' = [opened EXCEPT ![q] = Now(q)]
    /\ Goto(q, "read")
    /\ UNCHANGED <<version, entries, path, began, stat, meta, data>>

\* Mutant: chunks are cached by path alone.
ReadChunksOfAnyAge(q) ==
    /\ pc[q] = "read"
    /\ \E v \in 0..Now(q) : data' = [data EXCEPT ![q] = v]
    /\ Goto(q, "done")
    /\ UNCHANGED <<version, entries, path, began, stat, meta, opened>>

\* CachedParquetChunkReader::get_bytes, by the promise of ParquetFileCache.
ReadChunks(q) ==
    /\ pc[q] = "read"
    /\ \E v \in opened[q]..Now(q) : data' = [data EXCEPT ![q] = v]
    /\ Goto(q, "done")
    /\ UNCHANGED <<version, entries, path, began, stat, meta, opened>>

Finish(q) ==
    /\ pc[q] \in {"done", "failed"}
    /\ Goto(q, "idle")
    /\ began' = [began EXCEPT ![q] = 0]
    /\ stat' = [stat EXCEPT ![q] = 0]
    /\ meta' = [meta EXCEPT ![q] = 0]
    /\ opened' = [opened EXCEPT ![q] = 0]
    /\ data' = [data EXCEPT ![q] = 0]
    /\ UNCHANGED <<version, entries, path>>

\* Another program writes the file.
Rewrite(p) ==
    /\ version[p] < MaxVersion
    /\ version' = [version EXCEPT ![p] = @ + 1]
    /\ UNCHANGED <<entries, pc, path, began, stat, meta, opened, data>>

Next ==
    \/ \E p \in Paths : Rewrite(p)
    \/ \E q \in Queries :
          \/ \E p \in Paths : Start(q, p)
          \/ Stat(q) \/ Hit(q) \/ Miss(q) \/ Load(q) \/ LoadFails(q) \/ Insert(q)
          \/ OpenReader(q) \/ ReadChunks(q) \/ Finish(q)

Spec == Init /\ [][Next]_vars

-----------------------------------------------------------------------------
\* Type correctness.
TypeOK ==
    /\ version \in [Paths -> Versions]
    /\ entries \in [Paths -> Entry \cup {NoEntry}]
    /\ pc \in [Queries -> PCs]
    /\ path \in [Queries -> Paths]
    /\ began \in [Queries -> Versions] /\ stat \in [Queries -> Versions]
    /\ meta \in [Queries -> Versions] /\ opened \in [Queries -> Versions]
    /\ data \in [Queries -> Versions]

\* The metadata a query plans with describes the file as it was at some moment of the
\* query: an entry another query left behind, even one loaded while the file was being
\* rewritten, never takes a query back to a file from before it started.
MetadataFresh ==
    \A q \in Queries : pc[q] \in {"open", "read", "done"} =>
        began[q] <= meta[q] /\ meta[q] <= Now(q)

\* A query during which its file is not rewritten reads the rows of the file with the
\* metadata of that same file, whatever rewrites earlier queries raced with.
QuietQueryConsistent ==
    \A q \in Queries : pc[q] = "done" /\ began[q] = Now(q) => meta[q] = data[q]
=============================================================================
