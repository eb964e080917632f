------------------------ MODULE MetadataCacheProofs ------------------------
(***************************************************************************)
(* Proofs about MetadataCache, for any number of queries, files and        *)
(* rewrites.  The invariant behind them is about the entries: the size and *)
(* time an entry carries are those of a version no newer than the one its  *)
(* metadata describes (EntryInv), because get_with_store takes them before *)
(* it opens the file.  A query that finds an entry with the size and time  *)
(* it saw therefore gets metadata no older than what it saw.               *)
(***************************************************************************)
EXTENDS MetadataCache, TLAPS

\* An entry's size and time are not newer than its metadata, and its metadata not newer
\* than the file.
EntryInv ==
    \A p \in Paths : entries[p] # NoEntry =>
        /\ entries[p].metadata <= version[p]
        /\ \A v \in Versions : entries[p].sig = Sig[v] => v <= entries[p].metadata

\* What a query knows, in the order it learned it.
QueryOk(q) ==
    /\ pc[q] \notin {"idle", "failed"} => began[q] <= Now(q)
    /\ pc[q] \in {"lookup", "load", "insert"} => began[q] <= stat[q] /\ stat[q] <= Now(q)
    /\ pc[q] = "insert" => stat[q] <= meta[q] /\ meta[q] <= Now(q)
    /\ pc[q] \in {"open", "read", "done"} => began[q] <= meta[q] /\ meta[q] <= Now(q)
    /\ pc[q] \in {"read", "done"} => began[q] <= opened[q] /\ opened[q] <= Now(q)
    /\ pc[q] = "done" => opened[q] <= data[q] /\ data[q] <= Now(q)

QueryInv == \A q \in Queries : QueryOk(q)

IInv == TypeOK /\ EntryInv /\ QueryInv

\* Versions are counted from 0: the order of rewrites is the order of integers.
LEMMA VersionsAreIntegers == \A v \in Versions : v \in Int /\ 0 <= v /\ v <= MaxVersion
  BY SigAssumption DEF Versions

\* What lies between two versions of a file is a version of it: ReadChunks picks one.
LEMMA VersionsAreBetween == \A v, w \in Versions : \A i \in v..w : i \in Versions
  BY SigAssumption DEF Versions

\* Every reachable state of ParquetMetadataCache and its queries is well typed: an entry
\* always pairs the stat of a version with the metadata of one.
THEOREM TypeInvariant == Spec => []TypeOK
<1>1. Init => TypeOK
  BY SigAssumption DEF Init, TypeOK, Versions, PCs
<1>2. TypeOK /\ [Next]_vars => TypeOK'
  <2> SUFFICES ASSUME TypeOK, [Next]_vars PROVE TypeOK'
    OBVIOUS
  <2> USE DEF TypeOK, PCs
  <2>1. ASSUME NEW p \in Paths, Rewrite(p) PROVE TypeOK'
    <3>1. version[p] + 1 \in Versions
      BY <2>1, SigAssumption DEF Rewrite, Versions
    <3> QED BY <2>1, <3>1 DEF Rewrite
  <2>2. ASSUME NEW q \in Queries, NEW p \in Paths, Start(q, p) PROVE TypeOK'
    BY <2>2 DEF Start, Goto
  <2>3. ASSUME NEW q \in Queries, Stat(q) PROVE TypeOK'
    BY <2>3 DEF Stat, Goto, Now
  <2>4. ASSUME NEW q \in Queries, Hit(q) PROVE TypeOK'
    <3>1. entries[path[q]].metadata \in Versions
      BY <2>4 DEF Hit, Cached, Entry
    <3> QED BY <2>4, <3>1 DEF Hit, Goto
  <2>5. ASSUME NEW q \in Queries, Miss(q) PROVE TypeOK'
    BY <2>5 DEF Miss, Goto
  <2>6. ASSUME NEW q \in Queries, Load(q) PROVE TypeOK'
    BY <2>6 DEF Load, Goto, Now
  <2>7. ASSUME NEW q \in Queries, LoadFails(q) PROVE TypeOK'
    BY <2>7 DEF LoadFails, Goto
  <2>8. ASSUME NEW q \in Queries, Insert(q) PROVE TypeOK'
    <3>1. [sig |-> Sig[stat[q]], metadata |-> meta[q]] \in Entry
      BY DEF Entry
    <3> QED BY <2>8, <3>1 DEF Insert, Goto
  <2>9. ASSUME NEW q \in Queries, OpenReader(q) PROVE TypeOK'
    BY <2>9 DEF OpenReader, Goto, Now
  <2>10. ASSUME NEW q \in Queries, ReadChunks(q) PROVE TypeOK'
    <3>1. PICK v \in opened[q]..Now(q) : data' = [data EXCEPT ![q] = v]
      BY <2>10 DEF ReadChunks
    <3>2. v \in Versions
      BY VersionsAreBetween DEF Now
    <3> QED BY <2>10, <3>1, <3>2 DEF ReadChunks, Goto
  <2>11. ASSUME NEW q \in Queries, Finish(q) PROVE TypeOK'
    <3>1. 0 \in Versions
      BY SigAssumption DEF Versions
    <3> QED BY <2>11, <3>1 DEF Finish, Goto
  <2>12. CASE UNCHANGED vars
    BY <2>12 DEF vars
  <2> QED
    BY <2>1, <2>2, <2>3, <2>4, <2>5, <2>6, <2>7, <2>8, <2>9, <2>10, <2>11, <2>12 DEF Next
<1> QED BY <1>1, <1>2, PTL DEF Spec

\* Entries stay no fresher in their size and time than in their metadata.
LEMMA EntryStep ==
  ASSUME TypeOK, TypeOK', EntryInv, QueryInv, [Next]_vars PROVE EntryInv'
<1>1. CASE UNCHANGED <<entries, version>>
  BY <1>1 DEF EntryInv
<1>2. ASSUME NEW p \in Paths, Rewrite(p) PROVE EntryInv'
  <2> SUFFICES ASSUME NEW r \in Paths, entries[r] # NoEntry
               PROVE  entries[r].metadata <= version'[r]
    BY <1>2 DEF EntryInv, Rewrite
  <2>1. version[r] <= version'[r] /\ version[r] \in Int /\ version'[r] \in Int
    BY <1>2, VersionsAreIntegers DEF Rewrite, TypeOK
  <2>2. entries[r].metadata <= version[r] /\ entries[r].metadata \in Int
    BY VersionsAreIntegers DEF EntryInv, TypeOK, Entry
  <2> QED BY <2>1, <2>2
<1>3. ASSUME NEW q \in Queries, Insert(q) PROVE EntryInv'
  <2> SUFFICES ASSUME NEW r \in Paths, entries'[r] # NoEntry
               PROVE  /\ entries'[r].metadata <= version[r]
                      /\ \A v \in Versions : entries'[r].sig = Sig[v] => v <= entries'[r].metadata
    BY <1>3 DEF EntryInv, Insert
  <2>1. CASE r # path[q]
    BY <1>3, <2>1 DEF Insert, EntryInv, TypeOK
  <2>2. CASE r = path[q]
    <3>1. entries'[r] = [sig |-> Sig[stat[q]], metadata |-> meta[q]]
      BY <1>3, <2>2 DEF Insert, TypeOK
    <3>2. stat[q] <= meta[q] /\ meta[q] <= version[r]
      BY <1>3, <2>2 DEF QueryInv, QueryOk, Insert, Now
    <3>3. \A v \in Versions : Sig[stat[q]] = Sig[v] => v = stat[q]
      BY SigAssumption DEF TypeOK
    <3> QED BY <3>1, <3>2, <3>3
  <2> QED BY <2>1, <2>2
<1>4. Next => \/ UNCHANGED <<entries, version>>
              \/ \E p \in Paths : Rewrite(p)
              \/ \E q \in Queries : Insert(q)
  BY DEF Next, Start, Stat, Hit, Miss, Load, LoadFails, OpenReader, ReadChunks, Finish
<1> QED BY <1>1, <1>2, <1>3, <1>4 DEF vars

\* A query that does not move, while files may be rewritten, still knows what it knew.
LEMMA OtherQuery ==
  ASSUME TypeOK, TypeOK', QueryInv, NEW r \in Queries,
         \A p \in Paths : version[p] <= version'[p],
         pc'[r] = pc[r], path'[r] = path[r], began'[r] = began[r], stat'[r] = stat[r],
         meta'[r] = meta[r], opened'[r] = opened[r], data'[r] = data[r]
  PROVE  QueryOk(r)'
<1>1. Now(r) <= Now(r)' /\ path[r] \in Paths
  BY DEF Now, TypeOK
<1>2. /\ Now(r) \in Int /\ Now(r)' \in Int /\ began[r] \in Int /\ stat[r] \in Int
      /\ meta[r] \in Int /\ opened[r] \in Int /\ data[r] \in Int
  BY VersionsAreIntegers DEF Now, TypeOK
<1> QED BY <1>1, <1>2 DEF QueryInv, QueryOk

\* Every step keeps what the queries know in order.
LEMMA QueryStep ==
  ASSUME TypeOK, TypeOK', EntryInv, QueryInv, [Next]_vars PROVE QueryInv'
<1>a. ASSUME NEW p \in Paths PROVE version[p] \in Int /\ version'[p] \in Int
  BY VersionsAreIntegers DEF TypeOK
<1>b. ASSUME NEW r \in Queries
      PROVE  /\ began[r] \in Int /\ stat[r] \in Int /\ meta[r] \in Int
             /\ opened[r] \in Int /\ data[r] \in Int /\ Now(r) \in Int
  BY VersionsAreIntegers DEF TypeOK, Now
<1>1. ASSUME NEW p \in Paths, Rewrite(p) PROVE QueryInv'
  <2>1. \A s \in Paths : version[s] <= version'[s]
    BY <1>1, <1>a DEF Rewrite, TypeOK
  <2> QED BY <1>1, <2>1, OtherQuery DEF Rewrite, QueryInv
<1>2. ASSUME NEW q \in Queries, NEW p \in Paths, Start(q, p) PROVE QueryInv'
  <2>1. \A s \in Paths : version[s] <= version'[s]
    BY <1>2, <1>a DEF Start
  <2>2. ASSUME NEW r \in Queries, r # q PROVE QueryOk(r)'
    BY <1>2, <2>1, <2>2, OtherQuery DEF Start, Goto, TypeOK
  <2>3. QueryOk(q)'
    BY <1>2, <1>a, <1>b DEF Start, Goto, Now, QueryInv, QueryOk, TypeOK
  <2> QED BY <2>2, <2>3 DEF QueryInv
<1>3. ASSUME NEW q \in Queries, Stat(q) PROVE QueryInv'
  <2>1. \A s \in Paths : version[s] <= version'[s]
    BY <1>3, <1>a DEF Stat
  <2>2. ASSUME NEW r \in Queries, r # q PROVE QueryOk(r)'
    BY <1>3, <2>1, <2>2, OtherQuery DEF Stat, Goto, TypeOK
  <2>3. QueryOk(q)'
    BY <1>3, <1>a, <1>b DEF Stat, Goto, Now, QueryInv, QueryOk, TypeOK
  <2> QED BY <2>2, <2>3 DEF QueryInv
<1>4. ASSUME NEW q \in Queries, Hit(q) PROVE QueryInv'
  <2>1. \A s \in Paths : version[s] <= version'[s]
    BY <1>4, <1>a DEF Hit
  <2>2. ASSUME NEW r \in Queries, r # q PROVE QueryOk(r)'
    BY <1>4, <2>1, <2>2, OtherQuery DEF Hit, Goto, TypeOK
  <2>4. began[q] <= entries[path[q]].metadata /\ entries[path[q]].metadata <= Now(q)
    <3>1. stat[q] \in Versions /\ path[q] \in Paths
      BY DEF TypeOK
    <3>2. stat[q] <= entries[path[q]].metadata /\ entries[path[q]].metadata <= version[path[q]]
      BY <1>4, <3>1 DEF Hit, Cached, EntryInv
    <3>3. entries[path[q]].metadata \in Int
      BY <1>4, <3>1, VersionsAreIntegers DEF Hit, Cached, TypeOK, Entry
    <3>4. began[q] <= stat[q]
      BY <1>4 DEF Hit, QueryInv, QueryOk
    <3> QED BY <3>2, <3>3, <3>4, <1>b DEF Now
  <2>3. QueryOk(q)'
    BY <1>4, <1>a, <1>b, <2>4 DEF Hit, Goto, Now, QueryInv, QueryOk, TypeOK
  <2> QED BY <2>2, <2>3 DEF QueryInv
<1>5. ASSUME NEW q \in Queries, Miss(q) PROVE QueryInv'
  <2>1. \A s \in Paths : version[s] <= version'[s]
    BY <1>5, <1>a DEF Miss
  <2>2. ASSUME NEW r \in Queries, r # q PROVE QueryOk(r)'
    BY <1>5, <2>1, <2>2, OtherQuery DEF Miss, Goto, TypeOK
  <2>3. QueryOk(q)'
    BY <1>5, <1>a, <1>b DEF Miss, Goto, Now, QueryInv, QueryOk, TypeOK
  <2> QED BY <2>2, <2>3 DEF QueryInv
<1>6. ASSUME NEW q \in Queries, Load(q) PROVE QueryInv'
  <2>1. \A s \in Paths : version[s] <= version'[s]
    BY <1>6, <1>a DEF Load
  <2>2. ASSUME NEW r \in Queries, r # q PROVE QueryOk(r)'
    BY <1>6, <2>1, <2>2, OtherQuery DEF Load, Goto, TypeOK
  <2>3. QueryOk(q)'
    BY <1>6, <1>a, <1>b DEF Load, Goto, Now, QueryInv, QueryOk, TypeOK
  <2> QED BY <2>2, <2>3 DEF QueryInv
<1>7. ASSUME NEW q \in Queries, LoadFails(q) PROVE QueryInv'
  <2>1. \A s \in Paths : version[s] <= version'[s]
    BY <1>7, <1>a DEF LoadFails
  <2>2. ASSUME NEW r \in Queries, r # q PROVE QueryOk(r)'
    BY <1>7, <2>1, <2>2, OtherQuery DEF LoadFails, Goto, TypeOK
  <2>3. QueryOk(q)'
    BY <1>7, <1>a, <1>b DEF LoadFails, Goto, Now, QueryInv, QueryOk, TypeOK
  <2> QED BY <2>2, <2>3 DEF QueryInv
<1>8. ASSUME NEW q \in Queries, Insert(q) PROVE QueryInv'
  <2>1. \A s \in Paths : version[s] <= version'[s]
    BY <1>8, <1>a DEF Insert
  <2>2. ASSUME NEW r \in Queries, r # q PROVE QueryOk(r)'
    BY <1>8, <2>1, <2>2, OtherQuery DEF Insert, Goto, TypeOK
  <2>3. QueryOk(q)'
    BY <1>8, <1>a, <1>b DEF Insert, Goto, Now, QueryInv, QueryOk, TypeOK
  <2> QED BY <2>2, <2>3 DEF QueryInv
<1>9. ASSUME NEW q \in Queries, OpenReader(q) PROVE QueryInv'
  <2>1. \A s \in Paths : version[s] <= version'[s]
    BY <1>9, <1>a DEF OpenReader
  <2>2. ASSUME NEW r \in Queries, r # q PROVE QueryOk(r)'
    BY <1>9, <2>1, <2>2, OtherQuery DEF OpenReader, Goto, TypeOK
  <2>3. QueryOk(q)'
    BY <1>9, <1>a, <1>b DEF OpenReader, Goto, Now, QueryInv, QueryOk, TypeOK
  <2> QED BY <2>2, <2>3 DEF QueryInv
<1>10. ASSUME NEW q \in Queries, ReadChunks(q) PROVE QueryInv'
  <2>1. \A s \in Paths : version[s] <= version'[s]
    BY <1>10, <1>a DEF ReadChunks
  <2>2. ASSUME NEW r \in Queries, r # q PROVE QueryOk(r)'
    BY <1>10, <2>1, <2>2, OtherQuery DEF ReadChunks, Goto, TypeOK
  <2>5. data'[q] \in Int /\ opened[q] <= data'[q] /\ data'[q] <= Now(q)
    BY <1>10, <1>b DEF ReadChunks, TypeOK
  <2>3. QueryOk(q)'
    BY <1>10, <1>a, <1>b, <2>5 DEF ReadChunks, Goto, Now, QueryInv, QueryOk, TypeOK
  <2> QED BY <2>2, <2>3 DEF QueryInv
<1>11. ASSUME NEW q \in Queries, Finish(q) PROVE QueryInv'
  <2>1. \A s \in Paths : version[s] <= version'[s]
    BY <1>11, <1>a DEF Finish
  <2>2. ASSUME NEW r \in Queries, r # q PROVE QueryOk(r)'
    BY <1>11, <2>1, <2>2, OtherQuery DEF Finish, Goto, TypeOK
  <2>3. QueryOk(q)'
    BY <1>11, <1>a, <1>b DEF Finish, Goto, Now, QueryInv, QueryOk, TypeOK
  <2> QED BY <2>2, <2>3 DEF QueryInv
<1>12. CASE UNCHANGED vars
  <2>1. \A s \in Paths : version[s] <= version'[s]
    BY <1>12, <1>a DEF vars
  <2> QED BY <1>12, <2>1, OtherQuery DEF vars, QueryInv
<1> QED
  BY <1>1, <1>2, <1>3, <1>4, <1>5, <1>6, <1>7, <1>8, <1>9, <1>10, <1>11, <1>12 DEF Next

\* The inductive invariant holds in every reachable state.
THEOREM Invariance == Spec => []IInv
<1>1. Init => EntryInv /\ QueryInv
  BY DEF Init, EntryInv, QueryInv, QueryOk
<1>2. TypeOK /\ TypeOK' /\ EntryInv /\ QueryInv /\ [Next]_vars => EntryInv' /\ QueryInv'
  BY EntryStep, QueryStep
<1> QED BY <1>1, <1>2, TypeInvariant, PTL DEF Spec, IInv

\* The metadata a query gets from get_with_store describes the file as it was at some
\* moment of the query, for every number of queries, files and rewrites.
THEOREM FreshMetadata == Spec => []MetadataFresh
<1>1. IInv => MetadataFresh
  BY DEF IInv, QueryInv, QueryOk, MetadataFresh
<1> QED BY <1>1, Invariance, PTL

\* A query whose file is not rewritten meanwhile reads rows and metadata of one version.
THEOREM QuietQueries == Spec => []QuietQueryConsistent
<1>1. IInv => QuietQueryConsistent
  <2> SUFFICES ASSUME IInv, NEW q \in Queries, pc[q] = "done", began[q] = Now(q)
               PROVE  meta[q] = data[q]
    BY DEF QuietQueryConsistent
  <2>1. /\ meta[q] \in Int /\ data[q] \in Int /\ opened[q] \in Int /\ Now(q) \in Int
    BY VersionsAreIntegers DEF IInv, TypeOK, Now
  <2>2. /\ began[q] <= meta[q] /\ meta[q] <= Now(q)
        /\ began[q] <= opened[q] /\ opened[q] <= data[q] /\ data[q] <= Now(q)
    BY DEF IInv, QueryInv, QueryOk
  <2> QED BY <2>1, <2>2
<1> QED BY <1>1, Invariance, PTL
=============================================================================
