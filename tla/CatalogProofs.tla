--------------------------- MODULE CatalogProofs ---------------------------
(***************************************************************************)
(* Proofs about Catalog, for any number of processes, tables, files,       *)
(* commands, changes and crashes.  A process that has listed a directory   *)
(* holds files that were there at some time and misses none that was there *)
(* all the time (ScanOk); every copy of the catalog, in the file or in a   *)
(* process, holds entries that can be scanned (Scannable); and as long as  *)
(* commands run one after another, the only command that runs works on     *)
(* what was acknowledged last (SerialInv).                                 *)
(***************************************************************************)
EXTENDS Catalog, TLAPS

PCs == {"idle", "load", "resolve", "discover", "write", "done", "failed", "served", "live"}
FileSets == [Procs -> SUBSET Files]

TypeInv ==
    /\ disk \subseteq Files
    /\ file \in [state : {"missing", "torn", "whole"}, tables : Tables]
    /\ pc \in [Procs -> PCs]
    /\ op \in [Procs -> Command \cup {NoCommand}] /\ loaded \in [Procs -> Tables]
    /\ unlisted \in FileSets /\ listed \in FileSets /\ opened \in FileSets /\ served \in FileSets
    /\ ever \in FileSets /\ always \in FileSets
    /\ acked \in Tables /\ serial \in BOOLEAN

\* A command that is under way, and the directory it works on.
CommandOk(p) ==
    /\ pc[p] # "idle" => op[p] \in Command /\ always[p] \subseteq disk /\ disk \subseteq ever[p]
    /\ pc[p] \in {"idle", "load", "resolve"} => listed[p] = {} /\ opened[p] = {}
    /\ pc[p] \in {"discover", "write", "done"} =>
           /\ op[p].kind # "query"
           /\ op[p].kind = "refresh" => op[p].name \in DOMAIN loaded[p]
    /\ opened[p] \subseteq listed[p]

Here(p) == {f \in Files : Home[f] = LocationOf(p)}

\* What discovery and inspection have found so far.
ScanOk(p) ==
    /\ pc[p] \in {"discover", "write", "done"} =>
           /\ listed[p] \cup unlisted[p] \subseteq Here(p)
           /\ always[p] \cap Here(p) \subseteq listed[p] \cup unlisted[p]
           /\ listed[p] \subseteq ever[p]
           /\ \A f, g \in opened[p] : SchemaOf[f] = SchemaOf[g]
    /\ pc[p] \in {"write", "done"} =>
           unlisted[p] = {} /\ opened[p] = listed[p] /\ listed[p] # {}

Scannable(tables) ==
    \A n \in DOMAIN tables :
        /\ tables[n].fragments # {}
        /\ \A f, g \in tables[n].fragments :
               Home[f] = tables[n].location /\ SchemaOf[f] = SchemaOf[g]

CopiesInv == Scannable(file.tables) /\ \A p \in Procs : Scannable(loaded[p])

SerialInv ==
    serial =>
        /\ \A p, q \in Procs : pc[p] # "idle" /\ pc[q] # "idle" => p = q
        /\ \A p \in Procs : pc[p] \in {"discover", "write"} => loaded[p] = acked
        /\ \A p \in Procs : pc[p] = "write" => file.state = "torn"
        /\ (\A p \in Procs : pc[p] # "write") => file.state # "torn" /\ file.tables = acked
        /\ \A p \in Procs : pc[p] = "served" =>
               /\ op[p].name \in DOMAIN acked
               /\ served[p] = acked[op[p].name].fragments

ProcInv == \A p \in Procs : CommandOk(p) /\ ScanOk(p)

IInv == TypeInv /\ ProcInv /\ CopiesInv /\ SerialInv

-----------------------------------------------------------------------------
(* Table maps.                                                             *)

LEMMA TablesMembers ==
    ASSUME NEW t
    PROVE  t \in Tables <=> \E N \in SUBSET Names : t \in [N -> Entry]
  BY DEF Tables

LEMMA TablesEntry ==
    ASSUME NEW t \in Tables, NEW n \in DOMAIN t
    PROVE  n \in Names /\ t[n] \in Entry
  BY TablesMembers

LEMMA NoTables == <<>> \in Tables /\ DOMAIN <<>> = {}
<1>1. <<>> \in [{} -> Entry] /\ DOMAIN <<>> = {}
  OBVIOUS
<1> QED
  BY <1>1, TablesMembers

LEMMA WithEntry ==
    ASSUME NEW t \in Tables, NEW n \in Names, NEW e \in Entry
    PROVE  /\ With(t, n, e) \in Tables
           /\ DOMAIN With(t, n, e) = DOMAIN t \cup {n}
           /\ With(t, n, e)[n] = e
           /\ \A m \in DOMAIN t : m # n => With(t, n, e)[m] = t[m]
<1>1. PICK N \in SUBSET Names : t \in [N -> Entry]
  BY TablesMembers
<1>2. With(t, n, e) \in [N \cup {n} -> Entry]
  BY <1>1 DEF With
<1>3. N \cup {n} \in SUBSET Names
  OBVIOUS
<1> QED
  BY <1>1, <1>2, <1>3, TablesMembers DEF With

-----------------------------------------------------------------------------
(* Facts about one process.                                                *)

\* The entry a command is about to save.
SavedEntry(p) == [location |-> LocationOf(p), fragments |-> opened[p]]

LEMMA SavedFacts ==
    ASSUME TypeInv, ProcInv, NEW p \in Procs, pc[p] \in {"discover", "write", "done"}
    PROVE  /\ op[p].name \in Names
           /\ LocationOf(p) \in Locations
           /\ SavedEntry(p) \in Entry
           /\ Saved(p) = With(loaded[p], op[p].name, SavedEntry(p))
           /\ Saved(p) \in Tables
           /\ Saved(p)[op[p].name] = SavedEntry(p)
           /\ \A n \in DOMAIN Saved(p) : n # op[p].name =>
                  n \in DOMAIN loaded[p] /\ Saved(p)[n] = loaded[p][n]
<1>1. op[p] \in Command /\ op[p].kind # "query" /\ loaded[p] \in Tables
      /\ (op[p].kind = "refresh" => op[p].name \in DOMAIN loaded[p])
  BY DEF TypeInv, ProcInv, CommandOk
<1>2. op[p].name \in Names /\ op[p].kind \in {"register", "refresh"}
  BY <1>1 DEF Command
<1>3. LocationOf(p) \in Locations
  <2>1. CASE op[p].kind = "register"
    BY <1>1, <2>1 DEF Command, LocationOf
  <2>2. CASE op[p].kind = "refresh"
    BY <1>1, <2>2, TablesEntry DEF LocationOf, Entry
  <2> QED
    BY <1>2, <2>1, <2>2
<1>4. SavedEntry(p) \in Entry
  BY <1>3 DEF SavedEntry, Entry, TypeInv, FileSets
<1>5. Saved(p) = With(loaded[p], op[p].name, SavedEntry(p))
  BY DEF Saved, SavedEntry
<1>6. /\ Saved(p) \in Tables /\ DOMAIN Saved(p) = DOMAIN loaded[p] \cup {op[p].name}
      /\ Saved(p)[op[p].name] = SavedEntry(p)
      /\ \A n \in DOMAIN loaded[p] : n # op[p].name => Saved(p)[n] = loaded[p][n]
  <2>1. \A e \in Entry :
            /\ With(loaded[p], op[p].name, e) \in Tables
            /\ DOMAIN With(loaded[p], op[p].name, e) = DOMAIN loaded[p] \cup {op[p].name}
            /\ With(loaded[p], op[p].name, e)[op[p].name] = e
            /\ \A n \in DOMAIN loaded[p] : n # op[p].name =>
                   With(loaded[p], op[p].name, e)[n] = loaded[p][n]
    BY <1>1, <1>2, WithEntry
  <2> QED
    BY <1>4, <1>5, <2>1
<1> QED
  BY <1>2, <1>3, <1>4, <1>5, <1>6

\* What a process knows depends on its own variables and on the directory.
LEMMA ProcKept ==
    ASSUME NEW q \in Procs, CommandOk(q), ScanOk(q), disk' = disk,
           pc'[q] = pc[q], op'[q] = op[q], loaded'[q] = loaded[q], unlisted'[q] = unlisted[q],
           listed'[q] = listed[q], opened'[q] = opened[q], ever'[q] = ever[q],
           always'[q] = always[q]
    PROVE  CommandOk(q)' /\ ScanOk(q)'
<1>1. LocationOf(q)' = LocationOf(q)
  BY DEF LocationOf
<1>2. Here(q)' = Here(q)
  BY <1>1 DEF Here
<1>3. CommandOk(q)'
  BY DEF CommandOk
<1>4. ScanOk(q)'
  BY <1>2 DEF ScanOk
<1> QED
  BY <1>3, <1>4

\* A step to a place at which nothing is known of a listing.
LEMMA ProcPasses ==
    ASSUME NEW q \in Procs, CommandOk(q), disk' = disk, pc[q] # "idle",
           pc'[q] \in {"failed", "served", "live"},
           op'[q] = op[q], listed'[q] = listed[q], opened'[q] = opened[q],
           ever'[q] = ever[q], always'[q] = always[q]
    PROVE  CommandOk(q)' /\ ScanOk(q)'
  BY DEF CommandOk, ScanOk

-----------------------------------------------------------------------------
(* The invariant.                                                          *)

LEMMA InitInv == Init => IInv
<1> SUFFICES ASSUME Init PROVE IInv
  OBVIOUS
<1> USE DEF Init
<1>1. TypeInv
  BY NoTables DEF TypeInv, FileSets, PCs, None
<1>2. ProcInv
  BY DEF ProcInv, CommandOk, ScanOk
<1>3. CopiesInv
  BY NoTables DEF CopiesInv, Scannable, None
<1>4. SerialInv
  BY DEF SerialInv, None
<1> QED
  BY <1>1, <1>2, <1>3, <1>4 DEF IInv

LEMMA StartInv == ASSUME IInv, NEW p \in Procs, Start(p) PROVE IInv'
<1> USE DEF IInv
<1>1. PICK c \in Command : op' = [op EXCEPT ![p] = c]
  BY DEF Start
<1>2. TypeInv'
  BY <1>1 DEF Start, Goto, TypeInv, FileSets, PCs
<1>3. ProcInv'
  <2> SUFFICES ASSUME NEW q \in Procs PROVE CommandOk(q)' /\ ScanOk(q)'
    BY DEF ProcInv
  <2>1. CASE q = p
    BY <1>1, <2>1 DEF Start, Goto, TypeInv, FileSets, PCs, ProcInv, CommandOk, ScanOk
  <2>2. CASE q # p
    BY <1>1, <2>2, ProcKept DEF Start, Goto, TypeInv, FileSets, ProcInv
  <2> QED BY <2>1, <2>2
<1>4. CopiesInv'
  BY DEF Start, CopiesInv
<1>5. SerialInv'
  <2> SUFFICES ASSUME serial' PROVE SerialInv'
    BY DEF SerialInv
  <2>1. serial /\ \A q \in Procs : pc[q] = "idle"
    BY DEF Start
  <2>2. file.state # "torn" /\ file.tables = acked
    BY <2>1 DEF SerialInv
  <2>3. \A q \in Procs : pc'[q] = IF q = p THEN "load" ELSE "idle"
    BY <2>1 DEF Start, Goto, TypeInv
  <2>4. file' = file /\ acked' = acked
    BY DEF Start
  <2> QED BY <2>2, <2>3, <2>4 DEF SerialInv
<1> QED
  BY <1>2, <1>3, <1>4, <1>5

LEMMA LoadInv == ASSUME IInv, NEW p \in Procs, Load(p) PROVE IInv'
<1> USE DEF IInv
<1> DEFINE at == IF op[p].kind = "register" THEN op[p].location
                 ELSE file.tables[op[p].name].location
<1>0. /\ pc[p] = "load" /\ pc' = [pc EXCEPT ![p] = "discover"]
      /\ loaded' = [loaded EXCEPT ![p] = file.tables]
      /\ unlisted' = [unlisted EXCEPT ![p] = {f \in Files : Home[f] = at}]
      /\ UNCHANGED <<disk, file, op, listed, opened, served, acked, ever, always, serial>>
      /\ op[p].kind # "query" /\ (op[p].kind = "register" \/ op[p].name \in DOMAIN file.tables)
  BY DEF Load, Goto, history, counts
<1>1. file.tables \in Tables
  BY DEF TypeInv
<1>2. TypeInv'
  BY <1>0, <1>1 DEF TypeInv, FileSets, PCs
<1>3. ProcInv'
  <2> SUFFICES ASSUME NEW q \in Procs PROVE CommandOk(q)' /\ ScanOk(q)'
    BY DEF ProcInv
  <2>1. CASE q = p
    <3>1. op[p] \in Command /\ always[p] \subseteq disk /\ disk \subseteq ever[p]
          /\ listed[p] = {} /\ opened[p] = {}
      BY <1>0 DEF ProcInv, CommandOk
    <3>2. loaded'[p] = file.tables /\ pc'[p] = "discover" /\ op'[p] = op[p]
          /\ unlisted'[p] = {f \in Files : Home[f] = at}
          /\ listed'[p] = {} /\ opened'[p] = {} /\ always'[p] = always[p] /\ ever'[p] = ever[p]
      BY <1>0, <3>1 DEF TypeInv, FileSets
    <3>3. LocationOf(p)' = at
      BY <3>2 DEF LocationOf
    <3>4. Here(p)' = unlisted'[p]
      BY <3>2, <3>3 DEF Here
    <3>5. CommandOk(p)'
      BY <1>0, <3>1, <3>2 DEF CommandOk
    <3>6. ScanOk(p)'
      BY <3>2, <3>4 DEF ScanOk
    <3> QED BY <2>1, <3>5, <3>6
  <2>2. CASE q # p
    BY <1>0, <2>2, ProcKept DEF TypeInv, FileSets, ProcInv
  <2> QED BY <2>1, <2>2
<1>4. CopiesInv'
  BY <1>0 DEF CopiesInv, TypeInv
<1>5. SerialInv'
  <2> SUFFICES ASSUME serial PROVE SerialInv'
    BY <1>0 DEF SerialInv
  <2>1. \A q \in Procs : pc[q] = IF q = p THEN "load" ELSE "idle"
    BY <1>0 DEF SerialInv
  <2>2. file.state # "torn" /\ file.tables = acked
    BY <2>1 DEF SerialInv
  <2>3. \A q \in Procs : pc'[q] = IF q = p THEN "discover" ELSE "idle"
    BY <1>0, <2>1 DEF TypeInv
  <2>4. loaded'[p] = acked
    BY <1>0, <2>2 DEF TypeInv
  <2> QED BY <1>0, <2>2, <2>3, <2>4 DEF SerialInv
<1> QED
  BY <1>2, <1>3, <1>4, <1>5

\* The end of a command without an answer.
LEMMA FailsInv ==
    ASSUME IInv, NEW p \in Procs, pc[p] \in {"load", "resolve", "discover"}, Fails(p)
    PROVE  IInv'
<1> USE DEF IInv
<1>0. /\ pc' = [pc EXCEPT ![p] = "failed"]
      /\ UNCHANGED <<disk, file, op, loaded, unlisted, listed, opened, served, acked, ever, always, serial>>
  BY DEF Fails, Goto, local, history, counts
<1>1. TypeInv'
  BY <1>0 DEF TypeInv, PCs
<1>2. ProcInv'
  <2> SUFFICES ASSUME NEW q \in Procs PROVE CommandOk(q)' /\ ScanOk(q)'
    BY DEF ProcInv
  <2>1. CASE q = p
    BY <1>0, <2>1, ProcPasses DEF TypeInv, ProcInv
  <2>2. CASE q # p
    BY <1>0, <2>2, ProcKept DEF TypeInv, ProcInv
  <2> QED BY <2>1, <2>2
<1>3. CopiesInv'
  BY <1>0 DEF CopiesInv
<1>4. SerialInv'
  <2>1. \A q \in Procs : pc'[q] = IF q = p THEN "failed" ELSE pc[q]
    BY <1>0 DEF TypeInv
  <2> QED BY <1>0, <2>1 DEF SerialInv
<1> QED
  BY <1>1, <1>2, <1>3, <1>4

LEMMA DiscoverInv == ASSUME IInv, NEW p \in Procs, Discover(p) PROVE IInv'
<1> USE DEF IInv
<1>0. PICK f \in unlisted[p] :
          /\ pc[p] = "discover"
          /\ unlisted' = [unlisted EXCEPT ![p] = @ \ {f}]
          /\ listed' = [listed EXCEPT ![p] = IF f \in disk THEN @ \cup {f} ELSE @]
          /\ UNCHANGED <<disk, file, pc, op, loaded, opened, served, acked, ever, always, serial>>
  BY DEF Discover, history, counts
<1>1. TypeInv'
  BY <1>0 DEF TypeInv, FileSets
<1>2. ProcInv'
  <2> SUFFICES ASSUME NEW q \in Procs PROVE CommandOk(q)' /\ ScanOk(q)'
    BY DEF ProcInv
  <2>1. CASE q = p
    <3>1. CommandOk(p) /\ ScanOk(p)
      BY DEF ProcInv
    <3>2. /\ unlisted'[p] = unlisted[p] \ {f}
          /\ listed'[p] = IF f \in disk THEN listed[p] \cup {f} ELSE listed[p]
      BY <1>0 DEF TypeInv, FileSets
    <3>3. Here(p)' = Here(p)
      BY <1>0 DEF Here, LocationOf
    <3>4. CommandOk(p)'
      BY <1>0, <3>1, <3>2 DEF CommandOk
    <3>5. ScanOk(p)'
      BY <1>0, <3>1, <3>2, <3>3 DEF CommandOk, ScanOk
    <3> QED BY <2>1, <3>4, <3>5
  <2>2. CASE q # p
    BY <1>0, <2>2, ProcKept DEF TypeInv, FileSets, ProcInv
  <2> QED BY <2>1, <2>2
<1>3. CopiesInv'
  BY <1>0 DEF CopiesInv
<1>4. SerialInv'
  BY <1>0 DEF SerialInv
<1> QED
  BY <1>1, <1>2, <1>3, <1>4

LEMMA InspectInv == ASSUME IInv, NEW p \in Procs, Inspect(p) PROVE IInv'
<1> USE DEF IInv
<1>0. PICK f \in listed[p] \ opened[p] :
          /\ pc[p] = "discover"
          /\ \A g \in opened[p] : SchemaOf[g] = SchemaOf[f]
          /\ opened' = [opened EXCEPT ![p] = @ \cup {f}]
          /\ UNCHANGED <<disk, file, pc, op, loaded, unlisted, listed, served, acked, ever, always, serial>>
  BY DEF Inspect, history, counts
<1>1. TypeInv'
  BY <1>0 DEF TypeInv, FileSets
<1>2. ProcInv'
  <2> SUFFICES ASSUME NEW q \in Procs PROVE CommandOk(q)' /\ ScanOk(q)'
    BY DEF ProcInv
  <2>1. CASE q = p
    <3>1. CommandOk(p) /\ ScanOk(p)
      BY DEF ProcInv
    <3>2. opened'[p] = opened[p] \cup {f}
      BY <1>0 DEF TypeInv, FileSets
    <3>3. Here(p)' = Here(p)
      BY <1>0 DEF Here, LocationOf
    <3>4. CommandOk(p)'
      BY <1>0, <3>1, <3>2 DEF CommandOk
    <3>5. ScanOk(p)'
      BY <1>0, <3>1, <3>2, <3>3 DEF ScanOk
    <3> QED BY <2>1, <3>4, <3>5
  <2>2. CASE q # p
    BY <1>0, <2>2, ProcKept DEF TypeInv, FileSets, ProcInv
  <2> QED BY <2>1, <2>2
<1>3. CopiesInv'
  BY <1>0 DEF CopiesInv
<1>4. SerialInv'
  BY <1>0 DEF SerialInv
<1> QED
  BY <1>1, <1>2, <1>3, <1>4

LEMMA TruncateInv == ASSUME IInv, NEW p \in Procs, Truncate(p) PROVE IInv'
<1> USE DEF IInv
<1>0. /\ pc[p] = "discover" /\ unlisted[p] = {} /\ listed[p] # {} /\ opened[p] = listed[p]
      /\ file' = Torn /\ pc' = [pc EXCEPT ![p] = "write"]
      /\ UNCHANGED <<disk, op, loaded, unlisted, listed, opened, served, acked, ever, always, serial>>
  BY DEF Truncate, Goto, local, history, counts
<1>1. TypeInv'
  BY <1>0, NoTables DEF TypeInv, PCs, Torn
<1>2. ProcInv'
  <2> SUFFICES ASSUME NEW q \in Procs PROVE CommandOk(q)' /\ ScanOk(q)'
    BY DEF ProcInv
  <2>1. CASE q = p
    <3>1. CommandOk(p) /\ ScanOk(p) /\ pc'[p] = "write"
      BY <1>0 DEF ProcInv, TypeInv
    <3>2. Here(p)' = Here(p)
      BY <1>0 DEF Here, LocationOf
    <3>3. CommandOk(p)'
      BY <1>0, <3>1 DEF CommandOk
    <3>4. ScanOk(p)'
      BY <1>0, <3>1, <3>2 DEF ScanOk
    <3> QED BY <2>1, <3>3, <3>4
  <2>2. CASE q # p
    BY <1>0, <2>2, ProcKept DEF TypeInv, ProcInv
  <2> QED BY <2>1, <2>2
<1>3. CopiesInv'
  BY <1>0, NoTables DEF CopiesInv, Scannable, Torn
<1>4. SerialInv'
  <2> SUFFICES ASSUME serial PROVE SerialInv'
    BY <1>0 DEF SerialInv
  <2>1. \A q \in Procs : pc'[q] = IF q = p THEN "write" ELSE "idle"
    BY <1>0 DEF SerialInv, TypeInv
  <2>2. file'.state = "torn" /\ loaded'[p] = acked'
    BY <1>0 DEF SerialInv, Torn
  <2> QED BY <2>1, <2>2 DEF SerialInv
<1> QED
  BY <1>1, <1>2, <1>3, <1>4

\* What is saved can be scanned: the new entry because of what was listed and inspected,
\* the others because they were loaded.
LEMMA SavedScannable ==
    ASSUME IInv, NEW p \in Procs, pc[p] = "write"
    PROVE  Scannable(Saved(p))
<1> USE DEF IInv
<1>1. /\ Saved(p)[op[p].name] = SavedEntry(p)
      /\ \A n \in DOMAIN Saved(p) : n # op[p].name =>
             n \in DOMAIN loaded[p] /\ Saved(p)[n] = loaded[p][n]
  BY SavedFacts
<1>2. Scannable(loaded[p]) /\ ScanOk(p)
  BY DEF CopiesInv, ProcInv
<1>3. SUFFICES ASSUME NEW n \in DOMAIN Saved(p)
               PROVE  /\ Saved(p)[n].fragments # {}
                      /\ \A f, g \in Saved(p)[n].fragments :
                             Home[f] = Saved(p)[n].location /\ SchemaOf[f] = SchemaOf[g]
  BY DEF Scannable
<1>4. CASE n = op[p].name
  <2>1. Saved(p)[n] = SavedEntry(p)
    BY <1>1, <1>4
  <2>2. opened[p] # {} /\ opened[p] \subseteq Here(p)
        /\ \A f, g \in opened[p] : SchemaOf[f] = SchemaOf[g]
    BY <1>2 DEF ScanOk
  <2> QED
    BY <2>1, <2>2 DEF SavedEntry, Here
<1>5. CASE n # op[p].name
  <2>1. n \in DOMAIN loaded[p] /\ Saved(p)[n] = loaded[p][n]
    BY <1>1, <1>5
  <2> QED
    BY <1>2, <2>1 DEF Scannable
<1> QED
  BY <1>4, <1>5

LEMMA WriteInv == ASSUME IInv, NEW p \in Procs, Write(p) PROVE IInv'
<1> USE DEF IInv
<1>0. /\ pc[p] = "write" /\ pc' = [pc EXCEPT ![p] = "done"]
      /\ \/ file' = Whole(Saved(p))
         \/ file.state = "whole" /\ file' = Torn
      /\ acked' = With(acked, op[p].name, Saved(p)[op[p].name])
      /\ UNCHANGED <<disk, op, loaded, unlisted, listed, opened, served, ever, always, serial>>
  BY DEF Write, Goto, local, history, counts
<1>1. /\ Saved(p) \in Tables /\ op[p].name \in Names /\ SavedEntry(p) \in Entry
      /\ Saved(p)[op[p].name] = SavedEntry(p)
      /\ Saved(p) = With(loaded[p], op[p].name, SavedEntry(p))
  BY <1>0, SavedFacts
<1>2. TypeInv'
  <2>1. With(acked, op[p].name, SavedEntry(p)) \in Tables
    BY <1>1, WithEntry DEF TypeInv
  <2>2. file' \in [state : {"missing", "torn", "whole"}, tables : Tables]
    BY <1>0, <1>1, NoTables DEF Whole, Torn
  <2> QED
    BY <1>0, <1>1, <2>1, <2>2 DEF TypeInv, PCs
<1>3. ProcInv'
  <2> SUFFICES ASSUME NEW q \in Procs PROVE CommandOk(q)' /\ ScanOk(q)'
    BY DEF ProcInv
  <2>1. CASE q = p
    <3>1. CommandOk(p) /\ ScanOk(p) /\ pc'[p] = "done"
      BY <1>0 DEF ProcInv, TypeInv
    <3>2. Here(p)' = Here(p)
      BY <1>0 DEF Here, LocationOf
    <3>3. CommandOk(p)'
      BY <1>0, <3>1 DEF CommandOk
    <3>4. ScanOk(p)'
      BY <1>0, <3>1, <3>2 DEF ScanOk
    <3> QED BY <2>1, <3>3, <3>4
  <2>2. CASE q # p
    BY <1>0, <2>2, ProcKept DEF TypeInv, ProcInv
  <2> QED BY <2>1, <2>2
<1>4. CopiesInv'
  <2>1. Scannable(file'.tables)
    BY <1>0, SavedScannable, NoTables DEF Whole, Torn, Scannable
  <2> QED
    BY <1>0, <2>1 DEF CopiesInv
<1>5. SerialInv'
  <2> SUFFICES ASSUME serial PROVE SerialInv'
    BY <1>0 DEF SerialInv
  <2>1. \A q \in Procs : pc'[q] = IF q = p THEN "done" ELSE "idle"
    BY <1>0 DEF SerialInv, TypeInv
  <2>2. loaded[p] = acked /\ file.state = "torn"
    BY <1>0 DEF SerialInv
  <2>3. file' = Whole(Saved(p)) /\ acked' = Saved(p)
    BY <1>0, <1>1, <2>2
  <2> QED BY <2>1, <2>3 DEF SerialInv, Whole
<1> QED
  BY <1>2, <1>3, <1>4, <1>5

\* A query takes what it scans from the catalog it has just read.
LEMMA ServeInv ==
    ASSUME IInv, NEW p \in Procs, NEW s \in SUBSET Files, NEW place \in {"served", "live"},
           pc[p] \in {"load", "resolve"}, pc' = [pc EXCEPT ![p] = place],
           served' = [served EXCEPT ![p] = s],
           UNCHANGED <<disk, file, op, loaded, unlisted, listed, opened, acked, ever, always, serial>>,
           place = "served" /\ file.state # "torn" =>
               op[p].name \in DOMAIN file.tables /\ s = file.tables[op[p].name].fragments
    PROVE  IInv'
<1> USE DEF IInv
<1>1. TypeInv'
  BY DEF TypeInv, FileSets, PCs
<1>2. ProcInv'
  <2> SUFFICES ASSUME NEW q \in Procs PROVE CommandOk(q)' /\ ScanOk(q)'
    BY DEF ProcInv
  <2>1. CASE q = p
    BY <2>1, ProcPasses DEF TypeInv, ProcInv
  <2>2. CASE q # p
    BY <2>2, ProcKept DEF TypeInv, ProcInv
  <2> QED BY <2>1, <2>2
<1>3. CopiesInv'
  BY DEF CopiesInv
<1>4. SerialInv'
  <2> SUFFICES ASSUME serial PROVE SerialInv'
    BY DEF SerialInv
  <2>1. \A q \in Procs : pc'[q] = IF q = p THEN place ELSE "idle"
    BY DEF SerialInv, TypeInv
  <2>2. \A q \in Procs : pc[q] # "write"
    BY DEF SerialInv, TypeInv
  <2>3. file.state # "torn" /\ file.tables = acked
    BY <2>2 DEF SerialInv
  <2>4. served'[p] = s
    BY DEF TypeInv, FileSets
  <2> QED BY <2>1, <2>3, <2>4 DEF SerialInv
<1> QED
  BY <1>1, <1>2, <1>3, <1>4

LEMMA ResolveInv == ASSUME IInv, NEW p \in Procs, Resolve(p) PROVE IInv'
<1>1. /\ pc[p] = "load" /\ op[p].name \in DOMAIN file.tables
      /\ served' = [served EXCEPT ![p] = file.tables[op[p].name].fragments]
      /\ pc' = [pc EXCEPT ![p] = "served"]
      /\ UNCHANGED <<disk, file, op, loaded, unlisted, listed, opened, acked, ever, always, serial>>
  BY DEF Resolve, Goto, history, counts
<1>2. file.tables[op[p].name].fragments \in SUBSET Files
  BY <1>1, TablesEntry DEF IInv, TypeInv, Entry
<1> QED
  BY <1>1, <1>2, ServeInv

LEMMA ResolvePathInv == ASSUME IInv, NEW p \in Procs, ResolvePath(p) PROVE IInv'
<1>1. /\ pc[p] = "resolve"
      /\ served' = [served EXCEPT ![p] =
                       {f \in disk : Home[f] = file.tables[op[p].name].location}]
      /\ pc' = [pc EXCEPT ![p] = "live"]
      /\ UNCHANGED <<disk, file, op, loaded, unlisted, listed, opened, acked, ever, always, serial>>
  BY DEF ResolvePath, Goto, history, counts
<1>2. {f \in disk : Home[f] = file.tables[op[p].name].location} \in SUBSET Files
  BY DEF IInv, TypeInv
<1> QED
  BY <1>1, <1>2, ServeInv

LEMMA ResolveMissesInv == ASSUME IInv, NEW p \in Procs, ResolveMisses(p) PROVE IInv'
<1> USE DEF IInv
<1>0. /\ pc[p] = "load" /\ pc' = [pc EXCEPT ![p] = "resolve"]
      /\ UNCHANGED <<disk, file, op, loaded, unlisted, listed, opened, served, acked, ever, always, serial>>
  BY DEF ResolveMisses, Goto, local, history, counts
<1>1. TypeInv'
  BY <1>0 DEF TypeInv, PCs
<1>2. ProcInv'
  <2> SUFFICES ASSUME NEW q \in Procs PROVE CommandOk(q)' /\ ScanOk(q)'
    BY DEF ProcInv
  <2>1. CASE q = p
    BY <1>0, <2>1 DEF TypeInv, ProcInv, CommandOk, ScanOk
  <2>2. CASE q # p
    BY <1>0, <2>2, ProcKept DEF TypeInv, ProcInv
  <2> QED BY <2>1, <2>2
<1>3. CopiesInv'
  BY <1>0 DEF CopiesInv
<1>4. SerialInv'
  <2>1. \A q \in Procs : pc'[q] = IF q = p THEN "resolve" ELSE pc[q]
    BY <1>0 DEF TypeInv
  <2> QED BY <1>0, <2>1 DEF SerialInv
<1> QED
  BY <1>1, <1>2, <1>3, <1>4

\* A process ends or is killed; what it had stored stays.
LEMMA ForgetInv ==
    ASSUME IInv, NEW p \in Procs, Forget(p), UNCHANGED <<disk, file, acked>>,
           serial' \in BOOLEAN, serial' => serial /\ pc[p] # "write"
    PROVE  IInv'
<1> USE DEF IInv, Forget, Goto
<1>1. TypeInv'
  BY NoTables DEF TypeInv, FileSets, PCs
<1>2. ProcInv'
  <2> SUFFICES ASSUME NEW q \in Procs PROVE CommandOk(q)' /\ ScanOk(q)'
    BY DEF ProcInv
  <2>1. CASE q = p
    BY <2>1 DEF TypeInv, FileSets, ProcInv, CommandOk, ScanOk
  <2>2. CASE q # p
    BY <2>2, ProcKept DEF TypeInv, FileSets, ProcInv
  <2> QED BY <2>1, <2>2
<1>3. CopiesInv'
  BY NoTables DEF CopiesInv, TypeInv, Scannable
<1>4. SerialInv'
  <2> SUFFICES ASSUME serial' PROVE SerialInv'
    BY DEF SerialInv
  <2>1. \A q \in Procs : /\ pc'[q] = IF q = p THEN "idle" ELSE pc[q]
                         /\ q # p => op'[q] = op[q] /\ served'[q] = served[q] /\ loaded'[q] = loaded[q]
    BY DEF TypeInv, FileSets
  <2>2. serial /\ pc[p] # "write" /\ UNCHANGED <<file, acked>>
    OBVIOUS
  <2>3. (\A q \in Procs : pc'[q] # "write") => \A q \in Procs : pc[q] # "write"
    BY <2>1, <2>2
  <2>4. \A q \in Procs : pc'[q] # "idle" => q # p /\ pc'[q] = pc[q]
    BY <2>1
  <2>5. \A q \in Procs : pc'[q] \in {"discover", "write", "served"} =>
            pc'[q] = pc[q] /\ op'[q] = op[q] /\ served'[q] = served[q] /\ loaded'[q] = loaded[q]
    BY <2>1
  <2> HIDE DEF Forget, Goto
  <2> QED BY <2>2, <2>3, <2>4, <2>5 DEF SerialInv
<1> QED
  BY <1>1, <1>2, <1>3, <1>4

LEMMA ChangeInv == ASSUME IInv, Change PROVE IInv'
<1> USE DEF IInv
<1>0. /\ disk' \subseteq Files
      /\ ever' = [p \in Procs |-> ever[p] \cup disk']
      /\ always' = [p \in Procs |-> always[p] \cap disk']
      /\ UNCHANGED <<file, pc, op, loaded, unlisted, listed, opened, served, acked, serial>>
  BY DEF Change, local, TypeInv
<1>1. TypeInv'
  BY <1>0 DEF TypeInv, FileSets
<1>2. ProcInv'
  <2> SUFFICES ASSUME NEW q \in Procs PROVE CommandOk(q)' /\ ScanOk(q)'
    BY DEF ProcInv
  <2>1. ever'[q] = ever[q] \cup disk' /\ always'[q] = always[q] \cap disk'
    BY <1>0
  <2>2. Here(q)' = Here(q)
    BY <1>0 DEF Here, LocationOf
  <2>3. CommandOk(q)'
    BY <1>0, <2>1 DEF ProcInv, CommandOk
  <2>4. ScanOk(q)'
    BY <1>0, <2>1, <2>2 DEF ProcInv, ScanOk
  <2> QED BY <2>3, <2>4
<1>3. CopiesInv'
  BY <1>0 DEF CopiesInv
<1>4. SerialInv'
  BY <1>0 DEF SerialInv
<1> QED
  BY <1>1, <1>2, <1>3, <1>4

-----------------------------------------------------------------------------
LEMMA NextInv == ASSUME IInv, [Next]_vars PROVE IInv'
<1>1. CASE UNCHANGED vars
  <2>1. UNCHANGED <<disk, file, pc, op, loaded, unlisted, listed, opened, served, acked, ever,
                    always, serial>>
    BY <1>1 DEF vars, local, history, counts
  <2>2. TypeInv'
    BY <2>1 DEF IInv, TypeInv
  <2>3. ProcInv'
    BY <2>1 DEF IInv, ProcInv, CommandOk, ScanOk, Here, LocationOf
  <2>4. CopiesInv' /\ SerialInv'
    BY <2>1 DEF IInv, CopiesInv, SerialInv
  <2> QED
    BY <2>2, <2>3, <2>4 DEF IInv
<1>2. CASE Change
  BY <1>2, ChangeInv
<1>3. ASSUME NEW p \in Procs, LoadFails(p) PROVE IInv'
  BY <1>3, FailsInv DEF LoadFails
<1>4. ASSUME NEW p \in Procs, InspectFails(p) PROVE IInv'
  BY <1>4, FailsInv DEF InspectFails
<1>5. ASSUME NEW p \in Procs, Exit(p) PROVE IInv'
  BY <1>5, ForgetInv DEF Exit, counts, IInv, TypeInv
<1>6. ASSUME NEW p \in Procs, Crash(p) PROVE IInv'
  BY <1>6, ForgetInv DEF Crash
<1> QED
  BY <1>1, <1>2, <1>3, <1>4, <1>5, <1>6, StartInv, LoadInv, DiscoverInv, InspectInv,
     TruncateInv, WriteInv, ResolveInv, ResolveMissesInv, ResolvePathInv DEF Next

LEMMA CatalogInvariant == Spec => []IInv
<1>1. Init => IInv
  BY InitInv
<1>2. IInv /\ [Next]_vars => IInv'
  BY NextInv
<1> QED
  BY <1>1, <1>2, PTL DEF Spec

\* However commands, directory changes and crashes interleave, catalog.json and every
\* process's copy of it map names to entries and what a command has opened is among what
\* it has listed (PersistentCatalog of catalog.rs).
THEOREM TypeCorrect == Spec => []TypeOK
<1>1. IInv => TypeOK
  BY DEF IInv, TypeInv, PCs, FileSets, ProcInv, CommandOk, TypeOK
<1> QED
  BY <1>1, CatalogInvariant, PTL

\* What register_local_parquet and refresh_table store is true of the table's directory,
\* for any number of commands and of files that come and go while it is walked: it holds
\* every file that was there throughout and none that was never there.
THEOREM SnapshotsTrue == Spec => []SnapshotOfDirectory
<1>1. IInv => SnapshotOfDirectory
  BY DEF IInv, ProcInv, ScanOk, Here, SnapshotOfDirectory
<1> QED
  BY <1>1, CatalogInvariant, PTL

\* No race between commands without a lock, and no crash between the truncation and the
\* write of save, leaves an entry in a catalog that parses which inspect_local_parquet_table
\* would have refused: fragments elsewhere, of several schemas, or none.
THEOREM StoredEntriesScannable == Spec => []EntriesScannable
<1>1. IInv => EntriesScannable
  BY DEF IInv, CopiesInv, Scannable, EntriesScannable
<1> QED
  BY <1>1, CatalogInvariant, PTL

\* Commands that run one after another lose nothing: after any sequence of register,
\* refresh, query and failed commands the file holds what was acknowledged last for every
\* name (load and save of PersistentCatalog).
THEOREM AcknowledgedIsStored == Spec => []AckedIsStored
<1>1. IInv => AckedIsStored
  BY DEF IInv, SerialInv, AckedIsStored
<1> QED
  BY <1>1, CatalogInvariant, PTL

\* Among commands that run one after another, a query by name reads the fragments of the
\* last acknowledged register or refresh (resolve_catalog_table_source), however the
\* directory has changed since.
THEOREM QueriesUseSnapshot == Spec => []QueryUsesSnapshot
<1>1. IInv => QueryUsesSnapshot
  BY DEF IInv, SerialInv, QueryUsesSnapshot
<1> QED
  BY <1>1, CatalogInvariant, PTL
=============================================================================
