------------------------------ MODULE Catalog ------------------------------
(***************************************************************************)
(* The persistent table catalog of src/src/catalog.rs                      *)
(* (PersistentCatalog), with the name resolution of src/src/engine.rs.     *)
(* Every command is a process of its own: `catalog register`, `catalog     *)
(* refresh` and a query by table name each load .dodam/catalog.json, and   *)
(* the first two list and open the table's Parquet files and write the     *)
(* whole catalog back.  There is no lock, and save is a truncation         *)
(* followed by a write.  Meanwhile files come and go in the table          *)
(* directories.                                                            *)
(*                                                                         *)
(* A table entry is its location and the set of its fragments; schemas     *)
(* are model values; statistics and partition values are left out.         *)
(***************************************************************************)
EXTENDS Integers, FiniteSets, Functions

CONSTANTS
    Procs,       \* commands that may run at the same time
    Names,       \* table names, normalized
    Locations,   \* table directories
    Files,       \* Parquet files
    Home,        \* Home[f]: the directory a file belongs to
    SchemaOf,    \* SchemaOf[f]: its schema
    MaxOps,      \* bound: commands started
    MaxChanges,  \* bound: files added or removed
    MaxCrashes   \* bound: commands killed

ASSUME CatalogAssumption ==
    /\ Home \in [Files -> Locations]
    /\ MaxOps \in Nat /\ MaxChanges \in Nat /\ MaxCrashes \in Nat

VARIABLES
    disk,      \* the Parquet files that exist
    file,      \* catalog.json: its state and the tables a whole one holds
    pc,        \* per process: the step it is at
    op,        \* per process: the command, its table name and location
    loaded,    \* per process: the CatalogFile it loaded
    unlisted,  \* per process: directory entries discovery has not passed yet
    listed,    \* per process: the fragments discovery has found
    opened,    \* per process: the fragments whose footer was read
    served,    \* per process: the fragments a query resolved its table to
    acked,     \* the last entry each name was acknowledged with
    ever,      \* per process: files that existed at some time since it started
    always,    \* per process: files that existed all the time since it started
    serial,    \* history: commands ran one after another so far, and none was killed
    ops, changes, crashes

local == <<op, loaded, unlisted, listed, opened, served>>
history == <<ever, always>>
counts == <<serial, ops, changes, crashes>>
vars == <<disk, file, pc, local, acked, history, counts>>

None == [tables |-> <<>>, state |-> "missing"]
Torn == [tables |-> <<>>, state |-> "torn"]
Whole(t) == [tables |-> t, state |-> "whole"]

Entry == [location : Locations, fragments : SUBSET Files]
Tables == UNION {[N -> Entry] : N \in SUBSET Names}
Command == [kind : {"register"}, name : Names, location : Locations]
           \cup [kind : {"refresh", "query"}, name : Names]
NoCommand == [kind |-> "none"]

\* A table map with one entry inserted: catalog.tables.insert.
With(tables, n, e) == [m \in DOMAIN tables \cup {n} |-> IF m = n THEN e ELSE tables[m]]

LocationOf(p) ==
    IF op[p].kind = "register" THEN op[p].location ELSE loaded[p][op[p].name].location

-----------------------------------------------------------------------------
Init ==
    /\ disk \in SUBSET Files
    /\ file = None
    /\ pc = [p \in Procs |-> "idle"]
    /\ op = [p \in Procs |-> NoCommand]
    /\ loaded = [p \in Procs |-> <<>>]
    /\ unlisted = [p \in Procs |-> {}]
    /\ listed = [p \in Procs |-> {}]
    /\ opened = [p \in Procs |-> {}]
    /\ served = [p \in Procs |-> {}]
    /\ acked = <<>>
    /\ ever = [p \in Procs |-> {}]
    /\ always = [p \in Procs |-> {}]
    /\ serial = TRUE
    /\ ops = 0 /\ changes = 0 /\ crashes = 0

Goto(p, s) == pc' = [pc EXCEPT ![p] = s]

\* A command's process ends and takes its memory with it.
Forget(p) ==
    /\ Goto(p, "idle")
    /\ op' = [op EXCEPT ![p] = NoCommand]
    /\ loaded' = [loaded EXCEPT ![p] = <<>>]
    /\ unlisted' = [unlisted EXCEPT ![p] = {}]
    /\ listed' = [listed EXCEPT ![p] = {}]
    /\ opened' = [opened EXCEPT ![p] = {}]
    /\ served' = [served EXCEPT ![p] = {}]
    /\ ever' = [ever EXCEPT ![p] = {}]
    /\ always' = [always EXCEPT ![p] = {}]

\* A command starts; that register_local_parquet gives up on a location that does not
\* exist is among the failures of its discovery below.
Start(p) ==
    /\ pc[p] = "idle" /\ ops < MaxOps
    /\ \E c \in Command : op' = [op EXCEPT ![p] = c]
    /\ Goto(p, "load")
    /\ ever' = [ever EXCEPT ![p] = disk]
    /\ always' = [always EXCEPT ![p] = disk]
    /\ serial' = (serial /\ \A q \in Procs : pc[q] = "idle")
    /\ ops' = ops + 1
    /\ UNCHANGED <<disk, file, loaded, unlisted, listed, opened, served, acked, changes,
                   crashes>>

\* The command ends without an answer.
Fails(p) ==
    /\ Goto(p, "failed")
    /\ UNCHANGED <<disk, file, local, acked, history, counts>>

\* Mutant: a refresh adds to the fragments stored before.
LoadKeepingFragments(p) ==
    LET fresh == op[p].kind = "register"
        at == IF fresh THEN op[p].location ELSE file.tables[op[p].name].location
        old == IF fresh THEN {} ELSE file.tables[op[p].name].fragments
        here == {f \in Files : Home[f] = at}
    IN  /\ pc[p] = "load" /\ file.state # "torn" /\ op[p].kind # "query"
        /\ fresh \/ op[p].name \in DOMAIN file.tables
        /\ loaded' = [loaded EXCEPT ![p] = file.tables]
        /\ unlisted' = [unlisted EXCEPT ![p] = here \ old]
        /\ listed' = [listed EXCEPT ![p] = old]
        /\ opened' = [opened EXCEPT ![p] = old]
        /\ Goto(p, "discover")
        /\ UNCHANGED <<disk, file, op, served, acked, history, counts>>

\* load: a missing file is an empty catalog, one that does not parse an error.
Load(p) ==
    /\ pc[p] = "load" /\ file.state # "torn"
    /\ op[p].kind # "query"
    /\ \/ op[p].kind = "register"
       \/ op[p].name \in DOMAIN file.tables
    /\ loaded' = [loaded EXCEPT ![p] = file.tables]
    /\ LET at == IF op[p].kind = "register" THEN op[p].location
                 ELSE file.tables[op[p].name].location
       IN  unlisted' = [unlisted EXCEPT ![p] = {f \in Files : Home[f] = at}]
    /\ Goto(p, "discover")
    /\ UNCHANGED <<disk, file, op, listed, opened, served, acked, history, counts>>

LoadFails(p) ==
    /\ pc[p] \in {"load", "resolve"}
    /\ \/ file.state = "torn"
       \/ pc[p] = "load" /\ op[p].kind = "refresh" /\ op[p].name \notin DOMAIN file.tables
       \/ pc[p] = "resolve" /\ op[p].name \notin DOMAIN file.tables
    /\ Fails(p)

\* discover_parquet_files: the directory is walked while it changes, entry by entry.
Discover(p) ==
    \E f \in unlisted[p] :
        /\ pc[p] = "discover"
        /\ unlisted' = [unlisted EXCEPT ![p] = @ \ {f}]
        /\ listed' = [listed EXCEPT ![p] = IF f \in disk THEN @ \cup {f} ELSE @]
        /\ UNCHANGED <<disk, file, pc, op, loaded, opened, served, acked, history, counts>>

\* Mutant: fragments of any schema are accepted.
InspectAnySchema(p) ==
    \E f \in listed[p] \ opened[p] :
        /\ pc[p] = "discover" /\ unlisted[p] = {}
        /\ f \in disk
        /\ opened' = [opened EXCEPT ![p] = @ \cup {f}]
        /\ UNCHANGED <<disk, file, pc, op, loaded, unlisted, listed, served, acked, history,
                       counts>>

\* inspect_local_parquet_table: each fragment's footer is read, and its schema must be
\* that of the fragments before it.
Inspect(p) ==
    \E f \in listed[p] \ opened[p] :
        /\ pc[p] = "discover" /\ unlisted[p] = {}
        /\ f \in disk
        /\ \A g \in opened[p] : SchemaOf[g] = SchemaOf[f]
        /\ opened' = [opened EXCEPT ![p] = @ \cup {f}]
        /\ UNCHANGED <<disk, file, pc, op, loaded, unlisted, listed, served, acked, history,
                       counts>>

\* A fragment is gone again, has another schema, or there is none at all.
InspectFails(p) ==
    /\ pc[p] = "discover" /\ unlisted[p] = {}
    /\ \/ listed[p] = {}
       \/ \E f \in listed[p] \ opened[p] :
            f \notin disk \/ \E g \in opened[p] : SchemaOf[g] # SchemaOf[f]
    /\ Fails(p)

\* The catalog the command is about to save.
Saved(p) ==
    With(loaded[p], op[p].name, [location |-> LocationOf(p), fragments |-> opened[p]])

\* Mutant: the catalog file is started afresh.
SavedAlone(p) ==
    [n \in {op[p].name} |-> [location |-> LocationOf(p), fragments |-> opened[p]]]

\* save, first half: std::fs::write opens the file with truncation.
Truncate(p) ==
    /\ pc[p] = "discover" /\ unlisted[p] = {} /\ listed[p] # {} /\ opened[p] = listed[p]
    /\ file' = Torn
    /\ Goto(p, "write")
    /\ UNCHANGED <<disk, local, acked, history, counts>>

\* Mutant: the saved catalog forgets the tables it was loaded with.
WriteAlone(p) ==
    /\ pc[p] = "write"
    /\ file' = Whole(SavedAlone(p))
    /\ Goto(p, "done")
    /\ acked' = With(acked, op[p].name, SavedAlone(p)[op[p].name])
    /\ UNCHANGED <<disk, local, history, counts>>

\* save, second half: the contents are written from offset 0.  Over an empty file they
\* are what is read back; over what another writer put there since the truncation, the
\* tail of a longer text may remain, and the file no longer parses.
Write(p) ==
    /\ pc[p] = "write"
    /\ \/ file' = Whole(Saved(p))
       \/ file.state = "whole" /\ file.tables # Saved(p) /\ file' = Torn
    /\ Goto(p, "done")
    /\ acked' = With(acked, op[p].name, Saved(p)[op[p].name])
    /\ UNCHANGED <<disk, local, history, counts>>

\* Mutant: a query lists the table's directory again.
ResolveLive(p) ==
    /\ pc[p] = "load" /\ op[p].kind = "query" /\ file.state # "torn"
    /\ op[p].name \in DOMAIN file.tables
    /\ served' = [served EXCEPT ![p] =
            {f \in disk : Home[f] = file.tables[op[p].name].location}]
    /\ Goto(p, "served")
    /\ UNCHANGED <<disk, file, op, loaded, unlisted, listed, opened, acked, history, counts>>

\* resolve_catalog_table_source: a query of a registered name takes the fragments stored.
Resolve(p) ==
    /\ pc[p] = "load" /\ op[p].kind = "query" /\ file.state # "torn"
    /\ op[p].name \in DOMAIN file.tables
    /\ served' = [served EXCEPT ![p] = file.tables[op[p].name].fragments]
    /\ Goto(p, "served")
    /\ UNCHANGED <<disk, file, op, loaded, unlisted, listed, opened, acked, history, counts>>

\* plan_table_source goes on to resolve_table_path, which loads the catalog again.
ResolveMisses(p) ==
    /\ pc[p] = "load" /\ op[p].kind = "query" /\ file.state # "torn"
    /\ op[p].name \notin DOMAIN file.tables
    /\ Goto(p, "resolve")
    /\ UNCHANGED <<disk, file, local, acked, history, counts>>

\* resolve_table_path: a name registered in between is scanned as the directory it is now.
ResolvePath(p) ==
    /\ pc[p] = "resolve" /\ file.state # "torn" /\ op[p].name \in DOMAIN file.tables
    /\ served' = [served EXCEPT ![p] =
            {f \in disk : Home[f] = file.tables[op[p].name].location}]
    /\ Goto(p, "live")
    /\ UNCHANGED <<disk, file, op, loaded, unlisted, listed, opened, acked, history, counts>>

\* The command's process ends.
Exit(p) ==
    /\ pc[p] \in {"done", "failed", "served", "live"}
    /\ Forget(p)
    /\ UNCHANGED <<disk, file, acked, counts>>

\* The command's process is killed.
Crash(p) ==
    /\ pc[p] \in {"load", "resolve", "discover", "write"} /\ crashes < MaxCrashes
    /\ Forget(p)
    /\ serial' = FALSE
    /\ crashes' = crashes + 1
    /\ UNCHANGED <<disk, file, acked, ops, changes>>

\* A Parquet file is added to its table's directory or removed from it.
Change ==
    \E f \in Files :
        /\ changes < MaxChanges
        /\ disk' = IF f \in disk THEN disk \ {f} ELSE disk \cup {f}
        /\ ever' = [p \in Procs |-> ever[p] \cup disk']
        /\ always' = [p \in Procs |-> always[p] \cap disk']
        /\ changes' = changes + 1
        /\ UNCHANGED <<file, pc, local, acked, serial, ops, crashes>>

Next ==
    \/ Change
    \/ \E p \in Procs :
          \/ Start(p) \/ Load(p) \/ LoadFails(p) \/ Discover(p) \/ Inspect(p)
          \/ InspectFails(p) \/ Truncate(p) \/ Write(p) \/ Resolve(p) \/ ResolveMisses(p)
          \/ ResolvePath(p) \/ Exit(p) \/ Crash(p)

Spec == Init /\ [][Next]_vars

-----------------------------------------------------------------------------
\* Type correctness: the catalog file and every process's copy of it map names to
\* entries, and the inspected fragments are among the listed ones.
TypeOK ==
    /\ disk \subseteq Files
    /\ file \in [state : {"missing", "torn", "whole"}, tables : Tables]
    /\ pc \in [Procs -> {"idle", "load", "resolve", "discover", "write", "done", "failed",
                         "served", "live"}]
    /\ op \in [Procs -> Command \cup {NoCommand}] /\ loaded \in [Procs -> Tables]
    /\ \A p \in Procs : unlisted[p] \cup listed[p] \cup served[p] \subseteq Files
                        /\ opened[p] \subseteq listed[p]
    /\ acked \in Tables /\ serial \in BOOLEAN

\* What register and refresh store is true of the directory: a saved snapshot holds every
\* file that was there for the whole command and none that was not there during it
\* (register_local_parquet, refresh_table), however the directory changed meanwhile.
SnapshotOfDirectory ==
    \A p \in Procs : pc[p] \in {"write", "done"} =>
        LET here == {f \in Files : Home[f] = LocationOf(p)}
        IN  always[p] \cap here \subseteq opened[p] /\ opened[p] \subseteq ever[p] \cap here

\* Whatever races and crashes did to it, a catalog that parses can be queried: every entry
\* lists at least one fragment of its own location, all of one schema (the check of
\* inspect_local_parquet_table, which queries of the table rely on).
EntriesScannable ==
    \A n \in DOMAIN file.tables :
        LET e == file.tables[n]
        IN  /\ e.fragments # {}
            /\ \A f, g \in e.fragments : Home[f] = e.location /\ SchemaOf[f] = SchemaOf[g]

\* As long as commands run one after another, the catalog between saves holds every
\* acknowledged table with the entry it was last acknowledged with, and no other: what
\* register, refresh and failed commands in any order leave behind.
AckedIsStored ==
    serial /\ (\A p \in Procs : pc[p] # "write") =>
        /\ file.state # "torn"
        /\ file.tables = acked

\* As long as commands run one after another, a query by name uses the fragments of the
\* last acknowledged register or refresh, also when the directory has changed since.
QueryUsesSnapshot ==
    \A p \in Procs : serial /\ pc[p] = "served" => served[p] = acked[op[p].name].fragments

\* A table whose registration was acknowledged can be used by name whenever no command
\* is saving the catalog (README: "Registered table names can be used in SQL").
RegisteredUsable ==
    (\A p \in Procs : pc[p] # "write") =>
        file.state # "torn" /\ DOMAIN acked \subseteq DOMAIN file.tables
=============================================================================
