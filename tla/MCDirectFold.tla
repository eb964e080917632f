---------------------------- MODULE MCDirectFold ----------------------------
(* Files of up to three row groups for the direct fold.                     *)
EXTENDS DirectFold, TLC

Row(k, v) == [k |-> k, v |-> v]

\* Rows in key order, with a repeated key, with NULLs and near the largest sum.
Sorted == <<Row(1, 1), Row(2, 3)>>
Repeated == <<Row(1, 1), Row(1, 2), Row(3, 2)>>
Unsorted == <<Row(2, 7), Row(1, 1)>>
NullKey == <<Row(Null, 1), Row(1, 2)>>
NullValue == <<Row(2, Null), Row(1, 2)>>
Mixed == Unsorted \o NullKey \o Sorted
RowLists == {<<>>, Sorted, Repeated, Unsorted, NullKey, NullValue, Mixed, <<Row(3, 2)>> \o Repeated}

RowGroups == [plain : BOOLEAN, broken : {FALSE}, rows : RowLists]
Broken(g) == [g EXCEPT !.broken = TRUE]
SomeNull(groups) == \E i \in DOMAIN groups : ~NullFree(groups[i].rows)

RowGroupsWith(lists) == {g \in RowGroups : g.rows \in lists}
GroupLists ==
    {<<>>} \cup [1 .. 1 -> RowGroups]
    \cup [1 .. 2 -> RowGroupsWith({<<>>, Repeated, NullValue, Mixed})]
    \cup [1 .. 3 -> RowGroupsWith({Unsorted, NullKey})]
FilesOf(lists) ==
    {f \in [groups : lists, keyOptional : BOOLEAN, sumOptional : BOOLEAN, sumInt64 : {TRUE}] :
        \A i \in DOMAIN f.groups : \A j \in DOMAIN f.groups[i].rows :
            /\ f.groups[i].rows[j].k = Null => f.keyOptional
            /\ f.groups[i].rows[j].v = Null => f.sumOptional}

CountsFor(f) == IF SomeNull(f.groups) THEN {"star"} ELSE {"star", "k", "v"}
QueriesOver(files) == UNION {[file : {f}, count : CountsFor(f)] : f \in files}

\* Files whose rows are kept and read once, the same with a row group that cannot be read
\* and with a sum of another type.
GoodFiles == {f \in FilesOf(GroupLists) : KeepsRows(f) /\ ReadsOnce(f)}
SmallFiles == {f \in GoodFiles : \A i \in DOMAIN f.groups : f.groups[i].rows \in {Repeated, NullKey, <<>>}}
BrokenFiles == UNION {{[f EXCEPT !.groups[i] = Broken(@)] : i \in DOMAIN f.groups} : f \in SmallFiles}
OtherFiles == {[f EXCEPT !.sumInt64 = FALSE] : f \in SmallFiles \cup BrokenFiles}
MCQueries == QueriesOver(GoodFiles) \cup [file : BrokenFiles \cup OtherFiles, count : {"star"}]

\* Two row groups for one worker, the first of them PLAIN.
MixedFiles == {f \in FilesOf([1 .. 3 -> RowGroups]) : KeepsRows(f) /\ ~SomeNull(f.groups)}
MCMixedQueries == [file : MixedFiles, count : {"star"}]
=============================================================================
