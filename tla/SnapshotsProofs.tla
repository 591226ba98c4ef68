--------------------------- MODULE SnapshotsProofs ---------------------------
(***************************************************************************)
(* Proofs about export, backup, restore and import, for any number of rows *)
(* and calls, whatever may be wrong with a document, and foreign files of  *)
(* every shape.                                                            *)
(***************************************************************************)
EXTENDS Snapshots, RecursionLemmas, FiniteSetTheorems

(* What is proved for: the ids are bounded by numbers, the null reference  *)
(* is no id, a document may be without a flaw, and a foreign file has a    *)
(* task before those under it.                                             *)
SnapshotsAssumption ==
    /\ MaxTask \in Nat /\ MaxTab \in Nat /\ MaxSteps \in Nat /\ None \notin Nat
    /\ NoFlaw \in Flaws
    /\ \A f \in Forests : /\ f \in Seq([up: Nat, canceled: BOOLEAN])
                          /\ \A n \in DOMAIN f : f[n].up < n

(* Nothing else is at work beside a restore, and since its backup was      *)
(* written nothing has changed.                                            *)
RestoreInv ==
    /\ restoring # None => backup = db /\ forest = <<>>
    /\ forest = <<>> => level = {} /\ DOMAIN placed = {}

(* What refers to a row finds it: in the tables, and in a document that    *)
(* was accepted.                                                           *)
ReferencesInv ==
    /\ ~removed => ValidReferences(db)
    /\ restoring # None => ValidReferences(restoring.tables)

(* An import: each node made so far has a row of its own; the level at     *)
(* work hangs under finished ones and nothing below those is left out; the *)
(* rows are what the file says; and there are ids for what is to come.     *)
Made == DOMAIN placed
Done == Made \ level
PlacedInv ==
    /\ placed \in [Made -> Present(db)]
    /\ \A m, n \in Made : placed[m] = placed[n] => m = n
LevelInv ==
    /\ level \subseteq Made \/ level \intersect Made = {}
    /\ \A n \in Made \union level : Up(n) \in Done \union {0}
    /\ Roots(forest) \union Below(Done) \subseteq Made \union level
RowsInv ==
    /\ \A n \in Made : db.tasks[placed[n]].parent = ParentRow(n)
    /\ \A n \in Done : db.tasks[placed[n]].state = (IF forest[n].canceled THEN "trash" ELSE "live")
    /\ \A n \in Made \intersect level :
          db.tasks[placed[n]].state \in {"live"} \union (IF forest[n].canceled THEN {"trash"} ELSE {})
RoomInv == forest # <<>> => NewTask - 1 + Cardinality(DOMAIN forest \ Made) <= MaxTask

ImportInv == PlacedInv /\ LevelInv /\ RowsInv /\ RoomInv

SnapshotsInv == TypeOK /\ RestoreInv /\ ReferencesInv /\ ImportInv

----------------------------------------------------------------------------
(* Rows.                                                                   *)

(* The next id is above every id in use, and not higher than need be.      *)
LEMMA NextFreeAbove ==
    ASSUME NEW M \in Nat, NEW S \in SUBSET (1 .. M)
    PROVE  /\ NextFree(S) \in Nat \ {0}
           /\ \A k \in S : k < NextFree(S)
           /\ \A b \in Nat : (\A k \in S : k <= b) => NextFree(S) <= b + 1
<1>1. CASE S = {}
  BY <1>1 DEF NextFree
<1>2. CASE S # {}
  <2> DEFINE T == { b \in Nat : \A k \in S : k <= b }
  <2>1. M \in T
    OBVIOUS
  <2>2. PICK m \in T : \A b \in T : m <= b
    <3> HIDE DEF T
    <3>1. T \subseteq Nat
      BY DEF T
    <3> QED BY <2>1, <3>1, LeastNumber
  <2>3. m \in S
    <3>1. SUFFICES ASSUME m \notin S PROVE FALSE
      OBVIOUS
    <3>2. m # 0
      <4>1. PICK s \in S : TRUE
        BY <1>2
      <4>2. s >= 1 /\ s <= m
        BY <4>1
      <4> QED BY <4>2
    <3>3. m - 1 \in Nat
      BY <2>2, <3>2
    <3>4. \A k \in S : k <= m - 1
      BY <3>1, <2>2
    <3>5. m - 1 \in T
      BY <3>3, <3>4
    <3> QED BY <2>2, <3>5
  <2> DEFINE h == CHOOSE n \in S : \A k \in S : k <= n
  <2>4. h \in S /\ \A k \in S : k <= h
    <3>1. \E n \in S : \A k \in S : k <= n
      BY <2>2, <2>3
    <3> QED BY <3>1
  <2>5. NextFree(S) = 1 + h
    BY <1>2 DEF NextFree
  <2> HIDE DEF h
  <2> QED BY <2>4, <2>5
<1> QED BY <1>1, <1>2

LEMMA NewTaskAbove ==
    ASSUME SnapshotsAssumption
    PROVE  /\ NewTask \in Nat \ {0}
           /\ \A t \in Present(db) : t \in TaskIds /\ t < NewTask
           /\ \A b \in Nat : (\A t \in Present(db) : t <= b) => NewTask <= b + 1
<1>1. MaxTask \in Nat /\ Present(db) \in SUBSET (1 .. MaxTask)
  BY DEF SnapshotsAssumption, Present, TaskIds
<1> QED BY <1>1, NextFreeAbove DEF NewTask, TaskIds

LEMMA NextTaskAbove ==
    ASSUME SnapshotsAssumption
    PROVE  /\ NewTask' \in Nat
           /\ \A b \in Nat : (\A t \in Present(db') : t <= b) => NewTask' <= b + 1
<1>1. MaxTask \in Nat /\ Present(db') \in SUBSET (1 .. MaxTask)
  BY DEF SnapshotsAssumption, Present, TaskIds
<1> QED BY <1>1, NextFreeAbove DEF NewTask

(* The tables with one thing written.                                      *)
WithTask(d, t, r)    == [d EXCEPT !.tasks[t] = r]
WithList(d, l, tab)  == [d EXCEPT !.lists[l] = tab]
WithTabs(d, S)       == [d EXCEPT !.tabs = S]
WithSeries(d, S)     == [d EXCEPT !.series = S]
WithState(d, t, s)   == [d EXCEPT !.tasks[t].state = s]
InState(row, s)      == [row EXCEPT !.state = s]

LEMMA TaskWritten ==
    ASSUME NEW d \in Tables, NEW t \in TaskIds, NEW r \in TaskRows
    PROVE  /\ WithTask(d, t, r) \in Tables
           /\ WithTask(d, t, r).lists = d.lists
           /\ WithTask(d, t, r).tabs = d.tabs
           /\ WithTask(d, t, r).series = d.series
           /\ \A u \in TaskIds : WithTask(d, t, r).tasks[u] = IF u = t THEN r ELSE d.tasks[u]
BY DEF WithTask, Tables

LEMMA ListWritten ==
    ASSUME NEW d \in Tables, NEW l \in ListIds, NEW tab \in TabIds \union {None}
    PROVE  /\ WithList(d, l, tab) \in Tables
           /\ WithList(d, l, tab).tasks = d.tasks
           /\ WithList(d, l, tab).tabs = d.tabs
           /\ WithList(d, l, tab).series = d.series
           /\ \A u \in ListIds : WithList(d, l, tab).lists[u] = IF u = l THEN tab ELSE d.lists[u]
BY DEF WithList, Tables

LEMMA TabsWritten ==
    ASSUME NEW d \in Tables, NEW S \in SUBSET TabIds
    PROVE  /\ WithTabs(d, S) \in Tables
           /\ WithTabs(d, S).tasks = d.tasks
           /\ WithTabs(d, S).lists = d.lists
           /\ WithTabs(d, S).series = d.series
           /\ WithTabs(d, S).tabs = S
BY DEF WithTabs, Tables

LEMMA SeriesWritten ==
    ASSUME NEW d \in Tables, NEW S \in SUBSET SeriesIds
    PROVE  /\ WithSeries(d, S) \in Tables
           /\ WithSeries(d, S).tasks = d.tasks
           /\ WithSeries(d, S).lists = d.lists
           /\ WithSeries(d, S).tabs = d.tabs
           /\ WithSeries(d, S).series = S
BY DEF WithSeries, Tables

LEMMA StateWritten ==
    ASSUME NEW d \in Tables, NEW t \in TaskIds, NEW s \in {"live", "trash"}, d.tasks[t].state # "none"
    PROVE  /\ InState(d.tasks[t], s) \in TaskRows
           /\ InState(d.tasks[t], s).state = s
           /\ InState(d.tasks[t], s).parent = d.tasks[t].parent
           /\ InState(d.tasks[t], s).list = d.tasks[t].list
           /\ InState(d.tasks[t], s).series = d.tasks[t].series
           /\ WithState(d, t, s) = WithTask(d, t, InState(d.tasks[t], s))
<1>1. d.tasks[t] \in TaskRows /\ d.tasks[t] # NoRow
  BY DEF Tables, NoRow
<1>2. /\ InState(d.tasks[t], s) \in TaskRows
      /\ InState(d.tasks[t], s).state = s
      /\ InState(d.tasks[t], s).parent = d.tasks[t].parent
      /\ InState(d.tasks[t], s).list = d.tasks[t].list
      /\ InState(d.tasks[t], s).series = d.tasks[t].series
  BY <1>1 DEF TaskRows, InState
<1>3. WithState(d, t, s) = WithTask(d, t, InState(d.tasks[t], s))
  BY DEF Tables, WithTask, WithState, InState
<1> QED BY <1>2, <1>3

(* A row whose references are found may be put anywhere.                   *)
LEMMA FoundReferencesHold ==
    ASSUME NEW d \in Tables, NEW t \in TaskIds, NEW r \in TaskRows, r.state # "none",
           r.parent \in Present(d) \union {None}, r.list \in Lists(d) \union {None},
           r.series \in d.series \union {None}, ValidReferences(d)
    PROVE  ValidReferences(WithTask(d, t, r))
<1> DEFINE e == WithTask(d, t, r)
<1>0. /\ e \in Tables /\ e.lists = d.lists /\ e.tabs = d.tabs /\ e.series = d.series
      /\ \A u \in TaskIds : e.tasks[u] = IF u = t THEN r ELSE d.tasks[u]
  BY TaskWritten
<1> HIDE DEF e
<1>1. Lists(e) = Lists(d)
  BY <1>0 DEF Lists
<1>2. Present(d) \subseteq Present(e)
  BY <1>0 DEF Present
<1>3. \A l \in Lists(e) : e.lists[l] \in e.tabs
  BY <1>0, <1>1 DEF ValidReferences
<1>4. ASSUME NEW u \in Present(e)
      PROVE  /\ e.tasks[u].parent \in Present(e) \union {None}
             /\ e.tasks[u].list \in Lists(e) \union {None}
             /\ e.tasks[u].series \in e.series \union {None}
  <2>1. u \in TaskIds
    BY DEF Present
  <2>2. CASE u = t
    BY <2>1, <2>2, <1>0, <1>1, <1>2
  <2>3. CASE u # t
    <3>1. e.tasks[u] = d.tasks[u] /\ u \in Present(d)
      BY <2>1, <2>3, <1>0 DEF Present
    <3> QED BY <3>1, <1>0, <1>1, <1>2 DEF ValidReferences
  <2> QED BY <2>2, <2>3
<1>5. ValidReferences(e)
  BY <1>3, <1>4 DEF ValidReferences
<1> QED BY <1>5 DEF e

----------------------------------------------------------------------------
(* The actions that leave the import alone: the calls of the routes, the   *)
(* export, the restore, the end of the process.                            *)

(* With nothing being imported, what is said of an import holds.           *)
LEMMA NoImport ==
    ASSUME forest' = <<>>, level' = {}, Made' = {}, placed' \in [Made' -> TaskIds]
    PROVE  ImportInv'
<1>1. placed' \in [Made' -> Present(db)']
  OBVIOUS
<1>2. Roots(forest)' = {}
  BY DEF Roots
<1>3. Below(Done)' = {}
  BY DEF Below, Done
<1> QED BY <1>1, <1>2, <1>3 DEF ImportInv, PlacedInv, LevelInv, RowsInv, RoomInv, Done

(* A call of a route writes the tables while nothing else is under way.    *)
Quiet == restoring = None /\ forest = <<>>
LeavesRest == UNCHANGED <<backup, exported, restoring, forest, level, placed>>

LEMMA CallsKeep ==
    ASSUME SnapshotsAssumption, SnapshotsInv, Quiet, LeavesRest, db' \in Tables,
           deleting' \in [list: ListIds, tasks: SUBSET TaskIds] \union {None},
           removed' \in BOOLEAN, steps' = steps \/ (steps' = steps + 1 /\ steps < MaxSteps),
           ~removed' => ValidReferences(db')
    PROVE  SnapshotsInv'
<1>1. TypeOK'
  <2>1. TypeOK
    BY DEF SnapshotsInv
  <2>2. MaxSteps \in Nat
    BY DEF SnapshotsAssumption
  <2>3. steps' \in 0 .. MaxSteps
    BY <2>1, <2>2 DEF TypeOK
  <2> QED BY <2>1, <2>3 DEF TypeOK, LeavesRest
<1>2. RestoreInv'
  BY DEF SnapshotsInv, RestoreInv, Quiet, LeavesRest
<1>3. ReferencesInv'
  BY DEF ReferencesInv, Quiet, LeavesRest
<1>4. ImportInv'
  <2>1. forest' = <<>> /\ level' = {} /\ Made' = {} /\ placed' = placed /\ Made = {}
    BY DEF SnapshotsInv, RestoreInv, Quiet, LeavesRest, Made
  <2>2. placed \in [{} -> TaskIds]
    BY <2>1 DEF SnapshotsInv, ImportInv, PlacedInv
  <2>3. placed' \in [Made' -> TaskIds]
    BY <2>1, <2>2
  <2> QED BY <2>1, <2>3, NoImport
<1> QED BY <1>1, <1>2, <1>3, <1>4 DEF SnapshotsInv

(* What a call counts, and what it leaves of the deletion under way.       *)
Called == Quiet /\ LeavesRest /\ steps' = steps + 1 /\ steps < MaxSteps
Kept   == deleting' = deleting /\ removed' \in {removed, TRUE}

LEMMA CallKeeps ==
    ASSUME SnapshotsAssumption, SnapshotsInv, Called, Kept, db' \in Tables,
           ~removed' => ValidReferences(db')
    PROVE  SnapshotsInv'
<1>1. /\ deleting' \in [list: ListIds, tasks: SUBSET TaskIds] \union {None}
      /\ removed' \in BOOLEAN
  BY DEF SnapshotsInv, TypeOK, Kept
<1> QED BY <1>1, CallsKeep DEF Called

LEMMA CreateTaskKeeps ==
    ASSUME SnapshotsAssumption, SnapshotsInv, NEW l \in Lists(db) \union {None},
           NEW p \in Present(db) \union {None}, NEW s \in db.series \union {None},
           CreateTask(l, p, s)
    PROVE  SnapshotsInv'
<1> DEFINE r == [state |-> "live", parent |-> p, list |-> l, series |-> s]
           t == NewTask
<1>1. Called /\ Kept /\ removed' = removed /\ t \in TaskIds /\ db' = WithTask(db, t, r)
  BY DEF CreateTask, Idle, Busy, Write, Count, LeavesRest, Quiet, Called, Kept, WithTask
<1>2. db \in Tables
  BY DEF SnapshotsInv, TypeOK
<1>3. r \in TaskRows
  BY <1>2 DEF TaskRows, Tables, Lists, Present
<1>4. /\ r.state # "none" /\ r.parent \in Present(db) \union {None}
      /\ r.list \in Lists(db) \union {None} /\ r.series \in db.series \union {None}
  OBVIOUS
<1> HIDE DEF r, t
<1>5. db' \in Tables
  BY <1>1, <1>2, <1>3, TaskWritten
<1>6. ~removed' => ValidReferences(db')
  BY <1>1, <1>2, <1>3, <1>4, FoundReferencesHold DEF SnapshotsInv, ReferencesInv
<1> QED BY <1>1, <1>5, <1>6, CallKeeps

(* A row that changes its state keeps its references.                      *)
LEMMA StateKeepsReferences ==
    ASSUME NEW d \in Tables, NEW t \in TaskIds, NEW s \in {"live", "trash"}, d.tasks[t].state # "none",
           ValidReferences(d)
    PROVE  ValidReferences(WithTask(d, t, InState(d.tasks[t], s)))
<1> DEFINE r == InState(d.tasks[t], s)
<1>1. /\ r \in TaskRows /\ r.state = s /\ r.parent = d.tasks[t].parent
      /\ r.list = d.tasks[t].list /\ r.series = d.tasks[t].series
  BY StateWritten
<1> HIDE DEF r
<1>2. t \in Present(d)
  BY DEF Present
<1>3. /\ r.state # "none" /\ r.parent \in Present(d) \union {None}
      /\ r.list \in Lists(d) \union {None} /\ r.series \in d.series \union {None}
  BY <1>1, <1>2 DEF ValidReferences
<1>4. ValidReferences(WithTask(d, t, r))
  BY <1>1, <1>3, FoundReferencesHold
<1> QED BY <1>4 DEF r

LEMMA StateKeeps ==
    ASSUME SnapshotsAssumption, SnapshotsInv, NEW t \in TaskIds, TrashTask(t) \/ UntrashTask(t)
    PROVE  SnapshotsInv'
<1>1. PICK s \in {"live", "trash"} :
          /\ Called /\ Kept /\ removed' = removed /\ db.tasks[t].state # "none"
          /\ db' = WithState(db, t, s)
  BY DEF WithState, TrashTask, UntrashTask, Idle, Busy, Write, Count, LeavesRest, Quiet, Called, Kept
<1>2. db \in Tables
  BY DEF SnapshotsInv, TypeOK
<1>3. InState(db.tasks[t], s) \in TaskRows /\ db' = WithTask(db, t, InState(db.tasks[t], s))
  BY <1>1, <1>2, StateWritten
<1>4. db' \in Tables
  BY <1>2, <1>3, TaskWritten
<1>5. ~removed' => ValidReferences(db')
  BY <1>1, <1>2, <1>3, StateKeepsReferences DEF SnapshotsInv, ReferencesInv
<1> QED BY <1>1, <1>4, <1>5, CallKeeps

LEMMA PurgeKeeps ==
    ASSUME SnapshotsAssumption, SnapshotsInv, NEW t \in TaskIds, PurgeTask(t)
    PROVE  SnapshotsInv'
<1>1. Called /\ Kept /\ removed' = TRUE /\ db' = WithTask(db, t, NoRow)
  BY DEF PurgeTask, Idle, Busy, Write, Count, LeavesRest, Quiet, Called, Kept, WithTask
<1>2. db \in Tables /\ NoRow \in TaskRows
  BY DEF SnapshotsInv, TypeOK, TaskRows
<1>3. db' \in Tables
  BY <1>1, <1>2, TaskWritten
<1> QED BY <1>1, <1>3, CallKeeps

(* Lists, tabs and series.                                                 *)
LEMMA CreateListKeeps ==
    ASSUME SnapshotsAssumption, SnapshotsInv, NEW tab \in db.tabs, CreateList(tab)
    PROVE  SnapshotsInv'
<1> DEFINE l == NewList
<1>1. Called /\ Kept /\ removed' = removed /\ l \in ListIds /\ db' = WithList(db, l, tab)
  BY DEF CreateList, Idle, Busy, Write, Count, LeavesRest, Quiet, Called, Kept, WithList
<1> HIDE DEF l
<1>2. db \in Tables /\ tab \in TabIds /\ tab # None
  BY DEF SnapshotsInv, TypeOK, Tables, SnapshotsAssumption, TabIds
<1>3. /\ db' \in Tables /\ db'.tasks = db.tasks /\ db'.tabs = db.tabs /\ db'.series = db.series
      /\ \A u \in ListIds : db'.lists[u] = IF u = l THEN tab ELSE db.lists[u]
  BY <1>1, <1>2, ListWritten
<1>4. ASSUME ValidReferences(db) PROVE ValidReferences(db')
  <2>1. Present(db') = Present(db) /\ Lists(db) \subseteq Lists(db')
    BY <1>2, <1>3 DEF Present, Lists
  <2>2. \A u \in Lists(db') : db'.lists[u] \in db'.tabs
    BY <1>3, <1>4 DEF Lists, ValidReferences
  <2> QED BY <1>3, <1>4, <2>1, <2>2 DEF ValidReferences
<1> QED BY <1>1, <1>3, <1>4, CallKeeps DEF SnapshotsInv, ReferencesInv

LEMMA CreateTabKeeps ==
    ASSUME SnapshotsAssumption, SnapshotsInv, CreateTab
    PROVE  SnapshotsInv'
<1> DEFINE S == db.tabs \union {NewTab}
<1>1. Called /\ Kept /\ removed' = removed /\ NewTab \in TabIds /\ db' = WithTabs(db, S)
  BY DEF CreateTab, Idle, Busy, Write, Count, LeavesRest, Quiet, Called, Kept, WithTabs
<1>2. db \in Tables /\ S \in SUBSET TabIds /\ db.tabs \subseteq S
  BY <1>1 DEF SnapshotsInv, TypeOK, Tables
<1> HIDE DEF S
<1>3. /\ db' \in Tables /\ db'.tasks = db.tasks /\ db'.lists = db.lists
      /\ db'.series = db.series /\ db'.tabs = S
  BY <1>1, <1>2, TabsWritten
<1>4. ASSUME ValidReferences(db) PROVE ValidReferences(db')
  <2>1. Present(db') = Present(db) /\ Lists(db') = Lists(db)
    BY <1>3 DEF Present, Lists
  <2> QED BY <1>2, <1>3, <1>4, <2>1 DEF ValidReferences
<1> QED BY <1>1, <1>3, <1>4, CallKeeps DEF SnapshotsInv, ReferencesInv

LEMMA DeleteTabKeeps ==
    ASSUME SnapshotsAssumption, SnapshotsInv, NEW tab \in db.tabs, DeleteTab(tab)
    PROVE  SnapshotsInv'
<1> DEFINE S == db.tabs \ {tab}
<1>1. Called /\ Kept /\ removed' = TRUE /\ db' = WithTabs(db, S)
  BY DEF DeleteTab, Idle, Busy, Write, Count, LeavesRest, Quiet, Called, Kept, WithTabs
<1>2. db \in Tables /\ S \in SUBSET TabIds
  BY DEF SnapshotsInv, TypeOK, Tables
<1> HIDE DEF S
<1>3. db' \in Tables
  BY <1>1, <1>2, TabsWritten
<1> QED BY <1>1, <1>3, CallKeeps

LEMMA CreateSeriesKeeps ==
    ASSUME SnapshotsAssumption, SnapshotsInv, NEW s \in SeriesIds, CreateSeries(s)
    PROVE  SnapshotsInv'
<1> DEFINE S == db.series \union {s}
<1>1. Called /\ Kept /\ removed' = removed /\ db' = WithSeries(db, S)
  BY DEF CreateSeries, Idle, Busy, Write, Count, LeavesRest, Quiet, Called, Kept, WithSeries
<1>2. db \in Tables /\ S \in SUBSET SeriesIds /\ db.series \subseteq S
  BY <1>1 DEF SnapshotsInv, TypeOK, Tables
<1> HIDE DEF S
<1>3. /\ db' \in Tables /\ db'.tasks = db.tasks /\ db'.lists = db.lists
      /\ db'.tabs = db.tabs /\ db'.series = S
  BY <1>1, <1>2, SeriesWritten
<1>4. ASSUME ValidReferences(db) PROVE ValidReferences(db')
  <2>1. Present(db') = Present(db) /\ Lists(db') = Lists(db)
    BY <1>3 DEF Present, Lists
  <2> QED BY <1>2, <1>3, <1>4, <2>1 DEF ValidReferences
<1> QED BY <1>1, <1>3, <1>4, CallKeeps DEF SnapshotsInv, ReferencesInv

LEMMA DeleteSeriesKeeps ==
    ASSUME SnapshotsAssumption, SnapshotsInv, NEW s \in SeriesIds, DeleteSeries(s)
    PROVE  SnapshotsInv'
<1> DEFINE S == db.series \ {s}
<1>1. Called /\ Kept /\ removed' = TRUE /\ db' = WithSeries(db, S)
  BY DEF DeleteSeries, Idle, Busy, Write, Count, LeavesRest, Quiet, Called, Kept, WithSeries
<1>2. db \in Tables /\ S \in SUBSET SeriesIds
  BY DEF SnapshotsInv, TypeOK, Tables
<1> HIDE DEF S
<1>3. db' \in Tables
  BY <1>1, <1>2, SeriesWritten
<1> QED BY <1>1, <1>3, CallKeeps

(* A window deletes a list: its tasks one by one, then the list.           *)
LEMMA DeleteListKeeps ==
    ASSUME SnapshotsAssumption, SnapshotsInv, NEW l \in ListIds, DeleteList(l)
    PROVE  SnapshotsInv'
<1>1. /\ Called /\ db' = db /\ removed' = removed
      /\ deleting' \in [list: ListIds, tasks: SUBSET TaskIds]
  BY DEF DeleteList, Idle, Busy, Count, LeavesRest, Quiet, Called, TasksOf
<1>2. db \in Tables /\ removed \in BOOLEAN
  BY DEF SnapshotsInv, TypeOK
<1>3. ~removed' => ValidReferences(db')
  BY <1>1 DEF SnapshotsInv, ReferencesInv
<1> QED BY <1>1, <1>2, <1>3, CallsKeep DEF Called

LEMMA RemoveNextKeeps ==
    ASSUME SnapshotsAssumption, SnapshotsInv, NEW ok \in BOOLEAN, RemoveNext(ok)
    PROVE  SnapshotsInv'
<1>1. TypeOK /\ db \in Tables /\ deleting # None /\ deleting \in [list: ListIds, tasks: SUBSET TaskIds]
  BY DEF SnapshotsInv, TypeOK, RemoveNext
<1>2. PICK t \in deleting.tasks :
          /\ deleting' = [deleting EXCEPT !.tasks = @ \ {t}]
          /\ Quiet /\ LeavesRest /\ removed' = removed /\ steps' = steps
          /\ db' = db \/ (db' = WithState(db, t, "trash") /\ db.tasks[t].state = "live")
  BY DEF RemoveNext, Busy, Write, LeavesRest, Quiet, WithState
<1>3. t \in TaskIds /\ deleting' \in [list: ListIds, tasks: SUBSET TaskIds]
  BY <1>1, <1>2
<1>4. db' \in Tables /\ (ValidReferences(db) => ValidReferences(db'))
  <2>1. CASE db' = db
    BY <1>1, <2>1
  <2>2. CASE db' = WithState(db, t, "trash") /\ db.tasks[t].state = "live"
    <3> DEFINE r == InState(db.tasks[t], "trash")
    <3>1. r \in TaskRows /\ db' = WithTask(db, t, r)
      BY <1>1, <1>3, <2>2, StateWritten
    <3>2. ValidReferences(db) => ValidReferences(WithTask(db, t, r))
      BY <1>1, <1>3, <2>2, StateKeepsReferences
    <3> HIDE DEF r
    <3> QED BY <1>1, <1>3, <3>1, <3>2, TaskWritten
  <2> QED BY <1>2, <2>1, <2>2
<1>5. removed \in BOOLEAN /\ (~removed' => ValidReferences(db'))
  BY <1>1, <1>2, <1>4 DEF SnapshotsInv, ReferencesInv, TypeOK
<1> QED BY <1>2, <1>3, <1>4, <1>5, CallsKeep

LEMMA RemoveListKeeps ==
    ASSUME SnapshotsAssumption, SnapshotsInv, RemoveList
    PROVE  SnapshotsInv'
<1> DEFINE l == deleting.list
<1>1. db \in Tables /\ l \in ListIds
  BY DEF SnapshotsInv, TypeOK, RemoveList
<1>2. /\ Quiet /\ LeavesRest /\ removed' = TRUE /\ steps' = steps /\ deleting' = None
      /\ db' = WithList(db, l, None)
  BY DEF RemoveList, Busy, Write, LeavesRest, Quiet, WithList
<1> HIDE DEF l
<1>3. db' \in Tables
  BY <1>1, <1>2, ListWritten
<1> QED BY <1>2, <1>3, CallsKeep

----------------------------------------------------------------------------
(* The export, the restore, the end of the process.                        *)

(* The type of what stays after a call, and its count.                     *)
LEMMA StepsCounted ==
    ASSUME SnapshotsAssumption, TypeOK, steps < MaxSteps, steps' = steps + 1
    PROVE  steps' \in 0 .. MaxSteps
BY DEF SnapshotsAssumption, TypeOK

LEMMA ExportKeeps ==
    ASSUME SnapshotsAssumption, SnapshotsInv, Export
    PROVE  SnapshotsInv'
<1>1. /\ exported' = db /\ steps < MaxSteps /\ steps' = steps + 1
      /\ UNCHANGED <<db, backup, restoring, forest, level, placed, deleting, removed>>
  BY DEF Export, Idle, Count, BuildSnapshot
<1>2. TypeOK'
  <2>1. TypeOK /\ steps' \in 0 .. MaxSteps
    BY <1>1, StepsCounted DEF SnapshotsInv
  <2> QED BY <1>1, <2>1 DEF TypeOK
<1>3. RestoreInv' /\ ReferencesInv'
  BY <1>1 DEF SnapshotsInv, RestoreInv, ReferencesInv
<1>4. ImportInv'
  BY <1>1 DEF SnapshotsInv, ImportInv, PlacedInv, LevelInv, RowsInv, RoomInv, Made, Done,
              Up, Below, ParentRow, NewTask
<1> QED BY <1>2, <1>3, <1>4 DEF SnapshotsInv

(* Nothing is imported, and stays so.                                      *)
LEMMA StillNoImport ==
    ASSUME SnapshotsInv, forest = <<>>, UNCHANGED <<forest, level, placed>>
    PROVE  ImportInv'
<1>1. forest' = <<>> /\ level' = {} /\ Made' = {} /\ placed' = placed /\ Made = {}
  BY DEF SnapshotsInv, RestoreInv, Made
<1>2. placed \in [{} -> TaskIds]
  BY <1>1 DEF SnapshotsInv, ImportInv, PlacedInv
<1>3. placed' \in [Made' -> TaskIds]
  BY <1>1, <1>2
<1> QED BY <1>1, <1>3, NoImport

LEMMA RestoreKeeps ==
    ASSUME SnapshotsAssumption, SnapshotsInv, NEW d \in Tables, NEW flaw \in Flaws, Restore(d, flaw)
    PROVE  SnapshotsInv'
<1>1. /\ steps < MaxSteps /\ steps' = steps + 1 /\ Quiet
      /\ UNCHANGED <<db, exported, forest, level, placed, deleting, removed>>
      /\ \/ UNCHANGED <<backup, restoring>>
         \/ /\ backup' = db /\ restoring' = [tables |-> d, flaw |-> flaw]
            /\ ValidReferences(d)
  BY DEF Restore, Idle, Busy, Count, Quiet, BuildSnapshot, Restorable
<1>2. TypeOK'
  <2>1. TypeOK /\ steps' \in 0 .. MaxSteps
    BY <1>1, StepsCounted DEF SnapshotsInv
  <2>2. CASE UNCHANGED <<backup, restoring>>
    BY <1>1, <2>1, <2>2 DEF TypeOK
  <2>3. CASE backup' = db /\ restoring' = [tables |-> d, flaw |-> flaw]
    <3>1. restoring' \in [tables: Tables, flaw: Flaws]
      BY <2>3
    <3> QED BY <1>1, <2>1, <2>3, <3>1 DEF TypeOK
  <2> QED BY <1>1, <2>2, <2>3
<1>3. RestoreInv'
  BY <1>1 DEF SnapshotsInv, RestoreInv, Quiet
<1>4. ReferencesInv'
  <2>1. ~removed' => ValidReferences(db')
    BY <1>1 DEF SnapshotsInv, ReferencesInv
  <2>2. ASSUME restoring' # None PROVE ValidReferences(restoring'.tables)
    BY <1>1, <2>2 DEF Quiet
  <2> QED BY <2>1, <2>2 DEF ReferencesInv
<1>5. ImportInv'
  BY <1>1, StillNoImport DEF Quiet
<1> QED BY <1>2, <1>3, <1>4, <1>5 DEF SnapshotsInv

(* An older document is of the same type once it is mapped forward.        *)
LEMMA MappedForward ==
    ASSUME SnapshotsAssumption, NEW d \in Tables
    PROVE  MapV1Forward(d) \in Tables
<1> DEFINE ls == [l \in ListIds |-> IF d.lists[l] = None THEN None ELSE 0]
<1>1. {0} \in SUBSET TabIds /\ ls \in [ListIds -> TabIds \union {None}]
  BY DEF SnapshotsAssumption, TabIds
<1>2. MapV1Forward(d) = [d EXCEPT !.tabs = {0}, !.lists = ls]
  BY DEF MapV1Forward
<1> HIDE DEF ls
<1> QED BY <1>1, <1>2 DEF Tables

(* The default tab is there after a restore, and no reference is lost.     *)
LEMMA LoadedTables ==
    ASSUME SnapshotsAssumption, NEW d \in Tables
    PROVE  Loaded(d) \in Tables /\ (ValidReferences(d) => ValidReferences(Loaded(d)))
<1> DEFINE S == d.tabs \union {0}
<1>1. S \in SUBSET TabIds /\ d.tabs \subseteq S
  BY DEF SnapshotsAssumption, Tables, TabIds
<1>2. Loaded(d) = WithTabs(d, S)
  BY DEF Loaded, WithTabs
<1> HIDE DEF S
<1>3. /\ Loaded(d) \in Tables /\ Loaded(d).tasks = d.tasks /\ Loaded(d).lists = d.lists
      /\ Loaded(d).series = d.series /\ Loaded(d).tabs = S
  BY <1>1, <1>2, TabsWritten
<1>4. Present(Loaded(d)) = Present(d) /\ Lists(Loaded(d)) = Lists(d)
  BY <1>3 DEF Present, Lists
<1> QED BY <1>1, <1>3, <1>4 DEF ValidReferences

LEMMA WriteAllKeeps ==
    ASSUME SnapshotsAssumption, SnapshotsInv, WriteAll
    PROVE  SnapshotsInv'
<1>1. /\ restoring # None /\ restoring' = None
      /\ (db' = db /\ removed' = removed) \/ (db' = Loaded(restoring.tables) /\ removed' = FALSE)
      /\ UNCHANGED <<backup, exported, forest, level, placed, deleting, steps>>
  BY DEF WriteAll
<1>2. TypeOK /\ restoring.tables \in Tables
  BY <1>1 DEF SnapshotsInv, TypeOK
<1>3. db' \in Tables /\ removed' \in BOOLEAN
  BY <1>1, <1>2, LoadedTables DEF TypeOK
<1>4. TypeOK'
  BY <1>1, <1>2, <1>3 DEF TypeOK
<1>5. forest = <<>> /\ RestoreInv'
  BY <1>1 DEF SnapshotsInv, RestoreInv
<1>6. ReferencesInv'
  BY <1>1, <1>2, LoadedTables DEF SnapshotsInv, ReferencesInv
<1>7. ImportInv'
  BY <1>1, <1>5, StillNoImport
<1> QED BY <1>4, <1>5, <1>6, <1>7 DEF SnapshotsInv

LEMMA CrashKeeps ==
    ASSUME SnapshotsInv, Crash
    PROVE  SnapshotsInv'
<1>1. /\ restoring' = None /\ level' = {} /\ forest' = <<>> /\ placed' = [n \in {} |-> 0]
      /\ deleting' = None /\ UNCHANGED <<db, backup, exported, removed, steps>>
  BY DEF Crash
<1>2. TypeOK'
  BY <1>1 DEF SnapshotsInv, TypeOK
<1>3. RestoreInv' /\ ReferencesInv'
  BY <1>1 DEF SnapshotsInv, RestoreInv, ReferencesInv
<1>4. ImportInv'
  BY <1>1, NoImport DEF Made
<1> QED BY <1>2, <1>3, <1>4 DEF SnapshotsInv

----------------------------------------------------------------------------
(* The import.                                                             *)

(* The nodes of a file, and the rows of one level, are counted.            *)
LEMMA NodesCounted ==
    ASSUME SnapshotsAssumption, NEW f \in Forests
    PROVE  /\ Len(f) \in Nat /\ DOMAIN f = 1 .. Len(f)
           /\ IsFiniteSet(DOMAIN f) /\ Cardinality(DOMAIN f) = Len(f)
           /\ \A n \in DOMAIN f : f[n].up \in Nat /\ f[n].up < n /\ f[n].canceled \in BOOLEAN
<1>1. f \in Seq([up: Nat, canceled: BOOLEAN]) /\ \A n \in DOMAIN f : f[n].up < n
  BY DEF SnapshotsAssumption
<1>2. Len(f) \in Nat /\ DOMAIN f = 1 .. Len(f)
  BY <1>1
<1>3. IsFiniteSet(1 .. Len(f)) /\ Cardinality(1 .. Len(f)) = Len(f)
  <2> DEFINE n == Len(f)
  <2>1. n \in Nat
    BY <1>2
  <2> HIDE DEF n
  <2>2. IsFiniteSet(1 .. n) /\ Cardinality(1 .. n) = n
    BY <2>1, FS_Interval, 1 \in Int, n \in Int
  <2> QED BY <2>2 DEF n
<1>4. \A n \in DOMAIN f : f[n] \in [up: Nat, canceled: BOOLEAN]
  <2> DEFINE A == [up: Nat, canceled: BOOLEAN]
  <2>1. f \in Seq(A)
    BY <1>1
  <2> HIDE DEF A
  <2>2. \A n \in DOMAIN f : f[n] \in A
    BY <2>1
  <2> QED BY <2>2 DEF A
<1> QED BY <1>1, <1>2, <1>3, <1>4

(* createMany gives the rows of a level ids one after the other.           *)
LEMMA BeforeCounts ==
    ASSUME NEW M \in Nat, NEW S \in SUBSET (1 .. M)
    PROVE  /\ \A n \in S : Before(S, n) \in Nat /\ Before(S, n) < Cardinality(S)
           /\ \A m, n \in S : m < n => Before(S, m) < Before(S, n)
           /\ Cardinality(S) \in Nat
<1>1. IsFiniteSet(S) /\ Cardinality(S) \in Nat
  <2>1. IsFiniteSet(1 .. M)
    BY FS_Interval, 1 \in Int, M \in Int
  <2>2. IsFiniteSet(S)
    BY <2>1, FS_Subset
  <2> QED BY <2>2, FS_CardinalityType
<1>2. ASSUME NEW A \in SUBSET S, NEW B \in SUBSET S, NEW x \in B, A \subseteq B, x \notin A
      PROVE  Cardinality(A) \in Nat /\ Cardinality(B) \in Nat /\ Cardinality(A) < Cardinality(B)
  <2>1. IsFiniteSet(A) /\ IsFiniteSet(B)
    BY <1>1, FS_Subset
  <2>2. Cardinality(A) \in Nat /\ Cardinality(B) \in Nat
    BY <2>1, FS_CardinalityType
  <2>3. Cardinality(A) <= Cardinality(B) /\ (Cardinality(A) = Cardinality(B) => A = B)
    BY <2>1, <1>2, FS_Subset
  <2>4. Cardinality(A) # Cardinality(B)
    BY <2>3, <1>2
  <2> QED BY <2>2, <2>3, <2>4
<1>3. ASSUME NEW n \in S PROVE Before(S, n) \in Nat /\ Before(S, n) < Cardinality(S)
  <2> DEFINE A == { m \in S : m < n }
  <2>1. A \in SUBSET S /\ n \notin A /\ S \in SUBSET S /\ A \subseteq S
    OBVIOUS
  <2>2. Before(S, n) = Cardinality(A)
    BY DEF Before
  <2> HIDE DEF A
  <2> QED BY <2>1, <2>2, <1>2
<1>4. ASSUME NEW m \in S, NEW n \in S, m < n PROVE Before(S, m) < Before(S, n)
  <2> DEFINE A == { k \in S : k < m }
             B == { k \in S : k < n }
  <2>0. \A k \in S : k \in Nat
    OBVIOUS
  <2>1. A \in SUBSET S /\ B \in SUBSET S /\ m \in B /\ m \notin A /\ A \subseteq B
    <3>1. \A k \in S : k < m => k < n
      BY <2>0, <1>4
    <3>2. ~(m < m)
      BY <2>0
    <3>3. A \subseteq B
      BY <3>1
    <3>4. m \in B /\ m \notin A
      BY <3>2, <1>4
    <3> QED BY <3>3, <3>4
  <2>2. Before(S, m) = Cardinality(A) /\ Before(S, n) = Cardinality(B)
    BY DEF Before
  <2> HIDE DEF A, B
  <2> QED BY <2>1, <2>2, <1>2
<1> QED BY <1>1, <1>3, <1>4

LEMMA StartImportKeeps ==
    ASSUME SnapshotsAssumption, SnapshotsInv, NEW f \in Forests, StartImport(f)
    PROVE  SnapshotsInv'
<1>1. /\ Quiet /\ steps < MaxSteps /\ steps' = steps + 1 /\ NewTask + Len(f) - 1 \in TaskIds
      /\ forest' = f /\ level' = Roots(f) /\ placed' = [n \in {} |-> 0]
      /\ UNCHANGED <<db, backup, exported, restoring, deleting, removed>>
  BY DEF StartImport, Idle, Busy, Count, Quiet
<1>2. Roots(f) \subseteq DOMAIN f /\ Made' = {} /\ Done' = {}
  BY <1>1 DEF Roots, Made, Done
<1>3. TypeOK'
  <2>1. TypeOK /\ steps' \in 0 .. MaxSteps
    BY <1>1, StepsCounted DEF SnapshotsInv
  <2> QED BY <1>1, <1>2, <2>1 DEF TypeOK, Made
<1>4. RestoreInv' /\ ReferencesInv'
  <2>1. f = <<>> => Roots(f) = {}
    BY DEF Roots
  <2> QED BY <1>1, <1>2, <2>1 DEF SnapshotsInv, RestoreInv, ReferencesInv, Quiet, Made
<1>5. PlacedInv'
  <2>1. placed' \in [{} -> Present(db)']
    BY <1>1
  <2> QED BY <1>2, <2>1 DEF PlacedInv
<1>6. LevelInv'
  <2>1. \A n \in level' : Up(n)' = 0
    BY <1>1 DEF Roots, Up
  <2>2. Below(Done)' = {}
    BY <1>2 DEF Below
  <2>3. Roots(forest)' = level'
    BY <1>1 DEF Roots
  <2> QED BY <1>2, <2>1, <2>2, <2>3 DEF LevelInv
<1>7. RowsInv'
  BY <1>2 DEF RowsInv
<1>8. RoomInv'
  <2>1. NewTask' = NewTask /\ NewTask \in Nat
    BY <1>1, NewTaskAbove DEF NewTask
  <2>2. Cardinality(DOMAIN forest \ Made)' = Len(f) /\ Len(f) \in Nat
    <3>1. (DOMAIN forest \ Made)' = DOMAIN f
      BY <1>1, <1>2
    <3> QED BY <3>1, NodesCounted
  <2>3. NewTask - 1 + Len(f) <= MaxTask
    BY <1>1, <2>1, <2>2 DEF TaskIds, SnapshotsAssumption
  <2> QED BY <2>1, <2>2, <2>3 DEF RoomInv
<1> QED BY <1>3, <1>4, <1>5, <1>6, <1>7, <1>8 DEF SnapshotsInv, ImportInv

LEMMA FinishImportKeeps ==
    ASSUME SnapshotsInv, FinishImport
    PROVE  SnapshotsInv'
<1>1. /\ forest' = <<>> /\ level' = {} /\ placed' = [n \in {} |-> 0] /\ forest # <<>> /\ level = {}
      /\ UNCHANGED <<db, backup, exported, restoring, deleting, removed, steps>>
  BY DEF FinishImport
<1>2. TypeOK'
  BY <1>1 DEF SnapshotsInv, TypeOK
<1>3. RestoreInv' /\ ReferencesInv'
  BY <1>1 DEF SnapshotsInv, RestoreInv, ReferencesInv
<1>4. ImportInv'
  BY <1>1, NoImport DEF Made
<1> QED BY <1>2, <1>3, <1>4 DEF SnapshotsInv

(* What an import at work has to go by.                                    *)
LEMMA ImportAtWork ==
    ASSUME SnapshotsAssumption, SnapshotsInv, level # {}
    PROVE  /\ forest \in Forests /\ forest # <<>> /\ restoring = None
           /\ db \in Tables /\ level \subseteq DOMAIN forest /\ Made \subseteq DOMAIN forest
           /\ DOMAIN forest \subseteq Nat \ {0}
           /\ \A n \in DOMAIN forest : Up(n) \in Nat /\ Up(n) < n
<1>1. forest \in Forests /\ forest # <<>>
  <2>1. forest \in Forests \union {<<>>} /\ level \subseteq DOMAIN forest
    BY DEF SnapshotsInv, TypeOK
  <2>2. forest # <<>>
    BY <2>1
  <2> QED BY <2>1, <2>2
<1>2. DOMAIN forest \subseteq Nat \ {0} /\ \A n \in DOMAIN forest : Up(n) \in Nat /\ Up(n) < n
  BY <1>1, NodesCounted DEF Up
<1> QED BY <1>1, <1>2 DEF SnapshotsInv, TypeOK, RestoreInv, Made

(* The ids the rows of the next level get: new, one for each node.         *)
Id(n) == NewTask + Before(level, n)

LEMMA LevelIds ==
    ASSUME SnapshotsAssumption, SnapshotsInv, level # {}, level \intersect Made = {}
    PROVE  /\ \A n \in level : Id(n) \in TaskIds /\ Id(n) \notin Present(db)
           /\ \A m, n \in level : Id(m) = Id(n) => m = n
           /\ \A n \in level : Id(n) <= NewTask + Cardinality(level) - 1
           /\ Cardinality(level) \in Nat
           /\ Cardinality(DOMAIN forest \ (Made \union level))
                = Cardinality(DOMAIN forest \ Made) - Cardinality(level)
           /\ Cardinality(DOMAIN forest \ Made) \in Nat
           /\ NewTask - 1 + Cardinality(DOMAIN forest \ Made) <= MaxTask
<1> DEFINE L == level
           U == DOMAIN forest \ Made
           k == NewTask
           c == Cardinality(L)
<1>1. forest \in Forests /\ forest # <<>> /\ L \in SUBSET DOMAIN forest
  BY ImportAtWork
<1>2. Len(forest) \in Nat /\ DOMAIN forest = 1 .. Len(forest) /\ IsFiniteSet(DOMAIN forest)
  BY <1>1, NodesCounted
<1>3. k \in Nat \ {0} /\ \A t \in Present(db) : t \in TaskIds /\ t < k
  BY NewTaskAbove
<1>4. /\ \A n \in L : Before(L, n) \in Nat /\ Before(L, n) < c
      /\ \A m, n \in L : m < n => Before(L, m) < Before(L, n)
      /\ c \in Nat
  <2>1. L \in SUBSET (1 .. Len(forest))
    BY <1>1, <1>2
  <2> HIDE DEF L
  <2> QED BY <1>2, <2>1, BeforeCounts
<1>5. IsFiniteSet(U) /\ L \in SUBSET U
  <2>1. U \in SUBSET DOMAIN forest
    OBVIOUS
  <2> QED BY <1>1, <1>2, <2>1, FS_Subset
<1>6. Cardinality(U) \in Nat /\ Cardinality(U \ L) = Cardinality(U) - c /\ c <= Cardinality(U)
  <2>1. U \intersect L = L
    BY <1>5
  <2> HIDE DEF U, L
  <2>2. IsFiniteSet(L) /\ c <= Cardinality(U)
    BY <1>5, FS_Subset
  <2>3. Cardinality(U \ L) = Cardinality(U) - Cardinality(U \intersect L)
    BY <1>5, <2>2, FS_Difference
  <2> QED BY <1>5, <2>1, <2>2, <2>3, FS_CardinalityType
<1>7. k - 1 + Cardinality(U) <= MaxTask
  BY <1>1 DEF SnapshotsInv, ImportInv, RoomInv
<1>8. U \ L = DOMAIN forest \ (Made \union level)
  OBVIOUS
<1>9. \A n \in level : Id(n) = k + Before(L, n)
  BY DEF Id
<1> HIDE DEF k, c, U
<1>10. ASSUME NEW n \in level PROVE Id(n) \in TaskIds /\ Id(n) \notin Present(db) /\ Id(n) <= k + c - 1
  <2> DEFINE b == Before(L, n)
  <2>1. b \in Nat /\ b < c /\ Id(n) = k + b
    BY <1>4, <1>9
  <2> HIDE DEF b
  <2>2. Id(n) <= MaxTask /\ Id(n) >= k /\ Id(n) \in Nat /\ Id(n) >= 1 /\ Id(n) <= k + c - 1
    BY <2>1, <1>3, <1>4, <1>6, <1>7 DEF SnapshotsAssumption
  <2>3. Id(n) \in TaskIds
    BY <2>2 DEF TaskIds
  <2>4. Id(n) \notin Present(db)
    BY <2>2, <1>3
  <2> QED BY <2>2, <2>3, <2>4
<1>11. ASSUME NEW m \in level, NEW n \in level, Id(m) = Id(n) PROVE m = n
  <2>1. m \in Nat /\ n \in Nat
    BY <1>1, <1>2
  <2> DEFINE a == Before(L, m)
             b == Before(L, n)
  <2>2. a \in Nat /\ b \in Nat /\ (m < n => a < b) /\ (n < m => b < a)
    BY <1>4
  <2>3. k + a = k + b
    BY <1>9, <1>11
  <2> HIDE DEF a, b
  <2> QED BY <2>1, <2>2, <2>3, <1>3
<1> QED BY <1>4, <1>6, <1>7, <1>8, <1>10, <1>11 DEF k, c, U

(* What createMany leaves: every row as it was, and one new live row for   *)
(* each node of the level, under the row of its parent.                    *)
LEMMA LevelWritten ==
    ASSUME SnapshotsAssumption, SnapshotsInv, CreateLevel
    PROVE  /\ level # {} /\ level \intersect Made = {} /\ db' \in Tables
           /\ db'.lists = db.lists /\ db'.tabs = db.tabs /\ db'.series = db.series
           /\ \A t \in TaskIds : (\A n \in level : t # Id(n)) => db'.tasks[t] = db.tasks[t]
           /\ \A n \in level : db'.tasks[Id(n)] =
                 [state |-> "live", parent |-> ParentRow(n), list |-> None, series |-> None]
           /\ Made' = Made \union level
           /\ \A n \in level : placed'[n] = Id(n)
           /\ \A n \in Made : placed'[n] = placed[n]
           /\ placed' = [n \in Made' |-> placed'[n]]
           /\ UNCHANGED <<backup, exported, restoring, forest, level, deleting, removed, steps>>
<1> DEFINE row(n) == [state |-> "live", parent |-> ParentRow(n), list |-> None, series |-> None]
           ts == [t \in TaskIds |-> IF \E n \in level : t = Id(n)
                                    THEN row(CHOOSE m \in level : t = Id(m)) ELSE db.tasks[t]]
<1>1. /\ level # {} /\ level \intersect Made = {}
      /\ placed' = [n \in Made \union level |-> IF n \in level THEN Id(n) ELSE placed[n]]
      /\ db' = [db EXCEPT !.tasks = ts]
      /\ UNCHANGED <<backup, exported, restoring, forest, level, deleting, removed, steps>>
  BY DEF CreateLevel, Made, Id
<1>2. /\ \A n \in level : Id(n) \in TaskIds
      /\ \A m, n \in level : Id(m) = Id(n) => m = n
  BY <1>1, LevelIds
<1>3. db \in Tables /\ level \subseteq DOMAIN forest /\ \A n \in DOMAIN forest : Up(n) \in Nat
  BY <1>1, ImportAtWork
<1>4. ASSUME NEW n \in level PROVE ts[Id(n)] = row(n) /\ row(n) \in TaskRows
  <2>1. (CHOOSE m \in level : Id(n) = Id(m)) = n
    BY <1>2
  <2>2. ts[Id(n)] = row(n)
    BY <2>1, <1>2
  <2>3. ParentRow(n) \in TaskIds \union {None}
    <3>1. Up(n) = 0 \/ Up(n) \in Made
      BY DEF SnapshotsInv, ImportInv, LevelInv, Done
    <3>2. Up(n) \in Made => placed[Up(n)] \in Present(db)
      BY DEF SnapshotsInv, ImportInv, PlacedInv
    <3> QED BY <3>1, <3>2 DEF ParentRow, Present
  <2>4. row(n) \in TaskRows
    BY <2>3 DEF TaskRows
  <2> QED BY <2>2, <2>4
<1>5. \A t \in TaskIds : (\A n \in level : t # Id(n)) => ts[t] = db.tasks[t]
  OBVIOUS
<1>6. ts \in [TaskIds -> TaskRows]
  <2>1. ASSUME NEW t \in TaskIds PROVE ts[t] \in TaskRows
    <3>1. CASE \E n \in level : t = Id(n)
      BY <3>1, <1>4
    <3>2. CASE \A n \in level : t # Id(n)
      <4>1. ts[t] = db.tasks[t]
        BY <3>2, <1>5
      <4> QED BY <4>1, <1>3 DEF Tables
    <3> QED BY <3>1, <3>2
  <2> QED BY <2>1
<1> HIDE DEF ts
<1>7. /\ db' \in Tables /\ db'.tasks = ts
      /\ db'.lists = db.lists /\ db'.tabs = db.tabs /\ db'.series = db.series
  BY <1>1, <1>3, <1>6 DEF Tables
<1>8. /\ Made' = Made \union level
      /\ \A n \in level : placed'[n] = Id(n)
      /\ \A n \in Made : placed'[n] = placed[n]
      /\ placed' = [n \in Made' |-> placed'[n]]
  BY <1>1 DEF Made
<1> QED BY <1>1, <1>4, <1>5, <1>7, <1>8

LEMMA CreateLevelKeeps ==
    ASSUME SnapshotsAssumption, SnapshotsInv, CreateLevel
    PROVE  SnapshotsInv'
<1> DEFINE L == level
<1>1. /\ level # {} /\ level \intersect Made = {} /\ db' \in Tables
      /\ db'.lists = db.lists /\ db'.tabs = db.tabs /\ db'.series = db.series
      /\ Made' = Made \union level /\ placed' = [n \in Made' |-> placed'[n]]
      /\ forest' = forest /\ level' = level
      /\ UNCHANGED <<backup, exported, restoring, forest, level, deleting, removed, steps>>
  BY LevelWritten
<1>2. /\ \A n \in level : db'.tasks[Id(n)].state = "live" /\ db'.tasks[Id(n)].parent = ParentRow(n)
      /\ \A n \in level : db'.tasks[Id(n)].list = None /\ db'.tasks[Id(n)].series = None
  <2>1. \A n \in level : db'.tasks[Id(n)] =
           [state |-> "live", parent |-> ParentRow(n), list |-> None, series |-> None]
    BY LevelWritten
  <2>2. ASSUME NEW n \in level
        PROVE  /\ db'.tasks[Id(n)].state = "live" /\ db'.tasks[Id(n)].parent = ParentRow(n)
               /\ db'.tasks[Id(n)].list = None /\ db'.tasks[Id(n)].series = None
    <3> DEFINE r == db'.tasks[Id(n)]
               p == ParentRow(n)
    <3>1. r = [state |-> "live", parent |-> p, list |-> None, series |-> None]
      BY <2>1
    <3> HIDE DEF r, p
    <3>2. r.state = "live" /\ r.parent = p /\ r.list = None /\ r.series = None
      BY <3>1
    <3> QED BY <3>2 DEF r, p
  <2> QED BY <2>2
<1>3. \A t \in TaskIds : (\A n \in level : t # Id(n)) => db'.tasks[t] = db.tasks[t]
  BY LevelWritten
<1>4. (\A n \in level : placed'[n] = Id(n)) /\ \A n \in Made : placed'[n] = placed[n]
  BY LevelWritten
<1>5. /\ \A n \in level : Id(n) \in TaskIds /\ Id(n) \notin Present(db)
      /\ \A m, n \in level : Id(m) = Id(n) => m = n
  BY <1>1, LevelIds
<1>6. /\ placed \in [Made -> Present(db)] /\ \A m, n \in Made : placed[m] = placed[n] => m = n
  BY DEF SnapshotsInv, ImportInv, PlacedInv
<1>7. ASSUME NEW n \in Made
      PROVE  /\ placed[n] \in Present(db) /\ placed[n] \in TaskIds
             /\ db'.tasks[placed[n]] = db.tasks[placed[n]]
  <2>1. placed[n] \in Present(db) /\ placed[n] \in TaskIds
    BY <1>6 DEF Present
  <2>2. \A m \in level : placed[n] # Id(m)
    BY <2>1, <1>5
  <2> QED BY <2>1, <2>2, <1>3
<1>8. Present(db) \subseteq Present(db') /\ \A n \in level : Id(n) \in Present(db')
  <2>1. \A n \in level : Id(n) \in Present(db')
    BY <1>2, <1>5 DEF Present
  <2>2. ASSUME NEW t \in Present(db) PROVE t \in Present(db')
    <3>1. t \in TaskIds /\ \A n \in level : t # Id(n)
      BY <1>5 DEF Present
    <3> QED BY <3>1, <1>3 DEF Present
  <2> QED BY <2>1, <2>2
<1>9. \A t \in Present(db') : t \in Present(db) \/ \E n \in level : t = Id(n)
  BY <1>3 DEF Present
<1>10. \A n \in Made \union level : Up(n) \in (Made \ level) \union {0}
  BY DEF SnapshotsInv, ImportInv, LevelInv, Done
<1>11. \A n \in Made \union level : Up(n)' = Up(n) /\ ParentRow(n)' = ParentRow(n)
  <2>1. \A n \in Made \union level : Up(n)' = Up(n)
    BY <1>1 DEF Up
  <2> QED BY <2>1, <1>4, <1>10 DEF ParentRow
<1>12. TypeOK'
  <2>1. TypeOK
    BY DEF SnapshotsInv
  <2>2. DOMAIN placed' \subseteq DOMAIN forest'
    BY <1>1, <2>1 DEF TypeOK, Made
  <2> QED BY <1>1, <2>1, <2>2 DEF TypeOK
<1>13. RestoreInv'
  <2>1. restoring = None /\ forest # <<>>
    BY <1>1, ImportAtWork
  <2> QED BY <1>1, <2>1 DEF RestoreInv
<1>14. ReferencesInv'
  <2>1. restoring' = None /\ removed' = removed
    BY <1>1, ImportAtWork
  <2>2. ASSUME ValidReferences(db) PROVE ValidReferences(db')
    <3>1. Lists(db') = Lists(db) /\ \A l \in Lists(db') : db'.lists[l] \in db'.tabs
      BY <1>1, <2>2 DEF Lists, ValidReferences
    <3>2. ASSUME NEW t \in Present(db')
          PROVE  /\ db'.tasks[t].parent \in Present(db') \union {None}
                 /\ db'.tasks[t].list \in Lists(db') \union {None}
                 /\ db'.tasks[t].series \in db'.series \union {None}
      <4>1. CASE \E n \in level : t = Id(n)
        <5>1. PICK n \in level : t = Id(n)
          BY <4>1
        <5>2. ParentRow(n) \in Present(db) \union {None}
          BY <1>7, <1>10 DEF ParentRow
        <5> QED BY <5>1, <5>2, <1>2, <1>8
      <4>2. CASE ~\E n \in level : t = Id(n)
        <5>1. t \in Present(db) /\ db'.tasks[t] = db.tasks[t]
          BY <4>2, <1>3, <1>9 DEF Present
        <5> QED BY <5>1, <3>1, <2>2, <1>1, <1>8 DEF ValidReferences
      <4> QED BY <4>1, <4>2
    <3> QED BY <3>1, <3>2 DEF ValidReferences
  <2> QED BY <2>1, <2>2 DEF SnapshotsInv, ReferencesInv
<1>15. PlacedInv'
  <2>1. \A n \in Made' : placed'[n] \in Present(db')
    BY <1>1, <1>4, <1>7, <1>8
  <2>2. \A m, n \in Made' : placed'[m] = placed'[n] => m = n
    BY <1>1, <1>4, <1>5, <1>6, <1>7
  <2>3. placed' \in [Made' -> Present(db')]
    <3> DEFINE A == Made'
               p == placed'
    <3>1. p = [n \in A |-> p[n]] /\ \A n \in A : p[n] \in Present(db')
      BY <1>1, <2>1
    <3> HIDE DEF A, p
    <3>2. p \in [A -> Present(db')]
      BY <3>1
    <3> QED BY <3>2 DEF A, p
  <2> QED BY <2>2, <2>3 DEF PlacedInv
<1>16. Done = Made /\ Done' = Made
  BY <1>1 DEF Done
<1>17. LevelInv'
  <2>1. \A n \in (Made \union level)' : Up(n)' \in (Done \union {0})'
    BY <1>1, <1>10, <1>11, <1>16
  <2>2. (Roots(forest) \union Below(Done))' = Roots(forest) \union Below(Done)
    BY <1>1, <1>16 DEF Roots, Below, Up
  <2>3. Roots(forest) \union Below(Done) \subseteq Made \union level
    BY DEF SnapshotsInv, ImportInv, LevelInv
  <2> QED BY <1>1, <2>1, <2>2, <2>3 DEF LevelInv
<1>18. RowsInv'
  <2>1. /\ \A n \in Made : db.tasks[placed[n]].parent = ParentRow(n)
        /\ \A n \in Done : db.tasks[placed[n]].state = (IF forest[n].canceled THEN "trash" ELSE "live")
    BY DEF SnapshotsInv, ImportInv, RowsInv
  <2>2. \A n \in Made' : db'.tasks[placed'[n]].parent = ParentRow(n)'
    BY <2>1, <1>1, <1>2, <1>4, <1>7, <1>11
  <2>3. \A n \in Done' : db'.tasks[placed'[n]].state = (IF forest'[n].canceled THEN "trash" ELSE "live")
    BY <2>1, <1>1, <1>4, <1>7, <1>16
  <2>4. \A n \in Made' \intersect level' : db'.tasks[placed'[n]].state = "live"
    BY <1>1, <1>2, <1>4
  <2> QED BY <2>2, <2>3, <2>4 DEF RowsInv
<1>19. RoomInv'
  <2> DEFINE k == NewTask
             j == NewTask'
             c == Cardinality(level)
             u == Cardinality(DOMAIN forest \ Made)
             v == Cardinality(DOMAIN forest \ Made)'
  <2>1. /\ c \in Nat /\ u \in Nat /\ v = u - c /\ k - 1 + u <= MaxTask
        /\ \A n \in level : Id(n) <= k + c - 1
    <3>1. (DOMAIN forest \ Made)' = DOMAIN forest \ (Made \union level)
      BY <1>1
    <3> QED BY <3>1, <1>1, LevelIds
  <2>2. k \in Nat \ {0} /\ \A t \in Present(db) : t \in TaskIds /\ t < k
    BY NewTaskAbove
  <2>3. j \in Nat /\ \A b \in Nat : (\A t \in Present(db') : t <= b) => j <= b + 1
    BY NextTaskAbove
  <2> HIDE DEF k, j, c, u, v
  <2>4. \A t \in Present(db') : t <= k + c - 1
    BY <1>9, <2>1, <2>2 DEF TaskIds
  <2>5. k + c - 1 \in Nat
    BY <2>1, <2>2
  <2>6. j <= k + c
    BY <2>3, <2>4, <2>5, <2>1, <2>2
  <2>7. j - 1 + v <= MaxTask
    BY <2>1, <2>2, <2>3, <2>6 DEF SnapshotsAssumption
  <2> QED BY <2>7 DEF RoomInv, j, v
<1> QED BY <1>12, <1>13, <1>14, <1>15, <1>17, <1>18, <1>19 DEF SnapshotsInv, ImportInv

(* A canceled row of the level at work goes to the trash.                  *)
LEMMA CanceledWritten ==
    ASSUME SnapshotsAssumption, SnapshotsInv, CancelRow
    PROVE  \E n \in Made \intersect level :
             /\ forest[n].canceled /\ placed[n] \in TaskIds /\ db \in Tables /\ db' \in Tables
             /\ \A u \in TaskIds : u # placed[n] => db'.tasks[u] = db.tasks[u]
             /\ db'.tasks[placed[n]].state = "trash"
             /\ db'.tasks[placed[n]].parent = db.tasks[placed[n]].parent
             /\ Present(db') = Present(db)
             /\ ValidReferences(db) => ValidReferences(db')
<1>1. PICK n \in Canceled : db' = WithState(db, placed[n], "trash")
  BY DEF CancelRow, WithState
<1>2. /\ level \subseteq Made /\ n \in Made \intersect level /\ forest[n].canceled
      /\ db.tasks[placed[n]].state # "none"
  BY <1>1 DEF CancelRow, Canceled, Made
<1>3. db \in Tables /\ placed[n] \in TaskIds
  BY <1>2 DEF SnapshotsInv, TypeOK, ImportInv, PlacedInv, Present
<1> DEFINE t == placed[n]
           r == InState(db.tasks[t], "trash")
<1>4. /\ r \in TaskRows /\ r.state = "trash" /\ r.parent = db.tasks[t].parent
      /\ db' = WithTask(db, t, r)
  BY <1>1, <1>2, <1>3, StateWritten
<1>5. ValidReferences(db) => ValidReferences(db')
  BY <1>2, <1>3, <1>4, StateKeepsReferences
<1> HIDE DEF t, r
<1>6. t \in TaskIds
  BY <1>3 DEF t
<1>7. /\ db' \in Tables /\ \A u \in TaskIds : db'.tasks[u] = IF u = t THEN r ELSE db.tasks[u]
  BY <1>3, <1>4, <1>6, TaskWritten
<1>8. Present(db') = Present(db)
  BY <1>2, <1>4, <1>7 DEF Present, t
<1> QED BY <1>2, <1>3, <1>4, <1>5, <1>6, <1>7, <1>8 DEF t

LEMMA CancelRowKeeps ==
    ASSUME SnapshotsAssumption, SnapshotsInv, CancelRow
    PROVE  SnapshotsInv'
<1>1. PICK n \in Made \intersect level :
             /\ forest[n].canceled /\ placed[n] \in TaskIds /\ db \in Tables /\ db' \in Tables
             /\ \A u \in TaskIds : u # placed[n] => db'.tasks[u] = db.tasks[u]
             /\ db'.tasks[placed[n]].state = "trash"
             /\ db'.tasks[placed[n]].parent = db.tasks[placed[n]].parent
             /\ Present(db') = Present(db)
             /\ ValidReferences(db) => ValidReferences(db')
  BY CanceledWritten
<1>2. UNCHANGED <<backup, exported, restoring, forest, level, placed, deleting, removed, steps>>
  BY DEF CancelRow
<1>3. restoring = None /\ forest # <<>>
  BY ImportAtWork
<1>4. TypeOK'
  BY <1>1, <1>2 DEF SnapshotsInv, TypeOK
<1>5. RestoreInv'
  BY <1>2, <1>3 DEF RestoreInv
<1>6. ReferencesInv'
  BY <1>1, <1>2, <1>3 DEF SnapshotsInv, ReferencesInv
<1>7. /\ Made' = Made /\ Done' = Done /\ Roots(forest)' = Roots(forest)
      /\ Below(Done)' = Below(Done) /\ NewTask' = NewTask
  BY <1>1, <1>2 DEF Made, Done, Roots, Below, Up, NewTask
<1>8. PlacedInv' /\ LevelInv' /\ RoomInv'
  BY <1>1, <1>2, <1>7 DEF SnapshotsInv, ImportInv, PlacedInv, LevelInv, RoomInv, Up
<1>9. RowsInv'
  <2>1. /\ \A m \in Made : placed[m] \in TaskIds /\ (placed[m] = placed[n] => m = n)
        /\ n \notin Done
    BY DEF SnapshotsInv, ImportInv, PlacedInv, Present, Done
  <2>2. ASSUME NEW m \in Made, m # n PROVE db'.tasks[placed[m]] = db.tasks[placed[m]]
    BY <1>1, <2>1, <2>2
  <2>3. \A m \in Made : db'.tasks[placed[m]].parent = ParentRow(m)
    BY <1>1, <2>2 DEF SnapshotsInv, ImportInv, RowsInv
  <2>4. \A m \in Made : ParentRow(m)' = ParentRow(m)
    BY <1>2 DEF ParentRow, Up
  <2>5. \A m \in Done : db'.tasks[placed[m]].state = (IF forest[m].canceled THEN "trash" ELSE "live")
    BY <2>1, <2>2 DEF SnapshotsInv, ImportInv, RowsInv, Done
  <2>6. \A m \in Made \intersect level :
          db'.tasks[placed[m]].state \in {"live"} \union (IF forest[m].canceled THEN {"trash"} ELSE {})
    BY <1>1, <2>2 DEF SnapshotsInv, ImportInv, RowsInv
  <2> QED BY <1>2, <1>7, <2>3, <2>4, <2>5, <2>6 DEF RowsInv
<1> QED BY <1>4, <1>5, <1>6, <1>8, <1>9 DEF SnapshotsInv, ImportInv

(* With every canceled row of the level in the trash, the rows below come  *)
(* next.                                                                   *)
LEMMA NextLevelKeeps ==
    ASSUME SnapshotsAssumption, SnapshotsInv, NextLevel
    PROVE  SnapshotsInv'
<1>1. /\ level # {} /\ level \subseteq Made /\ Canceled = {} /\ level' = Below(level)
      /\ UNCHANGED <<db, backup, exported, restoring, forest, placed, deleting, removed, steps>>
  BY DEF NextLevel, Made
<1>4. \A n \in Made : Up(n) \in Done \union {0}
  BY DEF SnapshotsInv, ImportInv, LevelInv
<1>5. Roots(forest) \union Below(Done) \subseteq Made
  BY <1>1 DEF SnapshotsInv, ImportInv, LevelInv
<1>7. Made' = Made /\ Roots(forest)' = Roots(forest) /\ Below(level) \subseteq DOMAIN forest
  BY <1>1 DEF Made, Roots, Below
<1>8. \A n \in Below(level) : Up(n) \in level
  BY DEF Below
<1>9. 0 \notin level
  BY <1>1, ImportAtWork
<1>10. Below(level) \intersect Made = {}
  BY <1>4, <1>8, <1>9 DEF Done
<1>11. Done' = Made
  BY <1>1, <1>7, <1>10 DEF Done
<1>12. TypeOK'
  BY <1>1, <1>7 DEF SnapshotsInv, TypeOK
<1>13. RestoreInv'
  <2>1. restoring = None /\ forest # <<>>
    BY <1>1, ImportAtWork
  <2> QED BY <1>1, <2>1 DEF RestoreInv
<1>14. ReferencesInv'
  BY <1>1 DEF SnapshotsInv, ReferencesInv
<1>15. PlacedInv'
  BY <1>1, <1>7 DEF SnapshotsInv, ImportInv, PlacedInv
<1>16. \A n \in DOMAIN forest : Up(n)' = Up(n)
  BY <1>1 DEF Up
<1>17. LevelInv'
  <2>1. \A n \in Made \union Below(level) : Up(n) \in Made \union {0}
    BY <1>1, <1>4, <1>8 DEF Done
  <2>2. \A n \in (Made \union level)' : Up(n)' \in (Done \union {0})'
    <3>1. (Made \union level)' = Made \union Below(level) /\ Made \subseteq DOMAIN forest
      BY <1>1, <1>7 DEF SnapshotsInv, TypeOK, Made
    <3> QED BY <2>1, <3>1, <1>7, <1>11, <1>16
  <2>3. Below(Done)' \subseteq Made \union Below(level)
    <3>1. ASSUME NEW n \in Below(Done)' PROVE n \in Made \union Below(level)
      <4>1. n \in DOMAIN forest /\ Up(n) \in Made
        BY <1>1, <1>11, <1>16 DEF Below
      <4>2. Up(n) \in level \/ Up(n) \in Done
        BY <4>1 DEF Done
      <4> QED BY <4>1, <4>2, <1>5 DEF Below
    <3> QED BY <3>1
  <2> QED BY <1>1, <1>5, <1>7, <1>10, <2>2, <2>3 DEF LevelInv
<1>18. RowsInv'
  <2>1. /\ \A n \in Made : db.tasks[placed[n]].parent = ParentRow(n)
        /\ \A n \in Made : ParentRow(n)' = ParentRow(n)
    BY <1>1 DEF SnapshotsInv, ImportInv, RowsInv, ParentRow, Up
  <2>2. \A n \in Made : db.tasks[placed[n]].state = (IF forest[n].canceled THEN "trash" ELSE "live")
    BY <1>1 DEF SnapshotsInv, ImportInv, RowsInv, Canceled, Done
  <2>3. Made' \intersect level' = {}
    BY <1>1, <1>7, <1>10
  <2> QED BY <1>1, <1>7, <1>11, <2>1, <2>2, <2>3 DEF RowsInv
<1>19. RoomInv'
  <2>1. NewTask' = NewTask /\ (DOMAIN forest \ Made)' = DOMAIN forest \ Made
    BY <1>1, <1>7 DEF NewTask
  <2>2. RoomInv
    BY DEF SnapshotsInv, ImportInv
  <2> QED BY <1>1, <2>1, <2>2 DEF RoomInv
<1> QED BY <1>12, <1>13, <1>14, <1>15, <1>17, <1>18, <1>19 DEF SnapshotsInv, ImportInv

----------------------------------------------------------------------------
(* The invariant.                                                          *)
LEMMA InitHolds ==
    ASSUME SnapshotsAssumption, Init
    PROVE  SnapshotsInv
<1> DEFINE ts == [t \in TaskIds |-> NoRow]
           ls == [l \in ListIds |-> IF l = 0 THEN 0 ELSE None]
<1>1. /\ db = [tasks |-> ts, lists |-> ls, tabs |-> {0}, series |-> {}]
      /\ backup = None /\ exported = None /\ restoring = None
      /\ forest = <<>> /\ level = {} /\ placed = [n \in {} |-> 0]
      /\ deleting = None /\ removed = FALSE /\ steps = 0
  BY DEF Init
<1>2. 0 \in TabIds /\ MaxSteps \in Nat
  BY DEF SnapshotsAssumption, TabIds
<1>3. ts \in [TaskIds -> TaskRows] /\ \A t \in TaskIds : ts[t].state = "none"
  BY DEF TaskRows, NoRow
<1>4. ls \in [ListIds -> TabIds \union {None}] /\ \A l \in ListIds : ls[l] # None => ls[l] = 0
  BY <1>2
<1> HIDE DEF ts, ls
<1>5. db \in Tables /\ db.tasks = ts /\ db.lists = ls /\ db.tabs = {0}
  BY <1>1, <1>2, <1>3, <1>4 DEF Tables
<1>6. ValidReferences(db)
  <2>1. Present(db) = {}
    BY <1>3, <1>5 DEF Present
  <2>2. \A l \in Lists(db) : db.lists[l] \in db.tabs
    BY <1>4, <1>5 DEF Lists
  <2> QED BY <2>1, <2>2 DEF ValidReferences
<1>7. Made = {} /\ Done = {}
  BY <1>1 DEF Made, Done
<1>8. TypeOK
  <2>1. steps \in 0 .. MaxSteps
    BY <1>1, <1>2
  <2> QED BY <1>1, <1>5, <2>1 DEF TypeOK
<1>9. RestoreInv /\ ReferencesInv
  BY <1>1, <1>6 DEF RestoreInv, ReferencesInv
<1>10. ImportInv
  <2>1. placed \in [Made -> Present(db)]
    BY <1>1, <1>7
  <2>2. Roots(forest) = {} /\ Below(Done) = {}
    BY <1>1, <1>7 DEF Roots, Below
  <2> QED BY <1>1, <1>7, <2>1, <2>2 DEF ImportInv, PlacedInv, LevelInv, RowsInv, RoomInv
<1> QED BY <1>8, <1>9, <1>10 DEF SnapshotsInv

LEMMA NextKeeps ==
    ASSUME SnapshotsAssumption, SnapshotsInv, Next
    PROVE  SnapshotsInv'
<1>1. CASE \E l \in Lists(db) \union {None} : CreateTask(l, None, None)
  BY <1>1, CreateTaskKeeps
<1>2. CASE \E p \in TaskIds : db.tasks[p].state = "live" /\ CreateTask(None, p, None)
  <2>1. PICK p \in TaskIds : db.tasks[p].state = "live" /\ CreateTask(None, p, None)
    BY <1>2
  <2>2. p \in Present(db)
    BY <2>1 DEF Present
  <2> QED BY <2>1, <2>2, CreateTaskKeeps
<1>3. CASE \E s \in db.series : CreateTask(None, None, s)
  BY <1>3, CreateTaskKeeps
<1>4. CASE \E t \in TaskIds : TrashTask(t) \/ UntrashTask(t) \/ PurgeTask(t)
  BY <1>4, StateKeeps, PurgeKeeps
<1>5. CASE \E tab \in db.tabs : CreateList(tab) \/ DeleteTab(tab)
  BY <1>5, CreateListKeeps, DeleteTabKeeps
<1>6. CASE CreateTab \/ RemoveList
  BY <1>6, CreateTabKeeps, RemoveListKeeps
<1>7. CASE \E l \in ListIds : DeleteList(l)
  BY <1>7, DeleteListKeeps
<1>8. CASE \E ok \in BOOLEAN : RemoveNext(ok)
  BY <1>8, RemoveNextKeeps
<1>9. CASE \E s \in SeriesIds : CreateSeries(s) \/ DeleteSeries(s)
  BY <1>9, CreateSeriesKeeps, DeleteSeriesKeeps
<1>10. CASE Export
  BY <1>10, ExportKeeps
<1>11. CASE \E flaw \in Flaws : Restore(exported, flaw)
  <2>1. PICK flaw \in Flaws : Restore(exported, flaw)
    BY <1>11
  <2>2. exported \in Tables
    BY <2>1 DEF Restore, SnapshotsInv, TypeOK
  <2> QED BY <2>1, <2>2, RestoreKeeps
<1>12. CASE exported # None /\ Restore(MapV1Forward(exported), NoFlaw)
  <2>1. MapV1Forward(exported) \in Tables
    BY <1>12, MappedForward DEF SnapshotsInv, TypeOK
  <2>2. NoFlaw \in Flaws
    BY DEF SnapshotsAssumption
  <2> QED BY <1>12, <2>1, <2>2, RestoreKeeps
<1>13. CASE Restore(backup, NoFlaw)
  <2>1. backup \in Tables /\ NoFlaw \in Flaws
    BY <1>13 DEF Restore, SnapshotsInv, TypeOK, SnapshotsAssumption
  <2> QED BY <1>13, <2>1, RestoreKeeps
<1>14. CASE WriteAll
  BY <1>14, WriteAllKeeps
<1>15. CASE \E f \in Forests : StartImport(f)
  BY <1>15, StartImportKeeps
<1>16. CASE CreateLevel \/ CancelRow \/ NextLevel \/ FinishImport \/ Crash
  BY <1>16, CreateLevelKeeps, CancelRowKeeps, NextLevelKeeps, FinishImportKeeps, CrashKeeps
<1> QED BY <1>1, <1>2, <1>3, <1>4, <1>5, <1>6, <1>7, <1>8, <1>9, <1>10, <1>11, <1>12,
           <1>13, <1>14, <1>15, <1>16 DEF Next

LEMMA SameKeeps ==
    ASSUME SnapshotsInv, UNCHANGED vars
    PROVE  SnapshotsInv'
BY DEF SnapshotsInv, TypeOK, RestoreInv, ReferencesInv, ImportInv, PlacedInv, LevelInv, RowsInv,
       RoomInv, Made, Done, ParentRow, Up, Roots, Below, NewTask, vars

(* What the invariant says of a step and of a state.                       *)
LEMMA RestoresAreSafe ==
    ASSUME SnapshotsInv, Next \/ UNCHANGED vars
    PROVE  RestoreStep
<1> SUFFICES ASSUME restoring # None, db' # db
             PROVE  db' = Loaded(restoring.tables) /\ backup = db
  BY DEF RestoreStep
<1>1. backup = db /\ forest = <<>> /\ level = {}
  BY DEF SnapshotsInv, RestoreInv
<1>2. Busy
  BY DEF Busy
<1>3. WriteAll => db' = Loaded(restoring.tables)
  BY DEF WriteAll
<1>4. Next \/ UNCHANGED vars => WriteAll
  BY <1>1, <1>2 DEF Next, vars, Idle, CreateTask, TrashTask, UntrashTask, PurgeTask, CreateList,
       DeleteTab, CreateTab, RemoveList, DeleteList, RemoveNext, CreateSeries, DeleteSeries,
       Export, Restore, StartImport, CreateLevel, CancelRow, NextLevel, FinishImport,
       Crash
<1> QED BY <1>1, <1>3, <1>4

LEMMA ReferencesAreFound ==
    ASSUME SnapshotsInv
    PROVE  RestorableUntilDeleted
BY DEF SnapshotsInv, ReferencesInv, RestorableUntilDeleted, BuildSnapshot

(* A finished import has left nothing out: the first node without a row    *)
(* would be a root, or under one that has a row.                           *)
LEMMA NothingLeftOut ==
    ASSUME SnapshotsAssumption, SnapshotsInv, forest # <<>>, level = {}
    PROVE  Made = DOMAIN forest
<1>1. forest \in Forests /\ Made \subseteq DOMAIN forest
  BY DEF SnapshotsInv, TypeOK, Made
<1>2. DOMAIN forest \subseteq Nat /\ \A n \in DOMAIN forest : Up(n) \in Nat /\ Up(n) < n
  BY <1>1, NodesCounted DEF Up
<1>3. Roots(forest) \union Below(Made) \subseteq Made /\ \A n \in Made : Up(n) \in Made \union {0}
  BY DEF SnapshotsInv, ImportInv, LevelInv, Done
<1>4. SUFFICES ASSUME DOMAIN forest \ Made # {} PROVE FALSE
  BY <1>1
<1>5. PICK n \in DOMAIN forest \ Made : \A m \in DOMAIN forest \ Made : n <= m
  <2> DEFINE S == DOMAIN forest \ Made
  <2>1. S \subseteq Nat /\ \E k \in S : TRUE
    BY <1>2, <1>4
  <2> HIDE DEF S
  <2>2. \E k \in S : \A m \in S : k <= m
    BY <2>1, LeastNumber
  <2> QED BY <2>2 DEF S
<1>6. CASE Up(n) = 0
  BY <1>3, <1>5, <1>6 DEF Roots, Up
<1>7. CASE Up(n) \in DOMAIN forest
  <2>1. Up(n) \in Made
    BY <1>2, <1>5, <1>7
  <2> QED BY <2>1, <1>3, <1>5 DEF Below
<1>8. Up(n) = 0 \/ Up(n) \in DOMAIN forest
  BY <1>1, <1>2, <1>5, NodesCounted
<1> QED BY <1>6, <1>7, <1>8

LEMMA TreesAreKept ==
    ASSUME SnapshotsAssumption, SnapshotsInv
    PROVE  ImportKeepsTree
<1> SUFFICES ASSUME forest # <<>>
             PROVE  /\ \A n \in DOMAIN placed : db.tasks[placed[n]].parent = ParentRow(n)
                    /\ \A n \in DOMAIN placed \ level :
                          db.tasks[placed[n]].state = (IF forest[n].canceled THEN "trash" ELSE "live")
                    /\ level = {} => DOMAIN placed = DOMAIN forest
  BY DEF ImportKeepsTree
<1> QED BY NothingLeftOut DEF SnapshotsInv, ImportInv, RowsInv, Made, Done

----------------------------------------------------------------------------
(* Every row, document, backup and import at work has its type: no id is   *)
(* ever taken twice or beyond the bounds (createTask(), createMany()).     *)
THEOREM SnapshotTypes == ASSUME SnapshotsAssumption PROVE Spec => []TypeOK
<1>1. Init => SnapshotsInv
  BY InitHolds
<1>2. SnapshotsInv /\ [Next]_vars => SnapshotsInv'
  BY NextKeeps, SameKeeps
<1>3. SnapshotsInv => TypeOK
  BY DEF SnapshotsInv
<1> QED BY <1>1, <1>2, <1>3, PTL DEF Spec

(* SnapshotRestoreWriter writes all tables or none, and only after the     *)
(* backup of exactly the tables it replaces, whatever is wrong with the    *)
(* document and wherever the process dies.                                 *)
THEOREM RestoreIsSafe == ASSUME SnapshotsAssumption PROVE Spec => RestoreSafe
<1>1. Init => SnapshotsInv
  BY InitHolds
<1>2. SnapshotsInv /\ [Next]_vars => SnapshotsInv'
  BY NextKeeps, SameKeeps
<1>3. SnapshotsInv /\ [Next]_vars => [RestoreStep]_vars
  BY RestoresAreSafe
<1> QED BY <1>1, <1>2, <1>3, PTL DEF Spec, RestoreSafe

(* As long as nothing was deleted for good, an export is accepted by       *)
(* validateReferences(), after any calls, imports and restores.            *)
THEOREM ExportsRestore == ASSUME SnapshotsAssumption PROVE Spec => []RestorableUntilDeleted
<1>1. Init => SnapshotsInv
  BY InitHolds
<1>2. SnapshotsInv /\ [Next]_vars => SnapshotsInv'
  BY NextKeeps, SameKeeps
<1>3. SnapshotsInv => RestorableUntilDeleted
  BY ReferencesAreFound
<1> QED BY <1>1, <1>2, <1>3, PTL DEF Spec

(* ImportService makes of a foreign file the tree the file has, level by   *)
(* level, with no node left out and the canceled ones in the trash.        *)
THEOREM ImportsKeepTrees == ASSUME SnapshotsAssumption PROVE Spec => []ImportKeepsTree
<1>1. Init => SnapshotsInv
  BY InitHolds
<1>2. SnapshotsInv /\ [Next]_vars => SnapshotsInv'
  BY NextKeeps, SameKeeps
<1>3. SnapshotsInv => ImportKeepsTree
  BY TreesAreKept
<1> QED BY <1>1, <1>2, <1>3, PTL DEF Spec
=============================================================================
