----------------------------- MODULE Snapshots -----------------------------
(***************************************************************************)
(* Export, backup, restore and import: ExportService and its snapshot, the *)
(* validation of JsonRestoreImportAdapter.ts, ImportService,               *)
(* SnapshotRestoreWriter and the backup writer, over the tables whose rows *)
(* refer to each other: tasks (parent, Someday list, series), lists (tab), *)
(* tabs, series.  Routes and client fill and empty these tables.           *)
(*                                                                         *)
(* A route runs without another in between; a crash can come between any   *)
(* two statements that are not one transaction.  0 is the seeded 'default' *)
(* tab and its list; None is a null reference.                             *)
(***************************************************************************)
EXTENDS Naturals, Sequences, FiniteSets

CONSTANTS
    None,
    MaxTask, MaxList, MaxTab, MaxSeries,  \* bounds: ids
    MaxSteps,                             \* bound: calls
    Flaws,      \* what may be wrong with a document, NoFlaw among them
    Forests     \* foreign files: a sequence of nodes [up, canceled]

VARIABLES
    db,         \* the tables
    backup,     \* the last backup file, or None
    exported,   \* what the user last downloaded, or None
    restoring,  \* what a restore is about to write, or None
    forest,     \* the foreign file being imported
    level,      \* its nodes to create next
    placed,     \* the row of each node created so far
    deleting,   \* a window at work: the list, and the rows to remove first
    removed,    \* history: something others refer to was deleted for good
    steps       \* calls made

vars == <<db, backup, exported, restoring, forest, level, placed, deleting, removed, steps>>

TaskIds == 1 .. MaxTask
ListIds == 0 .. MaxList
TabIds  == 0 .. MaxTab
SeriesIds == 1 .. MaxSeries

NoRow    == [state |-> "none", parent |-> None, list |-> None, series |-> None]
TaskRows == [state: {"live", "trash"}, parent: TaskIds \union {None},
             list: ListIds \union {None}, series: SeriesIds \union {None}] \union {NoRow}
Tables   == [tasks: [TaskIds -> TaskRows], lists: [ListIds -> TabIds \union {None}],
             tabs: SUBSET TabIds, series: SUBSET SeriesIds]

TypeOK ==
    /\ db \in Tables
    /\ backup \in Tables \union {None} /\ exported \in Tables \union {None}
    /\ restoring \in [tables: Tables, flaw: Flaws] \union {None}
    /\ forest \in Forests \union {<<>>}
    /\ level \subseteq DOMAIN forest /\ DOMAIN placed \subseteq DOMAIN forest
    /\ deleting \in [list: ListIds, tasks: SUBSET TaskIds] \union {None}
    /\ removed \in BOOLEAN /\ steps \in 0 .. MaxSteps

----------------------------------------------------------------------------
(* Validation.  A document is the tables and one flaw: a field of a row of *)
(* some kind that is null, missing, of the wrong type or the name of no    *)
(* row, rows of a kind with one id, or another version.                    *)

NoFlaw == [kind |-> "none", field |-> "none", how |-> "ok"]

Accepts(flaw, required, nullable) ==
    CASE flaw.field \in required -> flaw.how = "ok"
      [] flaw.field \in nullable -> flaw.how \in {"ok", "null", "dangling"}
      [] OTHER                   -> flaw.how # "bad"

ValidTask(flaw) ==
    Accepts(flaw, {"id", "text", "completed", "createdAt", "updatedAt", "tags",
                   "rolloverEnabled", "daysLate"},
                  {"notes", "parentId", "somedayListId", "recurringTaskId",
                   "instanceDate", "originalScheduledDate", "dependsOn"})

ValidSomedayTab(flaw)  == Accepts(flaw, {"id", "name", "position", "createdAt"}, {"projectTag"})
ValidSomedayList(flaw) == Accepts(flaw, {"id", "tabId", "name", "position", "createdAt"}, {})

ValidProject(flaw) ==
    Accepts(flaw, {"id", "name", "tag", "createdAt"},
                  {"description", "startDate", "dueDate", "completedAt"})

ValidRecurringTask(flaw) ==
    Accepts(flaw, {"id", "text", "tags", "frequency", "interval", "startDate",
                   "rolloverEnabled", "createdAt", "updatedAt"}, {"endDate"})

ValidHoliday(flaw) == Accepts(flaw, {"id", "name", "date", "createdAt"}, {})
ValidDayNote(flaw) == Accepts(flaw, {"id", "date", "notes", "createdAt", "updatedAt"}, {})

(* Keys must be there; what they hold is not looked at.                    *)
ValidUserPreferences(flaw) ==
    flaw.field \in {"theme", "locale", "someDayPanelWidth", "someDayPanelCollapsed",
        "someDayPanelLastOpenWidth", "rolloverEnabled", "rolloverTriggerTime",
        "showEmptyDays", "deleteConfirmation", "activeFilters", "tagKinds",
        "tagKindMap", "timeFormat", "updatedAt"} => flaw.how # "missing"

(* Whole tables: holidays and day notes may be missing; no kind may hold   *)
(* one id twice, notes are told apart by their date.                       *)
ValidDocument(flaw) ==
    IF flaw.kind = "document" THEN flaw.field \in {"holidays", "dayNotes"} /\ flaw.how = "missing"
    ELSE IF flaw.how = "twice"
    THEN <<flaw.kind, flaw.field>> \in {<<"dayNote", "id">>, <<"project", "tag">>}
    ELSE
    CASE flaw.kind = "task"          -> ValidTask(flaw)
      [] flaw.kind = "somedayTab"    -> ValidSomedayTab(flaw)
      [] flaw.kind = "somedayList"   -> ValidSomedayList(flaw)
      [] flaw.kind = "project"       -> ValidProject(flaw)
      [] flaw.kind = "recurringTask" -> ValidRecurringTask(flaw)
      [] flaw.kind = "holiday"       -> ValidHoliday(flaw)
      [] flaw.kind = "dayNote"       -> ValidDayNote(flaw)
      [] flaw.kind = "preferences"   -> ValidUserPreferences(flaw)
      [] OTHER                       -> flaw.how = "ok"

Present(d) == { t \in TaskIds : d.tasks[t].state # "none" }
Lists(d)   == { l \in ListIds : d.lists[l] # None }

(* dependsOn, which no call writes, is null in every table: in a document  *)
(* it can still name no row.                                               *)
ValidReferences(d) ==
    /\ \A l \in Lists(d) : d.lists[l] \in d.tabs
    /\ \A t \in Present(d) :
          /\ d.tasks[t].parent \in Present(d) \union {None}
          /\ d.tasks[t].list \in Lists(d) \union {None}
          /\ d.tasks[t].series \in d.series \union {None}

(* Version 1 had groups where lists are now: all under one tab.            *)
MapV1Forward(d) ==
    [d EXCEPT !.tabs = {0}, !.lists = [l \in ListIds |-> IF d.lists[l] = None THEN None ELSE 0]]

Restorable(d, flaw) == ValidDocument(flaw) /\ ValidReferences(d) /\ flaw.how # "dangling"

----------------------------------------------------------------------------
(* The tables.                                                             *)

Init ==
    /\ db = [tasks |-> [t \in TaskIds |-> NoRow],
             lists |-> [l \in ListIds |-> IF l = 0 THEN 0 ELSE None],
             tabs |-> {0}, series |-> {}]
    /\ backup = None /\ exported = None /\ restoring = None
    /\ forest = <<>> /\ level = {} /\ placed = [n \in {} |-> 0]
    /\ deleting = None /\ removed = FALSE /\ steps = 0

NextFree(S) == IF S = {} THEN 1 ELSE 1 + CHOOSE n \in S : \A k \in S : k <= n
NewTask == NextFree(Present(db))
NewList == NextFree(Lists(db) \ {0})
NewTab  == NextFree(db.tabs \ {0})

Busy == restoring # None \/ forest # <<>>
Idle == ~Busy /\ steps < MaxSteps
Count == steps' = steps + 1

Write(tables) ==
    /\ db' = tables
    /\ UNCHANGED <<backup, exported, restoring, forest, level, placed>>

(* POST /api/tasks with the list, parent or series its window knows of.    *)
CreateTask(list, parent, series) ==
    /\ Idle /\ Count /\ NewTask \in TaskIds
    /\ Write([db EXCEPT !.tasks[NewTask] =
                 [state |-> "live", parent |-> parent, list |-> list, series |-> series]])
    /\ UNCHANGED <<deleting, removed>>

TrashTask(t) ==
    /\ Idle /\ Count /\ db.tasks[t].state = "live"
    /\ Write([db EXCEPT !.tasks[t].state = "trash"])
    /\ UNCHANGED <<deleting, removed>>

UntrashTask(t) ==
    /\ Idle /\ Count /\ db.tasks[t].state = "trash"
    /\ Write([db EXCEPT !.tasks[t].state = "live"])
    /\ UNCHANGED <<deleting, removed>>

(* forceDelete() and the nightly purge.                                    *)
PurgeTask(t) ==
    /\ Idle /\ Count /\ db.tasks[t].state = "trash"
    /\ Write([db EXCEPT !.tasks[t] = NoRow])
    /\ removed' = TRUE
    /\ UNCHANGED deleting

CreateList(tab) ==
    /\ Idle /\ Count /\ NewList \in ListIds
    /\ Write([db EXCEPT !.lists[NewList] = tab])
    /\ UNCHANGED <<deleting, removed>>

CreateTab ==
    /\ Idle /\ Count /\ NewTab \in TabIds
    /\ Write([db EXCEPT !.tabs = @ \union {NewTab}])
    /\ UNCHANGED <<deleting, removed>>

(* handleDeleteList(): first its tasks, one by one, then the list.  A      *)
(* failed removal is not looked at.                                        *)
TasksOf(list) == { t \in TaskIds : db.tasks[t].state = "live" /\ db.tasks[t].list = list }

DeleteList(list) ==
    /\ Idle /\ Count /\ deleting = None /\ list \in Lists(db)
    /\ deleting' = [list |-> list, tasks |-> TasksOf(list)]
    /\ UNCHANGED <<db, backup, exported, restoring, forest, level, placed, removed>>

RemoveNext(ok) ==
    /\ ~Busy /\ deleting # None /\ deleting.tasks # {}
    /\ \E t \in deleting.tasks :
          /\ deleting' = [deleting EXCEPT !.tasks = @ \ {t}]
          /\ Write(IF ok /\ db.tasks[t].state = "live"
                   THEN [db EXCEPT !.tasks[t].state = "trash"] ELSE db)
    /\ UNCHANGED <<removed, steps>>

RemoveList ==
    /\ ~Busy /\ deleting # None /\ deleting.tasks = {}
    /\ Write([db EXCEPT !.lists[deleting.list] = None])
    /\ deleting' = None /\ removed' = TRUE
    /\ UNCHANGED steps

(* handleDeleteTab() does that for every list of the tab it knows of, then *)
(* the tab goes.                                                           *)
DeleteTab(tab) ==
    /\ Idle /\ Count /\ tab \in db.tabs \ {0} /\ \A l \in Lists(db) : db.lists[l] # tab
    /\ Write([db EXCEPT !.tabs = @ \ {tab}])
    /\ removed' = TRUE
    /\ UNCHANGED deleting

CreateSeries(s) ==
    /\ Idle /\ Count /\ s \notin db.series
    /\ Write([db EXCEPT !.series = @ \union {s}])
    /\ UNCHANGED <<deleting, removed>>

DeleteSeries(s) ==
    /\ Idle /\ Count /\ s \in db.series
    /\ Write([db EXCEPT !.series = @ \ {s}])
    /\ removed' = TRUE
    /\ UNCHANGED deleting

----------------------------------------------------------------------------
(* Export and restore.                                                     *)

(* Slip: only live tasks go into a snapshot.                               *)
BuildSnapshotLive ==
    [db EXCEPT !.tasks = [t \in TaskIds |-> IF db.tasks[t].state = "live" THEN db.tasks[t] ELSE NoRow]]

(* Everything, the trash included.                                         *)
BuildSnapshot == db

Export ==
    /\ Idle /\ Count
    /\ exported' = BuildSnapshot
    /\ UNCHANGED <<db, backup, restoring, forest, level, placed, deleting, removed>>

(* Parsed and validated first; then a backup of what there is.             *)
Restore(d, flaw) ==
    /\ Idle /\ Count /\ d # None
    /\ IF Restorable(d, flaw)
       THEN /\ backup' = BuildSnapshot
            /\ restoring' = [tables |-> d, flaw |-> flaw]
       ELSE UNCHANGED <<backup, restoring>>
    /\ UNCHANGED <<db, exported, forest, level, placed, deleting, removed>>

(* The default tab is put back if the document lacks it.                   *)
Loaded(d) == [d EXCEPT !.tabs = @ \union {0}]

(* Slip: the rows go in table by table, without the transaction.           *)
WriteAllSequential ==
    /\ restoring # None
    /\ restoring' = None
    /\ db' = IF restoring.flaw.how = "twice"
             THEN [Loaded(restoring.tables) EXCEPT !.series = db.series]
             ELSE Loaded(restoring.tables)
    /\ removed' = FALSE
    /\ UNCHANGED <<backup, exported, forest, level, placed, deleting, steps>>

(* One transaction over all tables: a row that breaks a constraint takes   *)
(* everything back.                                                        *)
WriteAll ==
    /\ restoring # None
    /\ restoring' = None
    /\ IF restoring.flaw.how = "twice" THEN UNCHANGED <<db, removed>>
       ELSE db' = Loaded(restoring.tables) /\ removed' = FALSE
    /\ UNCHANGED <<backup, exported, forest, level, placed, deleting, steps>>

----------------------------------------------------------------------------
(* Import: the nodes of a foreign file become rows, level by level, and    *)
(* hang under the rows of the level before; what the other program had     *)
(* canceled goes to the trash.                                             *)

Up(n)  == forest[n].up
Roots(f) == { n \in DOMAIN f : f[n].up = 0 }
Below(S) == { n \in DOMAIN forest : Up(n) \in S }

StartImport(f) ==
    /\ Idle /\ Count /\ NewTask + Len(f) - 1 \in TaskIds
    /\ forest' = f /\ level' = Roots(f) /\ placed' = [n \in {} |-> 0]
    /\ UNCHANGED <<db, backup, exported, restoring, deleting, removed>>

(* Slip: children are matched to the rows by their place in the file.      *)
ParentByPlace(n) == IF Up(n) = 0 THEN None ELSE NewTask - 1

ParentRow(n) == IF Up(n) = 0 THEN None ELSE placed[Up(n)]

(* createMany: the level's rows, in order, in one transaction.             *)
Before(S, n) == Cardinality({ m \in S : m < n })
CreateLevel ==
    /\ level # {} /\ level \intersect DOMAIN placed = {}
    /\ placed' = [n \in DOMAIN placed \union level |->
                    IF n \in level THEN NewTask + Before(level, n) ELSE placed[n]]
    /\ db' = [db EXCEPT !.tasks = [t \in TaskIds |->
                 IF \E n \in level : t = NewTask + Before(level, n)
                 THEN LET n == CHOOSE m \in level : t = NewTask + Before(level, m)
                      IN  [state |-> "live", parent |-> ParentRow(n),
                           list |-> None, series |-> None]
                 ELSE db.tasks[t]]]
    /\ UNCHANGED <<backup, exported, restoring, forest, level, deleting, removed, steps>>

(* The rows of the level that are still to be trashed go one by one, in    *)
(* order; then come their children.                                        *)
Canceled == { n \in level : forest[n].canceled /\ db.tasks[placed[n]].state = "live" }

CancelRow ==
    /\ level # {} /\ level \subseteq DOMAIN placed
    /\ \E n \in Canceled :
          /\ \A m \in Canceled : n <= m
          /\ db' = [db EXCEPT !.tasks[placed[n]].state = "trash"]
    /\ UNCHANGED <<backup, exported, restoring, forest, level, placed, deleting, removed, steps>>

NextLevel ==
    /\ level # {} /\ level \subseteq DOMAIN placed /\ Canceled = {}
    /\ level' = Below(level)
    /\ UNCHANGED <<db, backup, exported, restoring, forest, placed, deleting, removed, steps>>

(* The answer goes out.                                                    *)
FinishImport ==
    /\ forest # <<>> /\ level = {}
    /\ forest' = <<>> /\ placed' = [n \in {} |-> 0]
    /\ UNCHANGED <<db, backup, exported, restoring, level, deleting, removed, steps>>

(* The server or the window dies: rows and files stay.                     *)
Crash ==
    /\ Busy \/ deleting # None
    /\ restoring' = None /\ level' = {} /\ forest' = <<>> /\ placed' = [n \in {} |-> 0]
    /\ deleting' = None
    /\ UNCHANGED <<db, backup, exported, removed, steps>>

----------------------------------------------------------------------------
Next ==
    \/ \E l \in Lists(db) \union {None} : CreateTask(l, None, None)
    \/ \E p \in TaskIds : db.tasks[p].state = "live" /\ CreateTask(None, p, None)
    \/ \E s \in db.series : CreateTask(None, None, s)
    \/ \E t \in TaskIds : TrashTask(t) \/ UntrashTask(t) \/ PurgeTask(t)
    \/ \E tab \in db.tabs : CreateList(tab) \/ DeleteTab(tab)
    \/ CreateTab \/ RemoveList
    \/ \E l \in ListIds : DeleteList(l)
    \/ \E ok \in BOOLEAN : RemoveNext(ok)
    \/ \E s \in SeriesIds : CreateSeries(s) \/ DeleteSeries(s)
    \/ Export
    \/ \E flaw \in Flaws : Restore(exported, flaw)
    \/ exported # None /\ Restore(MapV1Forward(exported), NoFlaw)
    \/ Restore(backup, NoFlaw)
    \/ WriteAll
    \/ \E f \in Forests : StartImport(f)
    \/ CreateLevel \/ CancelRow \/ NextLevel \/ FinishImport \/ Crash

Spec == Init /\ [][Next]_vars

----------------------------------------------------------------------------
(* "All-or-nothing across every table", after a backup: whatever is wrong  *)
(* with the document and wherever the server dies, a restore leaves either *)
(* every table as it was or every table as the document says, and never    *)
(* replaces what no backup holds.                                          *)
RestoreStep ==
    restoring # None /\ db' # db => db' = Loaded(restoring.tables) /\ backup = db

RestoreSafe == [][RestoreStep]_vars

(* As long as nothing was deleted for good, what is exported can be        *)
(* restored, whatever was created, trashed, imported and restored.         *)
RestorableUntilDeleted == ~removed /\ deleting = None => ValidReferences(BuildSnapshot)

(* "so a mistaken restore is itself restorable"                            *)
(* (FilePreRestoreBackupWriter.ts:4): the backup is accepted.              *)
BackupRestorable == backup # None => Restorable(backup, NoFlaw)

(* "so nothing ever goes invisible" (docs/use/design.md): a live task      *)
(* without a date shows in its list, or is unlisted.                       *)
NothingInvisible ==
    \A t \in TaskIds : db.tasks[t].state = "live" => db.tasks[t].list \in Lists(db) \union {None}

(* Imported rows hang together as the file says, however far it got; those *)
(* of finished levels are in the trash exactly if the file has them        *)
(* canceled, and no node is left out of a finished import.                 *)
ImportKeepsTree ==
    forest # <<>> =>
        /\ \A n \in DOMAIN placed : db.tasks[placed[n]].parent = ParentRow(n)
        /\ \A n \in DOMAIN placed \ level :
              db.tasks[placed[n]].state = (IF forest[n].canceled THEN "trash" ELSE "live")
        /\ level = {} => DOMAIN placed = DOMAIN forest
=============================================================================
