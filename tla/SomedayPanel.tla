---------------------------- MODULE SomedayPanel ----------------------------
(***************************************************************************)
(* SomedayPanel.svelte: its tabs and lists, the forms that add them, the   *)
(* editors that rename them, and the deletion of a list or of a tab, which *)
(* goes task by task, each its own request, while the user and other tabs  *)
(* go on.  The stores' rows are the server's here (EntitySync.tla has the  *)
(* way between them); tab 1 and list 1 are those every install starts      *)
(* with.  A name is a number, 0 the blank one.                             *)
(***************************************************************************)
EXTENDS Integers, Sequences, FiniteSetsExt

CONSTANTS
    Tabs, Lists, Tasks,     \* ids: 1 .. n
    Names,
    Filtered,               \* tasks the tag filter hides
    Homes,                  \* where the tasks may be at first: functions from Tasks to Lists
    None,
    MaxActs, MaxOthers      \* bounds

VARIABLES
    tabs,       \* tab -> name, or None
    lists,      \* list -> its tab, or None
    tasks,      \* task -> its list, Unlisted, Dated or Trash
    parked,     \* task -> the list it was last in
    filtering,  \* a filter is on
    activeTabId,
    adding,     \* the forms for a new tab and a new list: open or not, and the text
    editingTabId, editingListId, editListName,
    requests,   \* creations and renames under way
    job,        \* the deletion under way
    doomed,     \* tasks seen in what is to be deleted since the user asked
    removed,    \* tasks it removed
    exposed,    \* why a task may be left behind: see NothingLeftBehind
    acts, others

vars == <<tabs, lists, tasks, parked, filtering, activeTabId, adding, editingTabId, editingListId,
          editListName, requests, job, doomed, removed, exposed, acts, others>>
rows   == <<tabs, lists, tasks, parked>>
forms  == <<adding, editingTabId, editingListId, editListName>>
delete == <<job, doomed, removed, exposed>>

Unlisted == 0
Dated    == -1
Trash    == -2

NoJob == [stage |-> "none", kind |-> "list", id |-> 0, list |-> 0, lists |-> {}, tasks |-> {}]
Kinds == {"tab", "list"}

TypeOK ==
    /\ tabs \in [Tabs -> Names \union {None}] /\ lists \in [Lists -> Tabs \union {None}]
    /\ tasks \in [Tasks -> Lists \union {Unlisted, Dated, Trash}]
    /\ activeTabId \in Tabs /\ editingTabId \in Tabs \union {0}
    /\ editingListId \in Lists \union {0} /\ editListName \in Names \union {0}
    /\ adding \in [Kinds -> [open : BOOLEAN, text : Names \union {0}]]
    /\ job.stage \in {"none", "asked", "running"} /\ job.tasks \subseteq Tasks
    /\ doomed \subseteq Tasks /\ removed \subseteq Tasks /\ exposed \in BOOLEAN

Closed == [open |-> FALSE, text |-> 0]

Init ==
    /\ tabs \in {[t \in Tabs |-> IF t <= 2 THEN 1 ELSE None]}
    /\ lists \in {[l \in Lists |-> IF l <= 2 THEN l ELSE None]}
    /\ tasks \in Homes /\ parked = tasks /\ filtering \in BOOLEAN /\ activeTabId = 1
    /\ adding = [k \in Kinds |-> Closed]
    /\ editingTabId = 0 /\ editingListId = 0 /\ editListName = 0
    /\ requests = <<>> /\ job = NoJob /\ doomed = {} /\ removed = {}
    /\ exposed = FALSE /\ acts = 0 /\ others = 0

----------------------------------------------------------------------------
(* What the panel derives.                                                 *)
Exists(store, id) == id # 0 /\ store[id] # None

(* The tab asked for while there is one, the default tab after it.         *)
ActiveTab == IF Exists(tabs, activeTabId) THEN activeTabId ELSE 1

ActiveTabLists == {l \in Lists : lists[l] = ActiveTab}

(* Slip: the tasks of any list.                                            *)
ListTasksOfAll(l) == {t \in Tasks : tasks[t] \in Lists /\ ~(filtering /\ t \in Filtered)}

ListTasks(l) == {t \in Tasks : tasks[t] = l /\ ~(filtering /\ t \in Filtered)}

(* Enter, a click or Escape: one of the user's acts.                       *)
Act == acts < MaxActs /\ acts' = acts + 1

SwitchTab(t) ==
    /\ Exists(tabs, t) /\ t # ActiveTab /\ Act /\ activeTabId' = t
    /\ editingTabId' = 0    \* the blur of its editor
    /\ UNCHANGED <<rows, filtering, adding, editingListId, editListName, requests, delete, others>>

ToggleFilter ==
    /\ Act /\ filtering' = ~filtering
    /\ UNCHANGED <<rows, activeTabId, forms, requests, delete, others>>

(* The form opens, is typed in, and is closed by Escape, or blank and left. *)
Adding(k, form) ==
    /\ adding' = [adding EXCEPT ![k] = form] /\ Act
    /\ UNCHANGED <<rows, filtering, activeTabId, editingTabId, editingListId, editListName,
                   requests, delete, others>>

OpenForm(k)    == ~adding[k].open /\ Adding(k, [open |-> TRUE, text |-> 0])
TypeIn(k, v)   == adding[k].open /\ adding[k].text # v /\ Adding(k, [open |-> TRUE, text |-> v])
CancelForm(k)  == adding[k].open /\ Adding(k, Closed)

(* submitNewTab(), submitNewList(): the form waits for the answer.         *)
Submit(k) ==
    /\ adding[k].open /\ adding[k].text # 0 /\ Len(requests) < 2 /\ Act
    /\ requests' = Append(requests, [op |-> "create", kind |-> k, name |-> adding[k].text,
                                     id |-> ActiveTab])
    /\ UNCHANGED <<rows, filtering, activeTabId, forms, delete, others>>

(* The tab's editor: opened on the active tab, closed by Escape and blur.  *)
RenameTab(t) ==
    /\ t = ActiveTab /\ editingTabId # t /\ Act /\ editingTabId' = t
    /\ UNCHANGED <<rows, filtering, activeTabId, adding, editingListId, editListName, requests,
                   delete, others>>

CancelRenameTab ==
    /\ editingTabId # 0 /\ Act /\ editingTabId' = 0
    /\ UNCHANGED <<rows, filtering, activeTabId, adding, editingListId, editListName, requests,
                   delete, others>>

CommitRenameTab(v) ==
    /\ editingTabId # 0 /\ Exists(tabs, editingTabId) /\ Len(requests) < 2 /\ Act
    /\ requests' = Append(requests, [op |-> "rename", kind |-> "tab", name |-> v,
                                     id |-> editingTabId])
    /\ UNCHANGED <<rows, filtering, activeTabId, forms, delete, others>>

(* The list's editor: Enter, blur and the check mark commit.               *)
StartRenameList(l) ==
    /\ l \in ActiveTabLists /\ editingListId # l /\ Act
    /\ editingListId' = l /\ editListName' = 1
    /\ UNCHANGED <<rows, filtering, activeTabId, adding, editingTabId, requests, delete, others>>

TypeListName(v) ==
    /\ editingListId \in ActiveTabLists /\ editListName # v /\ Act /\ editListName' = v
    /\ UNCHANGED <<rows, filtering, activeTabId, adding, editingTabId, editingListId, requests,
                   delete, others>>

CommitRenameList ==
    /\ editingListId # 0 /\ Act
    /\ IF editListName = 0
       THEN editingListId' = 0 /\ UNCHANGED <<editListName, requests>>
       ELSE /\ Len(requests) < 2
            /\ requests' = Append(requests, [op |-> "rename", kind |-> "list",
                                             name |-> editListName, id |-> editingListId])
            /\ UNCHANGED <<editingListId, editListName>>
    /\ UNCHANGED <<rows, filtering, activeTabId, adding, editingTabId, delete, others>>

CancelRenameList ==
    /\ editingListId # 0 /\ Act /\ editingListId' = 0 /\ editListName' = 0
    /\ UNCHANGED <<rows, filtering, activeTabId, adding, editingTabId, requests, delete, others>>

----------------------------------------------------------------------------
(* What the answers do.  Ids come back when the highest is deleted.        *)
NextId(store, ids) == 1 + Max({i \in ids : store[i] # None})

Without(i) == SubSeq(requests, 1, i - 1) \o SubSeq(requests, i + 1, Len(requests))

(* A tab that is gone, or that is being deleted with the lists it had.     *)
Leaving(t) == ~Exists(tabs, t) \/ (job.stage # "none" /\ job.kind = "tab" /\ job.id = t)

(* Slip: a new tab's form is closed before the answer says it was made.    *)
FormAfterAny(r, ok) == [adding EXCEPT ![r.kind] = Closed]

FormAfter(r, ok) == IF ok THEN [adding EXCEPT ![r.kind] = Closed] ELSE adding

CreateAnswered(i, ok) ==
    LET r == requests[i]
        new == IF r.kind = "tab" THEN NextId(tabs, Tabs) ELSE NextId(lists, Lists)
    IN  /\ r.op = "create" /\ requests' = Without(i) /\ adding' = FormAfter(r, ok)
        /\ ok => new \in (IF r.kind = "tab" THEN Tabs ELSE Lists)
        /\ tabs' = IF ok /\ r.kind = "tab" THEN [tabs EXCEPT ![new] = r.name] ELSE tabs
        /\ lists' = IF ok /\ r.kind = "list" THEN [lists EXCEPT ![new] = r.id] ELSE lists
        /\ activeTabId' = IF ok /\ r.kind = "tab" THEN new ELSE activeTabId
        /\ exposed' = (exposed \/ (ok /\ r.kind = "list" /\ Leaving(r.id)))
        /\ UNCHANGED <<editingTabId, editingListId, editListName>>

(* Slip: the list's editor is closed as the tab's is, whichever it is on.  *)
ClosedByAny(r, ok) == ok /\ r.kind = "list"

(* commitRename(): "snapshot before awaiting" the list that was renamed.   *)
ClosedBy(r, ok) == ok /\ r.kind = "list" /\ editingListId = r.id

RenameAnswered(i, ok) ==
    LET r == requests[i]
        store == IF r.kind = "tab" THEN tabs ELSE lists
    IN  /\ r.op = "rename" /\ requests' = Without(i)
        /\ ok => Exists(store, r.id)
        /\ tabs' = IF ok /\ r.kind = "tab" THEN [tabs EXCEPT ![r.id] = r.name] ELSE tabs
        /\ editingTabId' = IF ok /\ r.kind = "tab" THEN 0 ELSE editingTabId
        /\ editingListId' = IF ClosedBy(r, ok) THEN 0 ELSE editingListId
        /\ editListName' = IF ClosedBy(r, ok) THEN 0 ELSE editListName
        /\ UNCHANGED <<lists, activeTabId, adding, exposed>>

(* A refusal, a request or an answer that is lost counts with the others.  *)
Answer(i) ==
    /\ \E ok \in BOOLEAN :
          /\ CreateAnswered(i, ok) \/ RenameAnswered(i, ok)
          /\ IF ok THEN UNCHANGED others
             ELSE others' = others + 1 /\ (others < MaxOthers \/ requests[i].op = "rename")
    /\ UNCHANGED <<tasks, parked, filtering, job, doomed, removed, acts>>

----------------------------------------------------------------------------
(* Slip: handleDeleteTab takes the tab before its lists.                   *)
TabFirst(j) == {}

DoomedLists(j) == j.lists

(* The filter hides tasks of the list, which its deletion leaves behind.   *)
Hides(l) == filtering /\ \E t \in Filtered : tasks[t] = l

(* handleDeleteList(), handleDeleteTab(): what is there when the user is   *)
(* asked: the list's visible tasks, the tab's lists.                       *)
HandleDelete(kind, id) ==
    /\ job.stage = "none" /\ Act
    /\ IF kind = "list" THEN id \in ActiveTabLists ELSE id = ActiveTab /\ id # 1
    /\ LET of == IF kind = "list" THEN {id} ELSE {l \in Lists : lists[l] = id}
       IN  /\ job' = [stage |-> "asked", kind |-> kind, id |-> id,
                      list |-> IF kind = "list" THEN id ELSE 0,
                      lists |-> IF kind = "list" THEN {} ELSE of,
                      tasks |-> IF kind = "list" THEN ListTasks(id) ELSE {}]
           /\ doomed' = {t \in Tasks : tasks[t] \in of}
    /\ removed' = {} /\ exposed' = (exposed \/ (kind = "list" /\ Hides(id)))
    /\ UNCHANGED <<rows, filtering, activeTabId, forms, requests, others>>

Confirm(ok) ==
    /\ job.stage = "asked" /\ job' = IF ok THEN [job EXCEPT !.stage = "running"] ELSE NoJob
    /\ UNCHANGED <<rows, filtering, activeTabId, forms, requests, doomed, removed, exposed, acts,
                   others>>

(* The loop of handleDeleteTab comes to its next list.                     *)
NextList ==
    /\ job.stage = "running" /\ job.list = 0 /\ DoomedLists(job) # {}
    /\ LET l == Min(job.lists)
       IN  /\ job' = [job EXCEPT !.list = l, !.lists = @ \ {l}, !.tasks = ListTasks(l)]
           /\ exposed' = (exposed \/ Hides(l))
    /\ UNCHANGED <<rows, filtering, activeTabId, forms, requests, doomed, removed, acts, others>>

(* One removal is answered; what fails is left, and the loop goes on.      *)
Failed == others < MaxOthers /\ others' = others + 1 /\ exposed' = TRUE

RemoveTask ==
    /\ job.stage = "running" /\ job.list # 0 /\ job.tasks # {}
    /\ LET t == Min(job.tasks)
       IN  /\ job' = [job EXCEPT !.tasks = @ \ {t}]
           /\ \/ /\ tasks[t] # Trash /\ tasks' = [tasks EXCEPT ![t] = Trash]
                 /\ removed' = removed \union {t} /\ UNCHANGED <<exposed, others>>
              \/ tasks[t] = Trash /\ UNCHANGED <<tasks, removed, exposed, others>>
              \/ Failed /\ UNCHANGED <<tasks, removed>>
    /\ UNCHANGED <<tabs, lists, parked, filtering, activeTabId, forms, requests, doomed, acts>>

RemoveList ==
    /\ job.stage = "running" /\ job.list # 0 /\ job.tasks = {}
    /\ job' = IF job.kind = "list" THEN NoJob ELSE [job EXCEPT !.list = 0]
    /\ \/ /\ lists' = [lists EXCEPT ![job.list] = None] /\ UNCHANGED others
          /\ UNCHANGED exposed
       \/ Failed /\ UNCHANGED lists
    /\ UNCHANGED <<tabs, tasks, parked, filtering, activeTabId, forms, requests, doomed, removed,
                   acts>>

RemoveTab ==
    /\ job.stage = "running" /\ job.list = 0 /\ DoomedLists(job) = {} /\ job' = NoJob
    /\ \/ tabs' = [tabs EXCEPT ![job.id] = None] /\ UNCHANGED <<exposed, others>>
       \/ Failed /\ UNCHANGED tabs
    /\ activeTabId' = IF activeTabId = job.id THEN 1 ELSE activeTabId
    /\ UNCHANGED <<lists, tasks, parked, filtering, forms, requests, doomed, removed, acts>>

(* Another tab, or a drag in this one, puts a task somewhere else; the     *)
(* tasks it puts where the loop has been are left behind.                  *)
Doomed(l) == /\ job.stage # "none"
             /\ IF job.kind = "list" THEN l = job.id ELSE l \in Lists /\ lists[l] = job.id

OtherMoves(t, to) ==
    /\ others < MaxOthers /\ others' = others + 1 /\ tasks[t] # to
    /\ tasks[t] # Trash /\ (to \in Lists => Exists(lists, to))
    /\ tasks' = [tasks EXCEPT ![t] = to] /\ parked' = [parked EXCEPT ![t] = to]
    /\ doomed' = IF Doomed(to) THEN doomed \union {t} ELSE doomed
    /\ exposed' = (exposed \/ (Doomed(to) /\ (job.kind = "list" \/ job.stage = "running")))
    /\ UNCHANGED <<tabs, lists, filtering, activeTabId, forms, requests, job, removed, acts>>

(* The trash gives a task back to the list it came from.                   *)
RestoreFromTrash(t) ==
    /\ others < MaxOthers /\ others' = others + 1 /\ tasks[t] = Trash
    /\ tasks' = [tasks EXCEPT ![t] = parked[t]] /\ exposed' = TRUE
    /\ removed' = removed \ {t}
    /\ UNCHANGED <<tabs, lists, parked, filtering, activeTabId, forms, requests, job, doomed, acts>>

Next ==
    \/ \E t \in Tabs : SwitchTab(t) \/ RenameTab(t)
    \/ ToggleFilter \/ CancelRenameTab \/ CommitRenameList \/ CancelRenameList
    \/ \E k \in Kinds : \/ OpenForm(k) \/ CancelForm(k) \/ Submit(k)
                        \/ \E v \in Names \union {0} : TypeIn(k, v)
    \/ \E v \in Names : CommitRenameTab(v)
    \/ \E l \in Lists : StartRenameList(l)
    \/ \E v \in Names \union {0} : TypeListName(v)
    \/ \E i \in DOMAIN requests : Answer(i)
    \/ \E id \in Lists : HandleDelete("list", id)
    \/ \E id \in Tabs : HandleDelete("tab", id)
    \/ \E ok \in BOOLEAN : Confirm(ok)
    \/ NextList \/ RemoveTask \/ RemoveList \/ RemoveTab
    \/ \E t \in Tasks, to \in Lists \union {Unlisted, Dated} : OtherMoves(t, to)
    \/ \E t \in Tasks : RestoreFromTrash(t)

Spec == Init /\ [][Next]_vars

----------------------------------------------------------------------------
(* A deletion, at every step of it, leaves no task in a list that is gone  *)
(* and no list in a tab that is gone, unless a filter hid the task, a      *)
(* removal failed, or the task or list was put there meanwhile.            *)
NothingLeftBehind ==
    ~exposed => /\ \A t \in Tasks : tasks[t] \in Lists => Exists(lists, tasks[t])
                /\ \A l \in Lists : lists[l] # None => Exists(tabs, lists[l])

(* A deletion removes no task that was never in what the user chose.       *)
BystandersStay == removed \subseteq doomed

(* What is typed for a new tab or list, or into a list's name, is taken    *)
(* away by the user or by an answer that says it is saved (a step).        *)
NamesKept ==
    acts' = acts =>
        /\ \A k \in Kinds : adding[k].open /\ ~adding'[k].open =>
              \E i \in DOMAIN requests : /\ requests[i].op = "create" /\ requests[i].kind = k
                                         /\ <<tabs, lists>> # <<tabs', lists'>>
        /\ editingListId # 0 /\ editingListId' # editingListId =>
              \E i \in DOMAIN requests : /\ requests[i].op = "rename"
                                         /\ requests[i].kind = "list"
                                         /\ requests[i].id = editingListId
                                         /\ Len(requests') < Len(requests)

(* "parked work is never invisible" (SomedayPanel.svelte): an undated task *)
(* is in a list that is shown, or unlisted.                                *)
ParkedIsShown == \A t \in Tasks : tasks[t] \in Lists => Exists(lists, tasks[t])

(* The tab's editor closes by its own rename, as the list's does (a step). *)
TabNameKept ==
    acts' = acts /\ editingTabId # 0 /\ editingTabId' # editingTabId =>
        \E i \in DOMAIN requests : requests[i].op = "rename" /\ requests[i].id = editingTabId
=============================================================================
