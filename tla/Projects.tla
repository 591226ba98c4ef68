------------------------------ MODULE Projects ------------------------------
(***************************************************************************)
(* The projects modal of one browser tab (ProjectsModal.svelte and the     *)
(* hill in it, HillProgress.svelte), the stores it writes through, and the *)
(* server's project, Someday tab and list routes as it meets them.  What   *)
(* others do is seen at once: the fetch on opening and how answers and     *)
(* events cross are modelled for every store alike in EntitySync, the      *)
(* gathered home in Overview.                                              *)
(*                                                                         *)
(* A text is a number, 0 when empty; a project's tag is the name it was    *)
(* made with.  Of equal requests under way only the one is kept.           *)
(***************************************************************************)
EXTENDS Integers

CONSTANTS
    Names, Dues, Hills, \* what may be typed, picked and dragged to
    None,
    MaxRow, MaxActs, MaxOthers, MaxLost     \* bounds

VARIABLES
    project,        \* the server's rows: id -> row, or None
    items,          \* projectStore.items, by id
    tab,            \* the server's Someday tabs: id -> projectTag, or None
    tabs,           \* somedayTabStore.items: the ids it has
    lists,          \* tab -> tags its lists were made for (history)
    calls,
    selected, newForm, edit, listForm,  \* the modal; 0 is no project
    due,            \* what the date input shows
    hill,           \* HillProgress: value, focused
    born,           \* history: tags of projects that this modal made
    acts, others, lost

vars == <<project, items, tab, tabs, lists, calls, selected, newForm, edit, listForm, due, hill,
          born, acts, others, lost>>
server == <<project, tab, lists>>
stores == <<items, tabs>>
home   == <<due, hill>>
forms  == <<newForm, edit, listForm>>

Ids == 1 .. MaxRow
Row(n)  == [name |-> n, tag |-> n, hill |-> 0, due |-> 0, done |-> FALSE]
NoForm  == [shown |-> FALSE, text |-> 0, busy |-> FALSE]
NoEdit  == [id |-> 0, name |-> 0]
Call(op, id, v) == [op |-> op, id |-> id, v |-> v, list |-> 0, stage |-> "sent", back |-> {}]
FreeId(f) == IF \A id \in Ids : f[id] = None THEN 1
             ELSE 1 + CHOOSE id \in Ids : f[id] # None /\ \A k \in Ids : f[k] # None => k <= id

TypeOK ==
    /\ \A f \in {project, items} : \A id \in Ids : f[id] # None =>
          f[id].tag \in Names /\ f[id].hill \in Hills \union {0} /\ f[id].due \in Dues \union {0}
    /\ tab \in [Ids -> Names \union {None}] /\ tabs \subseteq Ids
    /\ selected \in Ids \union {0} /\ edit.id \in Ids \union {0} /\ due \in Dues \union {0}
    /\ \A f \in {newForm, listForm} : f.text \in Names \union {0} /\ f.shown \in BOOLEAN
    /\ hill.value \in Hills \union {0} /\ hill.focused \in BOOLEAN

(* Opened, maybe by a chip on one project's home; that project's tab was   *)
(* deleted when the only tab there is wears another tag.                   *)
Init ==
    /\ project = [id \in Ids |-> IF id = 1 THEN Row(1) ELSE None] /\ items = project
    /\ \E tag \in Names : tab = [id \in Ids |-> IF id = 1 THEN tag ELSE None]
    /\ tabs = {1}
    /\ lists = [id \in Ids |-> {}] /\ calls = {}
    /\ selected \in {0, 1} /\ newForm = NoForm /\ edit = NoEdit /\ listForm = NoForm
    /\ due = 0 /\ hill = [value |-> 0, focused |-> FALSE]
    /\ born = {} /\ acts = 0 /\ others = 0 /\ lost = 0

----------------------------------------------------------------------------
(* The home as it is drawn: its inputs are there while no name is edited,  *)
(* and follow the row while they are not in use.                           *)
Shows(s, rows, e) == s # 0 /\ rows[s] # None /\ e.id # s
Home == Shows(selected, items, edit)

(* Slip: a slider in use follows the row as well.                          *)
ValueFollowing(value, focused, position) == position
Value(value, focused, position)          == IF focused THEN value ELSE position

(* Slip: the input is filled when a project is opened, and no more.        *)
DueWhenOpened(old, new) == IF Home THEN due ELSE new
DueAfter(old, new)      == IF Home /\ old = new THEN due ELSE new

(* The effects of HillProgress and of the dates after a change of the      *)
(* selected project, its row or what is edited.                            *)
Redraw ==
    IF Shows(selected', items', edit')
    THEN LET row == items'[selected']
             old == IF Home THEN items[selected] ELSE row
         IN  /\ due' = DueAfter(old.due, row.due)
             /\ hill' = [focused |-> Home /\ hill.focused,
                         value |-> IF Home /\ old.hill = row.hill THEN hill.value
                                   ELSE Value(hill.value, Home /\ hill.focused, row.hill)]
    ELSE UNCHANGED due /\ hill' = [value |-> 0, focused |-> FALSE]

----------------------------------------------------------------------------
(* What the user does; a click elsewhere takes the focus off the slider.   *)
Act == acts < MaxActs /\ acts' = acts + 1 /\ UNCHANGED <<server, stores, born, others, lost>>
Click == Act /\ ~hill.focused
Ask(c) == calls' = calls \union {c}
InList == ~(selected # 0 /\ items[selected] # None)

Select(id) ==
    /\ Click /\ InList /\ items[id] # None /\ edit.id # id /\ selected' = id
    /\ UNCHANGED <<calls, forms>> /\ Redraw

BackToList == Click /\ ~InList /\ selected' = 0 /\ UNCHANGED <<calls, forms>> /\ Redraw

TypeNew(n) ==
    /\ Click /\ InList /\ newForm' = [newForm EXCEPT !.shown = TRUE, !.text = n]
    /\ UNCHANGED <<calls, selected, edit, listForm>> /\ Redraw

CreateProject ==
    /\ Click /\ InList /\ newForm.shown /\ newForm.text # 0 /\ newForm' = [newForm EXCEPT !.busy = TRUE]
    /\ Ask(Call("create", 0, newForm.text)) /\ UNCHANGED <<selected, edit, listForm>> /\ Redraw

CancelNew ==
    /\ Click /\ InList /\ newForm.shown /\ newForm' = [newForm EXCEPT !.shown = FALSE, !.text = 0]
    /\ UNCHANGED <<calls, selected, edit, listForm>> /\ Redraw

StartEdit(id) ==
    /\ Click /\ items[id] # None /\ edit.id # id /\ (InList \/ selected = id)
    /\ edit' = [id |-> id, name |-> items[id].name]
    /\ UNCHANGED <<calls, selected, newForm, listForm>> /\ Redraw

InEdit == edit.id # 0 /\ items[edit.id] # None /\ (InList \/ selected = edit.id)

TypeName(n) ==
    /\ Click /\ InEdit /\ n # edit.name /\ edit' = [edit EXCEPT !.name = n]
    /\ UNCHANGED <<calls, selected, newForm, listForm>> /\ Redraw

SaveEdit ==
    /\ Click /\ InEdit /\ edit.name # 0 /\ Ask(Call("name", edit.id, edit.name))
    /\ UNCHANGED <<selected, forms>> /\ Redraw

CancelEdit ==
    /\ Click /\ InEdit /\ edit' = NoEdit /\ UNCHANGED <<calls, selected, newForm, listForm>> /\ Redraw

(* Confirmed: nothing else can be done while the question stands.          *)
DeleteProject(id) ==
    /\ Click /\ items[id] # None /\ (InList \/ selected = id)
    /\ Ask(Call("remove", id, 0)) /\ UNCHANGED <<selected, forms>> /\ Redraw

PatchDate(d) ==
    /\ Click /\ Home /\ d # due /\ due' = d /\ Ask(Call("due", selected, d))
    /\ UNCHANGED <<selected, forms, hill>>

MarkComplete ==
    /\ Click /\ Home /\ Ask(Call("done", selected, IF items[selected].done THEN 0 ELSE 1))
    /\ UNCHANGED <<selected, forms, home>>

TypeList(n) ==
    /\ Click /\ Home /\ listForm' = [listForm EXCEPT !.shown = TRUE, !.text = n]
    /\ UNCHANGED <<calls, selected, newForm, edit, home>>

CancelAddList ==
    /\ Click /\ Home /\ listForm.shown /\ listForm' = NoForm
    /\ UNCHANGED <<calls, selected, newForm, edit, home>>

(* Slip: whichever tab there is will do.                                   *)
TabsAll(tag) == tabs

(* projectTab: the first of the tabs the store has that wears the tag.     *)
TabsOf(tag)     == {t \in tabs : tab[t] = tag}
ProjectTab(tag) ==
    IF TabsOf(tag) = {} THEN 0 ELSE CHOOSE t \in TabsOf(tag) : \A u \in TabsOf(tag) : t <= u

AddProjectList ==
    /\ Click /\ Home /\ listForm.shown /\ listForm.text # 0
    /\ LET tag == items[selected].tag
           t   == ProjectTab(tag)
       IN  Ask(IF t = 0 THEN [Call("tab", 0, tag) EXCEPT !.list = tag]
               ELSE [Call("list", t, 0) EXCEPT !.list = tag])
    /\ UNCHANGED <<selected, forms, home>>

Commits(value) == IF value = items[selected].hill THEN {} ELSE {Call("hill", selected, value)}

Drag(v) ==
    /\ Act /\ Home /\ v # hill.value /\ hill' = [value |-> v, focused |-> TRUE]
    /\ calls' = calls \union Commits(v) /\ UNCHANGED <<selected, forms, due>>

(* commit() compares with the row before the effect takes the row's value. *)
Blur ==
    /\ Act /\ Home /\ hill.focused /\ calls' = calls \union Commits(hill.value)
    /\ hill' = [value |-> items[selected].hill, focused |-> FALSE]
    /\ UNCHANGED <<selected, forms, due>>

----------------------------------------------------------------------------
(* The server.                                                             *)
Becomes(c, d) == calls' = (calls \ {c}) \union {d}
Fails(c)      == Becomes(c, [c EXCEPT !.stage = "failed"])

ServeCreate(c) ==
    LET f  == IF c.op = "create" THEN project ELSE tab
        id == FreeId(f)
    IN  /\ c.op \in {"create", "tab"} /\ id <= MaxRow
        /\ \/ /\ c.op = "create" /\ \E p \in Ids : project[p] # None /\ project[p].tag = c.v
              /\ Fails(c) /\ UNCHANGED server
           \/ /\ c.op = "create" /\ \A p \in Ids : project[p] # None => project[p].tag # c.v
              /\ project' = [project EXCEPT ![id] = Row(c.v)] /\ UNCHANGED <<tab, lists>>
              /\ Becomes(c, [c EXCEPT !.stage = "ok", !.id = id])
           \/ /\ c.op = "tab" /\ tab' = [tab EXCEPT ![id] = c.v] /\ UNCHANGED <<project, lists>>
              /\ Becomes(c, [c EXCEPT !.stage = "ok", !.id = id])

ServeList(c) ==
    /\ c.op = "list" /\ lists' = [lists EXCEPT ![c.id] = @ \union {c.list}]
    /\ Becomes(c, [c EXCEPT !.stage = "ok"]) /\ UNCHANGED <<project, tab>>

Patched(row, c) ==
    CASE c.op = "name" -> [row EXCEPT !.name = c.v]
      [] c.op = "due"  -> [row EXCEPT !.due = c.v]
      [] c.op = "hill" -> [row EXCEPT !.hill = c.v]
      [] c.op = "done" -> [row EXCEPT !.done = (c.v = 1)]

ServeUpdate(c) ==
    /\ c.op \in {"name", "due", "hill", "done", "remove"} /\ UNCHANGED <<tab, lists>>
    /\ IF project[c.id] = None THEN Fails(c) /\ UNCHANGED project
       ELSE LET row == IF c.op = "remove" THEN None ELSE Patched(project[c.id], c)
            IN  /\ project' = [project EXCEPT ![c.id] = row]
                /\ Becomes(c, [c EXCEPT !.stage = "ok", !.back = {row}])

Serve(c) ==
    /\ c.stage = "sent"
    /\ ServeCreate(c) \/ ServeList(c) \/ ServeUpdate(c)
    /\ UNCHANGED <<stores, selected, forms, home, born, acts, others, lost>>

Lose(c) ==
    /\ c.stage # "failed" /\ lost < MaxLost /\ lost' = lost + 1 /\ Fails(c)
    /\ UNCHANGED <<server, stores, selected, forms, home, born, acts, others>>

(* Another tab renames, dates or deletes a project.                        *)
Elsewhere(id) ==
    /\ others < MaxOthers /\ others' = others + 1 /\ project[id] # None
    /\ \E row \in {None} \union {[project[id] EXCEPT !.due = d] : d \in Dues}
                        \union {[project[id] EXCEPT !.hill = h] : h \in Hills} :
          /\ project' = [project EXCEPT ![id] = row]
          /\ items' = [items EXCEPT ![id] = IF @ = None THEN @ ELSE row]
    /\ UNCHANGED <<tab, tabs, lists, calls, selected, forms, born, acts, lost>> /\ Redraw

----------------------------------------------------------------------------
(* The answers.                                                            *)
Then(c, more) == calls' = (calls \ {c}) \union more
Ok(c) == c.stage = "ok"
The(c) == CHOOSE x \in c.back : TRUE

(* Slip: a project is born without its tab.                                *)
NoTabFor(c) == {}
TabFor(c)   == {Call("tab", 0, c.v)}

(* Slip: the form is emptied whatever the answer.                          *)
NewFormEmptied(c) == NoForm
NewFormAfter(c)   == IF Ok(c) THEN NoForm ELSE [newForm EXCEPT !.busy = FALSE]

Created(c) ==
    /\ c.op = "create" /\ newForm' = NewFormAfter(c)
    /\ items' = IF Ok(c) THEN [items EXCEPT ![c.id] = Row(c.v)] ELSE items
    /\ born' = IF Ok(c) THEN born \union {c.v} ELSE born
    /\ Then(c, IF Ok(c) THEN TabFor(c) ELSE {})
    /\ UNCHANGED <<tabs, selected, edit, listForm>> /\ Redraw

(* The auto-tab, or the one that addProjectList() made and goes on with.   *)
TabCreated(c) ==
    /\ c.op = "tab" /\ tabs' = IF Ok(c) THEN tabs \union {c.id} ELSE tabs
    /\ Then(c, IF Ok(c) /\ c.list # 0 THEN {[Call("list", c.id, 0) EXCEPT !.list = c.list]} ELSE {})
    /\ UNCHANGED <<items, selected, forms, home, born>>

ListCreated(c) ==
    /\ c.op = "list" /\ Then(c, {}) /\ listForm' = IF Ok(c) THEN NoForm ELSE listForm
    /\ UNCHANGED <<items, tabs, selected, newForm, edit, home, born>>

(* Slip: the answer's row is put under its id though it has gone.          *)
RowBack(c) == [items EXCEPT ![c.id] = The(c)]
RowAfter(c) == [items EXCEPT ![c.id] = IF @ = None THEN @ ELSE The(c)]

Updated(c) ==
    /\ c.op \in {"name", "due", "hill", "done"} /\ Then(c, {})
    /\ items' = IF Ok(c) THEN RowAfter(c) ELSE items
    /\ edit' = IF c.op = "name" THEN [edit EXCEPT !.id = 0] ELSE edit
    /\ UNCHANGED <<tabs, selected, newForm, listForm, born>> /\ Redraw

Removed(c) ==
    /\ c.op = "remove" /\ Then(c, {})
    /\ items' = IF Ok(c) THEN [items EXCEPT ![c.id] = None] ELSE items
    /\ selected' = IF selected = c.id THEN 0 ELSE selected
    /\ UNCHANGED <<tabs, forms, born>> /\ Redraw

Answer(c) ==
    /\ c.stage # "sent"
    /\ \/ Created(c) \/ TabCreated(c) \/ ListCreated(c) \/ Updated(c) \/ Removed(c)
    /\ UNCHANGED <<server, acts, others, lost>>

Next ==
    \/ \E id \in Ids : Select(id) \/ StartEdit(id) \/ DeleteProject(id) \/ Elsewhere(id)
    \/ \E n \in Names : TypeNew(n) \/ TypeName(n) \/ TypeList(n)
    \/ BackToList \/ CreateProject \/ CancelNew \/ SaveEdit \/ CancelEdit
    \/ \E d \in Dues \union {0} : PatchDate(d)
    \/ MarkComplete \/ CancelAddList \/ AddProjectList \/ Blur
    \/ \E v \in Hills : Drag(v)
    \/ \E c \in calls : Serve(c) \/ Answer(c) \/ Lose(c)

Spec == Init /\ [][Next]_vars

----------------------------------------------------------------------------
(* Once all is answered and nothing was lost, every project made here has  *)
(* a tab that wears its tag.                                               *)
TabBorn == calls = {} /\ lost = 0 => \A tag \in born : \E t \in Ids : tab[t] = tag

(* A list made from a project's home is under a tab of that project,       *)
(* whatever was opened, deleted or answered in between.                    *)
ListsUnderTag == \A t \in Ids, tag \in Names : tag \in lists[t] => tab[t] = tag

(* At rest the home's inputs show the row, unless a write was lost.        *)
InputsShowRow ==
    Home /\ project[selected] # None /\ calls = {} /\ lost = 0 /\ ~hill.focused =>
        due = items[selected].due /\ hill.value = items[selected].hill

(* The slider moves only under the user's hand while it is held, and a     *)
(* name being typed goes only when its project's has been saved (a step).  *)
HeldStep ==
    /\ acts' = acts /\ hill.focused /\ hill'.focused => hill'.value = hill.value
    /\ acts' = acts /\ newForm.text # 0 /\ newForm'.text = 0 =>
          \E c \in calls \ calls' : c.op = "create" /\ Ok(c)
    /\ acts' = acts /\ listForm.text # 0 /\ listForm'.text = 0 =>
          \E c \in calls \ calls' : c.op = "list" /\ Ok(c)

(* A project that was deleted elsewhere does not come back by the answer   *)
(* to a write of it (a step).                                              *)
DeletedStep ==
    \A id \in Ids : items[id] = None /\ items'[id] # None => \E c \in calls \ calls' : c.op = "create"
=============================================================================
