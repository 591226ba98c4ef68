----------------------------- MODULE DragReorder -----------------------------
(***************************************************************************)
(* Dragging a row: dragReorder.ts (snap, plan, renumber), nndZone.ts (the  *)
(* drop zones' handlers), dragStore, the zones of DaySection.svelte and    *)
(* SomedayPanel.svelte, what a zone displays (groupTasksByDate.ts,         *)
(* filters.ts, listTasks) and taskStore.update() under each patch.         *)
(*                                                                         *)
(* A task is a number, in the order of createdAt.  A zone is <<"day", d>>  *)
(* or <<"list", l>>; list None is the Unlisted section.                    *)
(***************************************************************************)
EXTENDS Integers, Sequences, FiniteSets, SequencesExt

CONSTANTS
    Tasks, Days, Lists, None,
    Starts,     \* the rows a run starts from: sets of functions from Tasks
    MaxDrops, MaxFaults  \* bounds: drops; failed requests and moves by other tabs

VARIABLES
    rows,       \* the tab's tasks
    server,     \* the server's
    filters,    \* the tasks the active filters hide, and the sort mode
    armed,      \* the row whose grip is held
    dragging,   \* dragStore: a copy of the dragged task
    over, insert,
    requests,   \* PUTs under way: id, input, the row before the optimistic write
    promise,    \* what the last drop showed, while nothing else interfered
    drops, faults

vars == <<rows, server, filters, armed, dragging, over, insert, requests, promise, drops, faults>>

Zones == ({"day"} \X Days) \union ({"list"} \X (Lists \union {None}))

TypeOK ==
    /\ DOMAIN rows = Tasks /\ DOMAIN server = Tasks
    /\ \A t \in Tasks : rows[t].pos \in Nat \union {None} /\ rows[t].date \in Days \union {None}
    /\ filters.hidden \subseteq Tasks /\ filters.sort \in {"manual", "priority"}
    /\ over \in Zones \union {None} /\ insert \in Tasks \union {None}
    /\ armed \in Tasks \union {None} /\ (dragging # None => dragging.id \in Tasks)

----------------------------------------------------------------------------
(* What is displayed.                                                      *)
Place(r) == IF r.pos = None THEN 1000 ELSE r.pos

ByPositionThenCreated(ts) ==
    SetToSortSeq(ts, LAMBDA a, b : \/ Place(rows[a]) < Place(rows[b])
                                   \/ Place(rows[a]) = Place(rows[b]) /\ a < b)

(* applyFilters(): Tasks the filters let through.                          *)
Shown == Tasks \ filters.hidden

(* sortTasksForView(): whole blocks by their head's rank, else as they are.*)
SortTasksForView(blocks) ==
    IF filters.sort = "manual" THEN blocks
    ELSE FlattenSeq([rank \in 1 .. 4 |-> SelectSeq(blocks, LAMBDA b : rows[Head(b)].rank = rank)])

(* groupTasksByDate(): a root with its sub-tasks, whatever their date;     *)
(* then the sub-tasks whose parent is not among the rows.                  *)
Block(t) == <<t>> \o ByPositionThenCreated({c \in Shown : rows[c].parent = t})

GroupTasksByDate(key) ==
    LET of    == {t \in Shown : rows[t].date = key}
        roots == ByPositionThenCreated({t \in of : rows[t].parent = None})
        rest  == ByPositionThenCreated({t \in of : rows[t].parent \notin Shown \union {None}})
    IN  FlattenSeq(SortTasksForView([i \in 1 .. Len(roots) |-> Block(roots[i])]
                                    \o [i \in 1 .. Len(rest) |-> <<rest[i]>>]))

(* A someday list keeps each task by its own position.                     *)
ListTasks(l) == ByPositionThenCreated({t \in Shown : rows[t].date = None /\ rows[t].list = l})

Display(zone) == IF zone[1] = "day" THEN GroupTasksByDate(zone[2]) ELSE ListTasks(zone[2])

----------------------------------------------------------------------------
(* dragReorder.ts.                                                         *)
At(seq, t) == CHOOSE i \in DOMAIN seq : seq[i] = t
Has(seq, t) == \E i \in DOMAIN seq : seq[i] = t

(* Slip: a sub-task is an insertion point like any other.                  *)
SnapNot(seq, before) == IF Has(seq, before) THEN before ELSE None

SnapInsertBeforeId(seq, before) ==
    IF before = None \/ ~Has(seq, before) THEN None
    ELSE IF rows[before].parent = None THEN before
    ELSE LET out == {i \in At(seq, before) + 1 .. Len(seq) :
                        rows[seq[i]].parent # rows[before].parent}
         IN  IF out = {} THEN None
             ELSE seq[CHOOSE i \in out : \A j \in out : i <= j]

Insert(seq, t, target) ==
    InsertAt(seq, IF target = None THEN Len(seq) + 1 ELSE At(seq, target), t)

Without(seq, t) == SelectSeq(seq, LAMBDA x : x # t)

(* The zone already reads that way; the answer None.                       *)
NoOp(seq, t, target) ==
    \/ target = None /\ seq[Len(seq)] = t
    \/ target # None /\ At(seq, target) > 1 /\ seq[At(seq, target) - 1] = t

PlanDrop(seq, t, before) ==
    IF ~Has(seq, t) THEN Insert(seq, t, SnapInsertBeforeId(seq, before))
    ELSE LET target == SnapInsertBeforeId(Without(seq, t), before)
         IN  IF before = t \/ NoOp(seq, t, target) THEN None
             ELSE Insert(Without(seq, t), t, target)

(* Dense, and only where it differs: the tasks to patch.                   *)
PositionPatches(order) == {i \in DOMAIN order : rows[order[i]].pos # i - 1}

----------------------------------------------------------------------------
(* The base input of a zone's drop, from the dragged copy.                 *)
BaseInput(zone) ==
    IF zone[1] = "day" THEN [date |-> zone[2], list |-> dragging.list]
    ELSE [date |-> None, list |-> zone[2]]

Changes(t, input) ==
    {k \in DOMAIN input : CASE k = "pos" -> TRUE
                            [] OTHER -> input[k] # dragging[k]}

Patched(row, input) == [k \in DOMAIN row |-> IF k \in DOMAIN input THEN input[k] ELSE row[k]]

Only(input, ks) == [k \in ks |-> input[k]]

(* commitZoneDrop(): the input of each task it updates.                    *)
Inputs(zone, order) ==
    LET id   == dragging.id
        base == Only(BaseInput(zone), Changes(id, BaseInput(zone)))
        pos  == [t \in {order[i] : i \in PositionPatches(order)} |-> At(order, t) - 1]
        all  == [t \in DOMAIN pos \union {id} |->
                    LET p == IF t \in DOMAIN pos THEN [k \in {"pos"} |-> pos[t]]
                             ELSE [k \in {} |-> None]
                    IN  IF t = id THEN [k \in DOMAIN p \union DOMAIN base |->
                                            IF k = "pos" THEN p[k] ELSE base[k]]
                        ELSE p]
    IN  [t \in {x \in DOMAIN all : DOMAIN all[x] # {}} |-> all[t]]

(* Another tab moved the task while it was dragged: BaseInput() compares   *)
(* with a zone it has left.                                                *)
Stale == dragging.date # rows[dragging.id].date \/ dragging.list # rows[dragging.id].list

----------------------------------------------------------------------------
Idle == dragging' = None /\ over' = None /\ insert' = None

Init ==
    /\ rows \in Starts /\ server = rows
    /\ filters \in [hidden : {{}, {CHOOSE t \in Tasks : rows[t].parent = None}}, sort : {"manual"}]
    /\ armed = None /\ dragging = None /\ over = None /\ insert = None
    /\ requests = {} /\ promise = None /\ drops = 0 /\ faults = 0

Visible(t) == \E z \in Zones : Has(Display(z), t)

(* The grip of a root row.                                                 *)
Arm(t) ==
    /\ dragging = None /\ rows[t].parent = None /\ Visible(t) /\ armed' = t
    /\ UNCHANGED <<rows, server, filters, dragging, over, insert, requests, promise, drops, faults>>

DragStart ==
    /\ armed # None /\ Visible(armed) /\ dragging = None /\ drops < MaxDrops
    /\ dragging' = [id |-> armed, date |-> rows[armed].date, list |-> rows[armed].list]
    /\ UNCHANGED <<rows, server, filters, armed, over, insert, requests, promise, drops, faults>>

(* zoneDragOver(): the first row whose middle is below the pointer.        *)
Hover(zone) ==
    /\ dragging # None /\ over' = zone
    /\ \E before \in ToSet(Display(zone)) \union {None} :
          insert' = IF before = dragging.id THEN insert ELSE before
    /\ UNCHANGED <<rows, server, filters, armed, dragging, requests, promise, drops, faults>>

Leave ==
    /\ over # None /\ over' = None
    /\ UNCHANGED <<rows, server, filters, armed, dragging, insert, requests, promise, drops, faults>>

DragEnd ==
    /\ dragging # None /\ Idle /\ armed' = None
    /\ UNCHANGED <<rows, server, filters, requests, promise, drops, faults>>

(* A drop in the zone under the pointer.  Every update is written ahead of *)
(* its answer.                                                             *)
Drop ==
    /\ dragging # None /\ over # None /\ Idle /\ drops' = drops + 1
    /\ LET seen   == Display(over)
           before == SnapInsertBeforeId(seen, insert)
           order  == PlanDrop(seen, dragging.id, before)
           input  == IF order = None THEN [t \in {} |-> None] ELSE Inputs(over, order)
       IN  /\ rows' = [t \in Tasks |-> IF t \in DOMAIN input THEN Patched(rows[t], input[t])
                                       ELSE rows[t]]
           /\ requests' = requests \union
                 {[id |-> t, input |-> input[t], prev |-> rows[t]] : t \in DOMAIN input}
           /\ promise' = IF rows # server \/ filters.sort # "manual" \/ Stale THEN None
                         ELSE [zone |-> over, id |-> dragging.id, before |-> before, seen |-> seen]
    /\ UNCHANGED <<server, filters, armed, faults>>

(* taskStore.update(): the answer replaces the row, a failure puts back    *)
(* the row as it was.                                                      *)
Answer(r) ==
    /\ r \in requests /\ requests' = requests \ {r}
    /\ server' = [server EXCEPT ![r.id] = Patched(@, r.input)]
    /\ rows' = [rows EXCEPT ![r.id] = server'[r.id]]
    /\ UNCHANGED <<filters, armed, dragging, over, insert, promise, drops, faults>>

Fail(r) ==
    /\ r \in requests /\ faults < MaxFaults /\ faults' = faults + 1
    /\ requests' = requests \ {r} /\ rows' = [rows EXCEPT ![r.id] = r.prev] /\ promise' = None
    /\ UNCHANGED <<server, filters, armed, dragging, over, insert, drops>>

(* Another tab moves a root task; its event comes at once.                 *)
OtherMoves(t, zone) ==
    /\ faults < MaxFaults /\ faults' = faults + 1 /\ rows[t].parent = None
    /\ LET base == IF zone[1] = "day" THEN [date |-> zone[2]] ELSE [date |-> None, list |-> zone[2]]
       IN  server' = [server EXCEPT ![t] = Patched(@, base)]
    /\ rows' = [rows EXCEPT ![t] = server'[t]] /\ promise' = None
    /\ UNCHANGED <<filters, armed, dragging, over, insert, requests, drops>>

SetFilters ==
    /\ dragging = None /\ promise' = None
    /\ filters' \in {[hidden |-> {}, sort |-> "manual"], [hidden |-> {}, sort |-> "priority"]}
    /\ UNCHANGED <<rows, server, armed, dragging, over, insert, requests, drops, faults>>

Next ==
    \/ \E t \in Tasks : Arm(t) \/ \E zone \in Zones : OtherMoves(t, zone)
    \/ \E zone \in Zones : Hover(zone)
    \/ \E r \in requests : Answer(r) \/ Fail(r)
    \/ DragStart \/ Leave \/ DragEnd \/ Drop \/ SetFilters

Spec == Init /\ [][Next]_vars

----------------------------------------------------------------------------
(* The rows that move together, and the rest.                              *)
Moves(p) == {p.id} \union (IF p.zone[1] = "day" THEN {c \in Tasks : rows[c].parent = p.id} ELSE {})
Rest(p, seq) == SelectSeq(seq, LAMBDA t : t \notin Moves(p))
Orphans(seq) == \E i \in DOMAIN seq : rows[seq[i]].parent \notin ToSet(seq) \union {None}

(* "What you see is what you get" (dragReorder.ts): after a drop the task  *)
(* stands where the insertion line was, and the other rows as before.      *)
(* Excepted: a task another tab moved during the drag, rows under the      *)
(* priority sort, sub-tasks shown without their parent.                    *)
DropLands ==
    promise # None =>
        LET p   == promise
            now == Display(p.zone)
            i   == At(now, p.id)
            end == i + Cardinality(Moves(p) \intersect ToSet(now))
        IN  (p.zone[1] = "list" \/ ~Orphans(p.seen)) =>
              /\ Has(now, p.id) /\ Rest(p, now) = Rest(p, p.seen)
              /\ p.before \notin Moves(p) =>
                    IF p.before = None THEN end = Len(now) + 1
                    ELSE end <= Len(now) /\ now[end] = p.before

(* "nothing ever goes invisible" (docs/use/design.md): every task the      *)
(* filters let through is in some zone.                                    *)
EverythingShown == \A t \in Shown : Visible(t)
=============================================================================
