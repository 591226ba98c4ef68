------------------------------- MODULE Habits -------------------------------
(***************************************************************************)
(* The habits in one browser tab: HabitsModal.svelte with its schedule     *)
(* form and its heatmap, recurringTaskStore.svelte.ts, and what they ask   *)
(* of the server.  Habits are not told by events, only fetched.            *)
(*                                                                         *)
(* A text is a number, 0 when empty; Phrases says which texts end in a     *)
(* schedule.  The instances of a habit stand together: a pair <<id, row>>  *)
(* is in generated when the server has those of row through the horizon,   *)
(* and in shown when the task list has them too.  Dates are day numbers.   *)
(***************************************************************************)
EXTENDS Calendar, FiniteSets

CONSTANTS
    Phrases,    \* text -> None, or the name and the schedule read from it
    Rows,       \* habits that quick add and a task's page may ask for
    Entries,    \* what may be typed into the number fields
    Todays, Weeks,      \* the heatmap: days to look at, and its columns
    None,
    MaxRow, MaxActs, MaxLost    \* bounds; nothing is lost where a backup is restored

VARIABLES
    server,     \* id -> row, or None
    generated,
    items,      \* recurringTaskStore.items: id -> the rows shown under it
    stats,      \* habits whose statistics are there
    shown,
    calls,      \* requests under way, of equal ones only the one
    open,       \* the modal is there
    form, editing, showForm, saving, selected,  \* its state; 0 is no habit
    restored,   \* history: a backup was restored while the modal was there
    acts, lost  \* what the user did, a restore counted with it; requests lost

vars == <<server, generated, items, stats, shown, calls, open, form, editing, showForm, saving,
          selected, restored, acts, lost>>
modal == <<form, editing, showForm, saving, selected>>
store == <<items, stats, shown>>

Ids     == 1 .. MaxRow
EmptyForm == [text |-> 0, frequency |-> "daily", interval |-> 1, days |-> {}, dom |-> 0]
Forms   == [text: DOMAIN Phrases \union {0}, frequency: {"daily", "weekly", "monthly", "yearly"},
            interval: 0 .. 999, days: SUBSET (0 .. 6), dom: 0 .. 999]

Call(op, id, row) ==
    [op |-> op, id |-> id, row |-> row, stage |-> "sent", here |-> open, back |-> {}]
Becomes(c, d) == calls' = (calls \ {c}) \union {d}
Pairs     == {<<id, server[id]>> : id \in {k \in Ids : server[k] # None}}
Listed    == {id \in Ids : items[id] # <<>>}

TypeOK ==
    /\ server \in [Ids -> Forms \union {None}] /\ generated \subseteq Ids \X Forms
    /\ stats \subseteq Ids /\ shown \subseteq Ids \X Forms /\ form \in Forms
    /\ editing \in Ids \union {0} /\ selected \in Ids \union {0}
    /\ \A b \in {open, showForm, saving, restored} : b \in BOOLEAN

(* The modal has just been opened on habits made before.                   *)
Init ==
    /\ \E row \in Rows : /\ server = [id \in Ids |-> IF id = 1 THEN row ELSE None]
                         /\ generated = {<<1, row>>} /\ shown = {<<1, row>>}
    /\ items = [id \in Ids |-> <<>>] /\ stats = {}
    /\ open = TRUE /\ calls = {Call("mount", 0, None)}
    /\ form = EmptyForm /\ editing = 0 /\ showForm = FALSE
    /\ saving = FALSE /\ selected = 0 /\ restored = FALSE /\ acts = 0 /\ lost = 0

----------------------------------------------------------------------------
(* What the user does.                                                     *)
Act == acts < MaxActs /\ acts' = acts + 1 /\ UNCHANGED <<server, generated, store, restored, lost>>

(* onMount(); what an earlier modal still waits for goes on without it.    *)
OpenModal ==
    /\ Act /\ ~open /\ open' = TRUE
    /\ form' = EmptyForm /\ editing' = 0 /\ showForm' = FALSE /\ saving' = FALSE /\ selected' = 0
    /\ calls' = calls \union {Call("mount", 0, None)}

CloseModal ==
    /\ Act /\ open /\ open' = FALSE
    /\ calls' = {[c EXCEPT !.here = FALSE] : c \in calls}
    /\ UNCHANGED modal

InList == open /\ (selected = 0 \/ selected \notin Listed)

(* The effect that reads a schedule from the text, whenever it changes.    *)
Prefilled(f) ==
    IF f.text = 0 \/ Phrases[f.text] = None THEN f
    ELSE LET s == Phrases[f.text].schedule
         IN  [f EXCEPT !.frequency = s.frequency, !.interval = s.interval, !.days = s.days, !.dom = s.dom]

StartNew ==
    /\ Act /\ open /\ selected' = 0 /\ form' = EmptyForm /\ editing' = 0 /\ showForm' = TRUE
    /\ UNCHANGED <<calls, open, saving>>

StartEdit(id) ==
    /\ Act /\ InList /\ id \in Listed
    /\ selected' = 0 /\ form' = Prefilled(items[id][1]) /\ editing' = id /\ showForm' = TRUE
    /\ UNCHANGED <<calls, open, saving>>

CloseForm ==
    /\ Act /\ InList /\ showForm /\ showForm' = FALSE /\ editing' = 0 /\ form' = EmptyForm
    /\ UNCHANGED <<calls, open, saving, selected>>

(* HabitScheduleForm: which fields there are depends on the others.        *)
UsesDaysOfWeek(f) == f.frequency \in {"daily", "weekly"}
ShowsInterval(f)  == f.interval > 1 \/ f.frequency # "daily"
ToggleDay(d)      == IF d \in form.days THEN form.days \ {d} ELSE form.days \union {d}

Change(f) ==
    /\ Act /\ InList /\ showForm /\ f # form /\ form' = f
    /\ UNCHANGED <<calls, open, editing, showForm, saving, selected>>

TypeText(t)  == Change(Prefilled([form EXCEPT !.text = t]))
Schedule ==
    \/ \E f \in {"daily", "monthly"} : Change([form EXCEPT !.frequency = f])
    \/ ShowsInterval(form) /\ \E n \in Entries : Change([form EXCEPT !.interval = n])
    \/ UsesDaysOfWeek(form) /\ Change([form EXCEPT !.days = ToggleDay(5)])
    \/ form.frequency = "monthly" /\ \E n \in Entries : Change([form EXCEPT !.dom = n])

(* Slip: what the form does not show is saved as well.                     *)
InputWhole(f) == [f EXCEPT !.text = IF Phrases[@] = None THEN @ ELSE Phrases[@].clean]

(* What saveHabit() sends: the name without its phrase, and no field that  *)
(* the frequency does not use.                                             *)
Input(f) ==
    [f EXCEPT !.text = IF Phrases[@] = None THEN @ ELSE Phrases[@].clean,
              !.interval = IF @ < 1 THEN 1 ELSE @,
              !.days = IF UsesDaysOfWeek(f) THEN @ ELSE {},
              !.dom = IF f.frequency # "monthly" THEN 0 ELSE IF @ > 31 THEN 31 ELSE @]

SaveHabit ==
    /\ Act /\ InList /\ showForm /\ form.text # 0 /\ ~saving /\ saving' = TRUE
    /\ calls' = calls \union {Call(IF editing = 0 THEN "create" ELSE "update", editing, Input(form))}
    /\ UNCHANGED <<open, form, editing, showForm, selected>>

DeleteHabit(id) ==
    /\ Act /\ InList /\ id \in Listed
    /\ calls' = calls \union {Call("delete", id, None)}
    /\ UNCHANGED <<open, modal>>

(* Slip: the detail is opened on what the modal loaded when it opened.     *)
OpenedWith(id) == calls

Asking(id) == calls \union {[Call("stats", 0, None) EXCEPT !.back = {id}]}

OpenDetail(id) ==
    /\ Act /\ InList /\ id \in Listed /\ calls' = Asking(id)
    /\ showForm' = FALSE /\ editing' = 0 /\ form' = EmptyForm /\ selected' = id
    /\ UNCHANGED <<open, saving>>

CloseDetail ==
    /\ Act /\ open /\ ~InList /\ selected' = 0
    /\ UNCHANGED <<calls, open, form, editing, showForm, saving>>

(* Quick add (createAndGenerate) and a task's page (adopt).                *)
Elsewhere(op, row) ==
    Act /\ calls' = calls \union {Call(op, 0, row)} /\ UNCHANGED <<open, modal>>

----------------------------------------------------------------------------
(* The server; a habit's instances are those of all its dates.             *)
NextId == 1 + Cardinality({id \in Ids : \E k \in id .. MaxRow : server[k] # None})

ServeWrite(c) ==
    LET id  == IF c.op = "update" THEN c.id ELSE NextId
        new == IF c.op = "adopt" THEN {<<id, c.row>>} ELSE {}
    IN  /\ c.op \in {"create", "update", "quick", "adopt"} /\ id <= MaxRow
        /\ IF c.row.interval > 365 \/ (c.op = "update" /\ server[id] = None)
           THEN Becomes(c, [c EXCEPT !.stage = "failed"]) /\ UNCHANGED <<server, generated>>
           ELSE /\ server' = [server EXCEPT ![id] = c.row] /\ generated' = generated \union new
                /\ Becomes(c, [c EXCEPT !.stage = "ok", !.id = id, !.back = new])

(* POST .../generate-all and .../:id/generate answer what was missing.     *)
ServeGenerate(c) ==
    LET due == IF c.op = "ensure" THEN Pairs ELSE {p \in Pairs : p[1] = c.id}
    IN  /\ c.op \in {"ensure", "generate"}
        /\ generated' = generated \union due /\ UNCHANGED server
        /\ Becomes(c, [c EXCEPT !.stage = IF c.op = "generate" /\ due = {} THEN "failed" ELSE "ok",
                                !.back = due \ generated])

ServeRead(c) ==
    /\ c.op \in {"mount", "fetch", "stats"} /\ UNCHANGED <<server, generated>>
    /\ Becomes(c, [c EXCEPT !.stage = "ok", !.back =
                      IF c.op = "stats" THEN {id \in @ : server[id] # None} ELSE Pairs])

ServeDelete(c) ==
    /\ c.op = "delete" /\ UNCHANGED generated
    /\ Becomes(c, [c EXCEPT !.stage = IF server[c.id] = None THEN "failed" ELSE "ok"])
    /\ server' = [server EXCEPT ![c.id] = None]

Serve(c) ==
    /\ c.stage = "sent"
    /\ ServeWrite(c) \/ ServeGenerate(c) \/ ServeRead(c) \/ ServeDelete(c)
    /\ UNCHANGED <<store, open, modal, restored, acts, lost>>

Lose(c) ==
    /\ c.stage # "failed" /\ ~restored /\ lost < MaxLost /\ lost' = lost + 1
    /\ Becomes(c, [c EXCEPT !.stage = "failed"])
    /\ UNCHANGED <<server, generated, store, open, modal, restored, acts>>

(* Another tab restores a backup of one habit: everything is fetched anew, *)
(* the tasks by their own store.  Bound as what the user does.             *)
Restored ==
    /\ ~restored /\ lost = 0 /\ restored' = TRUE
    /\ acts < MaxActs /\ acts' = acts + 1
    /\ \E row \in Rows :
          /\ server' = [id \in Ids |-> IF id = 1 THEN row ELSE None]
          /\ generated' = {<<1, row>>} /\ shown' = {<<1, row>>}
    /\ stats' = {} /\ calls' = calls \union {Call("fetch", 0, None)}
    /\ UNCHANGED <<items, open, modal, lost>>

----------------------------------------------------------------------------
(* The answers.                                                            *)
Then(c, more) == calls' = (calls \ {c}) \union more

(* fetchAll(); the modal's first goes on to ask for the statistics, even   *)
(* after a failure.                                                        *)
Fetched(c) ==
    LET rows == [id \in Ids |-> LET r == {p[2] : p \in {q \in c.back : q[1] = id}}
                                IN  IF r = {} THEN <<>> ELSE <<CHOOSE row \in r : TRUE>>]
    IN  /\ c.op \in {"mount", "fetch"}
        /\ items' = IF c.stage = "ok" THEN rows ELSE items
        /\ Then(c, IF c.op = "fetch" THEN {}
                   ELSE {[Call("stats", 0, None) EXCEPT !.here = c.here,
                             !.back = {id \in Ids : items'[id] # <<>>}]})
        /\ UNCHANGED <<stats, shown, modal>>

(* Slip: the form is closed as soon as the server has answered.            *)
ClosesOnAnswer(c) == c.here /\ c.op \in {"create", "update", "ensure"}
Closes(c) == c.here /\ c.op = "ensure"

(* Slip: saving is not reset when the server refuses.                      *)
StillSaving(c) == saving /\ ~(c.here /\ c.stage = "ok" /\ c.op \in {"create", "update"})
SavingAfter(c) == saving /\ ~(c.here /\ c.op \in {"create", "update"})

FormAfter(c) ==
    IF Closes(c) THEN form' = EmptyForm /\ editing' = 0 /\ showForm' = FALSE
    ELSE UNCHANGED <<form, editing, showForm>>

(* Slip: an edited habit keeps the instances it has.                       *)
GoesWhenNew(c) ==
    CASE c.stage = "ok" /\ c.op = "create" -> {[Call("ensure", 0, None) EXCEPT !.here = c.here]}
      [] c.stage = "ok" /\ c.op = "quick"  -> {Call("generate", c.id, None)}
      [] OTHER -> {}

(* saveHabit() and createAndGenerate() go on to generate what is missing.  *)
Goes(c) ==
    CASE c.stage = "ok" /\ c.op \in {"create", "update"} ->
            {[Call("ensure", 0, None) EXCEPT !.here = c.here]}
      [] c.stage = "ok" /\ c.op = "quick" -> {Call("generate", c.id, None)}
      [] OTHER -> {}

Written(c) ==
    /\ c.op \in {"create", "update", "quick", "adopt"}
    /\ items' = CASE c.stage = "failed" -> items
                  [] c.stage = "ok" /\ c.op = "update" ->
                        [items EXCEPT ![c.id] = [n \in DOMAIN @ |-> c.row]]
                  [] c.stage = "ok" /\ c.op # "update" -> [items EXCEPT ![c.id] = Append(@, c.row)]
    /\ shown' = IF c.stage = "ok" THEN shown \union c.back ELSE shown
    /\ saving' = SavingAfter(c) /\ Then(c, Goes(c)) /\ FormAfter(c)
    /\ UNCHANGED <<stats, selected>>

(* ensureInstances() and generate(): taskStore.ingest() shows what came.   *)
Generated(c) ==
    /\ c.op \in {"ensure", "generate"}
    /\ shown' = IF c.stage = "ok" THEN shown \union c.back ELSE shown
    /\ FormAfter(c) /\ Then(c, {}) /\ UNCHANGED <<items, stats, saving, selected>>

Deleted(c) ==
    /\ c.op = "delete" /\ Then(c, {})
    /\ items' = IF c.stage = "ok" THEN [items EXCEPT ![c.id] = <<>>] ELSE items
    /\ selected' = IF c.here /\ selected = c.id THEN 0 ELSE selected
    /\ UNCHANGED <<stats, shown, form, editing, showForm, saving>>

FetchStats(c) ==
    /\ c.op = "stats" /\ Then(c, {})
    /\ stats' = IF c.stage = "ok" THEN stats \union c.back ELSE stats
    /\ UNCHANGED <<items, shown, modal>>

Answer(c) ==
    /\ c.stage # "sent"
    /\ Fetched(c) \/ Written(c) \/ Generated(c) \/ Deleted(c) \/ FetchStats(c)
    /\ UNCHANGED <<server, generated, open, restored, acts, lost>>

Next ==
    \/ OpenModal \/ CloseModal \/ StartNew \/ CloseForm \/ Schedule \/ SaveHabit \/ CloseDetail
    \/ \E t \in DOMAIN Phrases : TypeText(t)
    \/ \E id \in Ids : StartEdit(id) \/ DeleteHabit(id) \/ OpenDetail(id)
    \/ \E op \in {"quick", "adopt"}, row \in Rows : Elsewhere(op, row)
    \/ \E c \in calls : Serve(c) \/ Answer(c) \/ Lose(c)
    \/ Restored

Spec == Init /\ [][Next]_vars

----------------------------------------------------------------------------
(* HabitHeatmap.svelte, and the window of computeStats().                  *)
Window == 7 * Weeks
Served(done, today) == {n \in done : today - Window <= n /\ n <= today}

(* Slip: the grid is Weeks * 7 days up to today, from a Sunday on.         *)
FirstCellBack(today) == LET n == today - (Window - 1) IN n - Weekday(n)
FirstCell(today) == today - Weekday(today) - 7 * (Weeks - 1)

Column(today, w) == {FirstCell(today) + 7 * w + d : d \in 0 .. 6}
Cells(today)     == UNION {Column(today, w) : w \in 0 .. Weeks - 1}
TotalCompletions(today, dates) == Cardinality({n \in Cells(today) : n \in dates /\ n <= today})

(* Today is on the grid, whatever its weekday; every past cell is in what  *)
(* the server answers, also when its day is the next one or the one before; *)
(* and everything completed in the weeks before this one counts.           *)
HeatmapBacked ==
    acts = 0 => \A today \in Todays, skew \in {-1, 0, 1} :
        LET dates == Served(today - 2 * Window .. today + 2, today + skew)
        IN  /\ today \in Cells(today)
            /\ \A n \in Cells(today) : n <= today /\ n <= today + skew => n \in dates
            /\ TotalCompletions(today, dates) =
                  Cardinality({n \in dates : n <= today /\ n >= today - Weekday(today) - 7 * (Weeks - 1)})

(* Once all is answered, and nothing was lost, the task list has the       *)
(* instances of every habit there is, whichever way it was made: the       *)
(* events about them are not sent to the tab that asked.                   *)
Materialised == calls = {} /\ lost = 0 => Pairs \subseteq shown

(* A habit's page has its statistics, or they are on their way.            *)
DetailLoads ==
    open /\ selected \in Listed /\ server[selected] # None /\ lost = 0 /\ ~restored =>
        \/ selected \in stats
        \/ \E c \in calls : \/ (c.op = "stats" /\ selected \in c.back)
                           \/ (c.op = "delete" /\ c.id = selected)

(* No habit has weekdays or a day of the month that its form never showed. *)
HiddenStaysHome ==
    \A id \in Ids : server[id] # None =>
        /\ server[id].days # {} => UsesDaysOfWeek(server[id])
        /\ server[id].dom # 0 => server[id].frequency = "monthly"
        /\ server[id].interval \in 1 .. 365 /\ server[id].dom <= 31

(* The form says that it saves just while a save of it is unanswered.      *)
SavingHonest ==
    open => (saving <=> \E c \in calls : c.here /\ c.op \in {"create", "update"})

(* What is in the form stays until the user changes it or its habit has    *)
(* been saved: no refusal, fetch or deletion empties it.                   *)
FormStep ==
    acts' = acts /\ <<form, editing, showForm>>' # <<form, editing, showForm>> =>
        \E c \in calls \ calls' : c.op = "ensure"
=============================================================================
