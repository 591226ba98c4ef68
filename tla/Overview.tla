------------------------------ MODULE Overview ------------------------------
(***************************************************************************)
(* What the client gathers from its stores: the home of a project          *)
(* (projectHome.ts), its dates on the days they fall on                    *)
(* (projectMilestones.ts in DaySection.svelte), and the summary            *)
(* (summary.ts in SummaryModal.svelte).  Nothing gathered is kept: it is   *)
(* read off the tasks, lists and dates as they are.                        *)
(*                                                                         *)
(* One project and its tag.  Tasks are numbered as they were made, dates   *)
(* are day numbers, and updated counts the changes.                        *)
(***************************************************************************)
EXTENDS Integers, FiniteSets, SequencesExt

CONSTANTS
    Tasks,          \* 1 .. n
    Kinds,          \* what a task may be at first
    Lists,          \* list -> its place in the panel, from 0
    Projects,       \* what the project may be at first
    Streaks,        \* habit -> None while there are no statistics of it
    FirstDay, LastDay,  \* days that may be today
    DONE_RECENT_LIMIT, SUMMARY_WINDOW_DAYS,
    None,
    MaxActs         \* bound on what happens

VARIABLES
    task,           \* Tasks -> its row, or None
    project,        \* starts, due, done: each a day or None
    today,
    acts

vars == <<task, project, today, acts>>

There  == {t \in Tasks : task[t] # None}
Days   == FirstDay - 2 * SUMMARY_WINDOW_DAYS .. LastDay + 2 * SUMMARY_WINDOW_DAYS

TypeOK ==
    /\ \A t \in There : /\ task[t].date \in Days \union {None}
                        /\ task[t].parent \in There \union {None}
                        /\ task[t].updated \in 0 .. MaxActs
    /\ \A d \in {project.starts, project.due, project.done} : d \in Days \union {None}
    /\ today \in FirstDay .. LastDay

(* A sub-task's parent was made before it, and is nobody's sub-task.       *)
Init ==
    /\ task \in [Tasks -> {[k EXCEPT !.parent = p] : k \in Kinds, p \in Tasks \union {None}}
                          \union {None}]
    /\ \A t \in There : task[t].parent # None =>
          task[t].parent \in There /\ task[t].parent < t /\ task[task[t].parent].parent = None
    /\ project \in Projects /\ today = FirstDay /\ acts = 0

----------------------------------------------------------------------------
(* What may change while it is looked at: here, in another tab, or with    *)
(* the day.                                                                *)
Change(t, row) ==
    /\ t \in There /\ row # task[t]
    /\ task' = [task EXCEPT ![t] = [row EXCEPT !.updated = acts + 1]]
    /\ UNCHANGED <<project, today>>

DayTurns == today < LastDay /\ today' = today + 1 /\ UNCHANGED <<task, project>>

PatchDate(p) == p # project /\ project' = p /\ UNCHANGED <<task, today>>

Next ==
    /\ acts < MaxActs /\ acts' = acts + 1
    /\ \/ \E t \in There : \/ Change(t, [task[t] EXCEPT !.completed = ~@])
                           \/ Change(t, [task[t] EXCEPT !.wears = ~@])
                           \/ \E d \in {None, today} : Change(t, [task[t] EXCEPT !.date = d])
       \/ DayTurns
       \/ PatchDate([project EXCEPT !.done = IF @ = None THEN today ELSE None])
       \/ \E d \in {None, today, today + 1} : PatchDate([project EXCEPT !.due = d])

Spec == Init /\ [][Next]_vars

----------------------------------------------------------------------------
(* The home.                                                               *)
ByPositionThenCreated(a, b) ==
    LET p == task[a].position
        q == task[b].position
    IN  IF p = q THEN a < b ELSE q = None \/ (p # None /\ p < q)

Children(t) == {c \in There : task[c].parent = t}

(* Slip: only the sub-tasks that wear the tag ride along.                  *)
GlueWearing(parents) ==
    LET order == SetToSortSeq(parents, ByPositionThenCreated)
    IN  FlattenSeq([i \in DOMAIN order |->
            <<order[i]>> \o SetToSortSeq({c \in Children(order[i]) : task[c].wears}, ByPositionThenCreated)])

GlueChildren(parents) ==
    LET order == SetToSortSeq(parents, ByPositionThenCreated)
    IN  FlattenSeq([i \in DOMAIN order |->
            <<order[i]>> \o SetToSortSeq(Children(order[i]), ByPositionThenCreated)])

Wearing == {t \in There : task[t].wears}
Undone  == {t \in Wearing : ~task[t].completed}

BacklogOf(l)   == {t \in Undone : task[t].date = None /\ task[t].list = l}
ScheduledOn(d) == {t \in Undone : task[t].date = d}

(* Slip: what is in no list is taken for a list that is gone.              *)
RankAll(l) == IF l \in DOMAIN Lists THEN Lists[l] ELSE 0

(* The lists as in the panel, one that is gone with the first; the         *)
(* unlisted last.                                                          *)
Rank(l) ==
    CASE l = None          -> Cardinality(DOMAIN Lists)
      [] l \in DOMAIN Lists -> Lists[l]
      [] OTHER             -> 0

First(l) == CHOOSE t \in BacklogOf(l) : \A u \in BacklogOf(l) : t <= u
ListOrder(a, b) == Rank(a) < Rank(b) \/ (Rank(a) = Rank(b) /\ First(a) < First(b))

Backlog ==
    LET lists == {task[t].list : t \in {u \in Undone : task[u].date = None}}
        order == SetToSortSeq(lists, ListOrder)
    IN  [i \in DOMAIN order |-> [list |-> order[i], tasks |-> GlueChildren(BacklogOf(order[i]))]]

Scheduled ==
    LET order == SetToSortSeq({task[t].date : t \in Undone} \ {None}, <)
    IN  [i \in DOMAIN order |-> [date |-> order[i], tasks |-> GlueChildren(ScheduledOn(order[i]))]]

Routines == {<<h, IF Streaks[h] = None THEN 0 ELSE Streaks[h]>> : h \in DOMAIN Streaks}
Done     == Wearing \ Undone

(* Slip: in the order they were made.                                      *)
RecentAsMade ==
    LET order == SetToSortSeq(Done, LAMBDA a, b : a > b)
    IN  SubSeq(order, 1, IF Len(order) < DONE_RECENT_LIMIT THEN Len(order) ELSE DONE_RECENT_LIMIT)

DoneRecent ==
    LET order == SetToSortSeq(Done, LAMBDA a, b :
                     \/ task[a].updated > task[b].updated
                     \/ task[a].updated = task[b].updated /\ a < b)
    IN  SubSeq(order, 1, IF Len(order) < DONE_RECENT_LIMIT THEN Len(order) ELSE DONE_RECENT_LIMIT)

----------------------------------------------------------------------------
(* The project's dates on the day list.                                    *)
MilestonesOn(d) ==
    {k \in {"starts", "due", "completed"} :
        d = CASE k = "starts" -> project.starts [] k = "due" -> project.due [] OTHER -> project.done}

(* Slip: the day itself nags already.                                      *)
NagOnTheDay(d) ==
    IF d = today /\ project.done = None /\ project.due # None /\ project.due <= today THEN 1 ELSE 0

(* How many notes of a passed due date the day carries.                    *)
DueNagOn(d) ==
    IF d = today /\ project.done = None /\ project.due # None /\ project.due < today THEN 1 ELSE 0

DueNotes(d) == DueNagOn(d) + Cardinality(MilestonesOn(d) \intersect {"due"})

----------------------------------------------------------------------------
(* The summary.                                                            *)
Dated == {t \in There : ~task[t].completed /\ task[t].date # None}
FindOverdueTasks ==
    SetToSortSeq({t \in Dated : task[t].date < today},
                 LAMBDA a, b : task[a].date < task[b].date \/ (task[a].date = task[b].date /\ a < b))

(* Slip: upcoming begins tomorrow.                                         *)
FromTomorrow(n) == today < n /\ n <= today + SUMMARY_WINDOW_DAYS
Upcoming(n)     == today <= n /\ n <= today + SUMMARY_WINDOW_DAYS

FindUpcomingDeadlineTasks == {t \in Dated : task[t].deadline /\ Upcoming(task[t].date)}
FindActiveStreaks == {h \in DOMAIN Streaks : Streaks[h] # None /\ Streaks[h] # 0}

----------------------------------------------------------------------------
Groups == ToSet(Backlog) \union ToSet(Scheduled)

(* Everything undone that wears the tag is in the home, the lists in the   *)
(* panel's order with the unlisted last; every sub-task, tag or no tag,    *)
(* directly follows its parent; and nothing else is there.  A routine has  *)
(* the streak that the summary gives it.                                   *)
HomeGathers ==
    /\ \A t \in Undone : \E g \in Groups : t \in ToSet(g.tasks)
    /\ \A g \in Groups, i \in 1 .. Cardinality(Tasks) : i <= Len(g.tasks) =>
          LET t == g.tasks[i]
          IN  /\ t \in Undone \/ task[t].parent \in Undone
              /\ t \in Undone => \A c \in Children(t) :
                    \E j \in i + 1 .. i + Cardinality(Children(t)) :
                        j <= Len(g.tasks) /\ g.tasks[j] = c
    /\ \A i, j \in DOMAIN Backlog : i < j =>
          /\ Backlog[i].list # None
          /\ {Backlog[i].list, Backlog[j].list} \subseteq DOMAIN Lists =>
                Lists[Backlog[i].list] < Lists[Backlog[j].list]
    /\ {r[1] : r \in {q \in Routines : q[2] > 0}} = FindActiveStreaks

(* What has just been completed is at the head of what is done.            *)
JustDone ==
    \A t \in Done : acts > 0 /\ task[t].updated = acts => DoneRecent # <<>> /\ DoneRecent[1] = t

(* While the project is not complete its due date is never out of view     *)
(* once it has come, and no day says it twice.                             *)
DueStaysInView ==
    /\ \A d \in Days : DueNotes(d) <= 1
    /\ project.due # None /\ project.due <= today /\ project.done = None => DueNotes(today) = 1

(* An undone deadline until the end of the window is in the summary, as    *)
(* overdue or as upcoming and never as both.                               *)
DeadlinesCounted ==
    \A t \in Dated : task[t].deadline /\ task[t].date <= today + SUMMARY_WINDOW_DAYS =>
        (t \in ToSet(FindOverdueTasks)) # (t \in FindUpcomingDeadlineTasks)

(* Each thing has one place in the home.  It has not when a sub-task wears *)
(* the tag its parent wears, or is parked or dated apart from it.          *)
OnePlaceEach ==
    \A t \in There :
        Cardinality({<<g, i>> \in Groups \X (1 .. Cardinality(Tasks)) :
                        i <= Len(g.tasks) /\ g.tasks[i] = t}) <= 1
=============================================================================
