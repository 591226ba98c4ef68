----------------------------- MODULE DailyJobs -----------------------------
(***************************************************************************)
(* The two recurring jobs of the server: the daily rollover of overdue     *)
(* tasks and the nightly purge of the trash.  There is no cron table: the  *)
(* next run is a row of the jobs table, put there at boot and by the       *)
(* handler of the run before (services/JobScheduler.ts, jobHandlers.ts,    *)
(* RolloverService.ts, index.ts), while the user edits tasks and changes   *)
(* the rollover preferences.                                               *)
(*                                                                         *)
(* bun:sqlite is synchronous, so a poll cycle is one turn of the event     *)
(* loop: requests and signals are served between two cycles, only a crash  *)
(* and the clock fall between two statements of a cycle.  Definitions      *)
(* marked as a slip are not part of the model (see JobQueue).              *)
(*                                                                         *)
(* The clock counts the instants the schedule tells apart: three slots a   *)
(* day, from midnight, from the purge hour and from 9am.                   *)
(***************************************************************************)
EXTENDS JobQueue, Integers, FiniteSets

CONSTANTS
    Tasks,        \* task ids
    Recurring,    \* those generated by a recurring series
    NoDate,       \* no date: a someday task, a task never rolled over
    MaxAttempts,  \* max_attempts of a job
    Retention,    \* PURGE_RETENTION_DAYS
    InitPrefs,    \* rollover preferences the server may start with
    PrefChoices,  \* preferences the user may switch to
    RollChoices,  \* bound: values of rolloverEnabled in requests
    LastDay,      \* bound: the clock stops at the end of this day
    MaxRows,      \* bound: rows the jobs table has room for
    MaxFaults     \* bound: crashes and failing statements together

ASSUME RequestAssumption == Recurring \subseteq Tasks /\ RollChoices \subseteq BOOLEAN
ASSUME DailyAssumption ==
    /\ MaxAttempts \in Nat \ {0} /\ Retention \in Nat
    /\ LastDay \in Nat /\ MaxRows \in Nat /\ MaxFaults \in Nat

DaySlots == 3
Midnight == 0
PurgeHour == 1
NineAm   == 2
LastSlot == DaySlots * LastDay + NineAm

DayOf(t) == t \div DaySlots
Days     == 0 .. LastDay

VARIABLES
    (* persistent *)
    rows,     \* the jobs table; kind is the type, date the payload
    tasks,    \* the tasks table
    prefs,    \* the rollover preferences
    (* the clock *)
    now,
    (* the process *)
    phase,    \* where boot or the poll cycle is
    due,      \* rows of the snapshot the cycle has not reached yet
    current,  \* id of the row being run, 0 if none
    todo,     \* rollover candidates not moved yet
    failed,   \* the handler threw
    (* history *)
    broken,   \* since boot a job died or was left running
    faults    \* faults so far

process == <<phase, due, current, todo, failed>>
history == <<broken, faults>>
vars    == <<rows, tasks, prefs, now, process, history>>

RowIds   == 1 .. MaxRows
Triggers == {"midnight", "9am", "manual"}
Prefs    == [enabled: BOOLEAN, trigger: Triggers]
Phases   == {"down", "ensurePurge", "recover", "idle", "cycle", "roll",
             "purge", "chain", "settle"}
Task     == [state: {"none", "live", "trash", "gone"}, done: BOOLEAN,
             rolls: BOOLEAN, date: Days \union {NoDate},
             orig: Days \union {NoDate}, late: Nat, deletedAt: 0 .. LastSlot]

ASSUME PrefsAssumption == InitPrefs \subseteq Prefs /\ PrefChoices \subseteq Prefs

TypeOK ==
    /\ rows \in [RowIds -> [status: Statuses, runAt: Nat,
                            attempts: 0 .. MaxAttempts,
                            kind: {"rollover", "purge"},
                            date: 0 .. LastDay + 1 \union {NoDate}]]
    /\ tasks \in [Tasks -> Task]
    /\ prefs \in Prefs
    /\ now \in 0 .. LastSlot
    /\ phase \in Phases
    /\ \A e \in due : e.id \in RowIds
    /\ current \in RowIds \union {0}
    /\ todo \subseteq Tasks
    /\ failed \in BOOLEAN /\ broken \in BOOLEAN
    /\ faults \in 0 .. MaxFaults

Today == DayOf(now)

----------------------------------------------------------------------------
(* Scheduling, as operators on the jobs table.                             *)

Rollover(q, r) == Exists(q, r) /\ q[r].kind = "rollover"
Purge(q, r)    == Exists(q, r) /\ q[r].kind = "purge"

(* Slip: a running job is not counted as active.                           *)
IsActiveQueued(q, r) == Queued(q, r)

IsActive(q, r) == Queued(q, r) \/ q[r].status = "running"

(* The limit rows scheduled last; all of those that tie for the last place.*)
FindRecent(S, q, limit) ==
    { r \in S : Cardinality({ s \in S : q[s].runAt > q[r].runAt }) < limit }

RecentRollovers(q) == FindRecent({ r \in RowIds : Rollover(q, r) }, q, 20)
RecentPurges(q)    == FindRecent({ r \in RowIds : Purge(q, r) }, q, 5)

Unused == [status |-> "unused", runAt |-> 0, attempts |-> 0,
           kind |-> "purge", date |-> NoDate]

(* The cycle holds copies of these rows and runs them, cancelled or not.   *)
InUse == {current} \union { e.id : e \in due }

(* A new row; ids of cancelled rows are used again to keep the table small.*)
Insert(q, kind, date, at) ==
    LET Fresh == { r \in RowIds \ InUse : ~Exists(q, r) }
        r     == CHOOSE r \in Fresh : \A s \in Fresh : r <= s
    IN  [Schedule(q, r, at) EXCEPT ![r].kind = kind, ![r].date = date]

CancelAll(q, S) ==
    [r \in RowIds |-> IF r \notin S \/ ~Queued(q, r) THEN q[r]
                      ELSE IF r \in InUse THEN Cancel(q, r)[r] ELSE Unused]

(* Slip: an hour that has passed today is scheduled all the same.          *)
NextOccurrenceToday(hour) == DaySlots * Today + hour

(* nextDailyOccurrence(): today's instant, tomorrow's if that has come.    *)
NextDailyOccurrence(hour) ==
    LET next == DaySlots * Today + hour
    IN  IF next <= now THEN next + DaySlots ELSE next

TriggerHour == IF prefs.trigger = "9am" THEN NineAm ELSE Midnight

ActiveFor(q, date) ==
    \E r \in RecentRollovers(q) : IsActive(q, r) /\ q[r].date = date

RanFor(q, date) ==
    \E r \in RecentRollovers(q) : q[r].status = "completed" /\ q[r].date = date

(* Slip: the payload carries the instant instead of its date.              *)
EnsureNextDayInstant(q) ==
    LET nextRun == NextDailyOccurrence(TriggerHour)
    IN  IF ActiveFor(q, nextRun) THEN q
        ELSE Insert(q, "rollover", nextRun, nextRun)

EnsureNextDay(q) ==
    LET nextRun == NextDailyOccurrence(TriggerHour)
    IN  IF ActiveFor(q, DayOf(nextRun)) THEN q
        ELSE Insert(q, "rollover", DayOf(nextRun), nextRun)

EnsureRolloverScheduled(q) ==
    IF ~prefs.enabled
    THEN CancelAll(q, RecentRollovers(q))
    ELSE IF ~RanFor(q, Today) /\ ~ActiveFor(q, Today)
    THEN Insert(q, "rollover", Today, now)
    ELSE IF prefs.trigger = "manual"
    THEN CancelAll(q, { r \in RecentRollovers(q) : q[r].date # Today })
    ELSE EnsureNextDay(q)

(* Slips: a purge that runs counts as queued; a queued one does not.       *)
PurgeQueuedOrRunning(q) == \E r \in RecentPurges(q) : IsActive(q, r)
PurgeRunning(q) == \E r \in RecentPurges(q) : q[r].status = "running"

PurgeQueued(q) == \E r \in RecentPurges(q) : Queued(q, r)

EnsurePurgeScheduled(q) ==
    IF PurgeQueued(q) THEN q
    ELSE Insert(q, "purge", NoDate, NextDailyOccurrence(PurgeHour))

----------------------------------------------------------------------------
(* The work, as operators on the tasks table.                              *)

Overdue(t, date) ==
    /\ tasks[t].state = "live" /\ ~tasks[t].done
    /\ tasks[t].rolls /\ t \notin Recurring
    /\ tasks[t].date # NoDate
    /\ tasks[t].date < date

FindRolloverCandidates(date) == { t \in Tasks : Overdue(t, date) }

(* Slip: days late are counted from the day the task slipped last.         *)
RolledOverFromLast(task, date) ==
    [task EXCEPT !.date = date,
                 !.orig = IF @ = NoDate THEN task.date ELSE @,
                 !.late = @ + date - task.date]

(* The first date a rollover found is kept; days late count from it.       *)
RolledOver(task, date) ==
    LET first == IF task.orig = NoDate THEN task.date ELSE task.orig
    IN  [task EXCEPT !.date = date, !.orig = first,
                     !.late = IF date > first THEN date - first ELSE 0]

(* Slip: the comparison with the cutoff is the wrong way round.            *)
PurgedYoung(task) ==
    IF task.state = "trash" /\ task.deletedAt > now - DaySlots * Retention
    THEN [task EXCEPT !.state = "gone"] ELSE task

Purged(task) ==
    IF task.state = "trash" /\ task.deletedAt < now - DaySlots * Retention
    THEN [task EXCEPT !.state = "gone"] ELSE task

----------------------------------------------------------------------------
(* The process and its environment.                                        *)

Init ==
    /\ rows = [r \in RowIds |-> Unused]
    /\ tasks = [t \in Tasks |-> [state |-> "none", done |-> FALSE, rolls |-> TRUE,
                                 date |-> NoDate, orig |-> NoDate, late |-> 0,
                                 deletedAt |-> 0]]
    /\ prefs \in InitPrefs
    /\ now = 0
    /\ phase = "down" /\ due = {} /\ current = 0 /\ todo = {} /\ failed = FALSE
    /\ broken = FALSE /\ faults = 0

Tick ==
    /\ now < LastSlot
    /\ now' = now + 1
    /\ UNCHANGED <<rows, tasks, prefs, process, history>>

(* The boot sequence of index.ts: the rollover is scheduled, then the      *)
(* purge, then the runner starts, and its recovery comes last.             *)
BootRollover ==
    /\ phase = "down"
    /\ phase' = "ensurePurge"
    /\ rows' = EnsureRolloverScheduled(rows)
    /\ broken' = FALSE
    /\ UNCHANGED <<tasks, prefs, now, due, current, todo, failed, faults>>

BootPurge ==
    /\ phase = "ensurePurge"
    /\ phase' = "recover"
    /\ rows' = EnsurePurgeScheduled(rows)
    /\ UNCHANGED <<tasks, prefs, now, due, current, todo, failed, history>>

StartRunner ==
    /\ phase = "recover"
    /\ phase' = "idle"
    /\ rows' = RecoverStuckJobs(rows)
    /\ UNCHANGED <<tasks, prefs, now, due, current, todo, failed, history>>

Halt ==
    /\ phase' = "down" /\ due' = {} /\ current' = 0 /\ todo' = {}
    /\ failed' = FALSE
    /\ UNCHANGED <<rows, tasks, prefs, now, broken>>

Shutdown == phase = "idle" /\ Halt /\ UNCHANGED faults

Crash ==
    /\ phase # "down" /\ faults < MaxFaults
    /\ Halt
    /\ faults' = faults + 1

----------------------------------------------------------------------------
(* The requests.  The schedule is not looked at when the preferences       *)
(* change; an edit leaves orig and late alone.                             *)

SetPrefs(p) ==
    /\ phase = "idle"
    /\ prefs' = p
    /\ UNCHANGED <<rows, tasks, now, process, history>>

Request(t, from, task) ==
    /\ phase = "idle"
    /\ tasks[t].state = from
    /\ tasks' = [tasks EXCEPT ![t] = task]
    /\ UNCHANGED <<rows, prefs, now, process, history>>

CreateTask(t, date, rolls) ==
    Request(t, "none", [tasks[t] EXCEPT !.state = "live", !.date = date, !.rolls = rolls])

EditTask(t, date, rolls, done) ==
    Request(t, "live", [tasks[t] EXCEPT !.date = date, !.rolls = rolls, !.done = done])

DeleteTask(t)  == Request(t, "live", [tasks[t] EXCEPT !.state = "trash", !.deletedAt = now])
RestoreTask(t) == Request(t, "trash", [tasks[t] EXCEPT !.state = "live", !.deletedAt = 0])

----------------------------------------------------------------------------
(* One poll cycle.                                                         *)

Poll ==
    /\ phase = "idle"
    /\ phase' = "cycle"
    /\ due' = GetPending(rows, now)
    /\ UNCHANGED <<rows, tasks, prefs, now, current, todo, failed, history>>

(* markRunning(), then the handler up to its first write.                  *)
Begin(e) ==
    /\ phase = "cycle"
    /\ e \in due /\ IsOldest(e, due)
    /\ due' = due \ {e}
    /\ rows' = MarkRunning(rows, e.id)
    /\ current' = e.id
    /\ phase' = IF rows[e.id].kind = "rollover" THEN "roll" ELSE "purge"
    /\ todo' = IF rows[e.id].kind = "rollover"
               THEN FindRolloverCandidates(rows[e.id].date) ELSE {}
    /\ UNCHANGED <<tasks, prefs, now, failed, history>>

(* rolloverTask() for the oldest candidate left.                           *)
RollTask(t) ==
    /\ phase = "roll"
    /\ t \in todo /\ \A u \in todo : tasks[t].date <= tasks[u].date
    /\ todo' = todo \ {t}
    /\ tasks' = [tasks EXCEPT ![t] = RolledOver(@, rows[current].date)]
    /\ UNCHANGED <<rows, prefs, now, phase, due, current, failed, history>>

PurgeDeleted ==
    /\ phase = "purge"
    /\ phase' = "chain"
    /\ tasks' = [t \in Tasks |-> Purged(tasks[t])]
    /\ UNCHANGED <<rows, prefs, now, due, current, todo, failed, history>>

(* The handler's last act: the next run, chained by its own kind.          *)
Chain ==
    /\ phase = "chain" \/ (phase = "roll" /\ todo = {})
    /\ phase' = "settle"
    /\ rows' = IF rows[current].kind = "rollover" THEN EnsureRolloverScheduled(rows)
               ELSE EnsurePurgeScheduled(rows)
    /\ UNCHANGED <<tasks, prefs, now, due, current, todo, failed, history>>

(* Slip: the handler catches its own errors.                               *)
HandlerFailsSilently ==
    /\ phase \in {"roll", "purge", "chain"} /\ faults < MaxFaults
    /\ phase' = "settle"
    /\ todo' = {}
    /\ faults' = faults + 1
    /\ UNCHANGED <<rows, tasks, prefs, now, due, current, failed, broken>>

(* A statement of the handler throws: what it did so far stays done.       *)
HandlerFails ==
    /\ phase \in {"roll", "purge", "chain"} /\ faults < MaxFaults
    /\ phase' = "settle"
    /\ failed' = TRUE /\ todo' = {}
    /\ faults' = faults + 1
    /\ UNCHANGED <<rows, tasks, prefs, now, due, current, broken>>

LastTry == rows[current].attempts + 1 >= MaxAttempts

(* The backoff is seconds: the retry falls into this slot or the next.     *)
Settle(retryAt) ==
    /\ phase = "settle"
    /\ phase' = "cycle"
    /\ current' = 0 /\ failed' = FALSE
    /\ rows' = IF ~failed THEN MarkCompleted(rows, current)
               ELSE IF LastTry THEN MarkDead(rows, current)
               ELSE MarkFailed(rows, current, retryAt)
    /\ broken' = (broken \/ (failed /\ LastTry))
    /\ UNCHANGED <<tasks, prefs, now, due, todo, faults>>

EndCycle ==
    /\ phase = "cycle" /\ due = {}
    /\ phase' = "idle"
    /\ UNCHANGED <<rows, tasks, prefs, now, due, current, todo, failed, history>>

(* A queue statement throws: the cycle ends, a row in hand stays running.  *)
StorageError ==
    /\ phase \in {"cycle", "settle"} /\ faults < MaxFaults
    /\ faults' = faults + 1
    /\ phase' = "idle" /\ due' = {} /\ current' = 0 /\ failed' = FALSE
    /\ broken' = (broken \/ phase = "settle")
    /\ UNCHANGED <<rows, tasks, prefs, now, todo>>

----------------------------------------------------------------------------
Dates == Days \union {NoDate}

(* A retry after the clock has stopped would wait for ever.                *)
RetryTimes == {now, now + 1} \intersect 0 .. LastSlot

Next ==
    \/ Tick \/ BootRollover \/ BootPurge \/ StartRunner
    \/ Shutdown \/ Crash
    \/ \E p \in PrefChoices : SetPrefs(p)
    \/ \E t \in Tasks :
          \/ \E date \in Dates, rolls \in RollChoices :
                \/ CreateTask(t, date, rolls)
                \/ \E done \in BOOLEAN : EditTask(t, date, rolls, done)
          \/ DeleteTask(t) \/ RestoreTask(t) \/ RollTask(t)
    \/ Poll \/ \E e \in due : Begin(e)
    \/ PurgeDeleted \/ Chain \/ HandlerFails
    \/ \E retryAt \in RetryTimes : Settle(retryAt)
    \/ EndCycle \/ StorageError

Spec == Init /\ [][Next]_vars

(* A slot is hours and a poll comes every second, so a running server      *)
(* does what is due before the slot is over; a server that is down misses  *)
(* any number of them.                                                     *)
Timely == phase = "down" \/ (phase = "idle" /\ GetPending(rows, now) = {})

(* The server is restarted when it is down, its boot and its cycles run to *)
(* their end, the interval timer polls (strongly: the process may be shut  *)
(* down and booted for ever), and time goes on.  No request is ever owed.  *)
Fairness ==
    /\ SF_vars(Timely /\ Tick)
    /\ WF_vars(BootRollover \/ BootPurge \/ StartRunner)
    /\ SF_vars(Poll) /\ WF_vars(EndCycle)
    /\ WF_vars(\E e \in due : Begin(e))
    /\ WF_vars(PurgeDeleted \/ \E t \in Tasks : RollTask(t))
    /\ WF_vars(Chain) /\ WF_vars(\E at \in RetryTimes : Settle(at))

FairNext == Next /\ (now' # now => Timely)

FairSpec == Init /\ [][FairNext]_vars /\ Fairness

----------------------------------------------------------------------------
(* Safety.                                                                 *)

(* A date is rolled over to by one job at a time: boot, the chain and the  *)
(* recovery of a crashed run never put two unfinished rollovers for the    *)
(* same date into the queue.                                               *)
OneRolloverPerDate ==
    \A r, s \in RowIds :
        /\ Rollover(rows, r) /\ IsActive(rows, r)
        /\ Rollover(rows, s) /\ IsActive(rows, s)
        /\ rows[r].date = rows[s].date
        => r = s

(* Boot looks at the purges before the interrupted one is recovered, so a  *)
(* crash can leave a purge too many, but each fault at most one: they do   *)
(* not pile up over the nights.                                            *)
PurgesDoNotPileUp ==
    Cardinality({ r \in RowIds : Purge(rows, r) /\ IsActive(rows, r) })
        <= 2 + faults

(* A task is never moved past today, and the days it is late never exceed  *)
(* those that went by since the first date a rollover found, whatever      *)
(* retries, catch-ups and edits did in between.                            *)
NeverRolledAhead ==
    \A t \in Tasks :
        tasks[t].orig # NoDate => tasks[t].orig + tasks[t].late <= Today

(* The chain of rollovers does not end: between two cycles the next one is *)
(* queued, unless since boot a job died or its settling write failed.      *)
RolloverChain ==
    phase = "idle" /\ ~broken =>
        \E r \in RowIds : Rollover(rows, r) /\ Queued(rows, r)

(* Nor does that of the purges.                                            *)
PurgeChain ==
    phase = "idle" /\ ~broken =>
        \E r \in RowIds : Purge(rows, r) /\ Queued(rows, r)

(* When a rollover for a date completes, no eligible task is left before   *)
(* that date (RolloverService.ts:6-7), even if earlier attempts stopped    *)
(* half-way.                                                               *)
CompletionStep ==
    \A r \in RowIds :
        /\ Rollover(rows, r)
        /\ rows[r].status # "completed" /\ rows'[r].status = "completed"
        => \A t \in Tasks : ~Overdue(t, rows[r].date)

CompletedMeansRolled == [][CompletionStep]_vars

----------------------------------------------------------------------------
(* Liveness.                                                               *)

(* An open task that is planned for a day before d is, once d has come,    *)
(* moved to d or later, unless the user finishes, moves or deletes it.     *)
OverdueRolls ==
    \A t \in Tasks, d \in Days :
        (Today < d /\ Overdue(t, d)) ~> ~Overdue(t, d)

(* Trash that will be old enough at the last purge is emptied, or restored.*)
TrashEmptied ==
    \A t \in Tasks :
        /\ tasks[t].state = "trash"
        /\ tasks[t].deletedAt < DaySlots * (LastDay - Retention) + PurgeHour
        ~> tasks[t].state # "trash"

----------------------------------------------------------------------------
(* What the documentation says and the code does not do.                   *)

(* "Keeps exactly one queued job per recurring type at any time"           *)
(* (JobScheduler.ts:4): with the rollover on, one is queued.               *)
RolloverQueued ==
    phase = "idle" /\ prefs.enabled =>
        \E r \in RowIds : Rollover(rows, r) /\ Queued(rows, r)
=============================================================================
