--------------------------- MODULE RecurringSeries ---------------------------
(***************************************************************************)
(* Recurring tasks: RecurringTaskService.ts, its routes, the templates'    *)
(* repository and the client's habits store.  A template is a schedule     *)
(* (see Calendar); its instances are tasks that carry its id and the date  *)
(* they stand for; its statistics are recomputed from the instances by     *)
(* every route that changes one.  A route runs without another in between. *)
(*                                                                         *)
(* A task is its template, its date and whether it is done or in the       *)
(* trash.  An instance stands for its date even when it is moved, so       *)
(* moving is left out.  0 is no template, no date, no end.                 *)
(***************************************************************************)
EXTENDS Calendar, FiniteSets

CONSTANTS
    Schedules,   \* what a template may ask for: a template without its start
    FirstDay, LastDay,       \* bound: the days
    Horizon,     \* how far ahead adopting a task generates
    MaxSeries, MaxTasks, MaxSteps    \* bounds: templates, tasks, requests

VARIABLES
    series,      \* templates by id, NoTemplate where there is none
    tasks,       \* every task ever made, in order
    stats,       \* the stored statistics of each template
    today,
    answer,      \* what the last request answered or recomputed
    excused,     \* history: instances back from the trash
    heirless,    \* history: instances whose template is gone
    steps

vars == <<series, tasks, stats, today, answer, excused, heirless, steps>>

Days      == FirstDay .. LastDay
SeriesIds == 1 .. MaxSeries
NoTemplate == [frequency |-> "none", interval |-> 0, days |-> {}, dom |-> 0,
               start |-> 0, end |-> 0]
NoStats   == [current |-> 0, longest |-> 0, total |-> 0, last |-> 0]
NoAnswer  == [op |-> "none"]
Streaks   == [current: 0 .. MaxTasks, longest: 0 .. MaxTasks, total: 0 .. MaxTasks,
              last: Days \union {0}]
Instances == [series: 0 .. MaxSeries, date: Days \union {0}, done: BOOLEAN, gone: BOOLEAN]

Template(schedule, start) ==
    [schedule EXCEPT !.start = start, !.end = IF @ = 0 THEN 0 ELSE start + @]
Templates == { Template(s, start) : s \in Schedules, start \in Days }

TypeOK ==
    /\ series \in [SeriesIds -> Templates \union {NoTemplate}]
    /\ tasks \in Seq(Instances)
    /\ stats \in [SeriesIds -> Streaks]
    /\ today \in Days /\ steps \in 0 .. MaxSteps
    /\ excused \subseteq DOMAIN tasks /\ heirless \subseteq DOMAIN tasks

----------------------------------------------------------------------------
(* Looked up rather than computed: the calendar of a model is fixed.       *)
Occurrences == [rt \in Templates |-> GenerateOccurrences([rt EXCEPT !.end = 0], FirstDay, LastDay)]
Adjacent(rt, a, b) ==
    b \in Occurrences[rt] /\ a < b /\ \A n \in Occurrences[rt] : ~(a < n /\ n < b)

(* findByRecurringTaskId(): what is in the trash is not there.             *)
InstancesOf(ts, s) == { t \in DOMAIN ts : ts[t].series = s /\ ~ts[t].gone }
TakenDates(ts, s)  == { ts[t].date : t \in InstancesOf(ts, s) }

Earlier(ts, t, u) == ts[t].date < ts[u].date \/ (ts[t].date = ts[u].date /\ t < u)

(* Slip: a done instance counts on from any done one before it.            *)
StreakOverGaps(rt, ts, past) ==
    LET prev(t) == { u \in past : Earlier(ts, u, t)
                        /\ \A v \in past : ~(Earlier(ts, u, v) /\ Earlier(ts, v, t)) }
        run[t \in past] ==
            IF ~ts[t].done THEN 0
            ELSE IF \E u \in prev(t) : ts[u].done
                 THEN run[CHOOSE u \in prev(t) : TRUE] + 1 ELSE 1
    IN  run

(* Streaks walk back from an instance as long as the one before is done    *)
(* and the schedule has nothing in between.                                *)
StreakTo(rt, ts, past) ==
    LET prev(t) == { u \in past : Earlier(ts, u, t)
                        /\ \A v \in past : ~(Earlier(ts, u, v) /\ Earlier(ts, v, t)) }
        run[t \in past] ==
            IF ~ts[t].done THEN 0
            ELSE IF \E u \in prev(t) : ts[u].done /\ Adjacent(rt, ts[u].date, ts[t].date)
                 THEN run[CHOOSE u \in prev(t) : TRUE] + 1 ELSE 1
    IN  run

Largest(S) == CHOOSE n \in S \union {0} : \A k \in S : k <= n

(* #computeStats(): future instances count as completions only; the        *)
(* longest streak is never given back.                                     *)
ComputeStats(rt, ts, s, old) ==
    LET all  == InstancesOf(ts, s)
        past == { t \in all : ts[t].date <= today }
        run  == StreakTo(rt, ts, past)
        latest == { t \in past : \A u \in past : u = t \/ Earlier(ts, u, t) }
        done == { t \in all : ts[t].done }
    IN  [current |-> IF past = {} THEN 0 ELSE run[CHOOSE t \in latest : TRUE],
         longest |-> Largest({old.longest} \union { run[t] : t \in past }),
         total   |-> Cardinality(done),
         last    |-> Largest({ ts[t].date : t \in done })]

(* refreshStats(): a template that is gone is only logged.                 *)
Refresh(ts, S) ==
    stats' = [s \in SeriesIds |->
                IF s \in S /\ series[s] # NoTemplate
                THEN ComputeStats(series[s], ts, s, stats[s]) ELSE stats[s]]

----------------------------------------------------------------------------
Init ==
    /\ series = [s \in SeriesIds |-> NoTemplate]
    /\ tasks = <<>>
    /\ stats = [s \in SeriesIds |-> NoStats]
    /\ today = FirstDay /\ answer = NoAnswer
    /\ excused = {} /\ heirless = {} /\ steps = 0

Request == steps < MaxSteps /\ steps' = steps + 1
Rows(ts) == Len(ts) <= MaxTasks /\ tasks' = ts
Known == { s \in SeriesIds : series[s] # NoTemplate }
NextId == Largest(Known) + 1

(* generateInstances(): the dates of the range that no instance holds.     *)
Instance(s, n) == [series |-> s, date |-> n, done |-> FALSE, gone |-> FALSE]

(* Slip: the range is taken without its first day.                         *)
MissingAfter(rt, ts, s, from, to) ==
    { n \in Occurrences[rt] : from < n /\ n <= to /\ (rt.end # 0 => n <= rt.end) }
        \ TakenDates(ts, s)

Missing(rt, ts, s, from, to) ==
    { n \in Occurrences[rt] : from <= n /\ n <= to /\ (rt.end # 0 => n <= rt.end) }
        \ TakenDates(ts, s)

GenerateInstances(rt, ts, s, from, to) ==
    LET missing == Missing(rt, ts, s, from, to)
        f[n \in from - 1 .. to] ==
            IF n = from - 1 THEN ts
            ELSE IF n \in missing THEN Append(f[n - 1], Instance(s, n))
            ELSE f[n - 1]
    IN  f[to]

GenerateAllInstances(ts, from, to) ==
    LET f[s \in 0 .. MaxSeries] ==
            CASE s = 0      -> ts
              [] s \in Known -> GenerateInstances(series[s], f[s - 1], s, from, to)
              [] OTHER      -> f[s - 1]
    IN  f[MaxSeries]

(* POST /api/recurring-tasks.                                              *)
CreateTemplate(schedule, start) ==
    /\ Request /\ NextId \in SeriesIds
    /\ series' = [series EXCEPT ![NextId] = Template(schedule, start)]
    /\ answer' = NoAnswer
    /\ UNCHANGED <<tasks, stats, today, excused, heirless>>

(* PUT /api/recurring-tasks/:id touches no instance and no statistics.     *)
UpdateTemplate(s, schedule, start) ==
    /\ Request /\ s \in Known
    /\ series' = [series EXCEPT ![s] = Template(schedule, start)]
    /\ answer' = NoAnswer
    /\ UNCHANGED <<tasks, stats, today, excused, heirless>>

(* DELETE /api/recurring-tasks/:id takes the statistics along; the         *)
(* instances stay as they are.                                             *)
DeleteTemplate(s) ==
    /\ Request /\ s \in Known
    /\ series' = [series EXCEPT ![s] = NoTemplate]
    /\ stats' = [stats EXCEPT ![s] = NoStats]
    /\ heirless' = heirless \union { t \in DOMAIN tasks : tasks[t].series = s }
    /\ answer' = NoAnswer
    /\ UNCHANGED <<tasks, today, excused>>

(* POST .../:id/generate and .../generate-all, for the days in view.       *)
Generate(s, from, to) ==
    /\ Request /\ s \in Known
    /\ Rows(GenerateInstances(series[s], tasks, s, from, to))
    /\ answer' = [op |-> "generated", ids |-> {s}, from |-> from, to |-> to]
    /\ UNCHANGED <<series, stats, today, excused, heirless>>

GenerateAll(from, to) ==
    /\ Request
    /\ Rows(GenerateAllInstances(tasks, from, to))
    /\ answer' = [op |-> "generated", ids |-> Known, from |-> from, to |-> to]
    /\ UNCHANGED <<series, stats, today, excused, heirless>>

CreateTask(date) ==
    /\ Request
    /\ Rows(Append(tasks, [series |-> 0, date |-> date, done |-> FALSE, gone |-> FALSE]))
    /\ answer' = NoAnswer
    /\ UNCHANGED <<series, stats, today, excused, heirless>>

(* POST .../adopt: the task becomes the first instance of a new template   *)
(* before the others are generated; one that has a template is refused.    *)
Adopt(t, schedule) ==
    LET start == IF tasks[t].date = 0 THEN today ELSE tasks[t].date
        rt    == Template(schedule, start)
        ts    == [tasks EXCEPT ![t] = [@ EXCEPT !.series = NextId, !.date = start]]
    IN  /\ Request /\ ~tasks[t].gone /\ tasks[t].series = 0 /\ NextId \in SeriesIds
        /\ series' = [series EXCEPT ![NextId] = rt]
        /\ Rows(GenerateInstances(rt, ts, NextId, start + 1, start + Horizon))
        /\ answer' = [op |-> "generated", ids |-> {NextId}, from |-> start + 1, to |-> start + Horizon]
        /\ UNCHANGED <<stats, today, excused, heirless>>

(* PUT, DELETE and restore of a task, each followed by refreshStats().     *)
Changed(t, row) ==
    /\ Request
    /\ tasks' = [tasks EXCEPT ![t] = row]
    /\ Refresh(tasks', {row.series})
    /\ answer' = (IF row.series \in Known THEN [op |-> "stats", id |-> row.series] ELSE NoAnswer)
    /\ UNCHANGED <<series, today, heirless>>

Toggle(t) ==
    ~tasks[t].gone /\ Changed(t, [tasks[t] EXCEPT !.done = ~@]) /\ UNCHANGED excused

Trash(t) ==
    ~tasks[t].gone /\ Changed(t, [tasks[t] EXCEPT !.gone = TRUE]) /\ UNCHANGED excused

Restore(t) ==
    /\ tasks[t].gone
    /\ Changed(t, [tasks[t] EXCEPT !.gone = FALSE])
    /\ excused' = excused \union {t}

(* GET .../:id/stats computes and stores them.                             *)
GetStats(s) ==
    /\ Request /\ s \in Known
    /\ Refresh(tasks, {s})
    /\ answer' = [op |-> "stats", id |-> s]
    /\ UNCHANGED <<series, tasks, today, excused, heirless>>

NextDay ==
    /\ today < LastDay
    /\ today' = today + 1 /\ answer' = NoAnswer
    /\ UNCHANGED <<series, tasks, stats, excused, heirless, steps>>

Next ==
    \/ \E c \in Schedules, n \in {today, today + 1} \intersect Days :
          CreateTemplate(c, n) \/ \E s \in Known : UpdateTemplate(s, c, n)
    \/ \E s \in Known : DeleteTemplate(s) \/ GetStats(s)
    \/ \E s \in Known : Generate(s, today, LastDay)
    \/ GenerateAll(FirstDay, today)
    \/ \E n \in {0, today} : CreateTask(n)
    \/ \E t \in DOMAIN tasks, c \in Schedules : Adopt(t, c)
    \/ \E t \in DOMAIN tasks : Toggle(t) \/ Trash(t) \/ Restore(t)
    \/ NextDay

Spec == Init /\ [][Next]_vars

----------------------------------------------------------------------------
(* "Overlapping calls never duplicate instances": whatever was generated,  *)
(* adopted, edited and rescheduled, no date has two instances of one       *)
(* template, unless one of them came back from the trash or was left       *)
(* behind by another template.                                             *)
OneInstancePerDate ==
    \A t, u \in DOMAIN tasks \ (excused \union heirless) :
        /\ t # u /\ ~tasks[t].gone /\ ~tasks[u].gone
        /\ tasks[t].series = tasks[u].series /\ tasks[t].series # 0
        => tasks[t].date # tasks[u].date

(* Once the days in view were generated, each date the schedule has there  *)
(* holds an instance.                                                      *)
GenerationComplete ==
    answer.op = "generated" =>
        \A s \in answer.ids, n \in answer.from .. answer.to :
            n \in Occurrences[series[s]] /\ (series[s].end # 0 => n <= series[s].end)
            => \E t \in DOMAIN tasks :
                  tasks[t].series = s /\ tasks[t].date = n /\ ~tasks[t].gone

(* The statistics recomputed are what the instances say: the current       *)
(* streak is the longest unbroken run that ends with the latest instance   *)
(* that is due; a run is unbroken if every instance in it is done and follows its  *)
(* neighbour in the schedule.                                              *)
Due(s) == { t \in InstancesOf(tasks, s) : tasks[t].date <= today }
Between(s, a, b) == { t \in Due(s) : a <= tasks[t].date /\ tasks[t].date <= b }
Unbroken(s, a, b) ==
    /\ \A t \in Between(s, a, b) : tasks[t].done
    /\ { n \in a + 1 .. b : n \in Occurrences[series[s]] }
         = { tasks[t].date : t \in Between(s, a, b) } \ {a}
Runs(s) == { r \in Days \X Days :
                /\ r[1] <= r[2] /\ {r[1], r[2]} \subseteq { tasks[t].date : t \in Due(s) }
                /\ Unbroken(s, r[1], r[2]) }
RunLength(s, r) == Cardinality(Between(s, r[1], r[2]))

StreaksAreRuns ==
    answer.op = "stats" /\ excused \union heirless = {} =>
        LET s      == answer.id
            latest == Largest({ tasks[t].date : t \in Due(s) })
        IN  /\ stats[s].current = Largest({ RunLength(s, r) : r \in { q \in Runs(s) : q[2] = latest } })
            /\ stats[s].longest >= Largest({ RunLength(s, r) : r \in Runs(s) })

(* "The best ever": the record of a template that lives never shrinks,     *)
(* whatever is uncompleted, deleted, purged or rescheduled.                *)
RecordKept ==
    [][\A s \in SeriesIds : series'[s] # NoTemplate => stats'[s].longest >= stats[s].longest]_vars

(* No template inherits records: "Keeping rows for ids the restore just    *)
(* removed lets a REUSED id inherit a deleted habit's records"             *)
(* (SqliteRecurringTaskRepository.ts:155); the completions of a template   *)
(* are those of its own instances.                                         *)
NoInheritedRecords ==
    \A s \in SeriesIds :
        stats[s].total <= Cardinality({ t \in InstancesOf(tasks, s) \ heirless : tasks[t].done })
=============================================================================
