--------------------------- MODULE DailyJobsProofs ---------------------------
(***************************************************************************)
(* Proofs about the daily jobs, for any tasks, days, faults, preferences   *)
(* and attempt limit, as long as the jobs table of the model, whose size   *)
(* is a bound, has a row left for the next job.  First what the rollovers  *)
(* do to the tasks; then the types, the two chains of jobs, and how many   *)
(* jobs there are.                                                         *)
(***************************************************************************)
EXTENDS MCDaily, RecursionLemmas, FiniteSetTheorems

(* The bound MaxRows is not reached: where a job may be queued, a row is   *)
(* left for it.                                                            *)
HasRoom  == \E r \in RowIds \ InUse : ~Exists(rows, r)
RoomLeft == phase \in {"down", "ensurePurge", "roll", "chain"} => HasRoom

----------------------------------------------------------------------------
(* The invariant.                                                          *)

Row == [status: Statuses, runAt: Nat, attempts: Nat, kind: {"rollover", "purge"},
        date: Nat \union {NoDate}]

AnyTask == [state: {"none", "live", "trash", "gone"}, done: BOOLEAN, rolls: BOOLEAN,
            date: Nat \union {NoDate}, orig: Nat \union {NoDate}, late: Nat, deletedAt: Nat]

Typed ==
    /\ now \in Nat /\ rows \in [RowIds -> Row] /\ tasks \in [Tasks -> AnyTask]
    /\ phase \in Phases /\ failed \in BOOLEAN /\ todo \subseteq Tasks

(* A rollover is never due before the day it moves the tasks to.           *)
Fits(row) == row.kind = "rollover" => row.date \in Nat /\ row.date <= DayOf(row.runAt)

RowsFit == \A r \in RowIds : Fits(rows[r])

InHand == phase \in {"roll", "purge", "chain", "settle"}

(* The copies of a cycle are of different rows, all of them due, and the   *)
(* row in hand is not among them.                                          *)
CycleFits ==
    /\ IF InHand THEN current \in RowIds ELSE current = 0
    /\ phase # "cycle" /\ ~InHand => due = {}
    /\ phase = "roll" => rows[current].kind = "rollover"
    /\ phase \in {"purge", "chain"} => rows[current].kind = "purge"
    /\ \A e \in due : e.id \in RowIds /\ e.id # current /\ rows[e.id].runAt <= now
    /\ \A e, f \in due : e.id = f.id => e = f
    /\ InHand /\ rows[current].kind = "rollover" => rows[current].date <= Today

(* What is left to do for the rollover in hand: nobody edits a task while  *)
(* the cycle runs.                                                         *)
WorkLeft ==
    /\ phase = "roll" => \A t \in Tasks : Overdue(t, rows[current].date) <=> t \in todo
    /\ phase # "roll" => todo = {}
    /\ phase = "settle" /\ ~failed /\ rows[current].kind = "rollover"
           => \A t \in Tasks : ~Overdue(t, rows[current].date)

DailyInv == Typed /\ RowsFit /\ CycleFits /\ WorkLeft /\ NeverRolledAhead

----------------------------------------------------------------------------
LEMMA DayMono ==
    ASSUME NEW a \in Nat, NEW b \in Nat, a <= b
    PROVE  DayOf(a) \in Nat /\ DayOf(b) \in Nat /\ DayOf(a) <= DayOf(b)
BY DEF DayOf, DaySlots

(* A new job takes a row nobody holds a copy of.                           *)
NewJob(q, kind, date, at, r) ==
    /\ q[r].kind = kind /\ q[r].date = date /\ q[r].runAt = at
    /\ q[r].status = "pending" /\ q[r].attempts = 0 /\ ~Exists(rows, r)
    /\ \A s \in RowIds \ {r} : q[s] = rows[s]

LEMMA InsertEffect ==
    ASSUME Typed, HasRoom, NEW kind \in {"rollover", "purge"}, NEW date \in Nat \union {NoDate},
           NEW at \in Nat
    PROVE  /\ Insert(rows, kind, date, at) \in [RowIds -> Row]
           /\ \E r \in RowIds \ InUse : NewJob(Insert(rows, kind, date, at), kind, date, at, r)
<1>. DEFINE Fresh == { r \in RowIds \ InUse : ~Exists(rows, r) }
            r == CHOOSE r \in Fresh : \A s \in Fresh : r <= s
<1>1. Fresh \subseteq Nat /\ Fresh # {}
  BY DailyAssumption DEF HasRoom, RowIds
<1>2. \E m \in Fresh : \A k \in Fresh : m <= k
  BY <1>1, LeastNumber
<1>3. r \in Fresh
  BY <1>2
<1>4. Insert(rows, kind, date, at) =
          [Schedule(rows, r, at) EXCEPT ![r].kind = kind, ![r].date = date]
  BY DEF Insert
<1>. HIDE DEF r
<1>5. r \in RowIds /\ r \notin InUse /\ ~Exists(rows, r) /\ rows[r] \in Row /\ rows \in [RowIds -> Row]
  BY <1>3 DEF Typed
<1>. DEFINE A == [rows[r] EXCEPT !.status = "pending", !.runAt = at, !.attempts = 0]
            B == [A EXCEPT !.kind = kind, !.date = date]
            q == Schedule(rows, r, at)
<1>6. A \in Row /\ A.status = "pending" /\ A.runAt = at /\ A.attempts = 0
  BY <1>5 DEF Row, Statuses
<1>. HIDE DEF A
<1>7. /\ B \in Row /\ B.kind = kind /\ B.date = date /\ B.runAt = at /\ B.status = "pending"
      /\ B.attempts = 0
  BY <1>6 DEF Row
<1>8. q = [rows EXCEPT ![r] = A]
  BY DEF Schedule, A
<1>9. q \in [RowIds -> Row] /\ q[r] = A /\ \A s \in RowIds \ {r} : q[s] = rows[s]
  BY <1>5, <1>6, <1>8
<1>. HIDE DEF q
<1>10. [q EXCEPT ![r].kind = kind, ![r].date = date] = [q EXCEPT ![r] = [q[r] EXCEPT !.kind = kind, !.date = date]]
  BY <1>5, <1>9
<1>11. Insert(rows, kind, date, at) = [q EXCEPT ![r] = B]
  BY <1>4, <1>9, <1>10 DEF q
<1>. HIDE DEF B
<1>12. /\ Insert(rows, kind, date, at) \in [RowIds -> Row] /\ Insert(rows, kind, date, at)[r] = B
       /\ \A s \in RowIds \ {r} : Insert(rows, kind, date, at)[s] = rows[s]
  BY <1>5, <1>7, <1>9, <1>11
<1>13. NewJob(Insert(rows, kind, date, at), kind, date, at, r)
  BY <1>5, <1>7, <1>12 DEF NewJob
<1>. QED
  BY <1>5, <1>12, <1>13

(* What scheduling may do to the jobs table.                               *)
Scheduled(q) ==
    /\ q \in [RowIds -> Row] /\ \A r \in RowIds : Fits(q[r])
    /\ \A r \in InUse \ {0} :
        /\ q[r].kind = rows[r].kind /\ q[r].date = rows[r].date /\ q[r].runAt = rows[r].runAt
    /\ \A r \in RowIds : q[r].status = "completed" => rows[r].status = "completed"

LEMMA CancelSchedules ==
    ASSUME DailyInv, NEW S
    PROVE  Scheduled(CancelAll(rows, S))
<1>. DEFINE q == CancelAll(rows, S)
<1>. USE DEF DailyInv, Typed
<1>1. ASSUME NEW r \in RowIds
      PROVE  \/ q[r] = rows[r]
             \/ q[r] = [rows[r] EXCEPT !.status = "deleted"]
             \/ q[r] = Unused /\ r \notin InUse
  BY <1>1 DEF CancelAll, Cancel
<1>2. DOMAIN q = RowIds /\ q = [r \in RowIds |-> q[r]]
  BY DEF CancelAll
<1>3. Unused \in Row /\ Fits(Unused)
  BY DEF Unused, Row, Statuses, Fits
<1>. HIDE DEF q
<1>4. ASSUME NEW r \in RowIds PROVE q[r] \in Row /\ Fits(q[r])
  <2>1. rows[r] \in Row /\ Fits(rows[r])
    BY DEF RowsFit
  <2>2. [rows[r] EXCEPT !.status = "deleted"] \in Row /\ Fits([rows[r] EXCEPT !.status = "deleted"])
    BY <2>1 DEF Row, Fits, Statuses
  <2>. QED
    BY <1>1, <1>3, <2>1, <2>2
<1>5. ASSUME NEW r \in RowIds, r \in InUse
      PROVE  q[r].kind = rows[r].kind /\ q[r].date = rows[r].date /\ q[r].runAt = rows[r].runAt
  BY <1>1, <1>5 DEF Row
<1>6. ASSUME NEW r \in RowIds, q[r].status = "completed" PROVE rows[r].status = "completed"
  <2>1. rows[r] \in Row
    OBVIOUS
  <2>2. [rows[r] EXCEPT !.status = "deleted"].status = "deleted"
    BY <2>1 DEF Row
  <2>3. Unused.status = "unused"
    BY DEF Unused
  <2>. QED
    BY <1>1, <1>6, <2>2, <2>3
<1>7. InUse \ {0} \subseteq RowIds
  BY DEF InUse, CycleFits
<1>8. q \in [RowIds -> Row]
  BY <1>2, <1>4
<1>. QED
  BY <1>4, <1>5, <1>6, <1>7, <1>8 DEF Scheduled, q

LEMMA InsertSchedules ==
    ASSUME DailyInv, HasRoom, NEW kind \in {"rollover", "purge"}, NEW date \in Nat \union {NoDate},
           NEW at \in Nat, kind = "rollover" => date \in Nat /\ date <= DayOf(at)
    PROVE  Scheduled(Insert(rows, kind, date, at))
<1>. DEFINE q == Insert(rows, kind, date, at)
<1>. USE DEF DailyInv, Typed
<1>1. q \in [RowIds -> Row]
  BY InsertEffect
<1>2. PICK r \in RowIds \ InUse :
          /\ q[r].kind = kind /\ q[r].date = date /\ q[r].runAt = at /\ q[r].status = "pending"
          /\ \A s \in RowIds \ {r} : q[s] = rows[s]
  BY InsertEffect DEF NewJob
<1>3. InUse \ {0} \subseteq RowIds
  BY DEF InUse, CycleFits
<1>. HIDE DEF q
<1>4. ASSUME NEW s \in RowIds PROVE Fits(q[s])
  BY <1>2 DEF RowsFit, Fits
<1>5. \A s \in InUse \ {0} : q[s] = rows[s]
  BY <1>2, <1>3
<1>6. \A s \in RowIds : q[s].status = "completed" => rows[s].status = "completed"
  BY <1>2
<1>. QED
  BY <1>1, <1>4, <1>5, <1>6 DEF Scheduled, q

LEMMA NothingScheduled == DailyInv => Scheduled(rows)
BY DEF DailyInv, Typed, RowsFit, Scheduled

LEMMA NextOccurrence ==
    ASSUME DailyInv, NEW hour \in Nat
    PROVE  /\ NextDailyOccurrence(hour) \in Nat /\ DayOf(NextDailyOccurrence(hour)) \in Nat
           /\ Today \in Nat
<1>1. now \in Nat /\ Today \in Nat
  BY DayMono DEF DailyInv, Typed, Today
<1>2. NextDailyOccurrence(hour) \in Nat
  BY <1>1 DEF NextDailyOccurrence, DaySlots
<1>. QED
  BY <1>1, <1>2, DayMono

LEMMA EnsureRollover ==
    ASSUME DailyInv, HasRoom
    PROVE  Scheduled(EnsureRolloverScheduled(rows))
<1>1. TriggerHour \in Nat
  BY DEF TriggerHour, NineAm, Midnight
<1>2. Scheduled(EnsureNextDay(rows))
  <2>. DEFINE nextRun == NextDailyOccurrence(TriggerHour)
  <2>1. nextRun \in Nat /\ DayOf(nextRun) \in Nat
    BY <1>1, NextOccurrence
  <2>2. Scheduled(Insert(rows, "rollover", DayOf(nextRun), nextRun))
    BY <2>1, InsertSchedules
  <2>. QED
    BY <2>2, NothingScheduled DEF EnsureNextDay
<1>3. Scheduled(Insert(rows, "rollover", Today, now))
  <2>1. now \in Nat /\ Today \in Nat /\ Today <= DayOf(now)
    BY NextOccurrence DEF DailyInv, Typed, Today
  <2>. QED
    BY <2>1, InsertSchedules
<1>. QED
  BY <1>2, <1>3, CancelSchedules DEF EnsureRolloverScheduled

LEMMA EnsurePurge ==
    ASSUME DailyInv, HasRoom
    PROVE  Scheduled(EnsurePurgeScheduled(rows))
<1>1. PurgeHour \in Nat
  BY DEF PurgeHour
<1>2. NextDailyOccurrence(PurgeHour) \in Nat
  BY <1>1, NextOccurrence
<1>3. Scheduled(Insert(rows, "purge", NoDate, NextDailyOccurrence(PurgeHour)))
  BY <1>2, InsertSchedules
<1>. QED
  BY <1>3, NothingScheduled DEF EnsurePurgeScheduled

----------------------------------------------------------------------------
(* The steps.                                                              *)

Kept == DailyInv' /\ CompletionStep

(* The process stops, or does nothing but leave a cycle with nothing left. *)
LEMMA Idles ==
    ASSUME DailyInv, phase' \in Phases, ~InHand', phase' # "cycle", due' = {}, current' = 0,
           todo' = {}, failed' \in BOOLEAN, UNCHANGED <<rows, tasks, now>>
    PROVE  Kept
<1>1. Typed'
  BY DEF DailyInv, Typed
<1>2. RowsFit'
  BY DEF DailyInv, RowsFit
<1>3. CycleFits'
  BY DEF DailyInv, CycleFits, InHand
<1>4. WorkLeft'
  BY DEF WorkLeft, InHand
<1>5. NeverRolledAhead'
  BY DEF DailyInv, NeverRolledAhead, Today
<1>6. CompletionStep
  BY DEF CompletionStep
<1>. QED
  BY <1>1, <1>2, <1>3, <1>4, <1>5, <1>6 DEF Kept, DailyInv

(* Nothing is in hand and only the jobs table changes.                     *)
LEMMA Schedules ==
    ASSUME DailyInv, ~InHand, phase # "cycle", phase' \in Phases, ~InHand', phase' # "cycle",
           Scheduled(rows'), UNCHANGED <<tasks, now, due, current, todo, failed>>
    PROVE  Kept
<1>1. Typed'
  BY DEF DailyInv, Typed, Scheduled
<1>2. RowsFit'
  BY DEF Scheduled, RowsFit
<1>3. CycleFits'
  BY DEF DailyInv, CycleFits, InHand
<1>4. WorkLeft'
  BY DEF DailyInv, WorkLeft, InHand
<1>5. NeverRolledAhead'
  BY DEF DailyInv, NeverRolledAhead, Today
<1>6. CompletionStep
  BY DEF CompletionStep, Scheduled
<1>. QED
  BY <1>1, <1>2, <1>3, <1>4, <1>5, <1>6 DEF Kept, DailyInv

LEMMA TickKeeps == ASSUME DailyInv, Tick PROVE Kept
<1>. USE DEF DailyInv, Tick, process, history
<1>1. Typed'
  BY DEF Typed
<1>2. RowsFit'
  BY DEF RowsFit
<1>3. Today \in Nat /\ Today' \in Nat /\ Today <= Today'
  BY DayMono DEF Typed, Today
<1>4. CycleFits'
  <2>1. InHand /\ rows[current].kind = "rollover" => rows[current].date \in Nat
    BY DEF CycleFits, RowsFit, Fits
  <2>2. \A e \in due : rows[e.id].runAt \in Nat
    BY DEF CycleFits, Typed, Row
  <2>. QED
    BY <1>3, <2>1, <2>2 DEF CycleFits, InHand, Typed
<1>5. WorkLeft'
  BY DEF WorkLeft, Overdue
<1>6. NeverRolledAhead'
  <2>1. \A t \in Tasks : tasks[t].orig # NoDate => tasks[t].orig \in Nat /\ tasks[t].late \in Nat
    BY DEF Typed, AnyTask
  <2>. QED
    BY <1>3, <2>1 DEF NeverRolledAhead
<1>7. CompletionStep
  BY DEF CompletionStep
<1>. QED
  BY <1>1, <1>2, <1>4, <1>5, <1>6, <1>7 DEF Kept

LEMMA RecoverySchedules == DailyInv /\ ~InHand /\ due = {} => Scheduled(RecoverStuckJobs(rows))
<1>. SUFFICES ASSUME DailyInv, ~InHand, due = {} PROVE Scheduled(RecoverStuckJobs(rows))
  OBVIOUS
<1>. DEFINE q == RecoverStuckJobs(rows)
<1>. USE DEF DailyInv, Typed
<1>1. q = [r \in RowIds |-> q[r]]
  BY DEF RecoverStuckJobs
<1>2. ASSUME NEW r \in RowIds
      PROVE  q[r] \in Row /\ Fits(q[r]) /\ (q[r].status = "completed" => rows[r].status = "completed")
  <2>1. rows[r] \in Row /\ Fits(rows[r])
    BY DEF RowsFit
  <2>2. q[r] = rows[r] \/ q[r] = [rows[r] EXCEPT !.status = "pending"]
    BY DEF RecoverStuckJobs
  <2>. HIDE DEF q
  <2>3. CASE q[r] = [rows[r] EXCEPT !.status = "pending"]
    BY <2>1, <2>3 DEF Row, Fits, Statuses
  <2>. QED
    BY <2>1, <2>2, <2>3
<1>3. InUse \ {0} = {}
  BY DEF InUse, CycleFits
<1>. HIDE DEF q
<1>4. q \in [RowIds -> Row]
  BY <1>1, <1>2
<1>. QED
  BY <1>2, <1>3, <1>4 DEF Scheduled, q

LEMMA RequestKeeps ==
    ASSUME DailyInv, NEW t \in Tasks, NEW from, NEW task \in AnyTask, Request(t, from, task),
           task.orig = tasks[t].orig, task.late = tasks[t].late
    PROVE  Kept
<1>. USE DEF DailyInv, Request, process, history
<1>1. Typed'
  BY DEF Typed
<1>2. RowsFit'
  BY DEF RowsFit
<1>3. CycleFits'
  BY DEF CycleFits, InHand, Today
<1>4. WorkLeft'
  BY DEF WorkLeft
<1>5. NeverRolledAhead'
  <2>1. \A u \in Tasks : tasks'[u].orig = tasks[u].orig /\ tasks'[u].late = tasks[u].late
    BY DEF Typed
  <2>. QED
    BY <2>1 DEF NeverRolledAhead, Today
<1>6. CompletionStep
  BY DEF CompletionStep
<1>. QED
  BY <1>1, <1>2, <1>3, <1>4, <1>5, <1>6 DEF Kept

LEMMA UserKeeps ==
    ASSUME DailyInv, NEW t \in Tasks,
           \/ \E date \in Dates, rolls \in RollChoices :
                 \/ CreateTask(t, date, rolls)
                 \/ \E done \in BOOLEAN : EditTask(t, date, rolls, done)
           \/ DeleteTask(t) \/ RestoreTask(t)
    PROVE  Kept
<1>. USE RequestAssumption, DailyAssumption
<1>1. tasks[t] \in AnyTask /\ now \in Nat /\ Dates \subseteq Nat \union {NoDate}
  BY DEF DailyInv, Typed, Dates, Days
<1>2. ASSUME NEW date \in Dates, NEW rolls \in RollChoices, CreateTask(t, date, rolls) PROVE Kept
  <2>. DEFINE task == [tasks[t] EXCEPT !.state = "live", !.date = date, !.rolls = rolls]
  <2>1. task \in AnyTask /\ task.orig = tasks[t].orig /\ task.late = tasks[t].late
    BY <1>1 DEF AnyTask
  <2>. QED
    BY <1>2, <2>1, RequestKeeps DEF CreateTask
<1>3. ASSUME NEW date \in Dates, NEW rolls \in RollChoices, NEW done \in BOOLEAN,
             EditTask(t, date, rolls, done)
      PROVE  Kept
  <2>. DEFINE task == [tasks[t] EXCEPT !.date = date, !.rolls = rolls, !.done = done]
  <2>1. task \in AnyTask /\ task.orig = tasks[t].orig /\ task.late = tasks[t].late
    BY <1>1 DEF AnyTask
  <2>. QED
    BY <1>3, <2>1, RequestKeeps DEF EditTask
<1>4. CASE DeleteTask(t)
  <2>. DEFINE task == [tasks[t] EXCEPT !.state = "trash", !.deletedAt = now]
  <2>1. task \in AnyTask /\ task.orig = tasks[t].orig /\ task.late = tasks[t].late
    BY <1>1 DEF AnyTask
  <2>. QED
    BY <1>4, <2>1, RequestKeeps DEF DeleteTask
<1>5. CASE RestoreTask(t)
  <2>. DEFINE task == [tasks[t] EXCEPT !.state = "live", !.deletedAt = 0]
  <2>1. task \in AnyTask /\ task.orig = tasks[t].orig /\ task.late = tasks[t].late
    BY <1>1 DEF AnyTask
  <2>. QED
    BY <1>5, <2>1, RequestKeeps DEF RestoreTask
<1>. QED
  BY <1>2, <1>3, <1>4, <1>5

LEMMA PollKeeps == ASSUME DailyInv, Poll PROVE Kept
<1>. USE DEF DailyInv, Poll, history
<1>1. Typed'
  BY DEF Typed, Phases
<1>2. RowsFit'
  BY DEF RowsFit
<1>3. CycleFits'
  <2>1. current = 0 /\ 0 \notin RowIds
    BY DailyAssumption DEF CycleFits, InHand, RowIds
  <2>2. \A e \in due' : e.id \in RowIds /\ rows[e.id].runAt <= now
    BY DEF GetPending, Typed
  <2>3. \A e, f \in due' : e.id = f.id => e = f
    BY DEF GetPending
  <2>. QED
    BY <2>1, <2>2, <2>3 DEF CycleFits, InHand
<1>4. WorkLeft'
  BY DEF WorkLeft
<1>5. NeverRolledAhead'
  BY DEF NeverRolledAhead, Today
<1>6. CompletionStep
  BY DEF CompletionStep
<1>. QED
  BY <1>1, <1>2, <1>3, <1>4, <1>5, <1>6 DEF Kept

(* The statements of a cycle write one row, and no other row's copy.       *)
LEMMA BeginKeeps == ASSUME DailyInv, NEW e \in due, Begin(e) PROVE Kept
<1>. USE DEF DailyInv, Begin, history
<1>1. /\ e.id \in RowIds /\ rows[e.id] \in Row /\ Fits(rows[e.id]) /\ rows[e.id].runAt <= now
      /\ now \in Nat /\ rows \in [RowIds -> Row]
  BY DEF CycleFits, Typed, RowsFit
<1>2. /\ rows' \in [RowIds -> Row]
      /\ \A r \in RowIds : /\ rows'[r].kind = rows[r].kind /\ rows'[r].date = rows[r].date
                           /\ rows'[r].runAt = rows[r].runAt
                           /\ rows'[r].status \in {rows[r].status, "running"}
  <2>1. CASE Exists(rows, e.id)
    <3>. DEFINE A == [rows[e.id] EXCEPT !.status = "running"]
    <3>1. /\ A \in Row /\ A.kind = rows[e.id].kind /\ A.date = rows[e.id].date
          /\ A.runAt = rows[e.id].runAt /\ A.status = "running"
      BY <1>1 DEF Row, Statuses
    <3>2. rows' = [rows EXCEPT ![e.id] = A]
      BY <2>1 DEF MarkRunning
    <3>. HIDE DEF A
    <3>. QED
      BY <1>1, <3>1, <3>2
  <2>2. CASE ~Exists(rows, e.id)
    BY <1>1, <2>2 DEF MarkRunning
  <2>. QED
    BY <2>1, <2>2
<1>3. phase' \in {"roll", "purge"} /\ current' = e.id /\ due' = due \ {e}
  OBVIOUS
<1>4. Typed'
  BY <1>2, <1>3 DEF Typed, Phases, FindRolloverCandidates
<1>5. RowsFit'
  BY <1>2 DEF RowsFit, Fits
<1>6. rows[e.id].kind = "rollover" => rows[e.id].date \in Nat /\ rows[e.id].date <= Today
  <2>1. rows[e.id].runAt \in Nat
    BY <1>1 DEF Row
  <2>2. DayOf(rows[e.id].runAt) <= Today /\ DayOf(rows[e.id].runAt) \in Nat /\ Today \in Nat
    BY <1>1, <2>1, DayMono DEF Today
  <2>. QED
    BY <1>1, <2>2 DEF Fits
<1>7. CycleFits'
  <2>1. \A f \in due' : f.id \in RowIds /\ f.id # e.id /\ rows'[f.id].runAt <= now
    BY <1>2, <1>3 DEF CycleFits
  <2>2. \A f, g \in due' : f.id = g.id => f = g
    BY <1>3 DEF CycleFits
  <2>3. rows[e.id].kind \in {"rollover", "purge"}
    BY <1>1 DEF Row
  <2>. QED
    BY <1>1, <1>2, <1>3, <1>6, <2>1, <2>2, <2>3 DEF CycleFits, InHand, Today
<1>8. WorkLeft'
  <2>1. rows'[current'].date = rows[e.id].date
    BY <1>1, <1>2
  <2>3. phase' = "roll" => todo' = FindRolloverCandidates(rows[e.id].date)
    OBVIOUS
  <2>4. phase' # "roll" => todo' = {}
    OBVIOUS
  <2>5. phase' = "roll" => \A t \in Tasks : Overdue(t, rows[current].date)' <=> t \in todo'
    <3>. SUFFICES ASSUME phase' = "roll", NEW t \in Tasks
                  PROVE  Overdue(t, rows[current].date)' <=> t \in todo'
      OBVIOUS
    <3>1. Overdue(t, rows[current].date)' <=> Overdue(t, rows[e.id].date)
      BY <2>1 DEF Overdue
    <3>. QED
      BY <2>3, <3>1 DEF FindRolloverCandidates
  <2>. QED
    BY <1>3, <2>4, <2>5 DEF WorkLeft
<1>9. NeverRolledAhead'
  BY DEF NeverRolledAhead, Today
<1>10. CompletionStep
  BY <1>2 DEF CompletionStep
<1>. QED
  BY <1>4, <1>5, <1>7, <1>8, <1>9, <1>10 DEF Kept

LEMMA RollKeeps ==
    ASSUME NoDate \notin Nat, DailyInv, NEW t \in Tasks, RollTask(t)
    PROVE  Kept
<1>. USE DEF DailyInv, RollTask, history
<1>. DEFINE d == rows[current].date
            first == IF tasks[t].orig = NoDate THEN tasks[t].date ELSE tasks[t].orig
            late == IF d > first THEN d - first ELSE 0
            new == RolledOver(tasks[t], d)
<1>1. /\ current \in RowIds /\ rows[current].kind = "rollover" /\ d \in Nat /\ d <= Today
      /\ tasks[t] \in AnyTask /\ now \in Nat /\ Today \in Nat
  BY DayMono DEF CycleFits, InHand, RowsFit, Fits, Typed, Today
<1>2. Overdue(t, d)
  BY DEF WorkLeft
<1>3. tasks[t].date \in Nat /\ tasks[t].date < d
  BY <1>1, <1>2 DEF Overdue, AnyTask
<1>4. first \in Nat /\ late \in Nat
  BY <1>1, <1>3 DEF AnyTask
<1>5. new \in AnyTask /\ new.date = d /\ new.orig = first /\ new.late = late
  <2>1. new = [tasks[t] EXCEPT !.date = d, !.orig = first, !.late = late]
    BY DEF RolledOver
  <2>. HIDE DEF d, first, late
  <2>. QED
    BY <1>1, <1>4, <2>1 DEF AnyTask
<1>6. tasks' = [tasks EXCEPT ![t] = new]
  OBVIOUS
<1>. HIDE DEF new
<1>7. tasks' \in [Tasks -> AnyTask] /\ tasks'[t] = new /\ \A u \in Tasks \ {t} : tasks'[u] = tasks[u]
  BY <1>5, <1>6 DEF Typed
<1>8. first + late <= Today
  <2>1. CASE tasks[t].orig = NoDate
    BY <1>1, <1>3, <2>1
  <2>2. CASE tasks[t].orig # NoDate
    <3>1. tasks[t].orig \in Nat /\ tasks[t].late \in Nat /\ tasks[t].orig + tasks[t].late <= Today
      BY <1>1, <2>2 DEF NeverRolledAhead, AnyTask
    <3>. QED
      BY <1>1, <2>2, <3>1
  <2>. QED
    BY <2>1, <2>2
<1>. HIDE DEF first, late
<1>9. Typed'
  BY <1>7 DEF Typed
<1>10. RowsFit'
  BY DEF RowsFit
<1>11. CycleFits'
  BY DEF CycleFits, InHand, Today
<1>12. WorkLeft'
  <2>1. ~Overdue(t, d)'
    BY <1>1, <1>5, <1>7 DEF Overdue
  <2>2. \A u \in Tasks \ {t} : Overdue(u, d)' <=> Overdue(u, d)
    BY <1>7 DEF Overdue
  <2>3. todo' = todo \ {t} /\ phase' = "roll"
    OBVIOUS
  <2>. QED
    BY <2>1, <2>2, <2>3 DEF WorkLeft
<1>13. NeverRolledAhead'
  BY <1>5, <1>7, <1>8 DEF NeverRolledAhead, Today
<1>14. CompletionStep
  BY DEF CompletionStep
<1>. QED
  BY <1>9, <1>10, <1>11, <1>12, <1>13, <1>14 DEF Kept

LEMMA PurgeKeeps == ASSUME DailyInv, PurgeDeleted PROVE Kept
<1>. USE DEF DailyInv, PurgeDeleted, history
<1>1. ASSUME NEW t \in Tasks
      PROVE  /\ tasks'[t] \in AnyTask
             /\ tasks'[t].orig = tasks[t].orig /\ tasks'[t].late = tasks[t].late
  <2>1. tasks[t] \in AnyTask
    BY DEF Typed
  <2>2. tasks'[t] = tasks[t] \/ tasks'[t] = [tasks[t] EXCEPT !.state = "gone"]
    BY DEF Purged
  <2>3. /\ [tasks[t] EXCEPT !.state = "gone"] \in AnyTask
        /\ [tasks[t] EXCEPT !.state = "gone"].orig = tasks[t].orig
        /\ [tasks[t] EXCEPT !.state = "gone"].late = tasks[t].late
    BY <2>1 DEF AnyTask
  <2>. QED
    BY <2>1, <2>2, <2>3
<1>2. tasks' = [t \in Tasks |-> tasks'[t]]
  OBVIOUS
<1>3. tasks' \in [Tasks -> AnyTask]
  BY <1>1, <1>2
<1>4. Typed'
  BY <1>3 DEF Typed, Phases
<1>5. RowsFit'
  BY DEF RowsFit
<1>6. CycleFits'
  BY DEF CycleFits, InHand, Today
<1>7. WorkLeft'
  BY DEF WorkLeft
<1>8. NeverRolledAhead'
  BY <1>1 DEF NeverRolledAhead, Today
<1>9. CompletionStep
  BY DEF CompletionStep
<1>. QED
  BY <1>4, <1>5, <1>6, <1>7, <1>8, <1>9 DEF Kept

LEMMA ChainKeeps == ASSUME DailyInv, RoomLeft, Chain PROVE Kept
<1>. USE DEF DailyInv, Chain, history
<1>1. Scheduled(rows')
  <2>1. HasRoom
    BY DEF RoomLeft
  <2>. QED
    BY <2>1, EnsureRollover, EnsurePurge
<1>2. current \in RowIds /\ current # 0 /\ 0 \notin RowIds
  BY DailyAssumption DEF CycleFits, InHand, RowIds
<1>3. \A r \in {current} \union {e.id : e \in due} :
          rows'[r].kind = rows[r].kind /\ rows'[r].date = rows[r].date /\ rows'[r].runAt = rows[r].runAt
  <2>1. \A e \in due : e.id # 0
    BY <1>2 DEF CycleFits
  <2>. QED
    BY <1>1, <1>2, <2>1 DEF Scheduled, InUse
<1>4. Typed'
  BY <1>1 DEF Typed, Scheduled, Phases
<1>5. RowsFit'
  BY <1>1 DEF RowsFit, Scheduled
<1>6. CycleFits'
  <2>1. \A e \in due : rows'[e.id].runAt = rows[e.id].runAt
    BY <1>3
  <2>2. rows'[current].kind = rows[current].kind /\ rows'[current].date = rows[current].date
    BY <1>3
  <2>. QED
    BY <1>2, <2>1, <2>2 DEF CycleFits, InHand, Today
<1>7. WorkLeft'
  <2>1. rows'[current].kind = rows[current].kind /\ rows'[current].date = rows[current].date
    BY <1>3
  <2>2. rows[current].kind = "rollover" => phase = "roll" /\ todo = {}
    BY DEF CycleFits
  <2>4. rows[current].kind = "rollover" => \A t \in Tasks : ~Overdue(t, rows[current].date)
    BY <2>2 DEF WorkLeft
  <2>5. todo' = {} /\ phase' = "settle"
    BY DEF WorkLeft
  <2>6. rows'[current'].kind = "rollover" => \A t \in Tasks : ~Overdue(t, rows[current].date)'
    BY <2>1, <2>4 DEF Overdue
  <2>. QED
    BY <2>5, <2>6 DEF WorkLeft
<1>8. NeverRolledAhead'
  BY DEF NeverRolledAhead, Today
<1>9. CompletionStep
  BY <1>1 DEF CompletionStep, Scheduled
<1>. QED
  BY <1>4, <1>5, <1>6, <1>7, <1>8, <1>9 DEF Kept

LEMMA FailKeeps == ASSUME DailyInv, HandlerFails PROVE Kept
<1>. USE DEF DailyInv, HandlerFails
<1>1. Typed'
  BY DEF Typed, Phases
<1>2. RowsFit'
  BY DEF RowsFit
<1>3. CycleFits'
  BY DEF CycleFits, InHand, Today
<1>4. WorkLeft'
  BY DEF WorkLeft
<1>5. NeverRolledAhead'
  BY DEF NeverRolledAhead, Today
<1>6. CompletionStep
  BY DEF CompletionStep
<1>. QED
  BY <1>1, <1>2, <1>3, <1>4, <1>5, <1>6 DEF Kept

LEMMA SettleKeeps == ASSUME DailyInv, NEW at \in RetryTimes, Settle(at) PROVE Kept
<1>. USE DEF DailyInv, Settle
<1>. DEFINE row == rows[current]
<1>1. /\ current \in RowIds /\ row \in Row /\ Fits(row) /\ now \in Nat /\ at \in Nat /\ now <= at
      /\ rows \in [RowIds -> Row]
  BY DEF CycleFits, InHand, Typed, RowsFit, RetryTimes
<1>2. row.kind = "rollover" => row.date \in Nat /\ row.date <= DayOf(at)
  <2>1. Today <= DayOf(at) /\ Today \in Nat /\ DayOf(at) \in Nat
    BY <1>1, DayMono DEF Today
  <2>2. row.kind = "rollover" => row.date \in Nat /\ row.date <= Today
    BY <1>1 DEF CycleFits, InHand, Fits
  <2>. QED
    BY <2>1, <2>2
<1>3. PICK A \in Row :
          /\ rows' = [rows EXCEPT ![current] = A] /\ Fits(A)
          /\ A.status = "completed" /\ row.status # "completed" => ~failed
          /\ A.kind = row.kind
  <2>0. rows = [rows EXCEPT ![current] = row]
    BY <1>1
  <2>1. CASE ~Exists(rows, current)
    BY <1>1, <2>0, <2>1 DEF MarkCompleted, MarkDead, MarkFailed
  <2>2. CASE Exists(rows, current) /\ ~failed
    <3>. DEFINE A == [row EXCEPT !.status = "completed"]
    <3>1. A \in Row /\ A.kind = row.kind /\ A.date = row.date /\ A.runAt = row.runAt
      BY <1>1 DEF Row, Statuses
    <3>2. rows' = [rows EXCEPT ![current] = A]
      BY <2>2 DEF MarkCompleted
    <3>. HIDE DEF A
    <3>. QED
      BY <1>1, <2>2, <3>1, <3>2 DEF Fits
  <2>3. CASE Exists(rows, current) /\ failed /\ LastTry
    <3>. DEFINE n == row.attempts + 1
                A == [row EXCEPT !.status = "dead", !.attempts = n]
    <3>0. n \in Nat
      BY <1>1 DEF Row
    <3>. HIDE DEF n
    <3>1. A \in Row /\ A.kind = row.kind /\ A.date = row.date /\ A.runAt = row.runAt /\ A.status = "dead"
      BY <1>1, <3>0 DEF Row, Statuses
    <3>2. rows' = [rows EXCEPT ![current] = A]
      BY <2>3 DEF MarkDead, n
    <3>. HIDE DEF A
    <3>. QED
      BY <1>1, <2>3, <3>1, <3>2 DEF Fits
  <2>4. CASE Exists(rows, current) /\ failed /\ ~LastTry
    <3>. DEFINE n == row.attempts + 1
                A == [row EXCEPT !.status = "failed", !.runAt = at, !.attempts = n]
    <3>0. n \in Nat
      BY <1>1 DEF Row
    <3>. HIDE DEF n
    <3>1. A \in Row /\ A.kind = row.kind /\ A.date = row.date /\ A.runAt = at /\ A.status = "failed"
      BY <1>1, <3>0 DEF Row, Statuses
    <3>2. rows' = [rows EXCEPT ![current] = A]
      BY <2>4 DEF MarkFailed, n
    <3>. HIDE DEF A
    <3>. QED
      BY <1>2, <2>4, <3>1, <3>2 DEF Fits
  <2>. QED
    BY <2>1, <2>2, <2>3, <2>4
<1>4. Typed'
  BY <1>1, <1>3 DEF Typed, Phases
<1>5. RowsFit'
  BY <1>3 DEF RowsFit, Typed
<1>6. \A r \in RowIds \ {current} : rows'[r] = rows[r]
  BY <1>3, <1>1
<1>7. CycleFits'
  <2>1. current' = 0 /\ phase' = "cycle" /\ due' = due /\ 0 \notin RowIds
    BY DailyAssumption DEF RowIds
  <2>2. \A e \in due : e.id \in RowIds /\ e.id # current' /\ rows'[e.id].runAt <= now
    BY <1>6, <2>1 DEF CycleFits
  <2>. QED
    BY <2>1, <2>2 DEF CycleFits, InHand
<1>8. WorkLeft'
  BY DEF WorkLeft
<1>9. NeverRolledAhead'
  BY DEF NeverRolledAhead, Today
<1>10. CompletionStep
  <2>. SUFFICES ASSUME NEW r \in RowIds, Rollover(rows, r), rows[r].status # "completed",
                       rows'[r].status = "completed", NEW t \in Tasks
                PROVE  ~Overdue(t, rows[r].date)
    BY DEF CompletionStep
  <2>1. r = current
    BY <1>6
  <2>2. rows'[current] = A
    BY <1>1, <1>3
  <2>3. ~failed /\ row.kind = "rollover"
    BY <1>3, <2>1, <2>2 DEF Rollover
  <2>. QED
    BY <2>1, <2>3 DEF WorkLeft
<1>. QED
  BY <1>4, <1>5, <1>7, <1>8, <1>9, <1>10 DEF Kept

LEMMA EndKeeps == ASSUME DailyInv, EndCycle \/ StorageError \/ Shutdown \/ Crash PROVE Kept
<1>1. CASE EndCycle
  <2>1. current = 0 /\ todo = {}
    BY <1>1 DEF EndCycle, DailyInv, CycleFits, InHand, WorkLeft
  <2>. QED
    BY <1>1, <2>1, Idles DEF EndCycle, history, Phases, InHand, DailyInv, Typed
<1>2. CASE StorageError
  <2>1. todo = {}
    BY <1>2 DEF StorageError, DailyInv, WorkLeft
  <2>. QED
    BY <1>2, <2>1, Idles DEF StorageError, Phases, InHand
<1>3. CASE Shutdown \/ Crash
  BY <1>3, Idles DEF Shutdown, Crash, Halt, Phases, InHand
<1>. QED
  BY <1>1, <1>2, <1>3

LEMMA BootKeeps ==
    ASSUME DailyInv, RoomLeft, BootRollover \/ BootPurge \/ StartRunner
    PROVE  Kept
<1>1. ~InHand /\ phase # "cycle" /\ due = {}
  BY DEF BootRollover, BootPurge, StartRunner, DailyInv, CycleFits, InHand
<1>2. Scheduled(rows')
  <2>1. BootRollover \/ BootPurge => HasRoom
    BY DEF RoomLeft, BootRollover, BootPurge
  <2>. QED
    BY <1>1, <2>1, EnsureRollover, EnsurePurge, RecoverySchedules
       DEF BootRollover, BootPurge, StartRunner
<1>3. /\ phase' \in Phases /\ ~InHand' /\ phase' # "cycle"
      /\ UNCHANGED <<tasks, now, due, current, todo, failed>>
  BY DEF BootRollover, BootPurge, StartRunner, Phases, InHand
<1>. QED
  BY <1>1, <1>2, <1>3, Schedules

LEMMA StillKeeps == ASSUME DailyInv, UNCHANGED <<rows, tasks, now, process>> PROVE Kept
<1>. USE DEF DailyInv, process
<1>1. Typed' /\ RowsFit'
  BY DEF Typed, RowsFit
<1>2. CycleFits'
  BY DEF CycleFits, InHand, Today
<1>3. WorkLeft'
  BY DEF WorkLeft, Overdue
<1>4. NeverRolledAhead' /\ CompletionStep
  BY DEF NeverRolledAhead, Today, CompletionStep
<1>. QED
  BY <1>1, <1>2, <1>3, <1>4 DEF Kept

LEMMA DailyNext ==
    ASSUME NoDate \notin Nat
    PROVE  DailyInv /\ RoomLeft /\ [Next]_vars => DailyInv' /\ CompletionStep
<1>. SUFFICES ASSUME DailyInv, RoomLeft, [Next]_vars PROVE Kept
  BY DEF Kept
<1>1. CASE Tick
  BY <1>1, TickKeeps
<1>2. CASE BootRollover \/ BootPurge \/ StartRunner
  BY <1>2, BootKeeps
<1>3. CASE EndCycle \/ StorageError \/ Shutdown \/ Crash
  BY <1>3, EndKeeps
<1>4. CASE UNCHANGED vars \/ \E p \in PrefChoices : SetPrefs(p)
  BY <1>4, StillKeeps DEF vars, SetPrefs
<1>5. ASSUME NEW t \in Tasks, RollTask(t) PROVE Kept
  BY <1>5, RollKeeps
<1>6. ASSUME NEW t \in Tasks,
             \/ \E date \in Dates, rolls \in RollChoices :
                   \/ CreateTask(t, date, rolls)
                   \/ \E done \in BOOLEAN : EditTask(t, date, rolls, done)
             \/ DeleteTask(t) \/ RestoreTask(t)
      PROVE  Kept
  BY <1>6, UserKeeps
<1>7. CASE Poll
  BY <1>7, PollKeeps
<1>8. ASSUME NEW e \in due, Begin(e) PROVE Kept
  BY <1>8, BeginKeeps
<1>9. CASE PurgeDeleted
  BY <1>9, PurgeKeeps
<1>10. CASE Chain
  BY <1>10, ChainKeeps
<1>11. CASE HandlerFails
  BY <1>11, FailKeeps
<1>12. ASSUME NEW at \in RetryTimes, Settle(at) PROVE Kept
  BY <1>12, SettleKeeps
<1>. QED
  BY <1>1, <1>2, <1>3, <1>4, <1>5, <1>6, <1>7, <1>8, <1>9, <1>10, <1>11, <1>12 DEF Next

LEMMA DailyInit == Init => DailyInv
<1>. SUFFICES ASSUME Init PROVE DailyInv
  OBVIOUS
<1>1. Unused \in Row /\ Unused.kind = "purge"
  BY DEF Unused, Row, Statuses
<1>2. Typed
  BY <1>1 DEF Init, Typed, AnyTask, Phases
<1>3. RowsFit
  BY <1>1 DEF Init, RowsFit, Fits
<1>4. CycleFits /\ WorkLeft
  BY DEF Init, CycleFits, WorkLeft, InHand
<1>5. NeverRolledAhead
  BY DEF Init, NeverRolledAhead
<1>. QED
  BY <1>2, <1>3, <1>4, <1>5 DEF DailyInv

(* A task is never moved past today and never counted later than it is,    *)
(* whatever catch-ups, retries, crashes, preference changes and edits did  *)
(* in between (RolloverService.ts, SqliteTaskRepository.rolloverTask).     *)
THEOREM NeverAhead ==
    ASSUME NoDate \notin Nat
    PROVE  Spec /\ []RoomLeft => []NeverRolledAhead
<1>1. Init => DailyInv
  BY DailyInit
<1>2. DailyInv /\ RoomLeft /\ [Next]_vars => DailyInv'
  BY DailyNext
<1>3. DailyInv => NeverRolledAhead
  BY DEF DailyInv
<1>. QED
  BY <1>1, <1>2, <1>3, PTL DEF Spec

(* A rollover that completes leaves no eligible task before its date       *)
(* (RolloverService.ts:6-7), even if earlier attempts stopped half-way.    *)
THEOREM CompletedRolled ==
    ASSUME NoDate \notin Nat
    PROVE  Spec /\ []RoomLeft => CompletedMeansRolled
<1>1. Init => DailyInv
  BY DailyInit
<1>2. DailyInv /\ RoomLeft /\ [Next]_vars => DailyInv'
  BY DailyNext
<1>3. DailyInv /\ RoomLeft /\ [Next]_vars => [CompletionStep]_vars
  BY DailyNext
<1>. QED
  BY <1>1, <1>2, <1>3, PTL DEF Spec, CompletedMeansRolled
----------------------------------------------------------------------------
(* What the scheduler does to the jobs table, row by row: it cancels       *)
(* rollovers, or it queues one job that it did not find.                   *)

SomeDates == 0 .. LastDay + 1

Drops(q) ==
    \A r \in RowIds :
        \/ q[r] = rows[r]
        \/ /\ Rollover(rows, r) /\ Queued(rows, r)
           /\ q[r].status \in {"unused", "deleted"} /\ (r \in InUse => q[r].status = "deleted")
           /\ q[r].attempts \in {0, rows[r].attempts} /\ q[r].date \in {NoDate, rows[r].date}

Adds(q, m) ==
    /\ m \in RowIds \ InUse /\ ~Exists(rows, m)
    /\ q[m].status = "pending" /\ q[m].attempts = 0
    /\ \A r \in RowIds \ {m} : q[r] = rows[r]

AddsRollover(q) ==
    \E m \in RowIds : /\ Adds(q, m) /\ q[m].kind = "rollover"
                      /\ q[m].date \in SomeDates /\ ~ActiveFor(rows, q[m].date)

AddsPurge(q) ==
    \E m \in RowIds : Adds(q, m) /\ q[m].kind = "purge" /\ q[m].date = NoDate /\ ~PurgeQueued(rows)

(* The clock and the preferences.                                          *)
Bounds ==
    /\ prefs \in Prefs /\ now \in 0 .. LastSlot /\ tasks \in [Tasks -> Task]
    /\ broken \in BOOLEAN /\ faults \in 0 .. MaxFaults

(* The days the scheduler reckons with.                                    *)
LEMMA Occurrences ==
    ASSUME DailyInv, Bounds, NEW hour \in {Midnight, PurgeHour, NineAm}
    PROVE  /\ Today \in Days /\ DayOf(NextDailyOccurrence(hour)) \in SomeDates
           /\ DayOf(NextDailyOccurrence(Midnight)) = Today + 1
<1>1. now \in Nat /\ now <= 3 * LastDay + 2 /\ LastDay \in Nat
  BY DailyAssumption DEF Bounds, LastSlot, DaySlots, NineAm
<1>2. PICK d \in Nat : d = now \div 3 /\ 3 * d <= now /\ now <= 3 * d + 2
  BY <1>1
<1>3. d <= LastDay /\ Today = d
  BY <1>1, <1>2 DEF Today, DayOf, DaySlots
<1>4. ASSUME NEW h \in 0 .. 2
      PROVE  /\ NextDailyOccurrence(h) = 3 * d + h \/ NextDailyOccurrence(h) = 3 * d + h + 3
             /\ h = 0 => NextDailyOccurrence(h) = 3 * d + 3
  BY <1>1, <1>2, <1>3 DEF NextDailyOccurrence, DaySlots
<1>5. ASSUME NEW h \in 0 .. 2 PROVE DayOf(3 * d + h) = d /\ DayOf(3 * d + h + 3) = d + 1
  BY <1>2 DEF DayOf, DaySlots
<1>6. hour \in 0 .. 2 /\ Midnight = 0
  BY DEF Midnight, PurgeHour, NineAm
<1>7. DayOf(NextDailyOccurrence(hour)) \in {d, d + 1}
  BY <1>4, <1>5, <1>6
<1>8. DayOf(NextDailyOccurrence(Midnight)) = d + 1
  <2>1. NextDailyOccurrence(0) = 3 * d + 0 + 3
    BY <1>2, <1>4
  <2>2. DayOf(3 * d + 0 + 3) = d + 1
    BY <1>5
  <2> QED BY <1>6, <2>1, <2>2
<1> QED BY <1>1, <1>2, <1>3, <1>7, <1>8 DEF Days, SomeDates

(* Insert adds one row, of the kind and for the date it is given.          *)
LEMMA InsertAdds ==
    ASSUME DailyInv, HasRoom, NEW kind \in {"rollover", "purge"}, NEW date \in Nat \union {NoDate},
           NEW at \in Nat
    PROVE  \E m \in RowIds : /\ Adds(Insert(rows, kind, date, at), m)
                             /\ Insert(rows, kind, date, at)[m].kind = kind
                             /\ Insert(rows, kind, date, at)[m].date = date
<1> DEFINE q == Insert(rows, kind, date, at)
<1>0. Typed
  BY DEF DailyInv
<1>1. PICK r \in RowIds \ InUse : NewJob(q, kind, date, at, r)
  BY <1>0, InsertEffect
<1> HIDE DEF q
<1>2. Adds(q, r) /\ q[r].kind = kind /\ q[r].date = date
  BY <1>1 DEF Adds, NewJob
<1> QED BY <1>2 DEF q

(* A rollover inserted for a date that had none active is added as one.    *)
LEMMA InsertsRollover ==
    ASSUME DailyInv, HasRoom, NEW date \in SomeDates, NEW at \in Nat, ~ActiveFor(rows, date)
    PROVE  AddsRollover(Insert(rows, "rollover", date, at))
<1>1. date \in Nat \union {NoDate}
  BY DailyAssumption DEF SomeDates
<1> DEFINE q == Insert(rows, "rollover", date, at)
<1>2. \E m \in RowIds : Adds(q, m) /\ q[m].kind = "rollover" /\ q[m].date = date
  BY <1>1, InsertAdds
<1> HIDE DEF q
<1>3. AddsRollover(q)
  BY <1>2 DEF AddsRollover
<1> QED BY <1>3 DEF q

(* Cancelling rollovers drops queued rows; those a cycle holds stay,       *)
(* marked.                                                                 *)
LEMMA CancelDrops ==
    ASSUME DailyInv, NEW S, \A r \in S : Rollover(rows, r)
    PROVE  Drops(CancelAll(rows, S))
<1> SUFFICES ASSUME NEW r \in RowIds, r \in S, Queued(rows, r)
             PROVE  LET x == CancelAll(rows, S)[r]
                    IN  /\ x.status \in {"unused", "deleted"} /\ (r \in InUse => x.status = "deleted")
                        /\ x.attempts \in {0, rows[r].attempts} /\ x.date \in {NoDate, rows[r].date}
  BY DEF Drops, CancelAll
<1>1. rows[r] \in Row /\ rows \in [RowIds -> Row]
  BY DEF DailyInv, Typed
<1>2. CASE r \in InUse
  <2>1. CancelAll(rows, S)[r] = [rows[r] EXCEPT !.status = "deleted"]
    BY <1>1, <1>2 DEF CancelAll, Cancel
  <2> QED BY <1>1, <2>1 DEF Row
<1>3. CASE r \notin InUse
  <2>1. CancelAll(rows, S)[r] = Unused
    BY <1>3 DEF CancelAll
  <2> QED BY <1>3, <2>1 DEF Unused
<1> QED BY <1>2, <1>3

(* The scheduler of the rollover ...                                       *)
LEMMA RolloverMoves ==
    ASSUME DailyInv, Bounds, HasRoom
    PROVE  Drops(EnsureRolloverScheduled(rows)) \/ AddsRollover(EnsureRolloverScheduled(rows))
<1>1. \A r \in RecentRollovers(rows) : Rollover(rows, r)
  BY DEF RecentRollovers, FindRecent
<1>2. Drops(rows)
  BY DEF Drops
<1>3. Drops(CancelAll(rows, RecentRollovers(rows)))
  BY <1>1, CancelDrops
<1>4. Drops(CancelAll(rows, { r \in RecentRollovers(rows) : rows[r].date # Today }))
  BY <1>1, CancelDrops
<1>5. ~ActiveFor(rows, Today) => AddsRollover(Insert(rows, "rollover", Today, now))
  <2>1. Today \in SomeDates /\ now \in Nat
    BY DailyAssumption, Occurrences DEF Bounds, Days, SomeDates
  <2> QED BY <2>1, InsertsRollover
<1>6. Drops(EnsureNextDay(rows)) \/ AddsRollover(EnsureNextDay(rows))
  <2> DEFINE next == NextDailyOccurrence(TriggerHour)
  <2>1. TriggerHour \in {Midnight, PurgeHour, NineAm} /\ TriggerHour \in Nat
    BY DEF TriggerHour, Midnight, NineAm
  <2>2. next \in Nat /\ DayOf(next) \in SomeDates
    BY <2>1, Occurrences, NextOccurrence
  <2>3. ~ActiveFor(rows, DayOf(next)) => AddsRollover(Insert(rows, "rollover", DayOf(next), next))
    BY <2>2, InsertsRollover
  <2> QED BY <1>2, <2>3 DEF EnsureNextDay
<1> QED BY <1>3, <1>4, <1>5, <1>6 DEF EnsureRolloverScheduled

(* ... which leaves one waiting or running when the rollover is at         *)
(* midnight ...                                                            *)
Nightly == prefs.enabled /\ prefs.trigger = "midnight"

LEMMA NightlyMoves ==
    ASSUME DailyInv, Bounds, HasRoom, Nightly
    PROVE  \/ AddsRollover(EnsureRolloverScheduled(rows))
           \/ /\ EnsureRolloverScheduled(rows) = rows
              /\ \E r \in RowIds : Rollover(rows, r) /\ IsActive(rows, r) /\ rows[r].date = Today + 1
<1>1. DayOf(NextDailyOccurrence(TriggerHour)) = Today + 1
  BY Occurrences DEF TriggerHour, Nightly
<1>2. ActiveFor(rows, Today + 1) =>
          \E r \in RowIds : Rollover(rows, r) /\ IsActive(rows, r) /\ rows[r].date = Today + 1
  BY DEF ActiveFor, RecentRollovers, FindRecent
<1>3. ~ActiveFor(rows, Today) => AddsRollover(Insert(rows, "rollover", Today, now))
  <2>1. Today \in SomeDates /\ now \in Nat
    BY DailyAssumption, Occurrences DEF Bounds, Days, SomeDates
  <2> QED BY <2>1, InsertsRollover
<1>4. ~ActiveFor(rows, Today + 1) => AddsRollover(EnsureNextDay(rows))
  <2> DEFINE next == NextDailyOccurrence(TriggerHour)
  <2>1. TriggerHour \in Nat
    BY DEF TriggerHour, Midnight, NineAm
  <2>2. next \in Nat
    BY <2>1, NextOccurrence
  <2>3. Today + 1 \in SomeDates
    BY DailyAssumption, Occurrences DEF Days, SomeDates
  <2> QED BY <1>1, <2>2, <2>3, InsertsRollover DEF EnsureNextDay
<1>5. ActiveFor(rows, Today + 1) => EnsureNextDay(rows) = rows
  BY <1>1 DEF EnsureNextDay
<1> QED BY <1>2, <1>3, <1>4, <1>5 DEF EnsureRolloverScheduled, Nightly

(* ... and that of the purge.                                              *)
LEMMA PurgeMoves ==
    ASSUME DailyInv, HasRoom
    PROVE  \/ AddsPurge(EnsurePurgeScheduled(rows))
           \/ /\ EnsurePurgeScheduled(rows) = rows
              /\ \E r \in RowIds : Purge(rows, r) /\ Queued(rows, r)
<1>1. PurgeQueued(rows) => \E r \in RowIds : Purge(rows, r) /\ Queued(rows, r)
  BY DEF PurgeQueued, RecentPurges, FindRecent
<1>2. ~PurgeQueued(rows) => AddsPurge(EnsurePurgeScheduled(rows))
  <2>1. PurgeHour \in Nat
    BY DEF PurgeHour
  <2>2. NextDailyOccurrence(PurgeHour) \in Nat
    BY <2>1, NextOccurrence
  <2> QED BY <2>2, InsertAdds DEF AddsPurge, EnsurePurgeScheduled
<1> QED BY <1>1, <1>2 DEF EnsurePurgeScheduled
----------------------------------------------------------------------------
(* What the other statements do to it.                                     *)

Same(q, r) == q[r].kind = rows[r].kind /\ q[r].date = rows[r].date

(* Rows that a cycle holds copies of wait or are cancelled; the row in     *)
(* hand runs or is cancelled.                                              *)
CycleRows ==
    /\ \A e \in due : rows[e.id].status \in {"pending", "failed", "deleted"}
    /\ InHand => rows[current].status \in {"running", "deleted"}

(* The recovery makes the running rows wait again, and nothing else.       *)
LEMMA RecoverRows ==
    ASSUME DailyInv, StartRunner
    PROVE  \A r \in RowIds :
              /\ Same(rows', r) /\ rows'[r].attempts = rows[r].attempts
              /\ rows'[r].status = IF rows[r].status = "running" THEN "pending" ELSE rows[r].status
<1> SUFFICES ASSUME NEW r \in RowIds
             PROVE  /\ Same(rows', r) /\ rows'[r].attempts = rows[r].attempts
                    /\ rows'[r].status = IF rows[r].status = "running" THEN "pending" ELSE rows[r].status
  OBVIOUS
<1>1. rows[r] \in Row /\ DOMAIN rows = RowIds
  BY DEF DailyInv, Typed
<1>2. rows'[r] = IF rows[r].status = "running" THEN [rows[r] EXCEPT !.status = "pending"] ELSE rows[r]
  BY <1>1 DEF StartRunner, RecoverStuckJobs
<1> QED BY <1>1, <1>2 DEF Row, Same

(* Begin marks a queued row running, and leaves a cancelled one alone.     *)
LEMMA BeginRows ==
    ASSUME DailyInv, CycleRows, NEW e \in due, Begin(e)
    PROVE  LET c == e.id
           IN  /\ c \in RowIds /\ current' = c /\ Same(rows', c) /\ rows'[c].attempts = rows[c].attempts
               /\ \A r \in RowIds \ {c} : rows'[r] = rows[r]
               /\ \/ rows[c].status = "deleted" /\ rows' = rows
                  \/ Queued(rows, c) /\ rows'[c].status = "running"
<1> DEFINE c == e.id
<1>1. c \in RowIds /\ rows[c] \in Row /\ rows \in [RowIds -> Row] /\ current' = c
  BY DEF DailyInv, CycleFits, Typed, Begin
<1>2. rows[c].status \in {"pending", "failed", "deleted"} /\ rows' = MarkRunning(rows, c)
  BY DEF CycleRows, Begin
<1>3. CASE rows[c].status = "deleted"
  BY <1>1, <1>2, <1>3 DEF MarkRunning, Exists, Same
<1>4. CASE rows[c].status \in {"pending", "failed"}
  <2>1. rows' = [rows EXCEPT ![c] = [rows[c] EXCEPT !.status = "running"]]
    BY <1>2, <1>4 DEF MarkRunning, Exists
  <2>2. rows'[c] = [rows[c] EXCEPT !.status = "running"]
    BY <1>1, <2>1
  <2> QED BY <1>1, <1>4, <2>1, <2>2 DEF Row, Same, Queued
<1> QED BY <1>2, <1>3, <1>4

(* Settle ends the running row in hand, or leaves a cancelled one alone.   *)
LEMMA SettleRows ==
    ASSUME DailyInv, CycleRows, NEW at \in RetryTimes, Settle(at)
    PROVE  /\ current \in RowIds /\ Same(rows', current)
           /\ \A r \in RowIds \ {current} : rows'[r] = rows[r]
           /\ \/ rows[current].status = "deleted" /\ rows' = rows
              \/ /\ rows[current].status = "running"
                 /\ \/ /\ ~failed /\ rows'[current].status = "completed"
                       /\ rows'[current].attempts = rows[current].attempts
                    \/ /\ failed /\ rows'[current].status = IF LastTry THEN "dead" ELSE "failed"
                       /\ rows'[current].attempts = rows[current].attempts + 1
<1>1. current \in RowIds /\ rows[current] \in Row /\ rows \in [RowIds -> Row] /\ phase = "settle"
  BY DEF DailyInv, CycleFits, InHand, Typed, Settle
<1>2. rows[current].status \in {"running", "deleted"}
  BY <1>1 DEF CycleRows, InHand
<1>3. CASE rows[current].status = "deleted"
  BY <1>1, <1>3 DEF Settle, MarkCompleted, MarkDead, MarkFailed, Exists, Same
<1>4. CASE rows[current].status = "running"
  <2>1. Exists(rows, current)
    BY <1>4 DEF Exists
  <2>2. PICK n : n = rows[current].attempts + 1
    OBVIOUS
  <2>3. CASE ~failed
    <3>1. rows' = [rows EXCEPT ![current] = [rows[current] EXCEPT !.status = "completed"]]
      BY <2>1, <2>3 DEF Settle, MarkCompleted
    <3>2. rows'[current] = [rows[current] EXCEPT !.status = "completed"]
      BY <1>1, <3>1
    <3> QED BY <1>1, <1>4, <2>3, <3>1, <3>2 DEF Row, Same
  <2>4. CASE failed /\ LastTry
    <3>1. rows' = [rows EXCEPT ![current] = [rows[current] EXCEPT !.status = "dead", !.attempts = n]]
      BY <2>1, <2>2, <2>4 DEF Settle, MarkDead
    <3>2. rows'[current] = [rows[current] EXCEPT !.status = "dead", !.attempts = n]
      BY <1>1, <3>1
    <3> QED BY <1>1, <1>4, <2>2, <2>4, <3>1, <3>2 DEF Row, Same
  <2>5. CASE failed /\ ~LastTry
    <3>1. rows' = [rows EXCEPT ![current] = [rows[current] EXCEPT !.status = "failed", !.runAt = at, !.attempts = n]]
      BY <2>1, <2>2, <2>5 DEF Settle, MarkFailed
    <3>2. rows'[current] = [rows[current] EXCEPT !.status = "failed", !.runAt = at, !.attempts = n]
      BY <1>1, <3>1
    <3> QED BY <1>1, <1>4, <2>2, <2>5, <3>1, <3>2 DEF Row, Same
  <2> QED BY <2>3, <2>4, <2>5
<1> QED BY <1>2, <1>3, <1>4

(* Boot and the end of a handler schedule.                                 *)
QueuesNext == BootRollover \/ BootPurge \/ Chain

(* All three drop rollovers or add one job.                                *)
LEMMA SchedulesRows ==
    ASSUME DailyInv, Bounds, RoomLeft, QueuesNext
    PROVE  Drops(rows') \/ AddsRollover(rows') \/ AddsPurge(rows')
<1>1. HasRoom
  BY DEF QueuesNext, RoomLeft, BootRollover, BootPurge, Chain
<1>2. rows' = EnsureRolloverScheduled(rows) \/ rows' = EnsurePurgeScheduled(rows)
  BY DEF QueuesNext, BootRollover, BootPurge, Chain
<1>3. Drops(rows)
  BY DEF Drops
<1> QED BY <1>1, <1>2, <1>3, RolloverMoves, PurgeMoves

----------------------------------------------------------------------------
(* Types.                                                                  *)

(* A row that may still run has an attempt left.                           *)
BoundedRow(row) ==
    /\ row.attempts <= MaxAttempts /\ row.date \in SomeDates \union {NoDate}
    /\ row.status \in {"pending", "failed", "running"} => row.attempts < MaxAttempts

RowsBound == \A r \in RowIds : BoundedRow(rows[r])

TypeInv == Bounds /\ RowsBound /\ CycleRows

(* The invariant says more than the types.                                 *)
LEMMA TypesFit == DailyInv /\ TypeInv => TypeOK
<1> SUFFICES ASSUME DailyInv, TypeInv PROVE TypeOK
  OBVIOUS
<1>1. rows \in [RowIds -> [status: Statuses, runAt: Nat, attempts: 0 .. MaxAttempts,
                           kind: {"rollover", "purge"}, date: 0 .. LastDay + 1 \union {NoDate}]]
  <2>1. ASSUME NEW r \in RowIds
        PROVE  rows[r] \in [status: Statuses, runAt: Nat, attempts: 0 .. MaxAttempts,
                            kind: {"rollover", "purge"}, date: 0 .. LastDay + 1 \union {NoDate}]
    <3>1. rows[r] \in Row /\ BoundedRow(rows[r])
      BY DEF DailyInv, Typed, TypeInv, RowsBound
    <3>2. rows[r].attempts \in 0 .. MaxAttempts
      BY <3>1, DailyAssumption DEF Row, BoundedRow
    <3> QED BY <3>1, <3>2 DEF Row, BoundedRow, SomeDates
  <2>2. rows = [r \in RowIds |-> rows[r]]
    BY DEF DailyInv, Typed
  <2> QED BY <2>1, <2>2
<1>2. /\ phase \in Phases /\ failed \in BOOLEAN /\ todo \subseteq Tasks
      /\ current \in RowIds \union {0} /\ \A e \in due : e.id \in RowIds
  BY DEF DailyInv, Typed, CycleFits
<1> QED BY <1>1, <1>2 DEF TypeOK, TypeInv, Bounds

(* It holds at the start.                                                  *)
LEMMA TypeInit == Init => TypeInv
<1> SUFFICES ASSUME Init PROVE TypeInv
  OBVIOUS
<1>1. Bounds
  <2>1. 0 \in 0 .. LastSlot /\ 0 \in 0 .. MaxFaults
    BY DailyAssumption DEF LastSlot, DaySlots, NineAm
  <2>2. tasks \in [Tasks -> Task]
    BY <2>1 DEF Init, Task
  <2>3. prefs \in Prefs
    BY PrefsAssumption DEF Init
  <2> QED BY <2>1, <2>2, <2>3 DEF Init, Bounds
<1>2. RowsBound
  BY DailyAssumption DEF Init, RowsBound, BoundedRow, Unused, SomeDates
<1>3. CycleRows
  BY DEF Init, CycleRows, InHand
<1> QED BY <1>1, <1>2, <1>3 DEF TypeInv

(* A rolled task has a day of the calendar as its date.                    *)
LEMMA RollBounds ==
    ASSUME NoDate \notin Nat, DailyInv, Bounds, NEW t \in Tasks, RollTask(t)
    PROVE  tasks' \in [Tasks -> Task]
<1> DEFINE d == rows[current].date
           first == IF tasks[t].orig = NoDate THEN tasks[t].date ELSE tasks[t].orig
           late == IF d > first THEN d - first ELSE 0
<1>1. d \in Days
  <2>1. d \in Nat /\ d <= Today /\ Today \in Days
    <3>1. Today \in Days
      BY Occurrences
    <3> QED BY <3>1 DEF RollTask, DailyInv, CycleFits, InHand, RowsFit, Fits
  <2> QED BY <2>1, DailyAssumption DEF Days
<1>2. tasks[t] \in Task /\ tasks[t].date # NoDate /\ tasks \in [Tasks -> Task]
  <2>1. Overdue(t, d)
    BY DEF RollTask, DailyInv, WorkLeft
  <2> QED BY <2>1 DEF Bounds, Overdue
<1>3. first \in Days /\ late \in Nat
  BY <1>1, <1>2, DailyAssumption DEF Task, Days
<1>4. RolledOver(tasks[t], d) = [tasks[t] EXCEPT !.date = d, !.orig = first, !.late = late]
  BY DEF RolledOver
<1>5. tasks' = [tasks EXCEPT ![t] = RolledOver(tasks[t], d)]
  BY DEF RollTask
<1> HIDE DEF d, first, late
<1>6. RolledOver(tasks[t], d) \in Task
  BY <1>1, <1>2, <1>3, <1>4 DEF Task
<1> QED BY <1>2, <1>5, <1>6

(* So has one the user creates or edits.                                   *)
LEMMA UserBounds ==
    ASSUME Bounds, NEW t \in Tasks,
           \/ \E date \in Dates, rolls \in RollChoices :
                 \/ CreateTask(t, date, rolls)
                 \/ \E done \in BOOLEAN : EditTask(t, date, rolls, done)
           \/ DeleteTask(t) \/ RestoreTask(t)
    PROVE  tasks' \in [Tasks -> Task]
<1>1. tasks[t] \in Task /\ now \in 0 .. LastSlot /\ tasks \in [Tasks -> Task] /\ 0 \in 0 .. LastSlot
  BY DailyAssumption DEF Bounds, LastSlot, DaySlots, NineAm
<1>2. ASSUME NEW from, NEW task \in Task, Request(t, from, task) PROVE tasks' \in [Tasks -> Task]
  BY <1>1, <1>2 DEF Request
<1>3. ASSUME NEW date \in Dates, NEW rolls \in RollChoices, CreateTask(t, date, rolls)
      PROVE  tasks' \in [Tasks -> Task]
  <2>1. [tasks[t] EXCEPT !.state = "live", !.date = date, !.rolls = rolls] \in Task
    BY <1>1, RequestAssumption DEF Task, Dates
  <2> QED BY <1>2, <1>3, <2>1 DEF CreateTask
<1>4. ASSUME NEW date \in Dates, NEW rolls \in RollChoices, NEW done \in BOOLEAN, EditTask(t, date, rolls, done)
      PROVE  tasks' \in [Tasks -> Task]
  <2>1. [tasks[t] EXCEPT !.date = date, !.rolls = rolls, !.done = done] \in Task
    BY <1>1, RequestAssumption DEF Task, Dates
  <2> QED BY <1>2, <1>4, <2>1 DEF EditTask
<1>5. CASE DeleteTask(t)
  <2>1. [tasks[t] EXCEPT !.state = "trash", !.deletedAt = now] \in Task
    BY <1>1 DEF Task
  <2> QED BY <1>2, <1>5, <2>1 DEF DeleteTask
<1>6. CASE RestoreTask(t)
  <2>1. [tasks[t] EXCEPT !.state = "live", !.deletedAt = 0] \in Task
    BY <1>1 DEF Task
  <2> QED BY <1>2, <1>6, <2>1 DEF RestoreTask
<1> QED BY <1>3, <1>4, <1>5, <1>6

(* The purge only changes the state of tasks.                              *)
LEMMA PurgeBounds ==
    ASSUME Bounds, PurgeDeleted
    PROVE  tasks' \in [Tasks -> Task]
<1>1. ASSUME NEW t \in Tasks PROVE Purged(tasks[t]) \in Task
  <2>1. tasks[t] \in Task
    BY DEF Bounds
  <2>2. [tasks[t] EXCEPT !.state = "gone"] \in Task
    BY <2>1 DEF Task
  <2> QED BY <2>1, <2>2 DEF Purged
<1> QED BY <1>1 DEF PurgeDeleted

(* Clock, preferences, tasks and faults stay in bounds.                    *)
LEMMA BoundsStep ==
    ASSUME NoDate \notin Nat, DailyInv, Bounds, [Next]_vars
    PROVE  Bounds'
<1> USE DEF Bounds
<1>1. CASE Tick
  BY <1>1, DailyAssumption DEF Tick, process, history, LastSlot, DaySlots, NineAm
<1>2. CASE BootRollover \/ BootPurge \/ StartRunner \/ Shutdown \/ Poll \/ EndCycle \/ Chain \/ UNCHANGED vars
  BY <1>2 DEF BootRollover, BootPurge, StartRunner, Shutdown, Halt, Poll, EndCycle, Chain, vars, history
<1>3. CASE Crash \/ HandlerFails \/ StorageError
  <2>1. faults' = faults + 1 /\ faults < MaxFaults /\ broken' \in BOOLEAN /\ UNCHANGED <<tasks, prefs, now>>
    BY <1>3 DEF Crash, Halt, HandlerFails, StorageError
  <2> QED BY <2>1, DailyAssumption
<1>4. ASSUME NEW p \in PrefChoices, SetPrefs(p) PROVE Bounds'
  BY <1>4, PrefsAssumption DEF SetPrefs, history
<1>5. ASSUME NEW t \in Tasks, RollTask(t) PROVE Bounds'
  BY <1>5, RollBounds DEF RollTask, history
<1>6. ASSUME NEW t \in Tasks,
             \/ \E date \in Dates, rolls \in RollChoices :
                   \/ CreateTask(t, date, rolls)
                   \/ \E done \in BOOLEAN : EditTask(t, date, rolls, done)
             \/ DeleteTask(t) \/ RestoreTask(t)
      PROVE  Bounds'
  <2>1. UNCHANGED <<prefs, now, history>>
    BY <1>6 DEF CreateTask, EditTask, DeleteTask, RestoreTask, Request
  <2> QED BY <1>6, <2>1, UserBounds DEF history
<1>7. CASE PurgeDeleted
  BY <1>7, PurgeBounds DEF PurgeDeleted, history
<1>8. ASSUME NEW e \in due, Begin(e) PROVE Bounds'
  BY <1>8 DEF Begin, history
<1>9. ASSUME NEW at \in RetryTimes, Settle(at) PROVE Bounds'
  BY <1>9 DEF Settle
<1> QED BY <1>1, <1>2, <1>3, <1>4, <1>5, <1>6, <1>7, <1>8, <1>9 DEF Next

(* The steps that leave the jobs table alone.                              *)
Leaves ==
    \/ Tick \/ Shutdown \/ Crash \/ Poll \/ PurgeDeleted \/ HandlerFails \/ EndCycle \/ StorageError
    \/ \E p \in PrefChoices : SetPrefs(p)
    \/ \E t \in Tasks :
          \/ \E date \in Dates, rolls \in RollChoices :
                \/ CreateTask(t, date, rolls)
                \/ \E done \in BOOLEAN : EditTask(t, date, rolls, done)
          \/ DeleteTask(t) \/ RestoreTask(t) \/ RollTask(t)
    \/ UNCHANGED vars

(* What they do to the process: it stays, it takes copies, the row in hand *)
(* stays, or it is let go of.                                              *)
Stays == UNCHANGED <<phase, due, current, failed, broken, faults>>

PollStep == /\ phase = "idle" /\ phase' = "cycle" /\ due' = GetPending(rows, now)
            /\ UNCHANGED <<current, failed, broken, faults>>

Works == /\ phase = "purge" /\ phase' = "chain" /\ UNCHANGED <<due, current, failed, broken, faults>>

Throws == /\ phase \in {"roll", "purge", "chain"} /\ phase' = "settle" /\ failed' = TRUE
          /\ faults' = faults + 1 /\ UNCHANGED <<due, current, broken>>

Ends == /\ phase = "cycle" /\ phase' = "idle" /\ UNCHANGED <<due, current, failed, broken, faults>>

LetsGo == /\ due' = {} /\ current' = 0 /\ failed' = FALSE /\ faults' = faults + 1
          /\ \/ phase' = "down" /\ broken' = broken
             \/ phase' = "idle" /\ phase = "cycle" /\ broken' = broken
             \/ phase' = "idle" /\ phase = "settle" /\ broken' = TRUE

Stops == /\ due' = {} /\ current' = 0 /\ failed' = FALSE /\ UNCHANGED <<broken, faults>>
         /\ phase = "idle" /\ phase' = "down"

LEMMA LeavesProcess ==
    ASSUME Leaves, broken \in BOOLEAN
    PROVE  rows' = rows /\ (Stays \/ PollStep \/ Works \/ Throws \/ Ends \/ LetsGo \/ Stops)
<1>1. CASE Tick \/ UNCHANGED vars \/ \E p \in PrefChoices : SetPrefs(p)
  BY <1>1 DEF Tick, vars, process, history, SetPrefs, Stays
<1>2. ASSUME NEW t \in Tasks,
             \/ \E date \in Dates, rolls \in RollChoices :
                   \/ CreateTask(t, date, rolls)
                   \/ \E done \in BOOLEAN : EditTask(t, date, rolls, done)
             \/ DeleteTask(t) \/ RestoreTask(t) \/ RollTask(t)
      PROVE  rows' = rows /\ Stays
  BY <1>2 DEF CreateTask, EditTask, DeleteTask, RestoreTask, Request, RollTask, process, history, Stays
<1>3. CASE Shutdown \/ Crash
  BY <1>3 DEF Shutdown, Crash, Halt, LetsGo, Stops
<1>4. CASE Poll
  BY <1>4 DEF Poll, PollStep, history
<1>5. CASE PurgeDeleted
  BY <1>5 DEF PurgeDeleted, Works, history
<1>6. CASE HandlerFails
  BY <1>6 DEF HandlerFails, Throws
<1>7. CASE EndCycle
  BY <1>7 DEF EndCycle, Ends, history
<1>8. CASE StorageError
  BY <1>8 DEF StorageError, LetsGo
<1> QED BY <1>1, <1>2, <1>3, <1>4, <1>5, <1>6, <1>7, <1>8 DEF Leaves

(* A step leaves the table alone, recovers, schedules, begins or settles.  *)
LEMMA StepKinds ==
    ASSUME [Next]_vars
    PROVE  \/ Leaves \/ StartRunner \/ QueuesNext
           \/ \E e \in due : Begin(e)
           \/ \E at \in RetryTimes : Settle(at)
BY DEF Next, Leaves, QueuesNext

(* A row that is put into the table is nobody's copy.                      *)
LEMMA AddedApart ==
    ASSUME DailyInv, NEW q, NEW m, Adds(q, m)
    PROVE  m \in RowIds /\ m # current /\ m # 0 /\ \A e \in due : m # e.id
BY DailyAssumption DEF Adds, InUse, RowIds

(* So do attempts and dates of the jobs.                                   *)
LEMMA RowsBoundStep ==
    ASSUME DailyInv, TypeInv, RoomLeft, [Next]_vars
    PROVE  RowsBound'
<1> SUFFICES ASSUME NEW r \in RowIds PROVE BoundedRow(rows'[r])
  BY DEF RowsBound, RowIds
<1>1. BoundedRow(rows[r]) /\ Bounds /\ CycleRows /\ MaxAttempts \in Nat \ {0} /\ rows[r].attempts \in Nat
  BY DailyAssumption DEF TypeInv, RowsBound, DailyInv, Typed, Row
<1>2. CASE Leaves
  BY <1>1, <1>2, LeavesProcess DEF Bounds
<1>3. CASE StartRunner
  BY <1>1, <1>3, RecoverRows DEF BoundedRow, Same
<1>4. CASE QueuesNext
  <2>1. CASE Drops(rows')
    <3>1. CASE rows'[r] = rows[r]
      BY <1>1, <3>1
    <3>2. CASE rows'[r] # rows[r]
      <4>1. /\ rows'[r].status \in {"unused", "deleted"}
            /\ rows'[r].attempts \in {0, rows[r].attempts} /\ rows'[r].date \in {NoDate, rows[r].date}
        BY <2>1, <3>2 DEF Drops
      <4> QED BY <1>1, <4>1 DEF BoundedRow
    <3> QED BY <3>1, <3>2
  <2>2. ASSUME NEW m \in RowIds, Adds(rows', m), rows'[m].date \in SomeDates \union {NoDate}
        PROVE  BoundedRow(rows'[r])
    <3>1. CASE r = m
      BY <1>1, <2>2, <3>1 DEF Adds, BoundedRow
    <3>2. CASE r # m
      BY <1>1, <2>2, <3>2 DEF Adds
    <3> QED BY <3>1, <3>2
  <2> QED BY <1>1, <1>4, <2>1, <2>2, SchedulesRows DEF AddsRollover, AddsPurge
<1>5. ASSUME NEW e \in due, Begin(e) PROVE BoundedRow(rows'[r])
  <2>1. CASE r # e.id
    BY <1>1, <1>5, <2>1, BeginRows
  <2>2. CASE r = e.id
    BY <1>1, <1>5, <2>2, BeginRows DEF BoundedRow, Same, Queued
  <2> QED BY <2>1, <2>2
<1>6. ASSUME NEW at \in RetryTimes, Settle(at) PROVE BoundedRow(rows'[r])
  <2>1. CASE r # current
    BY <1>1, <1>6, <2>1, SettleRows
  <2>2. CASE r = current
    BY <1>1, <1>6, <2>2, SettleRows DEF BoundedRow, Same, LastTry
  <2> QED BY <2>1, <2>2
<1> QED BY <1>2, <1>3, <1>4, <1>5, <1>6, StepKinds

(* No other actor takes up or settles a row that a cycle holds.            *)
LEMMA CycleRowsStep ==
    ASSUME DailyInv, TypeInv, RoomLeft, [Next]_vars
    PROVE  CycleRows'
<1>1. /\ Bounds /\ CycleRows /\ broken \in BOOLEAN
      /\ \A e \in due : e.id \in RowIds /\ e.id # current
      /\ \A e, f \in due : e.id = f.id => e = f
      /\ InHand => current \in RowIds
  BY DEF TypeInv, Bounds, DailyInv, CycleFits
<1>2. CASE Leaves
  <2>1. rows' = rows /\ (Stays \/ PollStep \/ Works \/ Throws \/ Ends \/ LetsGo \/ Stops)
    BY <1>1, <1>2, LeavesProcess
  <2>2. CASE PollStep
    <3>1. \A e \in due' : rows[e.id].status \in {"pending", "failed"}
      BY <2>2 DEF PollStep, GetPending, Queued
    <3> QED BY <2>1, <2>2, <3>1 DEF CycleRows, PollStep, InHand
  <2>3. CASE Stays \/ Works \/ Throws \/ Ends \/ LetsGo \/ Stops
    BY <1>1, <2>1, <2>3 DEF CycleRows, Stays, Works, Throws, Ends, LetsGo, Stops, InHand
  <2> QED BY <2>1, <2>2, <2>3
<1>3. CASE StartRunner
  <2>1. due' = due /\ phase = "recover" /\ phase' = "idle"
    BY <1>3 DEF StartRunner
  <2>2. due = {}
    BY <2>1 DEF DailyInv, CycleFits, InHand
  <2> QED BY <2>1, <2>2 DEF CycleRows, InHand
<1>4. CASE QueuesNext
  <2>1. /\ due' = due /\ current' = current /\ (InHand' => InHand)
    BY <1>4 DEF QueuesNext, BootRollover, BootPurge, Chain, InHand
  <2>2. ASSUME NEW r \in RowIds, r \in InUse
        PROVE  rows'[r] = rows[r] \/ (Queued(rows, r) /\ rows'[r].status = "deleted")
    <3>1. CASE Drops(rows')
      BY <2>2, <3>1 DEF Drops
    <3>2. ASSUME NEW m \in RowIds, Adds(rows', m) PROVE rows'[r] = rows[r]
      BY <2>2, <3>2 DEF Adds
    <3> QED BY <1>1, <1>4, <3>1, <3>2, SchedulesRows DEF AddsRollover, AddsPurge
  <2>3. \A e \in due : e.id \in InUse
    BY DEF InUse
  <2>4. current \in InUse
    BY DEF InUse
  <2> QED BY <1>1, <2>1, <2>2, <2>3, <2>4 DEF CycleRows, Queued
<1>5. ASSUME NEW e \in due, Begin(e) PROVE CycleRows'
  <2>1. due' = due \ {e} /\ current' = e.id
    BY <1>5 DEF Begin
  <2>2. \A f \in due' : f.id # e.id /\ f \in due
    BY <1>1, <2>1
  <2>3. rows'[e.id].status \in {"running", "deleted"} /\ \A r \in RowIds \ {e.id} : rows'[r] = rows[r]
    BY <1>1, <1>5, BeginRows
  <2> QED BY <1>1, <2>1, <2>2, <2>3 DEF CycleRows
<1>6. ASSUME NEW at \in RetryTimes, Settle(at) PROVE CycleRows'
  <2>1. due' = due /\ phase' = "cycle" /\ \A r \in RowIds \ {current} : rows'[r] = rows[r]
    BY <1>1, <1>6, SettleRows DEF Settle
  <2> QED BY <1>1, <2>1 DEF CycleRows, InHand
<1> QED BY <1>2, <1>3, <1>4, <1>5, <1>6, StepKinds

(* Every step keeps the three.                                             *)
LEMMA DailyTypeStep ==
    ASSUME NoDate \notin Nat, DailyInv, TypeInv, RoomLeft, [Next]_vars
    PROVE  TypeInv'
<1>1. Bounds
  BY DEF TypeInv
<1> QED BY <1>1, BoundsStep, RowsBoundStep, CycleRowsStep DEF TypeInv

(* Every variable keeps its type: attempts stay within max_attempts, and   *)
(* every date is one that the clock can reach (JobScheduler, JobRunner).   *)
THEOREM DailyTypes ==
    ASSUME NoDate \notin Nat
    PROVE  Spec /\ []RoomLeft => []TypeOK
<1>1. Init => DailyInv /\ TypeInv
  BY DailyInit, TypeInit
<1>2. DailyInv /\ TypeInv /\ RoomLeft /\ [Next]_vars => DailyInv' /\ TypeInv'
  BY DailyNext, DailyTypeStep
<1> QED BY <1>1, <1>2, TypesFit, PTL DEF Spec
----------------------------------------------------------------------------
(* The chains.                                                             *)

Up == phase \in {"idle", "cycle"} \/ InHand

(* After the recovery only the row in hand is marked running.              *)
Alone == Up /\ ~broken => \A r \in RowIds : rows[r].status = "running" => r = current

(* A job of this kind is in the queue, or in hand and will queue the next  *)
(* one or itself again.                                                    *)
Goes(k) ==
    \E r \in RowIds :
        /\ rows[r].kind = k
        /\ \/ Queued(rows, r)
           \/ rows[r].status = "running" /\ r = current /\ (phase # "settle" \/ failed)

Chained(k) == Up /\ ~broken => Goes(k)

PurgeInv ==
    /\ Chained("purge")
    /\ phase = "recover" => \E r \in RowIds : rows[r].kind = "purge" /\ Queued(rows, r)

RollInv ==
    /\ Chained("rollover")
    /\ phase \in {"ensurePurge", "recover"} =>
          \E r \in RowIds : rows[r].kind = "rollover" /\ (Queued(rows, r) \/ rows[r].status = "running")

(* A row is in hand just in the phases of a handler.                       *)
LEMMA NothingInHand ==
    ASSUME DailyInv
    PROVE  /\ InHand => current \in RowIds
           /\ ~InHand => current = 0 /\ current \notin RowIds
BY DailyAssumption DEF DailyInv, CycleFits, RowIds

(* A fault that leaves a row running takes the process down or sets        *)
(* broken.                                                                 *)
LEMMA AloneStep ==
    ASSUME DailyInv, TypeInv, RoomLeft, Alone, [Next]_vars
    PROVE  Alone'
<1> SUFFICES ASSUME Up', ~broken', NEW r \in RowIds, rows'[r].status = "running" PROVE r = current'
  BY DEF Alone, RowIds
<1>1. /\ Bounds /\ CycleRows /\ broken \in BOOLEAN
      /\ Up /\ ~broken /\ rows[r].status = "running" => r = current
  BY DEF TypeInv, Bounds, Alone
<1>2. CASE Leaves
  <2>1. rows' = rows /\ (Stays \/ PollStep \/ Works \/ Throws \/ Ends \/ LetsGo \/ Stops)
    BY <1>1, <1>2, LeavesProcess
  <2>2. CASE Stays \/ PollStep \/ Works \/ Throws \/ Ends
    BY <1>1, <2>1, <2>2 DEF Stays, PollStep, Works, Throws, Ends, Up, InHand
  <2>3. CASE LetsGo \/ Stops
    BY <1>1, <2>1, <2>3, NothingInHand DEF LetsGo, Stops, Up, InHand
  <2> QED BY <2>1, <2>2, <2>3
<1>3. CASE StartRunner
  BY <1>3, RecoverRows
<1>4. CASE QueuesNext
  <2>1. Up /\ ~broken /\ current' = current
    BY <1>4 DEF QueuesNext, BootRollover, BootPurge, Chain, Up, InHand, history
  <2>2. rows[r].status = "running"
    <3>1. CASE Drops(rows')
      BY <3>1 DEF Drops
    <3>2. ASSUME NEW m \in RowIds, Adds(rows', m) PROVE rows'[r] = rows[r]
      BY <3>2 DEF Adds
    <3> QED BY <1>1, <1>4, <3>1, <3>2, SchedulesRows DEF AddsRollover, AddsPurge
  <2> QED BY <1>1, <2>1, <2>2
<1>5. ASSUME NEW e \in due, Begin(e) PROVE r = current'
  <2>1. Up /\ ~InHand /\ ~broken
    BY <1>5 DEF Begin, Up, InHand, history
  <2> QED BY <1>1, <1>5, <2>1, BeginRows, NothingInHand
<1>6. ASSUME NEW at \in RetryTimes, Settle(at) PROVE r = current'
  <2>1. Up /\ ~broken
    BY <1>1, <1>6 DEF Settle, Up, InHand
  <2>2. rows'[current].status # "running"
    BY <1>1, <1>6, SettleRows
  <2> QED BY <1>1, <1>6, <2>1, <2>2, SettleRows
<1> QED BY <1>2, <1>3, <1>4, <1>5, <1>6, StepKinds

(* A chain goes on while the worker works ...                              *)
LEMMA ChainWorks ==
    ASSUME DailyInv, TypeInv, NEW k, Chained(k),
           \/ Leaves
           \/ \E e \in due : Begin(e)
           \/ \E at \in RetryTimes : Settle(at)
    PROVE  Chained(k)'
<1> SUFFICES ASSUME Up', ~broken' PROVE Goes(k)'
  BY DEF Chained
<1>1. Bounds /\ CycleRows /\ broken \in BOOLEAN
  BY DEF TypeInv, Bounds
<1>2. CASE Leaves
  <2>1. rows' = rows /\ (Stays \/ PollStep \/ Works \/ Throws \/ Ends \/ LetsGo \/ Stops)
    BY <1>1, <1>2, LeavesProcess
  <2>2. Up /\ ~broken /\ ~Stops
    BY <1>1, <2>1 DEF Stays, PollStep, Works, Throws, Ends, LetsGo, Stops, Up, InHand
  <2>3. PICK r \in RowIds :
            /\ rows[r].kind = k
            /\ \/ Queued(rows, r)
               \/ rows[r].status = "running" /\ r = current /\ (phase # "settle" \/ failed)
    BY <2>2 DEF Chained, Goes
  <2>4. rows'[r].kind = k /\ (Queued(rows, r) => Queued(rows', r))
    BY <2>1, <2>3
  <2>5. CASE ~Queued(rows, r)
    <3>1. InHand /\ rows'[r].status = "running"
      BY <2>1, <2>3, <2>5, NothingInHand
    <3>2. ~LetsGo
      BY <2>3, <2>5, <3>1 DEF LetsGo, Up, InHand
    <3>3. current' = current /\ (phase' # "settle" \/ failed')
      BY <2>1, <2>2, <2>3, <2>5, <3>1, <3>2 DEF Stays, PollStep, Works, Throws, Ends, InHand
    <3> QED BY <2>3, <2>4, <2>5, <3>1, <3>3 DEF Goes, RowIds
  <2> QED BY <2>3, <2>4, <2>5 DEF Goes, RowIds
<1>3. ASSUME NEW e \in due, Begin(e) PROVE Goes(k)'
  <2>1. Up /\ ~InHand /\ ~broken /\ phase' \in {"roll", "purge"}
    BY <1>3 DEF Begin, Up, InHand, history
  <2>2. PICK r \in RowIds : rows[r].kind = k /\ Queued(rows, r)
    BY <2>1, NothingInHand DEF Chained, Goes
  <2>3. CASE r = e.id
    <3>1. rows'[r].kind = k /\ rows'[r].status = "running" /\ current' = r
      BY <1>1, <1>3, <2>2, <2>3, BeginRows DEF Same, Queued
    <3> QED BY <2>1, <3>1 DEF Goes, RowIds
  <2>4. CASE r # e.id
    <3>1. rows'[r] = rows[r]
      BY <1>1, <1>3, <2>4, BeginRows
    <3>2. rows'[r].kind = k /\ Queued(rows', r)
      BY <2>2, <3>1 DEF Queued
    <3> QED BY <3>2 DEF Goes, RowIds
  <2> QED BY <2>3, <2>4
<1>4. ASSUME NEW at \in RetryTimes, Settle(at) PROVE Goes(k)'
  <2>1. Up /\ ~broken /\ phase = "settle" /\ ~(failed /\ LastTry)
    BY <1>1, <1>4 DEF Settle, Up, InHand
  <2>2. PICK r \in RowIds :
            /\ rows[r].kind = k
            /\ Queued(rows, r) \/ (rows[r].status = "running" /\ r = current /\ failed)
    BY <2>1 DEF Chained, Goes
  <2>3. rows'[r].kind = k /\ Queued(rows', r)
    <3>1. CASE Queued(rows, r)
      <4>1. r # current
        BY <1>1, <2>1, <3>1 DEF CycleRows, Queued, InHand
      <4>2. rows'[r] = rows[r]
        BY <1>1, <1>4, <4>1, SettleRows
      <4> QED BY <2>2, <3>1, <4>2 DEF Queued
    <3>2. CASE ~Queued(rows, r)
      BY <1>1, <1>4, <2>1, <2>2, <3>2, SettleRows DEF Queued, Same
    <3> QED BY <3>1, <3>2
  <2> QED BY <2>3 DEF Goes, RowIds
<1> QED BY <1>2, <1>3, <1>4

(* ... and when another job queues its next run.                           *)
LEMMA OthersStay ==
    ASSUME DailyInv, NEW r \in RowIds, Queued(rows, r) \/ rows[r].status = "running",
           \/ AddsRollover(rows') \/ AddsPurge(rows')
           \/ Drops(rows') /\ rows[r].kind # "rollover"
    PROVE  rows'[r] = rows[r]
<1>1. Exists(rows, r)
  BY DEF Queued, Exists
<1>2. ASSUME NEW m \in RowIds, Adds(rows', m) PROVE rows'[r] = rows[r]
  BY <1>1, <1>2 DEF Adds
<1> QED BY <1>1, <1>2 DEF AddsRollover, AddsPurge, Drops, Rollover

(* A job that was added is queued.                                         *)
LEMMA AddedGoes ==
    /\ AddsRollover(rows') => \E r \in RowIds : rows'[r].kind = "rollover" /\ Queued(rows', r)
    /\ AddsPurge(rows') => \E r \in RowIds : rows'[r].kind = "purge" /\ Queued(rows', r)
BY DEF AddsRollover, AddsPurge, Adds, Queued

(* A handler that ends queues the next run of its own kind.                *)
LEMMA ChainRolls ==
    ASSUME DailyInv, TypeInv, RoomLeft, Chain, phase = "roll"
    PROVE  /\ Chained("purge") => Chained("purge")'
           /\ Alone /\ Nightly /\ Chained("rollover") => Chained("rollover")'
<1>1. /\ HasRoom /\ Bounds /\ rows[current].kind = "rollover" /\ current \in RowIds
      /\ rows' = EnsureRolloverScheduled(rows) /\ rows[current].date <= Today
      /\ Up /\ current' = current /\ broken' = broken
  BY DEF RoomLeft, TypeInv, DailyInv, CycleFits, InHand, Chain, Up, history
<1>2. ASSUME Chained("purge"), ~broken PROVE Goes("purge")'
  <2>1. PICK r \in RowIds : rows[r].kind = "purge" /\ Queued(rows, r)
    BY <1>1, <1>2 DEF Chained, Goes
  <2>2. rows'[r] = rows[r]
    BY <1>1, <2>1, RolloverMoves, OthersStay
  <2>3. rows'[r].kind = "purge" /\ Queued(rows', r)
    BY <2>1, <2>2 DEF Queued
  <2> QED BY <2>3 DEF Goes, RowIds
<1>3. ASSUME Alone, Nightly, ~broken PROVE Goes("rollover")'
  <2>1. CASE AddsRollover(rows')
    BY <2>1, AddedGoes DEF Goes, RowIds
  <2>2. CASE ~AddsRollover(rows')
    <3>1. rows' = rows
      BY <1>1, <1>3, <2>2, NightlyMoves
    <3>2. PICK r \in RowIds : Rollover(rows, r) /\ IsActive(rows, r) /\ rows[r].date = Today + 1
      BY <1>1, <1>3, <2>2, NightlyMoves
    <3>3. r # current
      <4>1. Today \in Nat
        BY <1>1, Occurrences DEF Days
      <4> QED BY <1>1, <3>2, <4>1
    <3>4. Queued(rows, r) /\ rows[r].kind = "rollover"
      BY <1>1, <1>3, <3>2, <3>3 DEF Alone, IsActive, Rollover
    <3>5. Queued(rows', r) /\ rows'[r].kind = "rollover"
      BY <3>1, <3>4
    <3> QED BY <3>5 DEF Goes, RowIds
  <2> QED BY <2>1, <2>2
<1> QED BY <1>1, <1>2, <1>3 DEF Chained

LEMMA ChainPurges ==
    ASSUME DailyInv, TypeInv, RoomLeft, Chain, phase = "chain"
    PROVE  /\ Chained("purge")'
           /\ Chained("rollover") => Chained("rollover")'
<1>1. /\ HasRoom /\ rows[current].kind = "purge" /\ current \in RowIds
      /\ rows' = EnsurePurgeScheduled(rows)
      /\ Up /\ current' = current /\ broken' = broken
  BY DEF RoomLeft, DailyInv, CycleFits, InHand, Chain, Up, history
<1>2. Goes("purge")'
  <2>1. \E r \in RowIds : rows'[r].kind = "purge" /\ Queued(rows', r)
    BY <1>1, PurgeMoves, AddedGoes DEF Purge
  <2> QED BY <2>1 DEF Goes, RowIds
<1>3. ASSUME Chained("rollover"), ~broken PROVE Goes("rollover")'
  <2>1. PICK r \in RowIds : rows[r].kind = "rollover" /\ Queued(rows, r)
    BY <1>1, <1>3 DEF Chained, Goes
  <2>2. rows'[r] = rows[r]
    BY <1>1, <2>1, PurgeMoves, OthersStay
  <2>3. rows'[r].kind = "rollover" /\ Queued(rows', r)
    BY <2>1, <2>2 DEF Queued
  <2> QED BY <2>3 DEF Goes, RowIds
<1> QED BY <1>1, <1>2, <1>3 DEF Chained

(* What waits or runs when the recovery begins waits when it is over.      *)
LEMMA RecoveryGoes ==
    ASSUME DailyInv, StartRunner, NEW k, NEW r \in RowIds, rows[r].kind = k,
           Queued(rows, r) \/ rows[r].status = "running"
    PROVE  Goes(k)'
<1>1. rows'[r].kind = k /\ Queued(rows', r)
  BY RecoverRows DEF Same, Queued
<1> QED BY <1>1 DEF Goes, RowIds

(* Every step keeps the purges going: boot, recovery, chain and retry.     *)
LEMMA PurgeStep ==
    ASSUME DailyInv, TypeInv, RoomLeft, PurgeInv, [Next]_vars
    PROVE  PurgeInv'
<1>1. Bounds /\ broken \in BOOLEAN /\ Chained("purge")
  BY DEF TypeInv, Bounds, PurgeInv
<1>2. CASE Leaves
  <2>1. Chained("purge")'
    BY <1>1, <1>2, ChainWorks
  <2>2. rows' = rows /\ (Stays \/ PollStep \/ Works \/ Throws \/ Ends \/ LetsGo \/ Stops)
    BY <1>1, <1>2, LeavesProcess
  <2>3. phase' = "recover" => phase = "recover"
    BY <2>2 DEF Stays, PollStep, Works, Throws, Ends, LetsGo, Stops
  <2>4. phase' = "recover" => \E r \in RowIds : rows'[r].kind = "purge" /\ Queued(rows', r)
    BY <2>2, <2>3 DEF PurgeInv
  <2> QED BY <2>1, <2>4 DEF PurgeInv, RowIds
<1>3. CASE StartRunner
  <2>1. phase = "recover" /\ phase' = "idle"
    BY <1>3 DEF StartRunner
  <2>2. Goes("purge")'
    BY <1>3, <2>1, RecoveryGoes DEF PurgeInv
  <2> QED BY <2>1, <2>2 DEF PurgeInv, Chained
<1>4. CASE BootRollover
  BY <1>4 DEF BootRollover, PurgeInv, Chained, Up, InHand
<1>5. CASE BootPurge
  <2>1. HasRoom /\ phase' = "recover" /\ rows' = EnsurePurgeScheduled(rows)
    BY <1>5 DEF BootPurge, RoomLeft
  <2>2. \E r \in RowIds : rows'[r].kind = "purge" /\ Queued(rows', r)
    BY <2>1, PurgeMoves, AddedGoes DEF Purge
  <2> QED BY <2>1, <2>2 DEF PurgeInv, Chained, Up, InHand, RowIds
<1>6. CASE Chain
  <2>1. Chained("purge")' /\ phase' = "settle"
    BY <1>1, <1>6, ChainRolls, ChainPurges DEF Chain
  <2> QED BY <2>1 DEF PurgeInv
<1>7. ASSUME \/ \E e \in due : Begin(e)
             \/ \E at \in RetryTimes : Settle(at)
      PROVE  PurgeInv'
  <2>1. Chained("purge")' /\ phase' # "recover"
    BY <1>1, <1>7, ChainWorks DEF Begin, Settle
  <2> QED BY <2>1 DEF PurgeInv
<1> QED BY <1>2, <1>3, <1>4, <1>5, <1>6, <1>7, StepKinds DEF QueuesNext

(* And the rollovers, while they are at midnight.                          *)
LEMMA RollStep ==
    ASSUME DailyInv, TypeInv, RoomLeft, Alone, Nightly, RollInv, [Next]_vars
    PROVE  RollInv'
<1> DEFINE Waits(q, r) == q[r].kind = "rollover" /\ (Queued(q, r) \/ q[r].status = "running")
<1>1. Bounds /\ broken \in BOOLEAN /\ Chained("rollover")
  BY DEF TypeInv, Bounds, RollInv
<1>2. CASE Leaves
  <2>1. Chained("rollover")'
    BY <1>1, <1>2, ChainWorks
  <2>2. rows' = rows /\ (Stays \/ PollStep \/ Works \/ Throws \/ Ends \/ LetsGo \/ Stops)
    BY <1>1, <1>2, LeavesProcess
  <2>3. phase' \in {"ensurePurge", "recover"} => phase \in {"ensurePurge", "recover"}
    BY <2>2 DEF Stays, PollStep, Works, Throws, Ends, LetsGo, Stops
  <2>4. phase' \in {"ensurePurge", "recover"} => \E r \in RowIds : Waits(rows', r)
    BY <2>2, <2>3 DEF RollInv
  <2> QED BY <2>1, <2>4 DEF RollInv, RowIds
<1>3. CASE StartRunner
  <2>1. phase = "recover" /\ phase' = "idle"
    BY <1>3 DEF StartRunner
  <2>2. Goes("rollover")'
    BY <1>3, <2>1, RecoveryGoes DEF RollInv
  <2> QED BY <2>1, <2>2 DEF RollInv, Chained
<1>4. CASE BootRollover
  <2>1. HasRoom /\ phase' = "ensurePurge" /\ rows' = EnsureRolloverScheduled(rows)
    BY <1>4 DEF BootRollover, RoomLeft
  <2>2. \E r \in RowIds : Waits(rows', r)
    <3>1. CASE AddsRollover(rows')
      BY <3>1, AddedGoes
    <3>2. CASE ~AddsRollover(rows')
      <4>1. rows' = rows
        BY <1>1, <2>1, <3>2, NightlyMoves
      <4>2. \E r \in RowIds : Waits(rows, r)
        BY <1>1, <2>1, <3>2, NightlyMoves DEF Rollover, IsActive
      <4> QED BY <4>1, <4>2
    <3> QED BY <3>1, <3>2
  <2> QED BY <2>1, <2>2 DEF RollInv, Chained, Up, InHand, RowIds
<1>5. CASE BootPurge
  <2>1. HasRoom /\ phase' = "recover" /\ phase = "ensurePurge" /\ rows' = EnsurePurgeScheduled(rows)
    BY <1>5 DEF BootPurge, RoomLeft
  <2>2. PICK r \in RowIds : Waits(rows, r)
    BY <2>1 DEF RollInv
  <2>3. rows'[r] = rows[r]
    BY <2>1, <2>2, PurgeMoves, OthersStay
  <2>4. Waits(rows', r)
    BY <2>2, <2>3 DEF Queued
  <2> QED BY <2>1, <2>4 DEF RollInv, Chained, Up, InHand, RowIds
<1>6. CASE Chain
  <2>1. Chained("rollover")' /\ phase' = "settle"
    BY <1>1, <1>6, ChainRolls, ChainPurges DEF Chain
  <2> QED BY <2>1 DEF RollInv
<1>7. ASSUME \/ \E e \in due : Begin(e)
             \/ \E at \in RetryTimes : Settle(at)
      PROVE  RollInv'
  <2>1. Chained("rollover")' /\ phase' \notin {"ensurePurge", "recover"}
    BY <1>1, <1>7, ChainWorks DEF Begin, Settle
  <2> QED BY <2>1 DEF RollInv
<1> QED BY <1>2, <1>3, <1>4, <1>5, <1>6, <1>7, StepKinds DEF QueuesNext

(* Before the first boot there is nothing to keep.                         *)
LEMMA ChainInit == Init => Alone /\ PurgeInv /\ RollInv
BY DEF Init, Alone, PurgeInv, RollInv, Chained, Up, InHand

(* Between two cycles nothing is in hand, so the job that goes on is       *)
(* queued.                                                                 *)
LEMMA IdleGoes ==
    ASSUME DailyInv, NEW k, Chained(k), phase = "idle", ~broken
    PROVE  \E r \in RowIds : Exists(rows, r) /\ rows[r].kind = k /\ Queued(rows, r)
<1>1. Up /\ current \notin RowIds
  BY NothingInHand DEF Up, InHand
<1> QED BY <1>1 DEF Chained, Goes, Queued, Exists

(* Hence the two chains.                                                   *)
LEMMA PurgeChainHolds == DailyInv /\ PurgeInv => PurgeChain
BY IdleGoes DEF PurgeInv, PurgeChain, Purge

LEMMA RolloverChainHolds == DailyInv /\ RollInv => RolloverChain
BY IdleGoes DEF RollInv, RolloverChain, Rollover

(* The chain of purges does not end: between two cycles the next one is    *)
(* queued, unless since boot a job died or its settling write failed,      *)
(* whatever the user does with the preferences (JobScheduler.ts:56).       *)
THEOREM PurgesGoOn ==
    ASSUME NoDate \notin Nat
    PROVE  Spec /\ []RoomLeft => []PurgeChain
<1>1. Init => DailyInv /\ TypeInv /\ PurgeInv
  BY DailyInit, TypeInit, ChainInit
<1>2. DailyInv /\ TypeInv /\ PurgeInv /\ RoomLeft /\ [Next]_vars => DailyInv' /\ TypeInv' /\ PurgeInv'
  BY DailyNext, DailyTypeStep, PurgeStep
<1> QED BY <1>1, <1>2, PurgeChainHolds, PTL DEF Spec

(* Nor does that of the rollovers, while the preferences say midnight: at  *)
(* 9am it does end, as the run daily_9am shows.                            *)
THEOREM RolloversGoOn ==
    ASSUME NoDate \notin Nat
    PROVE  Spec /\ []RoomLeft /\ []Nightly => []RolloverChain
<1>1. Init => DailyInv /\ TypeInv /\ Alone /\ RollInv
  BY DailyInit, TypeInit, ChainInit
<1>2. /\ DailyInv /\ TypeInv /\ Alone /\ RollInv
      /\ RoomLeft /\ Nightly /\ [Next]_vars
      => DailyInv' /\ TypeInv' /\ Alone' /\ RollInv'
  BY DailyNext, DailyTypeStep, AloneStep, RollStep
<1> QED BY <1>1, <1>2, RolloverChainHolds, PTL DEF Spec

(* The scenes of the run: in the first the preferences are those of the    *)
(* start.                                                                  *)
SceneTasks == scene = "tasks" => RollInv /\ Nightly

(* In both the chain of purges does not end, in the first that of the      *)
(* rollovers does not either.                                              *)
THEOREM SceneChains ==
    ASSUME NoDate \notin Nat, InitPrefs = MCMidnight
    PROVE  SceneSpec /\ []RoomLeft => []ChainsHold
<1> DEFINE SceneInv == DailyInv /\ TypeInv /\ Alone /\ PurgeInv /\ SceneTasks
<1>1. SceneInit => SceneInv
  <2>1. SceneInit => Nightly
    BY DEF SceneInit, Init, Nightly, MCMidnight
  <2> QED BY <2>1, DailyInit, TypeInit, ChainInit DEF SceneInit, SceneTasks
<1>2. SceneInv /\ RoomLeft /\ [SceneNext]_<<scene, vars>> => SceneInv'
  <2> SUFFICES ASSUME SceneInv, RoomLeft, [SceneNext]_<<scene, vars>> PROVE SceneInv'
    OBVIOUS
  <2>1. [Next]_vars /\ scene' = scene
    BY DEF SceneNext
  <2>2. scene = "tasks" => prefs' = prefs
    BY DEF SceneNext, vars
  <2>3. SceneTasks'
    BY <2>1, <2>2, RollStep DEF SceneTasks, Nightly
  <2> QED BY <2>1, <2>3, DailyNext, DailyTypeStep, AloneStep, PurgeStep
<1>3. SceneInv => ChainsHold
  BY PurgeChainHolds, RolloverChainHolds DEF ChainsHold, SceneTasks
<1> QED BY <1>1, <1>2, <1>3, PTL DEF SceneSpec
----------------------------------------------------------------------------
(* What findRecent's LIMIT leaves out is no job that waits or runs.        *)
Seen ==
    \A r \in RowIds :
        /\ Rollover(rows, r) /\ IsActive(rows, r) => r \in RecentRollovers(rows)
        /\ Purge(rows, r) /\ Queued(rows, r) => r \in RecentPurges(rows)

(* Each row left marked running by a lost process cost a fault.            *)
StuckRows == { r \in RowIds : rows[r].status = "running" /\ r # current }
Stuck     == Cardinality(StuckRows) <= faults

ActivePurges == { r \in RowIds : Purge(rows, r) /\ IsActive(rows, r) }

(* A step after which every row that waits or runs is as it was, or did.   *)
NoneNew ==
    \A r \in RowIds : IsActive(rows', r) => IsActive(rows, r) /\ Same(rows', r)

(* A step that adds no job wakes none either: recovery and retry only turn *)
(* rows that run into rows that wait.                                      *)
LEMMA StepNews ==
    ASSUME DailyInv, TypeInv, RoomLeft, [Next]_vars
    PROVE  NoneNew \/ AddsRollover(rows') \/ AddsPurge(rows')
<1> SUFFICES ASSUME ~AddsRollover(rows'), ~AddsPurge(rows'), NEW r \in RowIds, IsActive(rows', r)
             PROVE  IsActive(rows, r) /\ Same(rows', r)
  BY DEF NoneNew
<1>1. Bounds /\ CycleRows /\ broken \in BOOLEAN
  BY DEF TypeInv, Bounds
<1>2. CASE Leaves
  BY <1>1, <1>2, LeavesProcess DEF Same, IsActive, Queued
<1>3. CASE StartRunner
  BY <1>3, RecoverRows DEF IsActive, Queued
<1>4. CASE QueuesNext
  <2>1. rows'[r] = rows[r] \/ rows'[r].status \in {"unused", "deleted"}
    BY <1>1, <1>4, SchedulesRows DEF Drops
  <2> QED BY <2>1 DEF IsActive, Queued, Same
<1>5. ASSUME NEW e \in due, Begin(e) PROVE IsActive(rows, r) /\ Same(rows', r)
  <2>1. CASE r = e.id
    BY <1>1, <1>5, <2>1, BeginRows DEF IsActive, Queued, Same
  <2>2. CASE r # e.id
    <3>1. rows'[r] = rows[r]
      BY <1>1, <1>5, <2>2, BeginRows
    <3> QED BY <3>1 DEF IsActive, Queued, Same
  <2> QED BY <2>1, <2>2
<1>6. ASSUME NEW at \in RetryTimes, Settle(at) PROVE IsActive(rows, r) /\ Same(rows', r)
  <2>1. CASE r = current
    BY <1>1, <1>6, <2>1, SettleRows DEF IsActive, Queued, Same
  <2>2. CASE r # current
    <3>1. rows'[r] = rows[r]
      BY <1>1, <1>6, <2>2, SettleRows
    <3> QED BY <3>1 DEF IsActive, Queued, Same
  <2> QED BY <2>1, <2>2
<1> QED BY <1>2, <1>3, <1>4, <1>5, <1>6, StepKinds

(* A rollover is added only for a date that has none that waits or runs.   *)
LEMMA OneRolloverStep ==
    ASSUME DailyInv, TypeInv, RoomLeft, Seen, OneRolloverPerDate, [Next]_vars
    PROVE  OneRolloverPerDate'
<1> DEFINE Act(q, r) == q[r].kind = "rollover" /\ IsActive(q, r)
<1>1. \A r, s \in RowIds : Act(rows, r) /\ Act(rows, s) /\ rows[r].date = rows[s].date => r = s
  BY DEF OneRolloverPerDate, Rollover, Exists, IsActive, Queued
<1>2. SUFFICES \A r, s \in RowIds : Act(rows', r) /\ Act(rows', s) /\ rows'[r].date = rows'[s].date => r = s
  BY DEF OneRolloverPerDate, Rollover, RowIds, IsActive, Queued
<1>3. CASE NoneNew
  BY <1>1, <1>3 DEF NoneNew, Same
<1>4. CASE AddsRollover(rows')
  <2>1. PICK m \in RowIds : Adds(rows', m) /\ ~ActiveFor(rows, rows'[m].date)
    BY <1>4 DEF AddsRollover
  <2>2. \A r \in RowIds : Act(rows, r) => rows[r].date # rows'[m].date
    BY <2>1 DEF ActiveFor, Seen, Rollover, Exists, IsActive, Queued
  <2>3. \A r \in RowIds \ {m} : rows'[r] = rows[r]
    BY <2>1 DEF Adds
  <2>4. \A r \in RowIds \ {m} : Act(rows', r) => Act(rows, r) /\ rows'[r].date = rows[r].date
    BY <2>3 DEF IsActive, Queued
  <2> QED BY <1>1, <2>2, <2>4
<1>5. CASE AddsPurge(rows')
  <2>1. PICK m \in RowIds : Adds(rows', m) /\ rows'[m].kind = "purge"
    BY <1>5 DEF AddsPurge
  <2>2. \A r \in RowIds \ {m} : rows'[r] = rows[r]
    BY <2>1 DEF Adds
  <2>3. \A r \in RowIds : Act(rows', r) => r # m /\ Act(rows, r) /\ rows'[r].date = rows[r].date
    BY <2>1, <2>2 DEF IsActive, Queued
  <2> QED BY <1>1, <2>3
<1> QED BY <1>3, <1>4, <1>5, StepNews

(* Counting rows.                                                          *)
LEMMA FiniteRows ==
    ASSUME NEW S, S \subseteq RowIds
    PROVE  IsFiniteSet(S) /\ Cardinality(S) \in Nat
<1>1. IsFiniteSet(RowIds)
  BY DailyAssumption, FS_Interval DEF RowIds
<1> QED BY <1>1, FS_Subset, FS_CardinalityType

LEMMA OneMore ==
    ASSUME NEW S, NEW T, T \subseteq RowIds, NEW x, S \subseteq T \union {x}
    PROVE  Cardinality(S) <= Cardinality(T) + 1
<1>1. IsFiniteSet(T) /\ Cardinality(T) \in Nat
  BY FiniteRows
<1>2. IsFiniteSet(T \union {x}) /\ Cardinality(T \union {x}) <= Cardinality(T) + 1
  BY <1>1, FS_AddElement
<1>3. Cardinality(S) <= Cardinality(T \union {x}) /\ IsFiniteSet(S)
  BY <1>2, FS_Subset
<1>4. Cardinality(S) \in Nat /\ Cardinality(T \union {x}) \in Nat
  BY <1>2, <1>3, FS_CardinalityType
<1> QED BY <1>1, <1>2, <1>3, <1>4

LEMMA NoMore ==
    ASSUME NEW T, T \subseteq RowIds, NEW S \in SUBSET T
    PROVE  Cardinality(S) <= Cardinality(T)
BY FiniteRows, FS_Subset

(* A row is left running only by a step that counts a fault.               *)
LEMMA StuckStep ==
    ASSUME DailyInv, TypeInv, RoomLeft, Stuck, [Next]_vars
    PROVE  Stuck'
<1> DEFINE T == { r \in RowIds : rows'[r].status = "running" /\ r # current' }
<1>1. /\ Bounds /\ CycleRows /\ broken \in BOOLEAN /\ faults \in Nat /\ MaxFaults \in Nat
      /\ Cardinality(StuckRows) <= faults /\ StuckRows \subseteq RowIds
  BY DailyAssumption DEF TypeInv, Bounds, Stuck, StuckRows
<1>2. T = StuckRows' /\ T \subseteq RowIds
  BY DEF StuckRows, RowIds
<1>3. Cardinality(StuckRows) \in Nat /\ Cardinality(T) \in Nat
  BY <1>1, <1>2, FiniteRows
<1>4. ASSUME T \subseteq StuckRows, faults' = faults PROVE Stuck'
  <2>1. Cardinality(T) <= Cardinality(StuckRows)
    BY <1>1, <1>4, NoMore
  <2>2. Cardinality(T) <= faults'
    BY <1>1, <1>3, <1>4, <2>1
  <2> QED BY <1>2, <2>2 DEF Stuck
<1>5. CASE Leaves
  <2>1. rows' = rows /\ (Stays \/ PollStep \/ Works \/ Throws \/ Ends \/ LetsGo \/ Stops)
    BY <1>1, <1>5, LeavesProcess
  <2>2. CASE Stays \/ PollStep \/ Works \/ Ends
    BY <1>4, <2>1, <2>2 DEF Stays, PollStep, Works, Ends, StuckRows
  <2>3. CASE Stops
    <3>1. current = 0 /\ current' = 0 /\ faults' = faults
      BY <2>3, NothingInHand DEF Stops, InHand
    <3> QED BY <1>4, <2>1, <3>1 DEF StuckRows
  <2>4. CASE Throws \/ LetsGo
    <3>1. T \subseteq StuckRows \union {current} /\ faults' = faults + 1
      BY <2>1, <2>4 DEF Throws, LetsGo, StuckRows
    <3>2. Cardinality(T) <= Cardinality(StuckRows) + 1
      BY <1>1, <3>1, OneMore
    <3>3. Cardinality(T) <= faults'
      BY <1>1, <1>3, <3>1, <3>2
    <3> QED BY <1>2, <3>3 DEF Stuck
  <2> QED BY <2>1, <2>2, <2>3, <2>4
<1>6. CASE StartRunner
  <2>1. faults' = faults
    BY <1>6 DEF StartRunner, history
  <2>2. \A r \in RowIds : rows'[r].status # "running"
    BY <1>6, RecoverRows
  <2> QED BY <1>4, <2>1, <2>2
<1>7. CASE QueuesNext
  <2>1. faults' = faults /\ current' = current
    BY <1>7 DEF QueuesNext, BootRollover, BootPurge, Chain, history
  <2>2. ASSUME NEW r \in RowIds, rows'[r].status = "running" PROVE rows'[r] = rows[r]
    BY <1>1, <1>7, <2>2, SchedulesRows DEF Drops, AddsRollover, AddsPurge, Adds
  <2> QED BY <1>4, <2>1, <2>2 DEF StuckRows
<1>8. ASSUME NEW e \in due, Begin(e) PROVE Stuck'
  <2>1. faults' = faults /\ current' = e.id /\ \A r \in RowIds \ {e.id} : rows'[r] = rows[r]
    BY <1>1, <1>8, BeginRows DEF Begin, history
  <2>2. current \notin RowIds
    BY <1>8, NothingInHand DEF Begin, InHand
  <2> QED BY <1>4, <2>1, <2>2 DEF StuckRows
<1>9. ASSUME NEW at \in RetryTimes, Settle(at) PROVE Stuck'
  <2>1. faults' = faults /\ rows'[current].status # "running" /\ \A r \in RowIds \ {current} : rows'[r] = rows[r]
    BY <1>1, <1>9, SettleRows DEF Settle
  <2> QED BY <1>4, <2>1 DEF StuckRows
<1> QED BY <1>5, <1>6, <1>7, <1>8, <1>9, StepKinds

(* A purge is added only when none waits; those that run are the one in    *)
(* hand                                                                    *)
(* and the stuck ones.                                                     *)
LEMMA PurgesStep ==
    ASSUME DailyInv, TypeInv, RoomLeft, Seen, Stuck, PurgesDoNotPileUp, [Next]_vars
    PROVE  PurgesDoNotPileUp'
<1> DEFINE T == { r \in RowIds : rows'[r].kind = "purge" /\ IsActive(rows', r) }
<1>1. /\ faults \in Nat /\ faults' \in Nat /\ faults <= faults'
      /\ Cardinality(ActivePurges) <= 2 + faults /\ ActivePurges \subseteq RowIds
      /\ Cardinality(StuckRows) <= faults /\ StuckRows \subseteq RowIds
  <2>1. faults' = faults \/ faults' = faults + 1
    BY DEF Next, vars, Tick, BootRollover, BootPurge, StartRunner, Shutdown, Crash, SetPrefs, CreateTask,
           EditTask, DeleteTask, RestoreTask, Request, RollTask, Poll, Begin, PurgeDeleted, Chain,
           HandlerFails, Settle, EndCycle, StorageError, history
  <2>2. faults \in Nat
    BY DailyAssumption DEF TypeInv, Bounds
  <2>3. ActivePurges \subseteq RowIds /\ StuckRows \subseteq RowIds
    BY DEF ActivePurges, Purge, StuckRows
  <2>4. Cardinality(ActivePurges) <= 2 + faults
    BY Zenon DEF PurgesDoNotPileUp, ActivePurges
  <2>5. Cardinality(StuckRows) <= faults
    BY DEF Stuck
  <2>6. faults' \in Nat /\ faults <= faults'
    BY <2>1, <2>2
  <2> QED BY <2>2, <2>3, <2>4, <2>5, <2>6, Zenon
<1>2. T = ActivePurges' /\ T \subseteq RowIds
  BY DEF ActivePurges, Purge, Exists, IsActive, Queued, RowIds
<1>3. Cardinality(T) \in Nat /\ Cardinality(ActivePurges) \in Nat /\ Cardinality(StuckRows) \in Nat
  BY <1>1, <1>2, FiniteRows
<1>4. ASSUME T \subseteq ActivePurges PROVE Cardinality(T) <= 2 + faults'
  <2>1. Cardinality(T) <= Cardinality(ActivePurges)
    BY <1>1, <1>4, NoMore
  <2> QED BY <1>1, <1>3, <2>1
<1>5. \A r \in RowIds : r \in ActivePurges <=> rows[r].kind = "purge" /\ IsActive(rows, r)
  BY DEF ActivePurges, Purge, Exists, IsActive, Queued
<1>6. Cardinality(T) <= 2 + faults'
  <2>1. CASE NoneNew
    BY <1>4, <1>5, <2>1 DEF NoneNew, Same
  <2>2. CASE AddsRollover(rows')
    <3>1. PICK m \in RowIds : rows'[m].kind = "rollover" /\ \A r \in RowIds \ {m} : rows'[r] = rows[r]
      BY <2>2 DEF AddsRollover, Adds
    <3>2. \A r \in T : r # m /\ rows[r].kind = "purge" /\ IsActive(rows, r)
      BY <3>1 DEF IsActive, Queued
    <3> QED BY <1>4, <1>5, <3>2
  <2>3. CASE AddsPurge(rows')
    <3>1. PICK m \in RowIds : ~PurgeQueued(rows) /\ \A r \in RowIds \ {m} : rows'[r] = rows[r]
      BY <2>3 DEF AddsPurge, Adds
    <3>2. \A r \in RowIds : rows[r].kind = "purge" => ~Queued(rows, r)
      BY <3>1 DEF PurgeQueued, Seen, Purge, Exists, Queued
    <3>3. \A r \in T \ {m} : r \in StuckRows \union {current}
      BY <3>1, <3>2 DEF StuckRows, IsActive, Queued
    <3> DEFINE R == { r \in RowIds : r \in StuckRows \/ r = current }
    <3>4. R \subseteq RowIds /\ R \subseteq StuckRows \union {current} /\ T \subseteq R \union {m}
      BY <3>3
    <3> HIDE DEF R, T
    <3>5. Cardinality(R) <= Cardinality(StuckRows) + 1 /\ Cardinality(R) \in Nat
      BY <1>1, <3>4, OneMore, FiniteRows
    <3>6. Cardinality(T) <= Cardinality(R) + 1
      BY <3>4, OneMore
    <3> QED BY <1>1, <1>3, <3>5, <3>6
  <2> QED BY <2>1, <2>2, <2>3, StepNews
<1> QED BY <1>2, <1>6 DEF PurgesDoNotPileUp, ActivePurges

(* The empty table is tidy.                                                *)
LEMMA TidyInit == Init => OneRolloverPerDate /\ PurgesDoNotPileUp /\ Stuck
<1> SUFFICES ASSUME Init PROVE OneRolloverPerDate /\ PurgesDoNotPileUp /\ Stuck
  OBVIOUS
<1>1. \A r \in RowIds : rows[r].status = "unused"
  BY DEF Init, Unused
<1>2. ActivePurges = {} /\ StuckRows = {} /\ OneRolloverPerDate
  BY <1>1 DEF ActivePurges, StuckRows, OneRolloverPerDate, IsActive, Queued
<1>3. Cardinality({}) = 0 /\ faults = 0
  BY FS_EmptySet DEF Init
<1> QED BY <1>2, <1>3 DEF PurgesDoNotPileUp, ActivePurges, Stuck

(* No two unfinished rollovers are for the same date, and the purges that  *)
(* wait or run are at most two and one for each fault, as long as the      *)
(* LIMIT of findRecent hides no unfinished job (JobScheduler.ts:56).       *)
THEOREM JobsStayFew ==
    ASSUME NoDate \notin Nat
    PROVE  SceneSpec /\ []RoomLeft /\ []Seen => []JobsDoNotPileUp
<1> DEFINE Inv == DailyInv /\ TypeInv /\ Stuck /\ OneRolloverPerDate /\ PurgesDoNotPileUp
<1>1. SceneInit => Inv
  BY DailyInit, TypeInit, TidyInit DEF SceneInit
<1>2. Inv /\ RoomLeft /\ Seen /\ [SceneNext]_<<scene, vars>> => Inv'
  <2>1. [SceneNext]_<<scene, vars>> => [Next]_vars
    BY DEF SceneNext
  <2> QED BY <2>1, DailyNext, DailyTypeStep, StuckStep, OneRolloverStep, PurgesStep
<1>3. Inv => JobsDoNotPileUp
  BY DEF JobsDoNotPileUp
<1> QED BY <1>1, <1>2, <1>3, PTL DEF SceneSpec

(* In the scenes, too, every variable keeps its type.                      *)
THEOREM SceneDailyTypes ==
    ASSUME NoDate \notin Nat
    PROVE  SceneSpec /\ []RoomLeft => []TypeOK
<1>1. SceneInit => DailyInv /\ TypeInv
  BY DailyInit, TypeInit DEF SceneInit
<1>2. DailyInv /\ TypeInv /\ RoomLeft /\ [SceneNext]_<<scene, vars>> => DailyInv' /\ TypeInv'
  <2>1. [SceneNext]_<<scene, vars>> => [Next]_vars
    BY DEF SceneNext
  <2> QED BY <2>1, DailyNext, DailyTypeStep
<1> QED BY <1>1, <1>2, TypesFit, PTL DEF SceneSpec
=============================================================================
