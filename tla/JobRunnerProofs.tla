-------------------------- MODULE JobRunnerProofs --------------------------
(***************************************************************************)
(* Proofs about the job runner, for every set of rows and types, every     *)
(* number of attempts and any number of crashes and storage errors.        *)
(***************************************************************************)
EXTENDS JobRunner, TLAPS

USE MaxAttemptsAssumption

----------------------------------------------------------------------------
(* The statements of the queue.                                            *)

(* Writing well-typed columns to a row gives a row.                        *)
LEMMA WriteTypes ==
    ASSUME NEW r \in Row, NEW s \in Statuses, NEW t \in Nat,
           NEW n \in 0..MaxAttempts
    PROVE  /\ [r EXCEPT !.status = s] \in Row
           /\ [r EXCEPT !.status = s, !.attempts = n] \in Row
           /\ [r EXCEPT !.status = s, !.runAt = t, !.attempts = n] \in Row
BY DEF Row

(* A statement on a table of rows gives a table of rows.                   *)
LEMMA StatementTypes ==
    ASSUME NEW q \in [JobIds -> Row], NEW j \in JobIds, NEW t \in Nat
    PROVE  /\ Schedule(q, j, t) \in [JobIds -> Row]
           /\ Cancel(q, j) \in [JobIds -> Row]
           /\ MarkRunning(q, j) \in [JobIds -> Row]
           /\ MarkCompleted(q, j) \in [JobIds -> Row]
           /\ RecoverStuckJobs(q) \in [JobIds -> Row]
           /\ q[j].attempts + 1 \in 0..MaxAttempts =>
                /\ MarkFailed(q, j, t) \in [JobIds -> Row]
                /\ MarkDead(q, j) \in [JobIds -> Row]
<1>1. Schedule(q, j, t) \in [JobIds -> Row]
  <2>1. 0 \in 0..MaxAttempts /\ "pending" \in Statuses
    BY DEF Statuses
  <2>2. [q[j] EXCEPT !.status = "pending", !.runAt = t, !.attempts = 0] \in Row
    BY <2>1, WriteTypes
  <2>. QED
    BY <2>2 DEF Schedule
<1>2. Cancel(q, j) \in [JobIds -> Row]
  BY DEF Cancel, Row, Statuses
<1>3. MarkRunning(q, j) \in [JobIds -> Row]
  BY DEF MarkRunning, Row, Statuses
<1>4. MarkCompleted(q, j) \in [JobIds -> Row]
  BY DEF MarkCompleted, Row, Statuses
<1>5. RecoverStuckJobs(q) \in [JobIds -> Row]
  BY DEF RecoverStuckJobs, Row, Statuses
<1>6. ASSUME q[j].attempts + 1 \in 0..MaxAttempts
      PROVE  /\ MarkFailed(q, j, t) \in [JobIds -> Row]
             /\ MarkDead(q, j) \in [JobIds -> Row]
  <2>. "failed" \in Statuses /\ "dead" \in Statuses
    BY DEF Statuses
  <2>. DEFINE f == [q[j] EXCEPT !.status = "failed", !.runAt = t,
                                !.attempts = q[j].attempts + 1]
              d == [q[j] EXCEPT !.status = "dead",
                                !.attempts = q[j].attempts + 1]
  <2>1. f \in Row
    BY <1>6, WriteTypes
  <2>2. d \in Row
    BY <1>6, WriteTypes
  <2>3. MarkFailed(q, j, t) \in [JobIds -> Row]
    <3>1. MarkFailed(q, j, t) = IF Exists(q, j) THEN [q EXCEPT ![j] = f] ELSE q
      BY DEF MarkFailed
    <3>. HIDE DEF f
    <3>. QED
      BY <2>1, <3>1
  <2>4. MarkDead(q, j) \in [JobIds -> Row]
    <3>1. MarkDead(q, j) = IF Exists(q, j) THEN [q EXCEPT ![j] = d] ELSE q
      BY DEF MarkDead
    <3>. HIDE DEF d
    <3>. QED
      BY <2>2, <3>1
  <2>. QED
    BY <2>3, <2>4
<1>. QED
  BY <1>1, <1>2, <1>3, <1>4, <1>5, <1>6

(* The snapshot is made of copies of due rows, one of each.                *)
LEMMA PendingRows ==
    ASSUME NEW q \in [JobIds -> Row], NEW t \in Nat
    PROVE  /\ GetPending(q, t) \subseteq Snapshot
           /\ \A e \in GetPending(q, t) :
                 /\ Queued(q, e.id)
                 /\ e.attempts = q[e.id].attempts
                 /\ e.runAt = q[e.id].runAt
                 /\ e.runAt <= t
           /\ \A e, f \in GetPending(q, t) : e.id = f.id => e = f
BY DEF GetPending, Row, Snapshot

(* What a statement on row j writes, and that it writes no other row.      *)
LEMMA StatementEffects ==
    ASSUME NEW q \in [JobIds -> Row], NEW j \in JobIds, NEW t \in Nat
    PROVE  /\ \A i \in JobIds \ {j} :
                 /\ Schedule(q, j, t)[i] = q[i]
                 /\ Cancel(q, j)[i] = q[i]
                 /\ MarkRunning(q, j)[i] = q[i]
                 /\ MarkCompleted(q, j)[i] = q[i]
                 /\ MarkFailed(q, j, t)[i] = q[i]
                 /\ MarkDead(q, j)[i] = q[i]
           /\ Schedule(q, j, t)[j].status = "pending"
           /\ Schedule(q, j, t)[j].attempts = 0
           /\ Queued(q, j) =>
                 /\ Cancel(q, j)[j].status = "deleted"
                 /\ Cancel(q, j)[j].attempts = q[j].attempts
           /\ Exists(q, j) =>
                 /\ MarkRunning(q, j)[j].status = "running"
                 /\ MarkRunning(q, j)[j].attempts = q[j].attempts
                 /\ MarkCompleted(q, j)[j].status = "completed"
                 /\ MarkCompleted(q, j)[j].attempts = q[j].attempts
                 /\ MarkFailed(q, j, t)[j].status = "failed"
                 /\ MarkFailed(q, j, t)[j].attempts = q[j].attempts + 1
                 /\ MarkFailed(q, j, t)[j].runAt = t
                 /\ MarkDead(q, j)[j].status = "dead"
                 /\ MarkDead(q, j)[j].attempts = q[j].attempts + 1
           /\ ~Exists(q, j) =>
                 /\ MarkRunning(q, j) = q
                 /\ MarkCompleted(q, j) = q
                 /\ MarkFailed(q, j, t) = q
                 /\ MarkDead(q, j) = q
<1>1. q[j] \in Row
  OBVIOUS
<1>2. Schedule(q, j, t)[j] = [q[j] EXCEPT !.status = "pending", !.runAt = t,
                                          !.attempts = 0]
  BY DEF Schedule
<1>3. /\ Schedule(q, j, t)[j].status = "pending"
      /\ Schedule(q, j, t)[j].attempts = 0
  BY <1>1, <1>2 DEF Row
<1>4. Queued(q, j) =>
         /\ Cancel(q, j)[j].status = "deleted"
         /\ Cancel(q, j)[j].attempts = q[j].attempts
  BY DEF Cancel, Row
<1>5. Exists(q, j) =>
         /\ MarkRunning(q, j)[j].status = "running"
         /\ MarkRunning(q, j)[j].attempts = q[j].attempts
         /\ MarkCompleted(q, j)[j].status = "completed"
         /\ MarkCompleted(q, j)[j].attempts = q[j].attempts
  BY DEF MarkRunning, MarkCompleted, Row
<1>6. Exists(q, j) =>
         /\ MarkFailed(q, j, t)[j].status = "failed"
         /\ MarkFailed(q, j, t)[j].attempts = q[j].attempts + 1
         /\ MarkFailed(q, j, t)[j].runAt = t
         /\ MarkDead(q, j)[j].status = "dead"
         /\ MarkDead(q, j)[j].attempts = q[j].attempts + 1
  BY <1>1 DEF MarkFailed, MarkDead, Row
<1>7. ~Exists(q, j) =>
         /\ MarkRunning(q, j) = q
         /\ MarkCompleted(q, j) = q
         /\ MarkFailed(q, j, t) = q
         /\ MarkDead(q, j) = q
  BY DEF MarkRunning, MarkCompleted, MarkFailed, MarkDead
<1>8. \A i \in JobIds \ {j} :
         /\ Schedule(q, j, t)[i] = q[i]
         /\ Cancel(q, j)[i] = q[i]
         /\ MarkRunning(q, j)[i] = q[i]
         /\ MarkCompleted(q, j)[i] = q[i]
         /\ MarkFailed(q, j, t)[i] = q[i]
         /\ MarkDead(q, j)[i] = q[i]
  BY DEF Schedule, Cancel, MarkRunning, MarkCompleted, MarkFailed, MarkDead
<1>. QED
  BY <1>3, <1>4, <1>5, <1>6, <1>7, <1>8

(* Recovery puts the running rows back in the queue and touches no other.  *)
LEMMA RecoveryEffects ==
    ASSUME NEW q \in [JobIds -> Row], NEW j \in JobIds
    PROVE  /\ RecoverStuckJobs(q)[j].attempts = q[j].attempts
           /\ RecoverStuckJobs(q)[j].runAt = q[j].runAt
           /\ RecoverStuckJobs(q)[j].status =
                 IF q[j].status = "running" THEN "pending" ELSE q[j].status
BY DEF RecoverStuckJobs, Row

----------------------------------------------------------------------------
(* The inductive invariant.                                                *)

(* A runner that has not booted, over an empty table, satisfies it.        *)
LEMMA InitIInv == Init => IInv
<1>. SUFFICES ASSUME Init PROVE IInv
  OBVIOUS
<1>1. jobs \in [JobIds -> Row]
  <2>1. 0 \in 0..MaxAttempts /\ "unused" \in Statuses
    BY DEF Statuses
  <2>2. [status |-> "unused", runAt |-> 0, attempts |-> 0] \in Row
    BY <2>1 DEF Row
  <2>. QED
    BY <2>2 DEF Init
<1>2. TypeOK
  BY <1>1 DEF Init, TypeOK, Phases, Outcomes
<1>3. CycleShape /\ SnapshotAgrees /\ SingleWorker
  BY DEF Init, CycleShape, SnapshotAgrees, SingleWorker, InHand
<1>4. AttemptBudget /\ AttemptAccounting
  BY DEF Init, AttemptBudget, AttemptAccounting, InHand
<1>. QED
  BY <1>2, <1>3, <1>4 DEF IInv

(* Steps of the environment that leave the jobs table alone.               *)
LEMMA ProcessSteps ==
    ASSUME IInv,
           Tick \/ Boot \/ (\E t \in HandledTypes : Register(t)) \/ Stop
             \/ \E j \in JobIds : LateHandlerEnds(j)
    PROVE  IInv'
<1>. USE DEF IInv, SnapshotAgrees, AttemptBudget, AttemptAccounting,
         SingleWorker, InHand, Queued
<1>1. CASE Tick
  BY <1>1 DEF Tick, TypeOK, CycleShape, process, history
<1>2. CASE Boot
  BY <1>2 DEF Boot, TypeOK, CycleShape, history
<1>3. ASSUME NEW t \in HandledTypes, Register(t)
      PROVE  IInv'
  BY <1>3 DEF Register, TypeOK, CycleShape, history
<1>4. CASE Stop
  <2>1. stopping' \in BOOLEAN /\ (stopping' => phase # "idle")
    BY <1>4, Zenon DEF Stop
  <2>2. /\ alive /\ started' = FALSE /\ faults' \in Nat
        /\ UNCHANGED <<jobs, now, alive, handlers, phase, due, current, outcome,
                       late, recovered, stranded, starts, wasted>>
    BY <1>4 DEF Stop, TypeOK
  <2>3. TypeOK'
    BY <2>1, <2>2 DEF TypeOK
  <2>4. CycleShape'
    BY <2>1, <2>2 DEF TypeOK, CycleShape
  <2>. QED
    BY <2>2, <2>3, <2>4
<1>5. ASSUME NEW j \in JobIds, LateHandlerEnds(j)
      PROVE  IInv'
  <2>1. late' \in [JobIds -> Nat]
    BY <1>5 DEF LateHandlerEnds, TypeOK
  <2>. QED
    BY <1>5, <2>1 DEF LateHandlerEnds, TypeOK, CycleShape, history
<1>. QED
  BY <1>1, <1>2, <1>3, <1>4, <1>5

(* Steps inside a cycle that leave the jobs table alone.                   *)
LEMMA CycleSteps ==
    ASSUME IInv,
           Poll \/ (\E e \in due : Skip(e)) \/ TimeOut \/ EndCycle
             \/ StorageError \/ Crash
             \/ \E result \in {"ok", "error"} : HandlerEnds(result)
    PROVE  IInv'
<1>. USE DEF IInv
<1>1. CASE Poll
  <2>1. /\ due' \subseteq Snapshot
        /\ \A e \in due' : Queued(jobs, e.id) /\ e.attempts = jobs[e.id].attempts
        /\ \A e, f \in due' : e.id = f.id => e = f
    BY <1>1, PendingRows DEF Poll, TypeOK
  <2>2. TypeOK' /\ CycleShape'
    BY <1>1, <2>1 DEF Poll, TypeOK, CycleShape, Phases, InHand, history
  <2>3. SnapshotAgrees'
    BY <1>1, <2>1 DEF Poll, SnapshotAgrees, InHand, Queued
  <2>4. AttemptBudget' /\ AttemptAccounting' /\ SingleWorker'
    BY <1>1 DEF Poll, AttemptBudget, AttemptAccounting, SingleWorker, InHand,
                history
  <2>. QED
    BY <2>2, <2>3, <2>4
<1>2. ASSUME NEW e \in due, Skip(e)
      PROVE  IInv'
  BY <1>2 DEF Skip, TurnTo, TypeOK, CycleShape, SnapshotAgrees, AttemptBudget,
              AttemptAccounting, SingleWorker, InHand, Queued, history
<1>3. CASE TimeOut
  <2>1. late' \in [JobIds -> Nat]
    BY <1>3 DEF TimeOut, TypeOK, CycleShape, Snapshot
  <2>. QED
    BY <1>3, <2>1 DEF TimeOut, TypeOK, CycleShape, SnapshotAgrees, AttemptBudget,
         AttemptAccounting, SingleWorker, InHand, Queued, Phases, Outcomes,
         history
<1>4. CASE EndCycle
  BY <1>4 DEF EndCycle, TypeOK, CycleShape, SnapshotAgrees, AttemptBudget,
              AttemptAccounting, SingleWorker, InHand, Queued, Phases, history
<1>5. CASE StorageError
  <2>. wasted' \in [JobIds -> Nat]
    BY <1>5 DEF StorageError, TypeOK
  <2>1. TypeOK' /\ CycleShape'
    <3>1. TypeOK'
      <4>1. /\ faults' \in Nat /\ stranded' \subseteq JobIds /\ due' = {}
            /\ phase' = "idle" /\ stopping' = FALSE
            /\ current' = NoJob /\ outcome' = "none"
            /\ UNCHANGED <<jobs, now, alive, handlers, started, late,
                           recovered, starts>>
        BY <1>5 DEF StorageError, TypeOK
      <4>. QED
        BY <4>1 DEF TypeOK, Phases, Outcomes
    <3>2. CycleShape'
      BY <1>5 DEF StorageError, TypeOK, CycleShape
    <3>. QED
      BY <3>1, <3>2
  <2>2. SnapshotAgrees' /\ AttemptBudget'
    BY <1>5 DEF StorageError, SnapshotAgrees, AttemptBudget, InHand
  <2>3. AttemptAccounting'
    BY <1>5 DEF StorageError, AttemptAccounting, InHand, TypeOK, Row
  <2>4. SingleWorker'
    BY <1>5 DEF StorageError, SingleWorker, InHand, Exists, TypeOK, CycleShape,
                Phases
  <2>. QED
    BY <2>1, <2>2, <2>3, <2>4
<1>6. CASE Crash
  <2>. wasted' \in [JobIds -> Nat]
    BY <1>6 DEF Crash, TypeOK
  <2>1. TypeOK' /\ CycleShape'
    <3>1. TypeOK'
      <4>1. /\ faults' \in Nat /\ stranded' = {} /\ due' = {}
            /\ alive' = FALSE /\ handlers' = {} /\ started' = FALSE
            /\ phase' = "idle" /\ stopping' = FALSE /\ recovered' = FALSE
            /\ current' = NoJob /\ outcome' = "none"
            /\ late' \in [JobIds -> Nat]
            /\ UNCHANGED <<jobs, now, starts>>
        BY <1>6 DEF Crash, TypeOK
      <4>. QED
        BY <4>1 DEF TypeOK, Phases, Outcomes
    <3>2. CycleShape'
      BY <1>6 DEF Crash, TypeOK, CycleShape
    <3>. QED
      BY <3>1, <3>2
  <2>2. SnapshotAgrees' /\ AttemptBudget' /\ SingleWorker'
    BY <1>6 DEF Crash, SnapshotAgrees, AttemptBudget, SingleWorker, InHand
  <2>3. AttemptAccounting'
    BY <1>6 DEF Crash, AttemptAccounting, InHand, TypeOK, Row
  <2>. QED
    BY <2>1, <2>2, <2>3
<1>7. ASSUME NEW result \in {"ok", "error"}, HandlerEnds(result)
      PROVE  IInv'
  BY <1>7 DEF HandlerEnds, TypeOK, CycleShape, SnapshotAgrees, AttemptBudget,
              AttemptAccounting, SingleWorker, InHand, Queued, Phases, Outcomes,
              history
<1>. QED
  BY <1>1, <1>2, <1>3, <1>4, <1>5, <1>6, <1>7

(* Steps that write the jobs table.                                        *)
(* A caller schedules a job: an unused row becomes pending.                *)
LEMMA ScheduleStep ==
    ASSUME IInv, NEW j \in JobIds, NEW at \in now..MaxTime, ScheduleJob(j, at)
    PROVE  IInv'
<1>. at \in Nat
  BY BoundsAssumption DEF IInv, TypeOK
<1>. /\ jobs \in [JobIds -> Row] /\ jobs[j].status = "unused"
     /\ jobs[j].attempts = 0
  BY DEF ScheduleJob, IInv, TypeOK, CycleShape
<1>. /\ jobs' = Schedule(jobs, j, at)
     /\ UNCHANGED <<now, process, history>>
  BY DEF ScheduleJob
<1>1. /\ jobs' \in [JobIds -> Row]
      /\ \A i \in JobIds \ {j} : jobs'[i] = jobs[i]
      /\ jobs'[j].status = "pending" /\ jobs'[j].attempts = 0
  <2>1. jobs' \in [JobIds -> Row]
    BY StatementTypes
  <2>2. /\ \A i \in JobIds \ {j} : Schedule(jobs, j, at)[i] = jobs[i]
        /\ Schedule(jobs, j, at)[j].status = "pending"
        /\ Schedule(jobs, j, at)[j].attempts = 0
    BY StatementEffects
  <2>. QED
    BY <2>1, <2>2
<1>2. TypeOK'
  BY <1>1 DEF IInv, TypeOK, process, history
<1>3. CycleShape'
  BY <1>1 DEF IInv, CycleShape, process, history, InHand
<1>4. SnapshotAgrees'
  <2>1. \A e \in due : e.id # j /\ e.id \in JobIds
    BY DEF IInv, TypeOK, Snapshot, SnapshotAgrees, Queued
  <2>2. ~InHand(j)
    BY DEF IInv, SnapshotAgrees
  <2>. QED
    BY <1>1, <2>1, <2>2 DEF IInv, SnapshotAgrees, Queued, InHand, process
<1>5. AttemptBudget' /\ AttemptAccounting' /\ SingleWorker'
  BY <1>1 DEF IInv, AttemptBudget, AttemptAccounting, SingleWorker, InHand,
              process, history
<1>. QED
  BY <1>2, <1>3, <1>4, <1>5 DEF IInv

(* A caller cancels a job: a queued row goes, a copy in the cycle may stay. *)
LEMMA CancelStep ==
    ASSUME IInv, NEW j \in JobIds, CancelJob(j)
    PROVE  IInv'
<1>. /\ jobs \in [JobIds -> Row] /\ Queued(jobs, j)
     /\ jobs' = Cancel(jobs, j)
     /\ UNCHANGED <<now, process, history>>
  BY DEF CancelJob, IInv, TypeOK
<1>1. /\ jobs' \in [JobIds -> Row]
      /\ \A i \in JobIds \ {j} : jobs'[i] = jobs[i]
      /\ jobs'[j].status = "deleted" /\ jobs'[j].attempts = jobs[j].attempts
  <2>. 0 \in Nat
    OBVIOUS
  <2>. QED
    BY StatementTypes, StatementEffects
<1>2. TypeOK'
  BY <1>1 DEF IInv, TypeOK, process, history
<1>3. CycleShape'
  BY <1>1 DEF IInv, CycleShape, process, history, InHand
<1>4. SnapshotAgrees'
  <2>1. \A e \in due : e.id \in JobIds
    BY DEF IInv, TypeOK, Snapshot
  <2>. QED
    BY <1>1, <2>1 DEF IInv, SnapshotAgrees, Queued, InHand, process
<1>5. AttemptBudget' /\ AttemptAccounting' /\ SingleWorker'
  BY <1>1 DEF IInv, AttemptBudget, AttemptAccounting, SingleWorker, InHand,
              Queued, process, history
<1>. QED
  BY <1>2, <1>3, <1>4, <1>5 DEF IInv

(* start() recovers the rows a crash left running (JobRunner.ts:85).       *)
LEMMA StartStep == ASSUME IInv, Start PROVE IInv'
<1>. /\ jobs \in [JobIds -> Row] /\ jobs' = RecoverStuckJobs(jobs)
     /\ phase = "idle" /\ due = {}
  BY DEF Start, IInv, TypeOK, CycleShape
<1>1. jobs' \in [JobIds -> Row]
  <2>. \A j \in JobIds : RecoverStuckJobs(jobs) \in [JobIds -> Row]
    BY StatementTypes, 0 \in Nat
  <2>. QED
    BY DEF RecoverStuckJobs, Row, Statuses
<1>2. \A j \in JobIds :
         /\ jobs'[j].attempts = jobs[j].attempts
         /\ jobs'[j].status =
               IF jobs[j].status = "running" THEN "pending" ELSE jobs[j].status
  BY RecoveryEffects
<1>3. TypeOK'
  BY <1>1 DEF Start, IInv, TypeOK
<1>4. CycleShape'
  BY <1>2 DEF Start, IInv, CycleShape, InHand
<1>5. SnapshotAgrees' /\ AttemptBudget' /\ SingleWorker'
  BY <1>2 DEF Start, IInv, SnapshotAgrees, AttemptBudget, SingleWorker, InHand
<1>6. AttemptAccounting'
  BY <1>2 DEF Start, IInv, AttemptAccounting, InHand
<1>. QED
  BY <1>3, <1>4, <1>5, <1>6 DEF IInv

(* The row a cycle turns to is claimed, unless it was cancelled since.     *)
LEMMA BeginRow ==
    ASSUME IInv, NEW e \in due, Begin(e)
    PROVE  /\ jobs \in [JobIds -> Row] /\ e.id \in JobIds
           /\ \A f \in due' : f.id \in JobIds /\ f.id # e.id
           /\ jobs' \in [JobIds -> Row]
           /\ \A i \in JobIds \ {e.id} : jobs'[i] = jobs[i]
           /\ jobs'[e.id].attempts = jobs[e.id].attempts
           /\ \/ jobs[e.id].status = "deleted" /\ jobs' = jobs
              \/ /\ Queued(jobs, e.id) /\ jobs'[e.id].status = "running"
                 /\ jobs[e.id].attempts = e.attempts
<1>. DEFINE j == e.id
<1>1. /\ jobs \in [JobIds -> Row] /\ j \in JobIds /\ e \in Snapshot
      /\ due' = due \ {e}
      /\ jobs' = MarkRunning(jobs, j)
  BY DEF Begin, TurnTo, IInv, TypeOK, Snapshot
<1>2. /\ \A f \in due' : f.id \in JobIds /\ f.id # j
      /\ \/ jobs[j].status = "deleted"
         \/ Queued(jobs, j) /\ jobs[j].attempts = e.attempts
  BY <1>1 DEF IInv, TypeOK, CycleShape, SnapshotAgrees, Snapshot
<1>3. jobs' \in [JobIds -> Row]
  BY <1>1, StatementTypes, 0 \in Nat
<1>4. \A i \in JobIds \ {j} : jobs'[i] = jobs[i]
  BY <1>1, StatementEffects, 0 \in Nat
<1>5. CASE jobs[j].status = "deleted"
  <2>1. ~Exists(jobs, j)
    BY <1>5 DEF Exists
  <2>. QED
    BY <1>1, <1>2, <1>3, <1>4, <1>5, <2>1 DEF MarkRunning
<1>6. CASE Queued(jobs, j) /\ jobs[j].attempts = e.attempts
  <2>1. Exists(jobs, j)
    BY <1>6 DEF Queued, Exists
  <2>2. /\ jobs'[j].status = "running"
        /\ jobs'[j].attempts = jobs[j].attempts
    BY <1>1, <2>1, StatementEffects, 0 \in Nat
  <2>. QED
    BY <1>1, <1>2, <1>3, <1>4, <1>6, <2>2
<1>. QED
  BY <1>2, <1>5, <1>6

(* The handler of the oldest row is called, though the row may be cancelled. *)
LEMMA BeginStep ==
    ASSUME IInv, NEW e \in due, Begin(e)
    PROVE  IInv'
<1>. DEFINE j == e.id
<1>1. /\ jobs \in [JobIds -> Row] /\ j \in JobIds /\ e \in Snapshot
      /\ phase = "cycle" /\ phase' = "attempt"
      /\ due' = due \ {e} /\ current' = e
      /\ starts' = [starts EXCEPT ![j] = @ + 1]
      /\ UNCHANGED <<now, alive, handlers, started, stopping, outcome, late,
                     recovered, stranded, wasted, faults>>
  BY DEF Begin, TurnTo, IInv, TypeOK, Snapshot
<1>2. /\ \A f \in due' : f.id \in JobIds /\ f.id # j
      /\ jobs' \in [JobIds -> Row]
      /\ \A i \in JobIds \ {j} : jobs'[i] = jobs[i]
      /\ jobs'[j].attempts = jobs[j].attempts
      /\ \/ jobs[j].status = "deleted" /\ jobs'[j].status = "deleted"
         \/ /\ Queued(jobs, j) /\ jobs'[j].status = "running"
            /\ jobs[j].attempts = e.attempts
  BY BeginRow
<1>. HIDE DEF j
<1>4. TypeOK'
  <2>1. starts' \in [JobIds -> Nat]
    BY <1>1 DEF IInv, TypeOK
  <2>2. /\ due' \subseteq Snapshot /\ current' \in Snapshot
        /\ phase' \in Phases
    BY <1>1 DEF IInv, TypeOK, Phases
  <2>3. UNCHANGED <<now, alive, handlers, started, stopping, outcome, late,
                    recovered, stranded, wasted, faults>>
    BY <1>1
  <2>. QED
    BY <1>2, <2>1, <2>2, <2>3 DEF IInv, TypeOK
<1>5. CycleShape'
  <2>1. \A i \in JobIds : jobs'[i].status = "unused" => jobs'[i].attempts = 0
    BY <1>2 DEF IInv, CycleShape
  <2>2. \A f \in due' : ~InHand(f.id)'
    BY <1>1, <1>2 DEF InHand, j
  <2>. QED
    BY <1>1, <2>1, <2>2 DEF IInv, CycleShape
<1>6. SnapshotAgrees'
  BY <1>1, <1>2 DEF IInv, SnapshotAgrees, Queued, InHand, j
<1>7. AttemptBudget'
  BY <1>2 DEF IInv, AttemptBudget, Queued
<1>8. AttemptAccounting'
  BY <1>1, <1>2 DEF IInv, TypeOK, Row, AttemptAccounting, Queued, InHand, j
<1>9. SingleWorker'
  BY <1>1, <1>2 DEF IInv, SingleWorker, InHand, j
<1>. QED
  BY <1>4, <1>5, <1>6, <1>7, <1>8, <1>9 DEF IInv

(* The settling write: nothing on a row cancelled meanwhile; otherwise the *)
(* row in hand is completed, fails with attempts left, or dies of the last *)
(* one, for the attempts counted from the snapshot are those of the row.   *)
LEMMA SettleRow ==
    ASSUME IInv, Settle
    PROVE  /\ jobs \in [JobIds -> Row] /\ current.id \in JobIds
           /\ InHand(current.id)
           /\ jobs' \in [JobIds -> Row]
           /\ \A i \in JobIds \ {current.id} : jobs'[i] = jobs[i]
           /\ \/ jobs[current.id].status = "deleted" /\ jobs' = jobs
              \/ /\ jobs[current.id].status = "running"
                 /\ jobs[current.id].attempts \in 0..(MaxAttempts - 1)
                 /\ \/ /\ jobs'[current.id].status = "completed"
                       /\ jobs'[current.id].attempts = jobs[current.id].attempts
                    \/ /\ jobs'[current.id].status = "failed"
                       /\ jobs'[current.id].attempts
                            = jobs[current.id].attempts + 1
                       /\ jobs'[current.id].attempts < MaxAttempts
                    \/ /\ jobs'[current.id].status = "dead"
                       /\ jobs'[current.id].attempts
                            = jobs[current.id].attempts + 1
                       /\ jobs'[current.id].attempts = MaxAttempts
<1>. DEFINE j == current.id
<1>1. /\ jobs \in [JobIds -> Row] /\ j \in JobIds /\ current \in Snapshot
      /\ current.attempts \in 0..MaxAttempts
      /\ phase = "settle" /\ jobs' = Verdict
  BY DEF Settle, IInv, TypeOK, CycleShape, Snapshot
<1>2. /\ InHand(j)
      /\ \/ jobs[j].status = "deleted"
         \/ /\ jobs[j].status = "running"
            /\ jobs[j].attempts = current.attempts
            /\ jobs[j].attempts \in 0..(MaxAttempts - 1)
  <2>1. InHand(j)
    BY <1>1 DEF InHand
  <2>2. \/ jobs[j].status = "deleted"
        \/ jobs[j].status = "running" /\ jobs[j].attempts = current.attempts
    BY <1>1, <2>1 DEF IInv, SnapshotAgrees
  <2>3. jobs[j].status = "running" => jobs[j].attempts # MaxAttempts
    BY <1>1 DEF IInv, AttemptBudget
  <2>4. jobs[j].attempts \in 0..MaxAttempts
    BY <1>1 DEF Row
  <2>. QED
    BY <2>1, <2>2, <2>3, <2>4
<1>3. CASE jobs[j].status = "deleted"
  <2>1. ~Exists(jobs, j)
    BY <1>3 DEF Exists
  <2>2. jobs' = jobs
    BY <1>1, <2>1 DEF Verdict, MarkCompleted, MarkFailed, MarkDead
  <2>. QED
    BY <1>1, <1>2, <1>3, <2>2
<1>4. CASE jobs[j].status = "running"
  <2>1. Exists(jobs, j)
    BY <1>4 DEF Exists
  <2>2. /\ jobs' \in [JobIds -> Row]
        /\ \A i \in JobIds \ {j} : jobs'[i] = jobs[i]
        /\ \/ /\ jobs'[j].status = "completed"
              /\ jobs'[j].attempts = jobs[j].attempts
           \/ /\ jobs'[j].status = "failed"
              /\ jobs'[j].attempts = jobs[j].attempts + 1
              /\ jobs'[j].attempts < MaxAttempts
           \/ /\ jobs'[j].status = "dead"
              /\ jobs'[j].attempts = jobs[j].attempts + 1
              /\ jobs'[j].attempts = MaxAttempts
    <3>1. CASE outcome = "ok"
      <4>1. jobs' = MarkCompleted(jobs, j)
        BY <1>1, <3>1 DEF Verdict
      <4>2. jobs' \in [JobIds -> Row]
        BY <1>1, <4>1, StatementTypes, 0 \in Nat
      <4>3. /\ \A i \in JobIds \ {j} : jobs'[i] = jobs[i]
            /\ jobs'[j].status = "completed"
            /\ jobs'[j].attempts = jobs[j].attempts
        BY <1>1, <2>1, <4>1, StatementEffects, 0 \in Nat
      <4>. QED
        BY <4>2, <4>3
    <3>2. CASE outcome # "ok" /\ Attempts >= MaxAttempts
      <4>1. jobs' = MarkDead(jobs, j)
        BY <1>1, <3>2 DEF Verdict
      <4>2. jobs[j].attempts + 1 = MaxAttempts
        BY <1>1, <1>2, <1>4, <3>2 DEF Attempts
      <4>3. jobs[j].attempts + 1 \in 0..MaxAttempts
        BY <4>2
      <4>4. jobs' \in [JobIds -> Row]
        BY <1>1, <4>1, <4>3, StatementTypes, 0 \in Nat
      <4>5. /\ \A i \in JobIds \ {j} : jobs'[i] = jobs[i]
            /\ jobs'[j].status = "dead"
            /\ jobs'[j].attempts = jobs[j].attempts + 1
        BY <1>1, <2>1, <4>1, StatementEffects, 0 \in Nat
      <4>. QED
        BY <4>2, <4>4, <4>5
    <3>3. CASE outcome # "ok" /\ ~(Attempts >= MaxAttempts)
      <4>. DEFINE t == now + Backoff(Attempts)
      <4>1. jobs' = MarkFailed(jobs, j, t)
        BY <1>1, <3>3 DEF Verdict
      <4>2. /\ jobs[j].attempts + 1 < MaxAttempts
            /\ Attempts \in 1..MaxAttempts
        BY <1>1, <1>2, <1>4, <3>3 DEF Attempts
      <4>3. t \in Nat
        <5>1. Backoff(Attempts) \in Nat
          BY <4>2, BackoffAssumption
        <5>. QED
          BY <5>1 DEF IInv, TypeOK
      <4>4. jobs[j].attempts + 1 \in 0..MaxAttempts
        BY <1>1, <1>2, <1>4, <4>2
      <4>. HIDE DEF t
      <4>5. jobs' \in [JobIds -> Row]
        BY <1>1, <4>1, <4>3, <4>4, StatementTypes
      <4>6. /\ \A i \in JobIds \ {j} : jobs'[i] = jobs[i]
            /\ jobs'[j].status = "failed"
            /\ jobs'[j].attempts = jobs[j].attempts + 1
        BY <1>1, <2>1, <4>1, <4>3, StatementEffects
      <4>. QED
        BY <4>2, <4>5, <4>6
    <3>. QED
      BY <3>1, <3>2, <3>3
  <2>. HIDE DEF j
  <2>. QED
    BY <1>1, <1>2, <1>4, <2>2 DEF j
<1>. QED
  BY <1>2, <1>3, <1>4

(* The settling write records the attempt in hand (JobRunner.ts:174-206).  *)
LEMMA SettleStep == ASSUME IInv, Settle PROVE IInv'
<1>. DEFINE j == current.id
<1>1. /\ phase = "settle" /\ phase' = "cycle"
      /\ current' = NoJob /\ outcome' = "none"
      /\ UNCHANGED <<now, alive, handlers, started, stopping, due, late,
                     recovered, stranded, starts, faults>>
  BY DEF Settle
<1>2. /\ jobs \in [JobIds -> Row] /\ j \in JobIds /\ InHand(j)
      /\ jobs' \in [JobIds -> Row]
      /\ \A i \in JobIds \ {j} : jobs'[i] = jobs[i]
  BY SettleRow
<1>3. CASE jobs[j].status = "deleted"
  <2>1. ~Exists(jobs, j)
    BY <1>3 DEF Exists
  <2>2. jobs' = jobs
    BY <1>3, SettleRow
  <2>3. wasted' = [wasted EXCEPT ![j] = @ + 1]
    BY <2>1 DEF Settle
  <2>4. TypeOK'
    <3>1. wasted' \in [JobIds -> Nat]
      BY <1>2, <2>3 DEF IInv, TypeOK
    <3>. QED
      BY <1>1, <1>2, <3>1 DEF IInv, TypeOK, Phases, Outcomes
  <2>5. CycleShape' /\ SnapshotAgrees' /\ AttemptBudget'
    BY <1>1, <2>2 DEF IInv, CycleShape, SnapshotAgrees, AttemptBudget, InHand,
                      Queued
  <2>6. AttemptAccounting'
    BY <1>1, <1>2, <1>3, <2>2, <2>3
       DEF IInv, TypeOK, Row, AttemptAccounting, InHand
  <2>7. SingleWorker'
    BY <1>1, <1>3, <2>2 DEF IInv, SingleWorker, InHand
  <2>. QED
    BY <2>4, <2>5, <2>6, <2>7 DEF IInv
<1>4. CASE jobs[j].status = "running"
  <2>1. wasted' = wasted
    BY <1>4 DEF Settle, Exists
  <2>2. /\ jobs[j].attempts \in 0..(MaxAttempts - 1)
        /\ \/ /\ jobs'[j].status = "completed"
              /\ jobs'[j].attempts = jobs[j].attempts
           \/ /\ jobs'[j].status = "failed"
              /\ jobs'[j].attempts = jobs[j].attempts + 1
              /\ jobs'[j].attempts < MaxAttempts
           \/ /\ jobs'[j].status = "dead"
              /\ jobs'[j].attempts = jobs[j].attempts + 1
              /\ jobs'[j].attempts = MaxAttempts
    BY <1>4, SettleRow
  <2>. HIDE DEF j
  <2>4. TypeOK'
    BY <1>1, <1>2, <2>1 DEF IInv, TypeOK, Phases, Outcomes
  <2>5. CycleShape'
    BY <1>1, <1>2, <2>2 DEF IInv, CycleShape, InHand
  <2>6. SnapshotAgrees'
    <3>1. \A e \in due : e.id \in JobIds /\ e.id # j
      BY <1>2 DEF IInv, TypeOK, CycleShape, Snapshot
    <3>. QED
      BY <1>1, <1>2, <3>1 DEF IInv, SnapshotAgrees, Queued, InHand
  <2>7. AttemptBudget'
    BY <1>2, <2>2 DEF IInv, AttemptBudget
  <2>8. AttemptAccounting'
    <3>. SUFFICES ASSUME NEW i \in JobIds
                  PROVE  (starts[i] = jobs[i].attempts + wasted[i]
                            + (IF jobs[i].status = "completed" THEN 1 ELSE 0)
                            + (IF InHand(i) THEN 1 ELSE 0))'
      BY DEF AttemptAccounting
    <3>1. /\ wasted[i] \in Nat /\ jobs[i].attempts \in 0..MaxAttempts
          /\ starts[i] = jobs[i].attempts + wasted[i]
                         + (IF jobs[i].status = "completed" THEN 1 ELSE 0)
                         + (IF InHand(i) THEN 1 ELSE 0)
      BY DEF IInv, TypeOK, Row, AttemptAccounting
    <3>2. ~InHand(i)' /\ starts' = starts /\ (InHand(i) => i = j)
      BY <1>1 DEF InHand, j
    <3>3. CASE i = j
      BY <1>2, <1>4, <2>1, <2>2, <3>1, <3>2, <3>3
    <3>4. CASE i # j
      BY <1>2, <2>1, <3>1, <3>2, <3>4
    <3>. QED
      BY <3>3, <3>4
  <2>9. SingleWorker'
    BY <1>1, <1>2, <2>2 DEF IInv, SingleWorker, InHand, j
  <2>. QED
    BY <2>4, <2>5, <2>6, <2>7, <2>8, <2>9 DEF IInv
<1>. QED
  BY <1>3, <1>4, SettleRow

(* Every step of the specification keeps the inductive invariant.          *)
LEMMA NextIInv == IInv /\ [Next]_vars => IInv'
<1>. SUFFICES ASSUME IInv, [Next]_vars PROVE IInv'
  OBVIOUS
<1>1. CASE Tick \/ Boot \/ (\E t \in HandledTypes : Register(t)) \/ Stop
             \/ \E j \in JobIds : LateHandlerEnds(j)
  BY <1>1, ProcessSteps
<1>2. CASE Poll \/ (\E e \in due : Skip(e)) \/ TimeOut \/ EndCycle
             \/ StorageError \/ Crash
             \/ \E result \in {"ok", "error"} : HandlerEnds(result)
  BY <1>2, CycleSteps
<1>3. CASE \E j \in JobIds, at \in now .. MaxTime : ScheduleJob(j, at)
  BY <1>3, ScheduleStep
<1>4. CASE \E j \in JobIds : CancelJob(j)
  BY <1>4, CancelStep
<1>5. CASE Start
  BY <1>5, StartStep
<1>6. CASE \E e \in due : Begin(e)
  BY <1>6, BeginStep
<1>7. CASE Settle
  BY <1>7, SettleStep
<1>8. CASE UNCHANGED vars
  BY <1>8 DEF vars, process, history, IInv, TypeOK, CycleShape, SnapshotAgrees,
     AttemptBudget, AttemptAccounting, SingleWorker, InHand, Queued
<1>. QED
  BY <1>1, <1>2, <1>3, <1>4, <1>5, <1>6, <1>7, <1>8 DEF Next

(* The inductive invariant holds of every behaviour of the runner.         *)
THEOREM Inductive == Spec => []IInv
<1>. QED
  BY InitIInv, NextIInv, PTL DEF Spec

(* The runner's variables stay in their types; in particular no row is     *)
(* ever charged more than max_attempts (JobRunner.ts:187).                 *)
THEOREM TypeCorrect == Spec => []TypeOK
<1>1. IInv => TypeOK
  BY DEF IInv
<1>. QED
  BY <1>1, Inductive, PTL

(* One worker: after recovery only the row in hand, or one whose settling  *)
(* write failed, is marked running (JobRunner.ts:85, 165).                 *)
THEOREM OneWorker == Spec => []SingleWorker
<1>1. IInv => SingleWorker
  BY DEF IInv
<1>. QED
  BY <1>1, Inductive, PTL

(* The copies the cycle works from are never stale in what the runner      *)
(* reads from them (JobRunner.ts:137, 181).                                *)
THEOREM FreshSnapshots == Spec => []SnapshotAgrees
<1>1. IInv => SnapshotAgrees
  BY DEF IInv
<1>. QED
  BY <1>1, Inductive, PTL

(* The retry budget: dead exactly when max_attempts failures are on record *)
(* (JobRunner.ts:187-188).                                                 *)
THEOREM Budget == Spec => []AttemptBudget
<1>1. IInv => AttemptBudget
  BY DEF IInv
<1>. QED
  BY <1>1, Inductive, PTL

(* Every call of a handler is accounted for: as a failed attempt, as the   *)
(* completing one, as the one in hand, or as one interrupted.              *)
THEOREM Accounting == Spec => []AttemptAccounting
<1>1. IInv => AttemptAccounting
  BY DEF IInv
<1>. QED
  BY <1>1, Inductive, PTL

----------------------------------------------------------------------------
(* What a step may do to the table, and what follows from it.              *)

(* One row moves along its life cycle and keeps or charges its attempts.   *)
RowMove(j) ==
    /\ \A i \in JobIds \ {j} : jobs'[i] = jobs[i]
    /\ \/ /\ \/ jobs[j].status = "unused" /\ jobs'[j].status = "pending"
             \/ Queued(jobs, j) /\ jobs'[j].status \in {"deleted", "running"}
             \/ jobs[j].status = "running" /\ jobs'[j].status = "completed"
          /\ jobs'[j].attempts = jobs[j].attempts
       \/ /\ jobs[j].status = "running"
          /\ \/ /\ jobs'[j].status = "failed"
                /\ jobs[j].attempts + 1 < MaxAttempts
             \/ /\ jobs'[j].status = "dead"
                /\ jobs[j].attempts + 1 = MaxAttempts
          /\ jobs'[j].attempts = jobs[j].attempts + 1

(* A step makes one move of one row, or recovers, or leaves the table.    *)
LEMMA TableStep ==
    ASSUME IInv, [Next]_vars
    PROVE  \/ jobs' = jobs
           \/ jobs' = RecoverStuckJobs(jobs)
           \/ \E j \in JobIds : RowMove(j)
<1>. jobs \in [JobIds -> Row]
  BY DEF IInv, TypeOK
<1>1. CASE \E j \in JobIds, at \in now .. MaxTime : ScheduleJob(j, at)
  <2>1. PICK j \in JobIds, at \in now .. MaxTime : ScheduleJob(j, at)
    BY <1>1
  <2>2. /\ at \in Nat /\ jobs[j].status = "unused" /\ jobs[j].attempts = 0
        /\ jobs' = Schedule(jobs, j, at)
    BY <2>1, BoundsAssumption DEF ScheduleJob, IInv, TypeOK, CycleShape
  <2>3. /\ \A i \in JobIds \ {j} : jobs'[i] = jobs[i]
        /\ jobs'[j].status = "pending"
        /\ jobs'[j].attempts = 0
    BY <2>2, StatementEffects
  <2>. QED
    BY <2>2, <2>3 DEF RowMove
<1>2. CASE \E j \in JobIds : CancelJob(j)
  <2>1. PICK j \in JobIds : CancelJob(j)
    BY <1>2
  <2>2. Queued(jobs, j) /\ jobs' = Cancel(jobs, j)
    BY <2>1 DEF CancelJob
  <2>3. /\ \A i \in JobIds \ {j} : jobs'[i] = jobs[i]
        /\ jobs'[j].status = "deleted"
        /\ jobs'[j].attempts = jobs[j].attempts
    BY <2>2, StatementEffects, 0 \in Nat
  <2>. QED
    BY <2>2, <2>3 DEF RowMove
<1>3. CASE Start
  BY <1>3 DEF Start
<1>4. CASE \E e \in due : Begin(e)
  <2>1. PICK e \in due : Begin(e)
    BY <1>4
  <2>. QED
    BY <2>1, BeginRow DEF RowMove
<1>5. CASE Settle
  BY <1>5, SettleRow DEF RowMove
<1>6. CASE \/ Tick \/ Boot \/ Crash \/ Stop \/ Poll \/ TimeOut \/ EndCycle
           \/ StorageError
           \/ \E t \in HandledTypes : Register(t)
           \/ \E j \in JobIds : LateHandlerEnds(j)
           \/ \E e \in due : Skip(e)
           \/ \E result \in {"ok", "error"} : HandlerEnds(result)
           \/ UNCHANGED vars
  BY <1>6 DEF Tick, Boot, Crash, Stop, Poll, TimeOut, EndCycle, StorageError,
              Register, LateHandlerEnds, Skip, HandlerEnds, vars
<1>. QED
  BY <1>1, <1>2, <1>3, <1>4, <1>5, <1>6 DEF Next

(* A row that is completed, dead or cancelled stays as it is.              *)
THEOREM Final == Spec => SettledIsFinal
<1>. DEFINE Still == \A j \in JobIds :
               Settled(jobs, j) \/ jobs[j].status = "deleted"
                  => jobs'[j] = jobs[j]
<1>1. IInv /\ [Next]_vars => [Still]_vars
  <2>. SUFFICES ASSUME IInv, [Next]_vars PROVE Still
    OBVIOUS
  <2>. jobs \in [JobIds -> Row]
    BY DEF IInv, TypeOK
  <2>1. CASE jobs' = jobs
    BY <2>1
  <2>2. CASE jobs' = RecoverStuckJobs(jobs)
    BY <2>2 DEF RecoverStuckJobs, Settled
  <2>3. ASSUME NEW j \in JobIds, RowMove(j) PROVE Still
    BY <2>3 DEF RowMove, Settled, Queued
  <2>. QED
    BY <2>1, <2>2, <2>3, TableStep
<1>. HIDE DEF Still
<1>2. Spec => [][Still]_vars
  BY <1>1, Inductive, PTL DEF Spec
<1>. QED
  BY <1>2 DEF Still, SettledIsFinal

(* The runner, its callers and the failures around them keep the promise   *)
(* of the queue: JobLifecycle is implemented, for any number of attempts.  *)
THEOREM Refinement == Spec => ImplementsLifecycle
<1>. DEFINE life == [j \in JobIds |-> LifeOf[jobs[j].status]]
            tries == [j \in JobIds |-> jobs[j].attempts]
<1>1. Init => Lifecycle!LifeInit
  BY DEF Init, Lifecycle!LifeInit, LifeOf
<1>2. IInv /\ [Next]_vars => [Lifecycle!LifeNext]_(Lifecycle!lifeVars)
  <2>. SUFFICES ASSUME IInv, [Next]_vars
                PROVE  [Lifecycle!LifeNext]_(Lifecycle!lifeVars)
    OBVIOUS
  <2>. jobs \in [JobIds -> Row]
    BY DEF IInv, TypeOK
  <2>1. CASE jobs' = jobs
    BY <2>1 DEF Lifecycle!lifeVars
  <2>2. CASE jobs' = RecoverStuckJobs(jobs)
    <3>1. \A j \in JobIds :
             /\ tries'[j] = tries[j]
             /\ life'[j] = IF life[j] = "taken" THEN "queued" ELSE life[j]
      BY <2>2, RecoveryEffects DEF LifeOf, Row, Statuses
    <3>2. Lifecycle!Recover
      BY <3>1 DEF Lifecycle!Recover
    <3>. QED
      BY <3>2 DEF Lifecycle!LifeNext
  <2>3. ASSUME NEW j \in JobIds, RowMove(j)
        PROVE  Lifecycle!LifeNext
    <3>1. /\ \A i \in JobIds \ {j} : life'[i] = life[i] /\ tries'[i] = tries[i]
          /\ tries'[j] = jobs'[j].attempts /\ tries[j] = jobs[j].attempts
          /\ life'[j] = LifeOf[jobs'[j].status]
          /\ life[j] = LifeOf[jobs[j].status]
      BY <2>3 DEF RowMove
    <3>2. CASE jobs'[j].attempts = jobs[j].attempts
      <4>1. UNCHANGED tries
        BY <3>1, <3>2
      <4>2. \/ life[j] = "none" /\ life'[j] = "queued"
            \/ life[j] = "queued" /\ life'[j] \in {"withdrawn", "taken"}
            \/ life[j] = "taken" /\ life'[j] = "done"
        BY <2>3, <3>1, <3>2 DEF RowMove, Queued, LifeOf, Row
      <4>3. life' = [life EXCEPT ![j] = life'[j]]
        BY <3>1
      <4>. QED
        BY <4>1, <4>2, <4>3
           DEF Lifecycle!LifeNext, Lifecycle!Move, Lifecycle!Enqueue,
               Lifecycle!Withdraw, Lifecycle!Take, Lifecycle!Finish
    <3>3. CASE jobs'[j].attempts = jobs[j].attempts + 1
      <4>1. tries' = [tries EXCEPT ![j] = @ + 1]
        BY <3>1, <3>3
      <4>2. /\ life[j] = "taken"
            /\ \/ life'[j] = "queued" /\ tries[j] + 1 < MaxAttempts
               \/ life'[j] = "buried" /\ tries[j] + 1 = MaxAttempts
        BY <2>3, <3>1, <3>3 DEF RowMove, LifeOf, Row
      <4>3. life' = [life EXCEPT ![j] = life'[j]]
        BY <3>1
      <4>. QED
        BY <4>1, <4>2, <4>3
           DEF Lifecycle!LifeNext, Lifecycle!Move, Lifecycle!Requeue,
               Lifecycle!Bury, Lifecycle!ChargeTry
    <3>. QED
      BY <2>3, <3>2, <3>3 DEF RowMove
  <2>. QED
    BY <2>1, <2>2, <2>3, TableStep
<1>. QED
  BY <1>1, <1>2, Inductive, PTL
     DEF Spec, ImplementsLifecycle, Lifecycle!LifeSpec

----------------------------------------------------------------------------
(* The clock and stop().                                                   *)

(* The copies of a snapshot are of due rows, and tell when they were due.  *)
DueIsDue ==
    \A e \in due :
        /\ e.runAt <= now
        /\ jobs[e.id].status # "deleted" => jobs[e.id].runAt = e.runAt

LEMMA DueNext == IInv /\ DueIsDue /\ [Next]_vars => DueIsDue'
<1>. SUFFICES ASSUME IInv, DueIsDue, [Next]_vars PROVE DueIsDue'
  OBVIOUS
<1>. /\ jobs \in [JobIds -> Row] /\ due \subseteq Snapshot /\ now \in Nat
     /\ \A e \in due : e.id \in JobIds /\ e.runAt \in Nat
  BY DEF IInv, TypeOK, Snapshot
<1>1. CASE \/ Tick \/ Boot \/ Crash \/ Stop \/ TimeOut \/ EndCycle \/ StorageError
           \/ \E t \in HandledTypes : Register(t)
           \/ \E j \in JobIds : LateHandlerEnds(j)
           \/ \E e \in due : Skip(e)
           \/ \E result \in {"ok", "error"} : HandlerEnds(result)
           \/ UNCHANGED vars
  <2>1. jobs' = jobs /\ due' \subseteq due /\ (now' = now \/ now' = now + 1)
    BY <1>1 DEF Tick, Boot, Crash, Stop, TimeOut, EndCycle, StorageError, Register,
                LateHandlerEnds, Skip, TurnTo, HandlerEnds, vars, process
  <2>. QED
    BY <2>1 DEF DueIsDue
<1>2. ASSUME NEW j \in JobIds, NEW at \in now .. MaxTime, ScheduleJob(j, at) PROVE DueIsDue'
  <2>1. /\ at \in Nat /\ jobs[j].status = "unused" /\ jobs' = Schedule(jobs, j, at)
        /\ due' = due /\ now' = now
    BY <1>2, BoundsAssumption DEF ScheduleJob, process
  <2>2. \A e \in due : e.id # j
    BY <2>1 DEF IInv, SnapshotAgrees, Queued
  <2>3. \A i \in JobIds \ {j} : jobs'[i] = jobs[i]
    BY <2>1, StatementEffects
  <2>. QED
    BY <2>1, <2>2, <2>3 DEF DueIsDue
<1>3. ASSUME NEW j \in JobIds, CancelJob(j) PROVE DueIsDue'
  <2>1. Queued(jobs, j) /\ jobs' = Cancel(jobs, j) /\ due' = due /\ now' = now
    BY <1>3 DEF CancelJob, process
  <2>2. jobs'[j].status = "deleted" /\ \A i \in JobIds \ {j} : jobs'[i] = jobs[i]
    BY <2>1, StatementEffects, 0 \in Nat
  <2>. QED
    BY <2>1, <2>2 DEF DueIsDue
<1>4. CASE Start
  <2>1. due' = {}
    BY <1>4 DEF Start, IInv, CycleShape
  <2>. QED
    BY <2>1 DEF DueIsDue
<1>5. CASE Poll
  <2>1. jobs' = jobs /\ now' = now /\ due' = GetPending(jobs, now)
    BY <1>5 DEF Poll
  <2>2. \A e \in due' : e.runAt = jobs[e.id].runAt /\ e.runAt <= now
    BY <2>1, PendingRows
  <2>. QED
    BY <2>1, <2>2 DEF DueIsDue
<1>6. ASSUME NEW e \in due, Begin(e) PROVE DueIsDue'
  <2>1. due' = due \ {e} /\ now' = now
    BY <1>6 DEF Begin, TurnTo
  <2>2. \A f \in due' : f.id \in JobIds \ {e.id} /\ jobs'[f.id] = jobs[f.id]
    BY <1>6, BeginRow
  <2>. QED
    BY <2>1, <2>2 DEF DueIsDue
<1>7. CASE Settle
  <2>1. due' = due /\ now' = now
    BY <1>7 DEF Settle
  <2>2. \A e \in due : e.id # current.id
    BY <1>7, SettleRow DEF IInv, CycleShape
  <2>3. \A e \in due : jobs'[e.id] = jobs[e.id]
    BY <1>7, <2>2, SettleRow
  <2>. QED
    BY <2>1, <2>3 DEF DueIsDue
<1>. QED
  BY <1>1, <1>2, <1>3, <1>4, <1>5, <1>6, <1>7 DEF Next

(* The retry that a settling write schedules waits for its backoff.        *)
LEMMA RetryWaits ==
    ASSUME IInv, Settle, NEW j \in JobIds, jobs[j].status = "running", jobs'[j].status = "failed"
    PROVE  jobs'[j].runAt >= now + Backoff(jobs'[j].attempts)
<1>1. /\ j = current.id /\ jobs \in [JobIds -> Row] /\ InHand(j) /\ jobs' = Verdict
      /\ now \in Nat /\ current \in Snapshot
  BY SettleRow DEF Settle, IInv, TypeOK, CycleShape
<1>2. Exists(jobs, j) /\ jobs[j].attempts = current.attempts /\ jobs[j].attempts \in 0 .. (MaxAttempts - 1)
  BY <1>1, SettleRow DEF Exists, IInv, SnapshotAgrees
<1>3. outcome # "ok"
  <2>1. MarkCompleted(jobs, j)[j].status = "completed"
    BY <1>1, <1>2, StatementEffects, 0 \in Nat
  <2>. QED
    BY <1>1, <2>1 DEF Verdict
<1>4. ~(Attempts >= MaxAttempts)
  <2>1. MarkDead(jobs, j)[j].status = "dead"
    BY <1>1, <1>2, StatementEffects, 0 \in Nat
  <2>. QED
    BY <1>1, <1>3, <2>1 DEF Verdict
<1>5. Attempts \in 1 .. MaxAttempts /\ Attempts = jobs[j].attempts + 1
  BY <1>2, <1>4 DEF Attempts
<1>6. Backoff(Attempts) \in Nat
  BY <1>5, BackoffAssumption
<1>. DEFINE t == now + Backoff(Attempts)
<1>7. t \in Nat /\ jobs' = MarkFailed(jobs, j, t)
  BY <1>1, <1>3, <1>4, <1>6 DEF Verdict
<1>. HIDE DEF t
<1>8. jobs'[j].runAt = t /\ jobs'[j].attempts = Attempts
  BY <1>1, <1>2, <1>5, <1>7, StatementEffects
<1>9. t \in Nat /\ t = now + Backoff(Attempts)
  BY <1>7 DEF t
<1>. QED
  BY <1>8, <1>9

(* No attempt begins before its scheduled_at or before the backoff of the  *)
(* attempt before it has passed (JobRunner.ts:187-199), for every base     *)
(* delay and any number of attempts.                                       *)
THEOREM NotEarly == Spec => NoEarlyStart
<1>. DEFINE Punctual == \A j \in JobIds :
                /\ (starts'[j] > starts[j] /\ Exists(jobs, j)) => jobs[j].runAt <= now
                /\ (jobs[j].status = "running" /\ jobs'[j].status = "failed")
                      => jobs'[j].runAt >= now + Backoff(jobs'[j].attempts)
<1>1. IInv /\ DueIsDue /\ [Next]_vars => [Punctual]_vars
  <2>. SUFFICES ASSUME IInv, DueIsDue, [Next]_vars PROVE Punctual
    OBVIOUS
  <2>. jobs \in [JobIds -> Row] /\ starts \in [JobIds -> Nat] /\ now \in Nat
    BY DEF IInv, TypeOK
  <2>1. CASE \/ Tick \/ Boot \/ Crash \/ Stop \/ Poll \/ TimeOut \/ EndCycle \/ StorageError
             \/ \E t \in HandledTypes : Register(t)
             \/ \E j \in JobIds : LateHandlerEnds(j)
             \/ \E e \in due : Skip(e)
             \/ \E result \in {"ok", "error"} : HandlerEnds(result)
             \/ UNCHANGED vars
    <3>1. jobs' = jobs /\ starts' = starts
      BY <2>1 DEF Tick, Boot, Crash, Stop, Poll, TimeOut, EndCycle, StorageError, Register,
                  LateHandlerEnds, Skip, HandlerEnds, vars, history
    <3>. QED
      BY <3>1
  <2>2. ASSUME NEW i \in JobIds, NEW at \in now .. MaxTime, ScheduleJob(i, at) PROVE Punctual
    <3>1. at \in Nat /\ jobs' = Schedule(jobs, i, at) /\ starts' = starts
      BY <2>2, BoundsAssumption DEF ScheduleJob, history
    <3>2. jobs'[i].status = "pending" /\ \A j \in JobIds \ {i} : jobs'[j] = jobs[j]
      BY <3>1, StatementEffects
    <3>. QED
      BY <3>1, <3>2
  <2>3. ASSUME NEW i \in JobIds, CancelJob(i) PROVE Punctual
    <3>1. Queued(jobs, i) /\ jobs' = Cancel(jobs, i) /\ starts' = starts
      BY <2>3 DEF CancelJob, history
    <3>2. jobs'[i].status = "deleted" /\ \A j \in JobIds \ {i} : jobs'[j] = jobs[j]
      BY <3>1, StatementEffects, 0 \in Nat
    <3>. QED
      BY <3>1, <3>2
  <2>4. CASE Start
    <3>1. jobs' = RecoverStuckJobs(jobs) /\ starts' = starts
      BY <2>4 DEF Start
    <3>2. \A j \in JobIds : jobs[j].status = "running" => jobs'[j].status = "pending"
      BY <3>1, RecoveryEffects
    <3>. QED
      BY <3>1, <3>2
  <2>5. ASSUME NEW e \in due, Begin(e) PROVE Punctual
    <3>1. starts' = [starts EXCEPT ![e.id] = @ + 1]
      BY <2>5 DEF Begin
    <3>2. /\ e.id \in JobIds /\ \A j \in JobIds \ {e.id} : jobs'[j] = jobs[j]
          /\ jobs'[e.id].status # "failed" \/ jobs[e.id].status = "failed"
      BY <2>5, BeginRow
    <3>3. Exists(jobs, e.id) => jobs[e.id].runAt <= now
      BY DEF DueIsDue, Exists
    <3>. QED
      BY <3>1, <3>2, <3>3
  <2>6. CASE Settle
    <3>1. starts' = starts
      BY <2>6 DEF Settle
    <3>. QED
      BY <2>6, <3>1, RetryWaits
  <2>. QED
    BY <2>1, <2>2, <2>3, <2>4, <2>5, <2>6 DEF Next
<1>2. Init => DueIsDue
  BY DEF Init, DueIsDue
<1>. HIDE DEF Punctual
<1>3. Spec => [][Punctual]_vars
  BY <1>1, <1>2, DueNext, Inductive, PTL DEF Spec
<1>. QED
  BY <1>3 DEF Punctual, NoEarlyStart

(* stop() drains (JobRunner.ts:98-108): no handler is called any more, and  *)
(* when it resolves no attempt is under way and no row is left claimed.    *)
THEOREM Drains == Spec => StopDrains
<1>. DEFINE Drained == stopping =>
                /\ starts' = starts
                /\ (alive' /\ ~stopping') =>
                      /\ phase' = "idle"
                      /\ recovered => \A j \in JobIds :
                            jobs'[j].status = "running" => j \in stranded'
<1>1. IInv /\ IInv' /\ [Next]_vars => [Drained]_vars
  <2>. SUFFICES ASSUME IInv, IInv', [Next]_vars, stopping
                PROVE  /\ starts' = starts
                       /\ (alive' /\ ~stopping') =>
                             /\ phase' = "idle"
                             /\ recovered => \A j \in JobIds :
                                   jobs'[j].status = "running" => j \in stranded'
    OBVIOUS
  <2>1. phase # "idle"
    BY DEF IInv, CycleShape
  <2>2. CASE EndCycle \/ StorageError
    <3>1. starts' = starts /\ phase' = "idle" /\ recovered' = recovered
      BY <2>2 DEF EndCycle, StorageError, history
    <3>. QED
      BY <3>1 DEF IInv, SingleWorker, InHand
  <2>3. CASE Crash
    BY <2>3 DEF Crash
  <2>4. CASE Stop
    BY <2>1, <2>4 DEF Stop
  <2>5. CASE Start \/ Poll
    BY <2>1, <2>5 DEF Start, Poll
  <2>6. CASE \E e \in due : Begin(e) \/ Skip(e)
    BY <2>6 DEF Begin, Skip, TurnTo
  <2>7. CASE \/ Tick \/ Boot \/ TimeOut \/ Settle
             \/ \E t \in HandledTypes : Register(t)
             \/ \E j \in JobIds : LateHandlerEnds(j) \/ CancelJob(j)
             \/ \E j \in JobIds, at \in now .. MaxTime : ScheduleJob(j, at)
             \/ \E result \in {"ok", "error"} : HandlerEnds(result)
             \/ UNCHANGED vars
    BY <2>7 DEF Tick, Boot, TimeOut, Settle, Register, LateHandlerEnds, CancelJob, ScheduleJob,
                HandlerEnds, vars, process, history
  <2>. QED
    BY <2>2, <2>3, <2>4, <2>5, <2>6, <2>7 DEF Next
<1>. HIDE DEF Drained
<1>2. Spec => [][Drained]_vars
  BY <1>1, Inductive, PTL DEF Spec
<1>. QED
  BY <1>2 DEF Drained, StopDrains
=============================================================================
