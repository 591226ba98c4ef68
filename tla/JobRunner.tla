----------------------------- MODULE JobRunner -----------------------------
(***************************************************************************)
(* The job runner, packages/server/src/services/JobRunner.ts, over the     *)
(* SQLite jobs table, with what surrounds it: callers that schedule and    *)
(* cancel, process crashes and boots, storage errors, and handlers that    *)
(* succeed, fail, run into the timeout and end later.                      *)
(*                                                                         *)
(* One poll cycle is split where the code awaits: the snapshot of the due  *)
(* rows (Poll), the start of one job (Begin), the end of its handler or    *)
(* the timeout (HandlerEnds, TimeOut), the queue write that settles it     *)
(* (Settle) and the end of the cycle (EndCycle).  Everything else may      *)
(* happen in between.                                                      *)
(***************************************************************************)
EXTENDS JobQueue, FiniteSets

CONSTANTS
    JobIds,        \* row ids
    Types,         \* job types
    JobType,       \* the type each row is scheduled with
    HandledTypes,  \* the types registerJobHandlers() registers
    MaxAttempts,   \* max_attempts of every row (SqliteJobQueue.ts:43)
    RetryBase,     \* retryBaseDelayMs, in clock ticks
    NoJob,         \* no job is being run
    MaxTime,       \* bound: last tick at which new work may still be scheduled
    MaxFaults      \* bound: crashes, stops and storage errors together

ASSUME JobTypeAssumption     == JobType \in [JobIds -> Types]
ASSUME HandledAssumption     == HandledTypes \subseteq Types
ASSUME MaxAttemptsAssumption == MaxAttempts \in Nat \ {0}
ASSUME RetryBaseAssumption   == RetryBase \in Nat \ {0}
ASSUME BoundsAssumption      == MaxTime \in Nat /\ MaxFaults \in Nat

(* The delay after the nth failed attempt: 2^n * retryBaseDelayMs.         *)
Backoff(n) == 2^n * RetryBase

ASSUME BackoffAssumption == \A n \in 1..MaxAttempts : Backoff(n) \in Nat

VARIABLES
    (* persistent *)
    jobs,       \* the jobs table
    (* the clock *)
    now,
    (* the process; lost in a crash *)
    alive,      \* the server process exists
    handlers,   \* types with a registered handler
    started,    \* started: the interval timer is armed
    stopping,   \* stop() waits for the cycle in flight
    phase,      \* where the cycle is; "idle" is polling = false
    due,        \* rows of the snapshot the cycle has not reached yet
    current,    \* the snapshot row being run
    outcome,    \* how its attempt ended
    late,       \* timed-out executions whose handler still runs
    (* history, read by properties and bounds only *)
    recovered,  \* this process has run start()
    stranded,   \* rows left running by a failed settling write
    starts,     \* handler executions begun, per row
    wasted,     \* executions that no queue write accounts for, per row
    faults      \* faults so far

process == <<alive, handlers, started, stopping, phase, due, current,
             outcome, late>>
history == <<recovered, stranded, starts, wasted, faults>>
vars    == <<jobs, now, process, history>>

Phases   == {"idle", "cycle", "attempt", "settle"}
Outcomes == {"none", "ok", "error", "timeout"}
Row      == [status: Statuses, runAt: Nat, attempts: 0..MaxAttempts]
Snapshot == [id: JobIds, runAt: Nat, attempts: 0..MaxAttempts]

TypeOK ==
    /\ jobs \in [JobIds -> Row]
    /\ now \in Nat
    /\ alive \in BOOLEAN
    /\ handlers \subseteq HandledTypes
    /\ started \in BOOLEAN
    /\ stopping \in BOOLEAN
    /\ phase \in Phases
    /\ due \subseteq Snapshot
    /\ current \in Snapshot \union {NoJob}
    /\ outcome \in Outcomes
    /\ late \in [JobIds -> Nat]
    /\ recovered \in BOOLEAN
    /\ stranded \subseteq JobIds
    /\ starts \in [JobIds -> Nat]
    /\ wasted \in [JobIds -> Nat]
    /\ faults \in Nat

(* The job an execution is under way for, if the runner is not between two.*)
InHand(j) == phase \in {"attempt", "settle"} /\ current.id = j

(* Every waiting row knows when it becomes due; time goes on until then.   *)
Waiting == \E j \in JobIds : Queued(jobs, j) /\ jobs[j].runAt > now

----------------------------------------------------------------------------
(* The environment.                                                        *)

Init ==
    /\ jobs = [j \in JobIds |->
                  [status |-> "unused", runAt |-> 0, attempts |-> 0]]
    /\ now = 0
    /\ alive = FALSE /\ handlers = {} /\ started = FALSE /\ stopping = FALSE
    /\ phase = "idle" /\ due = {} /\ current = NoJob /\ outcome = "none"
    /\ late = [j \in JobIds |-> 0]
    /\ recovered = FALSE /\ stranded = {} /\ faults = 0
    /\ starts = [j \in JobIds |-> 0]
    /\ wasted = [j \in JobIds |-> 0]

Tick ==
    /\ now < MaxTime \/ Waiting
    /\ now' = now + 1
    /\ UNCHANGED <<jobs, process, history>>

(* A new process builds a fresh runner; its handlers come one by one.      *)
Boot ==
    /\ ~alive
    /\ alive' = TRUE
    /\ UNCHANGED <<jobs, now, handlers, started, stopping, phase, due, current,
                   outcome, late, history>>

Register(t) ==
    /\ alive
    /\ handlers' = handlers \union {t}
    /\ UNCHANGED <<jobs, now, alive, started, stopping, phase, due, current,
                   outcome, late, history>>

(* The process dies between any two statements; the table stays.           *)
Crash ==
    /\ alive /\ faults < MaxFaults
    /\ faults' = faults + 1
    /\ alive' = FALSE /\ handlers' = {} /\ started' = FALSE
    /\ stopping' = FALSE /\ phase' = "idle" /\ due' = {}
    /\ current' = NoJob /\ outcome' = "none"
    /\ late' = [j \in JobIds |-> 0]
    /\ recovered' = FALSE /\ stranded' = {}
    /\ wasted' = [j \in JobIds |-> wasted[j] + IF InHand(j) THEN 1 ELSE 0]
    /\ UNCHANGED <<jobs, now, starts>>

(* A caller schedules a job, now or for later; another withdraws one.      *)
ScheduleJob(j, at) ==
    /\ alive
    /\ jobs[j].status = "unused"
    /\ jobs' = Schedule(jobs, j, at)
    /\ UNCHANGED <<now, process, history>>

CancelJob(j) ==
    /\ alive
    /\ Queued(jobs, j)
    /\ jobs' = Cancel(jobs, j)
    /\ UNCHANGED <<now, process, history>>

----------------------------------------------------------------------------
(* start() and stop().                                                     *)

(* The recovery statement and the timer follow without a pause.  The       *)
(* program and its tests start a runner only while no cycle is in flight.  *)
Start ==
    /\ alive /\ ~started /\ phase = "idle"
    /\ started' = TRUE
    /\ jobs' = RecoverStuckJobs(jobs)
    /\ recovered' = TRUE
    /\ stranded' = {}
    /\ UNCHANGED <<now, alive, handlers, stopping, phase, due, current, outcome,
                   late, starts, wasted, faults>>

(* Without a cycle in flight there is nothing to wait for.                 *)
Stop ==
    /\ alive /\ started /\ faults < MaxFaults
    /\ faults' = faults + 1
    /\ started' = FALSE
    /\ stopping' = (phase # "idle")
    /\ UNCHANGED <<jobs, now, alive, handlers, phase, due, current, outcome,
                   late, recovered, stranded, starts, wasted>>

----------------------------------------------------------------------------
(* One poll cycle.                                                         *)

(* The timer's tick or kick(); a call during a cycle is ignored.           *)
Poll ==
    /\ alive /\ phase = "idle"
    /\ phase' = "cycle"
    /\ due' = GetPending(jobs, now)
    /\ UNCHANGED <<jobs, now, alive, handlers, started, stopping, current,
                   outcome, late, history>>

(* Slip: stop() is not looked at between two jobs.                         *)
TurnRegardless(e) ==
    /\ phase = "cycle"
    /\ e \in due /\ IsOldest(e, due)
    /\ due' = due \ {e}

(* The cycle turns to e, the oldest row left in its snapshot.              *)
TurnTo(e) ==
    /\ phase = "cycle" /\ ~stopping
    /\ e \in due /\ IsOldest(e, due)
    /\ due' = due \ {e}

(* No handler for the type: the row stays as it is.                        *)
Skip(e) ==
    /\ TurnTo(e)
    /\ JobType[e.id] \notin handlers
    /\ UNCHANGED <<jobs, now, alive, handlers, started, stopping, phase,
                   current, outcome, late, history>>

(* markRunning() and the call of the handler.                              *)
Begin(e) ==
    /\ TurnTo(e)
    /\ JobType[e.id] \in handlers
    /\ jobs' = MarkRunning(jobs, e.id)
    /\ current' = e
    /\ phase' = "attempt"
    /\ starts' = [starts EXCEPT ![e.id] = @ + 1]
    /\ UNCHANGED <<now, alive, handlers, started, stopping, outcome, late,
                   recovered, stranded, wasted, faults>>

(* The handler resolves or rejects before the timeout.                     *)
HandlerEnds(result) ==
    /\ phase = "attempt"
    /\ phase' = "settle"
    /\ outcome' = result
    /\ UNCHANGED <<jobs, now, alive, handlers, started, stopping, due, current,
                   late, history>>

(* The timeout wins the race; nothing stops the handler.                   *)
TimeOut ==
    /\ phase = "attempt"
    /\ phase' = "settle"
    /\ outcome' = "timeout"
    /\ late' = [late EXCEPT ![current.id] = @ + 1]
    /\ UNCHANGED <<jobs, now, alive, handlers, started, stopping, due, current,
                   history>>

(* A timed-out handler ends at last; its result goes nowhere.              *)
LateHandlerEnds(j) ==
    /\ late[j] > 0
    /\ late' = [late EXCEPT ![j] = @ - 1]
    /\ UNCHANGED <<jobs, now, alive, handlers, started, stopping, phase, due,
                   current, outcome, history>>

(* The attempts the settling write leaves, counted from the snapshot.      *)
Attempts == current.attempts + 1

(* Slip: one attempt too many.                                             *)
VerdictOffByOne ==
    IF outcome = "ok" THEN MarkCompleted(jobs, current.id)
    ELSE IF Attempts > MaxAttempts THEN MarkDead(jobs, current.id)
    ELSE MarkFailed(jobs, current.id, now + Backoff(Attempts))

Verdict ==
    IF outcome = "ok" THEN MarkCompleted(jobs, current.id)
    ELSE IF Attempts >= MaxAttempts THEN MarkDead(jobs, current.id)
    ELSE MarkFailed(jobs, current.id, now + Backoff(Attempts))

Settle ==
    /\ phase = "settle"
    /\ phase' = "cycle"
    /\ jobs' = Verdict
    /\ current' = NoJob /\ outcome' = "none"
    /\ wasted' = IF Exists(jobs, current.id) THEN wasted
                 ELSE [wasted EXCEPT ![current.id] = @ + 1]
    /\ UNCHANGED <<now, alive, handlers, started, stopping, due, late,
                   recovered, stranded, starts, faults>>

(* Slip: the cycle ends without releasing a stop() that waits for it.      *)
EndCycleUnnoticed ==
    /\ phase = "cycle"
    /\ stopping \/ due = {}
    /\ phase' = "idle" /\ due' = {}
    /\ UNCHANGED <<jobs, now, alive, handlers, started, stopping, current,
                   outcome, late, history>>

(* The snapshot is used up, or stop() was called: the rest stays queued.   *)
(* A stop() that waits for the cycle resolves with it.                     *)
EndCycle ==
    /\ phase = "cycle"
    /\ stopping \/ due = {}
    /\ phase' = "idle" /\ due' = {} /\ stopping' = FALSE
    /\ UNCHANGED <<jobs, now, alive, handlers, started, current, outcome, late,
                   history>>

(* A queue statement of the cycle throws.  cycle() catches it and ends:    *)
(* the rest of the snapshot is not run, and a row whose settling write     *)
(* failed stays "running".                                                 *)
StorageError ==
    /\ phase \in {"cycle", "settle"} /\ faults < MaxFaults
    /\ faults' = faults + 1
    /\ phase' = "idle" /\ due' = {} /\ stopping' = FALSE
    /\ current' = NoJob /\ outcome' = "none"
    /\ stranded' = stranded \union
                   { j \in JobIds : InHand(j) /\ Exists(jobs, j) }
    /\ wasted' = [j \in JobIds |-> wasted[j] + IF InHand(j) THEN 1 ELSE 0]
    /\ UNCHANGED <<jobs, now, alive, handlers, started, late, recovered,
                   starts>>

----------------------------------------------------------------------------
Next ==
    \/ Tick \/ Boot \/ Crash \/ Start \/ Stop
    \/ \E t \in HandledTypes : Register(t)
    \/ \E j \in JobIds, at \in now .. MaxTime : ScheduleJob(j, at)
    \/ \E j \in JobIds : CancelJob(j) \/ LateHandlerEnds(j)
    \/ Poll \/ \E e \in due : Skip(e) \/ Begin(e)
    \/ \E result \in {"ok", "error"} : HandlerEnds(result)
    \/ TimeOut \/ Settle \/ EndCycle \/ StorageError

Spec == Init /\ [][Next]_vars

(* The program keeps running: a dead process is restarted by its           *)
(* supervisor, boot registers the handlers and calls start() (strongly     *)
(* fair: kick() before start() only delays it), the runner of a process    *)
(* that is told to stop is started again by the next one, the interval     *)
(* timer polls, the cycle's promises resolve, and an attempt ends because  *)
(* the timeout is armed beside the handler.  Nobody is obliged to schedule *)
(* or to cancel, and nothing is assumed about late handlers.               *)
Fairness ==
    /\ WF_vars(Tick) /\ WF_vars(Boot) /\ SF_vars(Start)
    /\ \A t \in HandledTypes : WF_vars(Register(t))
    /\ WF_vars(started /\ Poll)
    /\ WF_vars(\E e \in due : Skip(e) \/ Begin(e))
    /\ WF_vars(TimeOut \/ \E result \in {"ok", "error"} : HandlerEnds(result))
    /\ WF_vars(Settle) /\ WF_vars(EndCycle)

FairSpec == Spec /\ Fairness

----------------------------------------------------------------------------
(* Safety.                                                                 *)

(* One worker: once start() has recovered what a crash left behind, the    *)
(* only rows marked running are the one being run and those whose settling *)
(* write failed.  Nothing else is ever claimed and forgotten.              *)
SingleWorker ==
    recovered => \A j \in JobIds :
                    jobs[j].status = "running" => InHand(j) \/ j \in stranded

(* The cycle works from copies of the rows (JobRunner.ts:137, 181): while  *)
(* it does, a row differs from its copy only by having been cancelled.     *)
SnapshotAgrees ==
    /\ \A e \in due :
          \/ jobs[e.id].status = "deleted"
          \/ Queued(jobs, e.id) /\ jobs[e.id].attempts = e.attempts
    /\ \A j \in JobIds : InHand(j) =>
          \/ jobs[j].status = "deleted"
          \/ jobs[j].status = "running" /\ jobs[j].attempts = current.attempts

(* The attempts column tells the states apart: a dead row has used its     *)
(* attempts up, every other row has one left, and failed means it tried.   *)
AttemptBudget ==
    \A j \in JobIds :
        /\ jobs[j].status = "dead" <=> jobs[j].attempts = MaxAttempts
        /\ jobs[j].status = "failed" => jobs[j].attempts > 0

(* No execution is lost and none is counted twice: a row's handler was     *)
(* called once for each failed attempt, once if it completed, once if it   *)
(* is in hand, and once for each execution a crash, a failed write or a    *)
(* cancellation in mid-cycle kept from being recorded.                     *)
AttemptAccounting ==
    \A j \in JobIds :
        starts[j] = jobs[j].attempts + wasted[j]
                    + (IF jobs[j].status = "completed" THEN 1 ELSE 0)
                    + (IF InHand(j) THEN 1 ELSE 0)

(* A completed, dead or cancelled row is never touched again, whatever     *)
(* late handlers, recoveries and stale snapshots do.                       *)
SettledIsFinal ==
    [][\A j \in JobIds : Settled(jobs, j) \/ jobs[j].status = "deleted"
                            => jobs'[j] = jobs[j]]_vars

(* No attempt of a row begins before its scheduled_at, nor, after a failed *)
(* attempt, before the backoff of that attempt has passed.                 *)
NoEarlyStart ==
    [][\A j \in JobIds :
        /\ (starts'[j] > starts[j] /\ Exists(jobs, j)) => jobs[j].runAt <= now
        /\ (jobs[j].status = "running" /\ jobs'[j].status = "failed")
              => jobs'[j].runAt >= now + Backoff(jobs'[j].attempts)]_vars

(* stop() drains: from its call until the next poll no handler is called,  *)
(* and when it resolves no attempt is under way and no row is left claimed *)
(* (but for a failed settling write).                                      *)
StopDrains ==
    [][stopping =>
        /\ starts' = starts
        /\ (alive' /\ ~stopping') => 
              /\ phase' = "idle"
              /\ recovered => \A j \in JobIds :
                    jobs'[j].status = "running" => j \in stranded']_vars

(* What makes them inductive: where the process is in its cycle, that a    *)
(* snapshot holds one copy of a row, and that an unused row was never run. *)
CycleShape ==
    /\ ~alive => phase = "idle" /\ ~started /\ ~stopping /\ ~recovered
    /\ started => recovered
    /\ stopping => phase # "idle"
    /\ phase = "idle" => due = {}
    /\ phase \in {"attempt", "settle"} => current \in Snapshot
    /\ \A e, f \in due : e.id = f.id => e = f
    /\ \A e \in due : ~InHand(e.id)
    /\ \A j \in JobIds : jobs[j].status = "unused" => jobs[j].attempts = 0

IInv ==
    /\ TypeOK
    /\ CycleShape
    /\ SnapshotAgrees
    /\ AttemptBudget
    /\ AttemptAccounting
    /\ SingleWorker

----------------------------------------------------------------------------
(* Liveness.                                                               *)

(* A queued job of a handled type is settled in the end, across crashes,   *)
(* restarts, retries and timeouts, unless it is cancelled or its settling  *)
(* write fails.                                                            *)
EveryJobSettles ==
    \A j \in JobIds :
        JobType[j] \in HandledTypes =>
            (Queued(jobs, j) ~> \/ Settled(jobs, j)
                                \/ jobs[j].status = "deleted"
                                \/ j \in stranded)

(* stop() resolves: it never waits for ever on the cycle in flight.        *)
StopResolves == stopping ~> ~stopping

----------------------------------------------------------------------------
(* The runner over the jobs table keeps the promise of the queue.          *)

LifeOf ==
    [unused |-> "none", pending |-> "queued", failed |-> "queued",
     running |-> "taken", completed |-> "done", dead |-> "buried",
     deleted |-> "withdrawn"]

Lifecycle == INSTANCE JobLifecycle WITH
                Jobs     <- JobIds,
                MaxTries <- MaxAttempts,
                life     <- [j \in JobIds |-> LifeOf[jobs[j].status]],
                tries    <- [j \in JobIds |-> jobs[j].attempts]

(* Every step of the runner, of the callers of the queue and of the        *)
(* failures around them is a step of a job's life cycle or changes none.   *)
ImplementsLifecycle == Lifecycle!LifeSpec

----------------------------------------------------------------------------
(* What the documentation says and the code does not do.                   *)

(* "executes due jobs sequentially (single worker, concurrency 1)"         *)
(* (JobRunner.ts:4-6): no handler is called while another one runs.        *)
OneExecutionAtATime ==
    phase = "attempt" => \A j \in JobIds : late[j] = 0
=============================================================================
