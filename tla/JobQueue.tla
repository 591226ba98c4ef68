------------------------------ MODULE JobQueue ------------------------------
(***************************************************************************)
(* The jobs table of packages/server/src/adapters/jobs/SqliteJobQueue.ts   *)
(* as operators on a table q: a function from row ids to rows.  A row has  *)
(* the columns the callers branch on: status, runAt (scheduled_at) and     *)
(* attempts.  Two statuses are not values of the column: "unused" is an id *)
(* no INSERT has taken yet and "deleted" one that cancel() removed (ids    *)
(* are UUIDs and never come back).  Every operator is one SQL statement,   *)
(* hence atomic; an UPDATE by id that matches no row changes nothing.      *)
(* Definitions marked as a slip are not part of the model: each is a bug   *)
(* the neighbouring statement might have, kept to show that the properties *)
(* would notice.                                                           *)
(***************************************************************************)
EXTENDS Naturals

Statuses == {"unused", "pending", "running", "failed", "completed", "dead",
             "deleted"}

(* Not run yet, or waiting for a retry: what the code calls queued.        *)
Queued(q, j) == q[j].status \in {"pending", "failed"}

Exists(q, j) == q[j].status \notin {"unused", "deleted"}

Settled(q, j) == q[j].status \in {"completed", "dead"}

(* schedule(): a fresh row, no attempt made.                               *)
Schedule(q, j, at) ==
    [q EXCEPT ![j] = [q[j] EXCEPT !.status = "pending", !.runAt = at,
                                  !.attempts = 0]]

(* cancel(): a DELETE that spares running and settled rows.                *)
Cancel(q, j) ==
    IF Queued(q, j) THEN [q EXCEPT ![j].status = "deleted"] ELSE q

(* Slip: a retry waits in status "failed" and is not looked for.           *)
GetPendingOnly(q, t) ==
    { [id |-> j, runAt |-> q[j].runAt, attempts |-> q[j].attempts] :
        j \in { i \in DOMAIN q : q[i].status = "pending" /\ q[i].runAt <= t } }

(* getPending(): the due rows, copied; the caller works through the copies *)
(* oldest first (ORDER BY scheduled_at), rows of one instant in any order. *)
GetPending(q, t) ==
    { [id |-> j, runAt |-> q[j].runAt, attempts |-> q[j].attempts] :
        j \in { i \in DOMAIN q : Queued(q, i) /\ q[i].runAt <= t } }

IsOldest(e, S) == \A f \in S : e.runAt <= f.runAt

(* Slip: the attempt is charged when it begins.                            *)
MarkRunningCharged(q, j) ==
    IF Exists(q, j)
    THEN [q EXCEPT ![j] = [q[j] EXCEPT !.status = "running", !.attempts = @ + 1]]
    ELSE q

MarkRunning(q, j) ==
    IF Exists(q, j) THEN [q EXCEPT ![j].status = "running"] ELSE q

(* Slip: an upsert, which brings a cancelled row back.                     *)
MarkCompletedUpsert(q, j) == [q EXCEPT ![j].status = "completed"]

MarkCompleted(q, j) ==
    IF Exists(q, j) THEN [q EXCEPT ![j].status = "completed"] ELSE q

(* Slip: scheduled_at is not moved to the retry.                           *)
MarkFailedAtOnce(q, j, retryAt) ==
    IF Exists(q, j)
    THEN [q EXCEPT ![j] = [q[j] EXCEPT !.status = "failed", !.attempts = @ + 1]]
    ELSE q

MarkFailed(q, j, retryAt) ==
    IF Exists(q, j)
    THEN [q EXCEPT ![j] = [q[j] EXCEPT !.status = "failed", !.runAt = retryAt,
                                       !.attempts = @ + 1]]
    ELSE q

(* Slip: the last attempt is not counted.                                  *)
MarkDeadUncounted(q, j) ==
    IF Exists(q, j) THEN [q EXCEPT ![j].status = "dead"] ELSE q

MarkDead(q, j) ==
    IF Exists(q, j)
    THEN [q EXCEPT ![j] = [q[j] EXCEPT !.status = "dead", !.attempts = @ + 1]]
    ELSE q

(* Slips: nothing is recovered; dead rows are recovered too; a recovered   *)
(* row is charged an attempt.                                              *)
RecoverNothing(q) == q

RecoverUnfinished(q) ==
    [j \in DOMAIN q |-> IF q[j].status \in {"running", "dead"}
                        THEN [q[j] EXCEPT !.status = "pending"]
                        ELSE q[j]]

RecoverCharged(q) ==
    [j \in DOMAIN q |-> IF q[j].status = "running"
                        THEN [q[j] EXCEPT !.status = "pending",
                                          !.attempts = @ + 1]
                        ELSE q[j]]

(* recoverStuckJobs(): attempts are left as they are.                      *)
RecoverStuckJobs(q) ==
    [j \in DOMAIN q |-> IF q[j].status = "running"
                        THEN [q[j] EXCEPT !.status = "pending"]
                        ELSE q[j]]
=============================================================================
