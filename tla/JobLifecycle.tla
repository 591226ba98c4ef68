---------------------------- MODULE JobLifecycle ----------------------------
(***************************************************************************)
(* What the queue promises of a job, whoever runs it (the status semantics *)
(* of packages/server/src/adapters/jobs/JobQueue.ts): it is queued once,   *)
(* taken, and either done, back in the queue with one try less, or buried  *)
(* when its tries are used up.  It can be withdrawn only while queued, a   *)
(* recovery puts interrupted jobs back without charging them a try, and    *)
(* nothing happens to a job that is done, buried or withdrawn.             *)
(***************************************************************************)
EXTENDS Naturals

CONSTANTS Jobs, MaxTries

VARIABLES
    life,   \* where each job is
    tries   \* failed attempts so far

lifeVars == <<life, tries>>

LifeInit ==
    /\ life = [j \in Jobs |-> "none"]
    /\ tries = [j \in Jobs |-> 0]

Move(j, from, to) ==
    /\ life[j] = from
    /\ life' = [life EXCEPT ![j] = to]

Enqueue(j)  == Move(j, "none", "queued")     /\ UNCHANGED tries
Withdraw(j) == Move(j, "queued", "withdrawn") /\ UNCHANGED tries
Take(j)     == Move(j, "queued", "taken")    /\ UNCHANGED tries
Finish(j)   == Move(j, "taken", "done")      /\ UNCHANGED tries

ChargeTry(j) == tries' = [tries EXCEPT ![j] = @ + 1]

Requeue(j) ==
    /\ Move(j, "taken", "queued")
    /\ tries[j] + 1 < MaxTries
    /\ ChargeTry(j)

Bury(j) ==
    /\ Move(j, "taken", "buried")
    /\ tries[j] + 1 = MaxTries
    /\ ChargeTry(j)

(* After a crash every job that was taken is free again.                   *)
Recover ==
    /\ life' = [j \in Jobs |-> IF life[j] = "taken" THEN "queued" ELSE life[j]]
    /\ UNCHANGED tries

LifeNext ==
    \/ \E j \in Jobs : \/ Enqueue(j) \/ Withdraw(j) \/ Take(j) \/ Finish(j)
                       \/ Requeue(j) \/ Bury(j)
    \/ Recover

LifeSpec == LifeInit /\ [][LifeNext]_lifeVars
=============================================================================
