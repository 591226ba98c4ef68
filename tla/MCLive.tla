------------------------------- MODULE MCLive -------------------------------
(* What must happen in the end: the job runner, the server's shutdown and  *)
(* the browser's connection, which share no state in these models.  In a   *)
(* behaviour one of them works (part) and the others stay as they start.   *)
EXTENDS Connection, TLC

CONSTANTS j1, j2, rollover, purge, NoJob

VARIABLES
    part,
    jobs, now, alive, handlers, started, stopping, phase, due, current, outcome, late,
    recovered, stranded, starts, wasted, faults,
    life, schema, recorded, storage, busy, requests, inFlight, active, deadline,
    clients, peers, bucket, ticks, allowed, refused

runner == <<jobs, now, alive, handlers, started, stopping, phase, due, current, outcome, late,
            recovered, stranded, starts, wasted, faults>>
server == <<life, schema, recorded, storage, busy, requests, inFlight, active, deadline,
            clients, peers, bucket, ticks, allowed, refused>>
page   == vars
liveVars == <<part, runner, server, page>>

R == INSTANCE JobRunner WITH
        JobIds <- {j1, j2}, Types <- {rollover, purge},
        JobType <- (j1 :> rollover) @@ (j2 :> purge), HandledTypes <- {rollover},
        MaxAttempts <- 2, RetryBase <- 1, MaxTime <- 1, MaxFaults <- 1

H == INSTANCE HttpServer WITH
        phase <- life, clock <- ticks, sockets <- peers,
        Requests <- {1, 2}, Sockets <- {1}, Migrations <- 1, Rpm <- 2, Refill <- 2,
        MaxTime <- 0, MaxAllowed <- 2

LiveInit == part \in {"runner", "server", "page"} /\ R!Init /\ H!Init /\ Init

LiveNext ==
    \/ part = "runner" /\ R!Next /\ UNCHANGED <<part, server, page>>
    \/ part = "server" /\ H!Next /\ UNCHANGED <<part, runner, page>>
    \/ part = "page" /\ Next /\ UNCHANGED <<part, runner, server>>

(* The fairness of each part, stated and justified in its module; nothing  *)
(* is owed by the part that rests.                                         *)
J(A) == part = "runner" /\ A /\ UNCHANGED <<part, server, page>>
S(A) == part = "server" /\ A /\ UNCHANGED <<part, runner, page>>
B(A) == part = "page" /\ A /\ UNCHANGED <<part, runner, server>>

LiveFairness ==
    /\ WF_liveVars(J(R!Tick)) /\ WF_liveVars(J(R!Boot)) /\ SF_liveVars(J(R!Start))
    /\ WF_liveVars(J(R!Register(rollover))) /\ WF_liveVars(J(started /\ R!Poll))
    /\ WF_liveVars(J(\E e \in due : R!Skip(e) \/ R!Begin(e)))
    /\ WF_liveVars(J(R!TimeOut \/ \E result \in {"ok", "error"} : R!HandlerEnds(result)))
    /\ WF_liveVars(J(R!Settle)) /\ WF_liveVars(J(R!EndCycle))
    /\ WF_liveVars(S(H!JobEnds)) /\ WF_liveVars(S(H!RunnerStopped))
    /\ WF_liveVars(S(H!DeadlinePasses)) /\ WF_liveVars(S(H!Drained))
    /\ WF_liveVars(B(Network)) /\ WF_liveVars(B(Events)) /\ WF_liveVars(B(Wait))
    /\ WF_liveVars(B(Reconnect))

LiveSpec == LiveInit /\ [][LiveNext]_liveVars /\ LiveFairness

----------------------------------------------------------------------------
(* A queued job of a handled type is settled in the end (JobRunner).       *)
EveryJobSettles == R!EveryJobSettles

(* stop() resolves (JobRunner), and once told to stop the server has       *)
(* closed its storage sooner or later (HttpServer).                        *)
StopsEnd == R!StopResolves /\ H!ShutdownEnds

(* A page finds a server that is back for good (Connection).               *)
PageReconnects == part = "page" => Reconnects

(* A page holds one socket, and the rest of what Connection says of every  *)
(* state.                                                                  *)
PageHolds == TypeOK /\ OneSocket
=============================================================================
