----------------------------- MODULE HttpServer -----------------------------
(***************************************************************************)
(* The life of the server process: migrations and wiring at boot           *)
(* (migrationRunner.ts, index.ts), requests through the rate limiter, the  *)
(* handlers and the one exit path (BunHttpServer.ts), WebSocket clients    *)
(* (ConnectionManager.ts), and the graceful shutdown.                      *)
(*                                                                         *)
(* Between two awaits of a handler other requests, signals and timers may  *)
(* run.  The clock counts fractions of the rate limiter's refill interval. *)
(***************************************************************************)
EXTENDS Naturals, Sequences, FiniteSets

CONSTANTS
    Requests,      \* bound: requests under way at a time
    Sockets,       \* bound: WebSocket connections
    Migrations,    \* how many migration files there are
    Rpm,           \* requestsPerMinute
    Refill,        \* refillIntervalMs, in ticks
    MaxTime, MaxAllowed    \* bounds: ticks, requests let through

VARIABLES
    phase,       \* "boot", "serving", "runner" and "drain" (in shutdown()), "closed", "down"
    schema,      \* migrations whose tables exist
    recorded,    \* rows of _migrations
    storage,     \* "ok", "broken" (statements throw), "closed"
    busy,        \* a job is being run
    requests,    \* per request: "none", or the route and how far it is
    inFlight,    \* the counter of the drain loop
    active,      \* the gauge http_requests_active
    deadline,    \* the drain deadline has passed
    clients,     \* the ConnectionManager's map
    sockets,     \* per connection: "none", "open", "closing", "gone"
    bucket,      \* the bucket of the one caller; a full one is not made yet
    clock,
    allowed,     \* history: when requests were let through
    refused      \* history: the last one was refused with 429

vars == <<phase, schema, recorded, storage, busy, requests, inFlight, active, deadline,
          clients, sockets, bucket, clock, allowed, refused>>

boot    == <<schema, recorded>>
serving == <<requests, inFlight, active>>
limiter == <<bucket, allowed, refused>>
wire    == <<clients, sockets>>

TypeOK ==
    /\ phase \in {"boot", "serving", "runner", "drain", "closed", "down"}
    /\ schema \in 0 .. Migrations /\ recorded \in 0 .. Migrations
    /\ storage \in {"ok", "broken", "closed"} /\ busy \in BOOLEAN /\ deadline \in BOOLEAN
    /\ requests \in [Requests -> {"none", "api", "health"}]
    /\ inFlight \in Nat /\ active \in Nat
    /\ clients \subseteq Sockets /\ sockets \in [Sockets -> {"none", "open", "closing", "gone"}]
    /\ bucket \in [tokens: 0 .. Rpm, lastRefill: 0 .. MaxTime]
    /\ clock \in 0 .. MaxTime /\ allowed \in Seq(0 .. MaxTime) /\ refused \in BOOLEAN

Alive   == phase \in {"serving", "runner", "drain", "closed"}
Running == { r \in Requests : requests[r] # "none" }
NoBucket == [tokens |-> Rpm, lastRefill |-> clock]

Init ==
    /\ phase = "boot" /\ schema = 0 /\ recorded = 0 /\ storage = "ok" /\ busy = FALSE
    /\ requests = [r \in Requests |-> "none"] /\ inFlight = 0 /\ active = 0
    /\ deadline = FALSE /\ clients = {} /\ sockets = [s \in Sockets |-> "none"]
    /\ clock = 0 /\ bucket = NoBucket /\ allowed = <<>> /\ refused = FALSE

----------------------------------------------------------------------------
(* Boot.                                                                   *)

(* Slip: the file is run and recorded in two statements.                   *)
MigrateInSteps ==
    /\ phase = "boot" /\ recorded < Migrations
    /\ \/ schema = recorded /\ schema' = schema + 1 /\ UNCHANGED recorded
       \/ schema > recorded /\ recorded' = recorded + 1 /\ UNCHANGED schema
    /\ UNCHANGED <<phase, storage, busy, serving, deadline, wire, limiter, clock>>

(* runMigrations(): what is not recorded runs, each file with its record   *)
(* in one transaction; one that fails ends the boot.                       *)
Migrate ==
    /\ phase = "boot" /\ recorded < Migrations
    /\ \/ schema' = schema + 1 /\ recorded' = recorded + 1 /\ UNCHANGED phase
       \/ phase' = "down" /\ UNCHANGED boot
    /\ UNCHANGED <<storage, busy, serving, deadline, wire, limiter, clock>>

(* registerAllRoutes(), jobRunner.start(), server.start().                 *)
Start ==
    /\ phase = "boot" /\ recorded = Migrations
    /\ phase' = "serving" /\ bucket' = NoBucket
    /\ UNCHANGED <<boot, storage, busy, serving, deadline, wire, clock, allowed, refused>>

(* The process dies or has ended, and is started again on the same file.   *)
Crash ==
    /\ phase # "boot"
    /\ phase' = "boot" /\ storage' = "ok" /\ busy' = FALSE /\ deadline' = FALSE
    /\ requests' = [r \in Requests |-> "none"] /\ inFlight' = 0 /\ active' = 0
    /\ clients' = {} /\ sockets' = [s \in Sockets |-> "none"]
    /\ allowed' = <<>> /\ refused' = FALSE
    /\ UNCHANGED <<boot, bucket, clock>>

(* The database file goes away and comes back; jobs start and end.         *)
StorageChanges ==
    /\ Alive /\ storage # "closed"
    /\ storage' = IF storage = "ok" THEN "broken" ELSE "ok"
    /\ UNCHANGED <<phase, boot, busy, serving, deadline, wire, limiter, clock>>

JobStarts ==
    /\ phase = "serving" /\ ~busy /\ busy' = TRUE
    /\ UNCHANGED <<phase, boot, storage, serving, deadline, wire, limiter, clock>>

JobEnds ==
    /\ busy /\ busy' = FALSE
    /\ UNCHANGED <<phase, boot, storage, serving, deadline, wire, limiter, clock>>

Tick ==
    /\ clock < MaxTime /\ clock' = clock + 1
    /\ UNCHANGED <<phase, boot, storage, busy, serving, deadline, wire, limiter>>

----------------------------------------------------------------------------
(* Requests.                                                               *)

(* Slip: a refill gives every token back.                                  *)
RefillAll(b) ==
    IF clock - b.lastRefill >= Refill THEN [tokens |-> Rpm, lastRefill |-> clock] ELSE b

(* Slip: the bucket has no rim.                                            *)
RefillWithoutRim(b) ==
    LET add == (clock - b.lastRefill) \div Refill
    IN  IF add = 0 THEN b ELSE [tokens |-> b.tokens + add, lastRefill |-> clock]

(* Whole intervals become tokens, the rest of the time is lost.            *)
RefillBucket(b) ==
    LET add == (clock - b.lastRefill) \div Refill
    IN  IF add = 0 THEN b
        ELSE [tokens |-> IF b.tokens + add > Rpm THEN Rpm ELSE b.tokens + add,
              lastRefill |-> clock]

(* The caller's first request since the boot makes its bucket; a bucket    *)
(* that a request has looked into is never full again between requests.    *)
CallersBucket == IF bucket.tokens = Rpm THEN NoBucket ELSE bucket

(* Slip: the last token is given once more.                                *)
GuardPastZero(ok) ==
    LET b == RefillBucket(CallersBucket)
    IN  /\ ok = (b.tokens >= 0)
        /\ bucket' = [b EXCEPT !.tokens = @ - 1]
        /\ allowed' = Append(allowed, clock) /\ refused' = ~ok

(* The guard: a token, or 429.                                             *)
Guard(ok) ==
    LET b == RefillBucket(CallersBucket)
    IN  /\ ok = (b.tokens > 0)
        /\ bucket' = IF ok THEN [b EXCEPT !.tokens = @ - 1] ELSE b
        /\ allowed' = IF ok THEN Append(allowed, clock) ELSE allowed
        /\ refused' = ~ok

(* handleHttpRequest(): while draining 503 at once; otherwise it counts,   *)
(* and an unknown path (404) or a refusal uncounts it in the same breath.  *)
Arrive(r, route) ==
    /\ phase \in {"serving", "runner"} /\ requests[r] = "none" /\ Len(allowed) < MaxAllowed
    /\ \E ok \in BOOLEAN :
        /\ Guard(ok)
        /\ IF ok
           THEN /\ requests' = [requests EXCEPT ![r] = route]
                /\ inFlight' = inFlight + 1 /\ active' = active + 1
           ELSE UNCHANGED serving
    /\ UNCHANGED <<phase, boot, storage, busy, deadline, wire, clock>>

(* Slip: the exit path forgets the counter.                                *)
FinishWithoutCounter(r) ==
    /\ requests' = [requests EXCEPT ![r] = "none"]
    /\ active' = active - 1 /\ UNCHANGED inFlight

(* finishRequest(), the one exit path.                                     *)
FinishRequest(r) ==
    /\ requests' = [requests EXCEPT ![r] = "none"]
    /\ active' = active - 1 /\ inFlight' = inFlight - 1

(* The handler ran.  A statement that throws becomes an error answer       *)
(* (withErrorHandling) on every route but health and metrics: their        *)
(* rejection leaves handleHttpRequest() before it finishes.                *)
Handled(r) ==
    /\ requests[r] # "none" /\ phase # "down"
    /\ IF storage # "ok" /\ requests[r] = "health"
       THEN requests' = [requests EXCEPT ![r] = "none"] /\ UNCHANGED <<inFlight, active>>
       ELSE FinishRequest(r)
    /\ UNCHANGED <<phase, boot, storage, busy, deadline, wire, limiter, clock>>

----------------------------------------------------------------------------
(* WebSockets.  An upgrade does not look whether the server is draining.   *)

Open(s) ==
    /\ Alive /\ sockets[s] = "none"
    /\ sockets' = [sockets EXCEPT ![s] = "open"]
    /\ clients' = clients \union {s}
    /\ UNCHANGED <<phase, boot, storage, busy, serving, deadline, limiter, clock>>

CloseByPeer(s) ==
    /\ sockets[s] = "open" /\ sockets' = [sockets EXCEPT ![s] = "closing"]
    /\ UNCHANGED <<phase, boot, storage, busy, serving, deadline, clients, limiter, clock>>

(* The close callback.                                                     *)
Remove(s) ==
    /\ sockets[s] = "closing"
    /\ sockets' = [sockets EXCEPT ![s] = "gone"] /\ clients' = clients \ {s}
    /\ UNCHANGED <<phase, boot, storage, busy, serving, deadline, limiter, clock>>

CloseAll ==
    /\ sockets' = [s \in Sockets |-> IF s \in clients /\ sockets[s] = "open" THEN "closing"
                                     ELSE sockets[s]]
    /\ clients' = {}

----------------------------------------------------------------------------
(* shutdown().                                                             *)

(* SIGTERM or SIGINT; a second one finds shuttingDown set.                 *)
Signal ==
    /\ phase = "serving" /\ phase' = "runner"
    /\ UNCHANGED <<boot, storage, busy, serving, deadline, wire, limiter, clock>>

(* jobRunner.stop() waits for the job, server.stop() refuses newcomers.    *)
RunnerStopped ==
    /\ phase = "runner" /\ ~busy /\ phase' = "drain"
    /\ UNCHANGED <<boot, storage, busy, serving, deadline, wire, limiter, clock>>

DeadlinePasses ==
    /\ phase = "drain" /\ ~deadline /\ deadline' = TRUE
    /\ UNCHANGED <<phase, boot, storage, busy, serving, wire, limiter, clock>>

(* Slip: the storage is closed without looking at the counter.             *)
CloseEarly ==
    /\ phase = "drain"
    /\ CloseAll /\ phase' = "closed" /\ storage' = "closed"
    /\ UNCHANGED <<boot, busy, serving, deadline, limiter, clock>>

(* Slip: stop() does not look at its deadline.                             *)
DrainedOnce ==
    /\ phase = "drain" /\ inFlight = 0
    /\ CloseAll /\ phase' = "closed" /\ storage' = "closed"
    /\ UNCHANGED <<boot, busy, serving, deadline, limiter, clock>>

Drained ==
    /\ phase = "drain" /\ (inFlight = 0 \/ deadline)
    /\ CloseAll /\ phase' = "closed" /\ storage' = "closed"
    /\ UNCHANGED <<boot, busy, serving, deadline, limiter, clock>>

----------------------------------------------------------------------------
Next ==
    \/ Migrate \/ Start \/ Crash \/ StorageChanges \/ JobStarts \/ JobEnds \/ Tick
    \/ \E r \in Requests : Handled(r) \/ \E route \in {"api", "health"} : Arrive(r, route)
    \/ \E s \in Sockets : Open(s) \/ CloseByPeer(s) \/ Remove(s)
    \/ Signal \/ RunnerStopped \/ DeadlinePasses \/ Drained

Spec == Init /\ [][Next]_vars

(* Timers fire, promises settle, and a job ends: the runner times it out.  *)
Fairness ==
    /\ WF_vars(JobEnds) /\ WF_vars(RunnerStopped) /\ WF_vars(DeadlinePasses) /\ WF_vars(Drained)

LiveSpec == Spec /\ Fairness

----------------------------------------------------------------------------
(* "A schema failure aborts startup": whatever migrations failed and       *)
(* wherever the server died, it serves only with every migration applied   *)
(* and recorded, and none is run twice.                                    *)
ServesMigrated ==
    /\ schema = recorded
    /\ Alive => schema = Migrations

(* "Rollouts never drop a request": unless the deadline passed, storage is *)
(* closed on no request and no job.                                        *)
NothingDropped == storage = "closed" /\ ~deadline => Running = {} /\ ~busy

(* The counter of the drain loop never falls behind the requests under     *)
(* way, and the gauge says the same.                                       *)
InFlightCovers == inFlight >= Cardinality(Running) /\ active = inFlight

(* The three together: no request meets a schema or a storage that is not  *)
(* there for it.                                                           *)
ServesAndDrains == ServesMigrated /\ NothingDropped /\ InFlightCovers

(* "In-flight HTTP requests -- the drain loop in stop() waits for it to    *)
(* reach zero" (BunHttpServer.ts): it counts the requests under way.       *)
InFlightCounts == inFlight = Cardinality(Running)

(* Between any two requests let through there are at most the bucket and   *)
(* what the time between them refills.                                     *)
RateIsBounded ==
    \A i, j \in DOMAIN allowed :
        i <= j => j - i + 1 <= Rpm + (allowed[j] - allowed[i] + Refill - 1) \div Refill

(* A caller is refused only if it was let through within the last refill   *)
(* interval: who waits that long is served.                                *)
RefusedOnlyWhenBusy ==
    [][refused' /\ ~refused => allowed # <<>> /\ clock - allowed[Len(allowed)] < Refill]_vars

(* A client the server sends to has a socket that is open, or whose close  *)
(* is about to be handled.                                                 *)
ClientsHaveSockets == \A s \in clients : sockets[s] \in {"open", "closing"}

(* Once told to stop, the server has closed its storage sooner or later.   *)
ShutdownEnds == phase = "runner" ~> phase \in {"closed", "boot"}
=============================================================================
