-------------------------- MODULE HttpServerProofs --------------------------
(***************************************************************************)
(* Proofs about the life of the server process, for any number of          *)
(* requests, sockets and migrations, and every rate limit; and about the   *)
(* server's parts side by side, as the run checks them.                    *)
(***************************************************************************)
EXTENDS MCServer, RecursionLemmas, FiniteSetTheorems, TLAPS

----------------------------------------------------------------------------
(* Boot.                                                                   *)

LEMMA MigratedNext == ServesMigrated /\ [Next]_vars => ServesMigrated'
<1>. SUFFICES ASSUME ServesMigrated, [Next]_vars PROVE ServesMigrated'
  OBVIOUS
<1>. USE DEF ServesMigrated, Alive, boot
<1>1. CASE Migrate
  BY <1>1 DEF Migrate
<1>2. CASE Start
  BY <1>2 DEF Start
<1>3. CASE Crash
  BY <1>3 DEF Crash
<1>4. CASE StorageChanges \/ JobStarts \/ JobEnds \/ Tick
  BY <1>4 DEF StorageChanges, JobStarts, JobEnds, Tick
<1>5. ASSUME NEW r \in Requests, Handled(r) \/ \E route \in {"api", "health"} : Arrive(r, route)
      PROVE  ServesMigrated'
  BY <1>5 DEF Handled, Arrive
<1>6. ASSUME NEW s \in Sockets, Open(s) \/ CloseByPeer(s) \/ Remove(s)
      PROVE  ServesMigrated'
  BY <1>6 DEF Open, CloseByPeer, Remove
<1>7. CASE Signal \/ RunnerStopped \/ DeadlinePasses \/ Drained
  BY <1>7 DEF Signal, RunnerStopped, DeadlinePasses, Drained
<1>8. CASE UNCHANGED vars
  BY <1>8 DEF vars
<1>. QED
  BY <1>1, <1>2, <1>3, <1>4, <1>5, <1>6, <1>7, <1>8 DEF Next

(* The server serves only with every migration applied and recorded, and   *)
(* no migration is recorded without its tables (migrationRunner.ts:37-60), *)
(* however often a migration fails or the process dies.                    *)
THEOREM Migrated == Spec => []ServesMigrated
<1>1. Init => ServesMigrated
  BY DEF Init, ServesMigrated, Alive
<1>. QED
  BY <1>1, MigratedNext, PTL DEF Spec

----------------------------------------------------------------------------
(* Requests and the drain loop.                                            *)

(* Storage is closed last, and from the moment the runner has stopped no   *)
(* job is run.                                                             *)
Counters ==
    /\ inFlight \in Nat /\ requests \in [Requests -> {"none", "api", "health"}]
    /\ deadline \in BOOLEAN
    /\ storage = "closed" => phase = "closed"
    /\ phase \in {"drain", "closed"} => ~busy

DrainInv == Counters /\ InFlightCovers /\ NothingDropped

LEMMA Enters ==
    ASSUME IsFiniteSet(Requests), NEW r \in Requests, NEW route,
           requests \in [Requests -> {"none", "api", "health"}], requests[r] = "none",
       route # "none",
           requests' = [requests EXCEPT ![r] = route]
    PROVE  Cardinality(Running') = Cardinality(Running) + 1
<1>1. Running' = Running \union {r} /\ r \notin Running
  BY DEF Running
<1>2. IsFiniteSet(Running)
  BY FS_Subset DEF Running
<1>. QED
  BY <1>1, <1>2, FS_AddElement

LEMMA Leaves ==
    ASSUME IsFiniteSet(Requests), NEW r \in Requests,
           requests \in [Requests -> {"none", "api", "health"}], requests[r] # "none",
           requests' = [requests EXCEPT ![r] = "none"]
    PROVE  /\ Cardinality(Running') = Cardinality(Running) - 1
           /\ Cardinality(Running') \in Nat
           /\ Running' \subseteq Running
<1>1. Running' = Running \ {r} /\ r \in Running
  BY DEF Running
<1>2. IsFiniteSet(Running) /\ IsFiniteSet(Running')
  BY FS_Subset, <1>1 DEF Running
<1>. QED
  BY <1>1, <1>2, FS_RemoveElement, FS_CardinalityType

LEMMA DrainNext ==
    ASSUME IsFiniteSet(Requests)
    PROVE  DrainInv /\ [Next]_vars => DrainInv'
<1>. SUFFICES ASSUME DrainInv, [Next]_vars PROVE DrainInv'
  OBVIOUS
<1>. USE DEF DrainInv, Counters, InFlightCovers, NothingDropped
<1>1. ASSUME UNCHANGED <<phase, storage, busy, serving, deadline>> PROVE DrainInv'
  BY <1>1 DEF serving, Running
<1>2. CASE Migrate \/ Start \/ Tick \/ \E s \in Sockets : Open(s) \/ CloseByPeer(s) \/ Remove(s)
  <2>1. CASE Migrate \/ Start
    BY <2>1 DEF Migrate, Start, serving, Running
  <2>2. CASE Tick \/ \E s \in Sockets : Open(s) \/ CloseByPeer(s) \/ Remove(s)
    BY <1>1, <2>2 DEF Tick, Open, CloseByPeer, Remove
  <2>. QED
    BY <1>2, <2>1, <2>2
<1>3. CASE Crash
  <2>1. Running' = {}
    BY <1>3 DEF Crash, Running
  <2>2. Cardinality(Running') = 0
    BY <2>1, FS_EmptySet
  <2>3. /\ inFlight' = 0 /\ active' = 0 /\ storage' = "ok" /\ phase' = "boot" /\ deadline' = FALSE
        /\ requests' = [r \in Requests |-> "none"]
    BY <1>3 DEF Crash
  <2>4. Counters'
    BY <2>3
  <2>5. InFlightCovers'
    BY <2>2, <2>3
  <2>6. NothingDropped'
    BY <2>3
  <2>. QED
    BY <2>4, <2>5, <2>6
<1>4. CASE StorageChanges \/ JobStarts \/ JobEnds
  BY <1>4 DEF StorageChanges, JobStarts, JobEnds, serving, Running
<1>5. ASSUME NEW r \in Requests, NEW route \in {"api", "health"}, Arrive(r, route) PROVE DrainInv'
  <2>1. phase \in {"serving", "runner"} /\ UNCHANGED <<phase, storage, busy, deadline>>
    BY <1>5 DEF Arrive
  <2>2. CASE UNCHANGED serving
    BY <1>1, <2>1, <2>2 DEF serving
  <2>3. CASE /\ requests' = [requests EXCEPT ![r] = route]
             /\ inFlight' = inFlight + 1 /\ active' = active + 1
    <3>1. Cardinality(Running') = Cardinality(Running) + 1
      BY <1>5, <2>3, Enters DEF Arrive
    <3>2. Cardinality(Running) \in Nat
      BY FS_Subset, FS_CardinalityType DEF Running
    <3>. QED
      BY <2>1, <2>3, <3>1, <3>2
  <2>. QED
    BY <1>5, <2>2, <2>3 DEF Arrive
<1>6. ASSUME NEW r \in Requests, Handled(r) PROVE DrainInv'
  <2>1. /\ requests[r] # "none" /\ UNCHANGED <<phase, storage, busy, deadline>>
        /\ requests' = [requests EXCEPT ![r] = "none"]
        /\ \/ inFlight' = inFlight /\ active' = active
           \/ inFlight' = inFlight - 1 /\ active' = active - 1
    BY <1>6 DEF Handled, FinishRequest
  <2>2. /\ Cardinality(Running') = Cardinality(Running) - 1
        /\ Cardinality(Running') \in Nat /\ Running' \subseteq Running
    BY <2>1, Leaves
  <2>3. Cardinality(Running) \in Nat
    BY FS_Subset, FS_CardinalityType DEF Running
  <2>4. Counters' /\ InFlightCovers'
    BY <2>1, <2>2, <2>3
  <2>. QED
    BY <2>1, <2>2, <2>4
<1>7. CASE Signal \/ RunnerStopped \/ DeadlinePasses
  <2>1. UNCHANGED serving /\ Running' = Running
    BY <1>7 DEF Signal, RunnerStopped, DeadlinePasses, serving, Running
  <2>2. Counters'
    <3>1. CASE Signal
      BY <2>1, <3>1 DEF Signal, serving
    <3>2. CASE RunnerStopped
      BY <2>1, <3>2 DEF RunnerStopped, serving
    <3>3. CASE DeadlinePasses
      BY <2>1, <3>3 DEF DeadlinePasses, serving
    <3>. QED
      BY <1>7, <3>1, <3>2, <3>3
  <2>3. InFlightCovers'
    BY <2>1 DEF serving
  <2>4. NothingDropped'
    BY <1>7, <2>1 DEF Signal, RunnerStopped, DeadlinePasses
  <2>. QED
    BY <2>2, <2>3, <2>4
<1>8. CASE Drained
  <2>1. /\ phase = "drain" /\ (inFlight = 0 \/ deadline) /\ phase' = "closed" /\ storage' = "closed"
        /\ UNCHANGED <<busy, requests, inFlight, active, deadline>>
    BY <1>8 DEF Drained, serving
  <2>2. Running' = Running
    BY <2>1 DEF Running
  <2>3. inFlight = 0 => Running = {}
    <3>1. IsFiniteSet(Running)
      BY FS_Subset DEF Running
    <3>. QED
      BY <3>1, FS_EmptySet, FS_CardinalityType
  <2>. QED
    BY <2>1, <2>2, <2>3
<1>9. CASE UNCHANGED vars
  BY <1>1, <1>9 DEF vars, serving
<1>. QED
  BY <1>2, <1>3, <1>4, <1>5, <1>6, <1>7, <1>8, <1>9 DEF Next

LEMMA DrainInit == ASSUME IsFiniteSet(Requests) PROVE Init => DrainInv
<1>. SUFFICES ASSUME Init PROVE DrainInv
  OBVIOUS
<1>1. Running = {}
  BY DEF Init, Running
<1>2. Cardinality(Running) = 0
  BY <1>1, FS_EmptySet
<1>3. Counters
  BY DEF Init, Counters
<1>4. InFlightCovers
  BY <1>2 DEF Init, InFlightCovers
<1>5. NothingDropped
  BY DEF Init, NothingDropped
<1>. QED
  BY <1>3, <1>4, <1>5 DEF DrainInv

(* The drain loop's counter never falls behind the requests under way, so  *)
(* it never closes the storage on one (BunHttpServer.ts:262-280).          *)
THEOREM CounterCovers ==
    ASSUME IsFiniteSet(Requests)
    PROVE  Spec => []InFlightCovers
<1>1. Init => DrainInv
  BY DrainInit
<1>2. DrainInv /\ [Next]_vars => DrainInv'
  BY DrainNext
<1>3. DrainInv => InFlightCovers
  BY DEF DrainInv
<1>. QED
  BY <1>1, <1>2, <1>3, PTL DEF Spec

(* Unless the drain deadline passes, a shutdown drops no request and no    *)
(* job, wherever the signal falls.                                         *)
THEOREM RolloutsDropNothing ==
    ASSUME IsFiniteSet(Requests)
    PROVE  Spec => []NothingDropped
<1>1. Init => DrainInv
  BY DrainInit
<1>2. DrainInv /\ [Next]_vars => DrainInv'
  BY DrainNext
<1>3. DrainInv => NothingDropped
  BY DEF DrainInv
<1>. QED
  BY <1>1, <1>2, <1>3, PTL DEF Spec

(* The three together: no request meets a schema or a storage that is not  *)
(* there for it (BunHttpServer.ts:253-287, migrationRunner.ts:37-60).      *)
THEOREM SafeLife ==
    ASSUME IsFiniteSet(Requests)
    PROVE  Spec => []ServesAndDrains
<1>1. ServesMigrated /\ InFlightCovers /\ NothingDropped => ServesAndDrains
  BY DEF ServesAndDrains
<1>. QED
  BY <1>1, Migrated, CounterCovers, RolloutsDropNothing, PTL

----------------------------------------------------------------------------
(* Division by the refill interval.                                        *)

LEMMA DivDef ==
    ASSUME NEW Q \in Nat \ {0}, NEW a \in Nat
    PROVE  /\ a \div Q \in Nat /\ a % Q \in Nat
           /\ a = Q * (a \div Q) + (a % Q) /\ a % Q < Q
OBVIOUS

LEMMA Less ==
    ASSUME NEW Q \in Nat \ {0}, NEW p \in Int, NEW q \in Int, Q * p < Q * q + Q
    PROVE  p <= q
<1>. SUFFICES ASSUME p >= q + 1 PROVE FALSE
  OBVIOUS
<1>1. PICK d \in Nat : p = q + 1 + d
  <2>. p - q - 1 \in Nat
    OBVIOUS
  <2>. QED
    OBVIOUS
<1>2. Q * p = Q * q + Q + Q * d
  BY <1>1
<1>3. Q * d >= 0
  OBVIOUS
<1>. QED
  BY <1>2, <1>3

LEMMA DivMono ==
    ASSUME NEW Q \in Nat \ {0}, NEW a \in Nat, NEW b \in Nat, a <= b
    PROVE  a \div Q <= b \div Q
<1>1. /\ a = Q * (a \div Q) + (a % Q) /\ a % Q \in Nat /\ a \div Q \in Int
      /\ b = Q * (b \div Q) + (b % Q) /\ b % Q \in Nat /\ b \div Q \in Int /\ b % Q < Q
  BY DivDef
<1>2. Q * (a \div Q) < Q * (b \div Q) + Q
  BY <1>1
<1>. QED
  BY <1>1, <1>2, Less

LEMMA DivPositive ==
    ASSUME NEW Q \in Nat \ {0}, NEW a \in Nat, a \div Q > 0
    PROVE  a >= Q
<1>. SUFFICES ASSUME a < Q PROVE FALSE
  OBVIOUS
<1>1. /\ a \div Q \in Nat /\ a % Q \in Nat /\ a = Q * (a \div Q) + (a % Q)
  BY DivDef
<1>2. Q * (a \div Q) < Q * 0 + Q
  BY <1>1
<1>3. a \div Q <= 0
  BY <1>1, <1>2, Less
<1>. QED
  BY <1>1, <1>3

LEMMA DivSuper ==
    ASSUME NEW Q \in Nat \ {0}, NEW a \in Nat, NEW b \in Nat
    PROVE  a \div Q + b \div Q <= (a + b) \div Q
<1>. DEFINE p == a \div Q
            q == b \div Q
            s == (a + b) \div Q
<1>1. /\ a = Q * p + (a % Q) /\ b = Q * q + (b % Q) /\ a + b = Q * s + ((a + b) % Q)
      /\ a % Q \in Nat /\ b % Q \in Nat /\ (a + b) % Q \in Nat /\ (a + b) % Q < Q
      /\ p \in Int /\ q \in Int /\ s \in Int
  BY DivDef
<1>2. Q * (p + q) = Q * p + Q * q
  BY <1>1
<1>. HIDE DEF p, q, s
<1>3. Q * (p + q) < Q * s + Q
  BY <1>1, <1>2
<1>4. p + q <= s
  BY <1>1, <1>3, Less
<1>. QED
  BY <1>4 DEF p, q, s

----------------------------------------------------------------------------
(* The rate limiter.                                                       *)

(* createRateLimiter() is given a limit and an interval that are not zero. *)
Limits == Rpm \in Nat \ {0} /\ Refill \in Nat \ {0}

(* What has been refilled since x, when the bucket was refilled last at L. *)
Earned(x, L) == IF L <= x THEN 0 ELSE (L - x + Refill - 1) \div Refill

(* The requests let through from the i-th on, and the tokens left, are no  *)
(* more than the bucket and what was refilled since the i-th.              *)
Fits(b) ==
    /\ b \in [tokens : 0 .. Rpm, lastRefill : Nat] /\ b.lastRefill <= clock
    /\ \A i \in 1 .. Len(allowed) :
        /\ allowed[i] < b.lastRefill + Refill
        /\ Len(allowed) - i + 1 + b.tokens <= Rpm + Earned(allowed[i], b.lastRefill)

RateInv ==
    /\ phase = "boot" => allowed = <<>>
    /\ clock \in Nat /\ allowed \in Seq(Nat)
    /\ \A i \in 1 .. Len(allowed) : allowed[i] <= clock
    /\ bucket.tokens = Rpm => allowed = <<>>
    /\ Fits(bucket) /\ RateIsBounded

(* A refill of everything since L is no more than was earned since then.   *)
LEMMA Account ==
    ASSUME Limits, NEW x \in Nat, NEW L \in Nat, NEW c \in Nat, NEW n \in Nat,
           NEW t \in Nat, NEW tok \in Nat, x < L + Refill, L + Refill <= c,
           n + t <= Rpm + Earned(x, L), tok <= t + (c - L) \div Refill
    PROVE  n + tok <= Rpm + Earned(x, c)
<1>. USE DEF Limits
<1>. DEFINE add == (c - L) \div Refill
            s == (c - x + Refill - 1) \div Refill
<1>1. c - L \in Nat /\ c - x + Refill - 1 \in Nat /\ c - L <= c - x + Refill - 1 /\ c > x
  OBVIOUS
<1>2. add \in Nat /\ s \in Nat
  BY <1>1, DivDef
<1>3. Earned(x, c) = s
  BY <1>1 DEF Earned
<1>4. CASE L <= x
  <2>1. Earned(x, L) = 0
    BY <1>4 DEF Earned
  <2>2. add <= s
    BY <1>1, DivMono
  <2>. HIDE DEF add, s
  <2>3. tok <= t + add
    BY DEF add
  <2>. QED
    BY <1>2, <1>3, <2>1, <2>2, <2>3
<1>5. CASE L > x
  <2>. DEFINE p == (L - x + Refill - 1) \div Refill
  <2>1. /\ L - x + Refill - 1 \in Nat
        /\ (L - x + Refill - 1) + (c - L) = c - x + Refill - 1
    BY <1>1, <1>5
  <2>2. p + add <= s
    BY <1>1, <2>1, DivSuper
  <2>3. p \in Nat
    BY <2>1, DivDef
  <2>4. Earned(x, L) = p
    BY <1>5 DEF Earned
  <2>. HIDE DEF p, add, s
  <2>5. tok <= t + add
    BY DEF add
  <2>. QED
    BY <1>2, <1>3, <2>2, <2>3, <2>4, <2>5
<1>. QED
  BY <1>4, <1>5

(* Refilling keeps the account: the time that is lost only lowers it.      *)
LEMMA RefillFits ==
    ASSUME Limits, RateInv
    PROVE  Fits(RefillBucket(bucket)) /\ clock < RefillBucket(bucket).lastRefill + Refill
<1>. DEFINE L == bucket.lastRefill
            t == bucket.tokens
            add == (clock - L) \div Refill
<1>. USE DEF Limits
<1>1. /\ bucket \in [tokens : 0 .. Rpm, lastRefill : Nat] /\ L <= clock /\ clock \in Nat /\ L \in Nat
      /\ t \in 0 .. Rpm /\ clock - L \in Nat
  BY DEF RateInv, Fits
<1>2. add \in Nat
  BY <1>1, DivDef
<1>3. CASE add = 0
  <2>1. clock - L < Refill
    <3>1. clock - L = Refill * add + ((clock - L) % Refill) /\ (clock - L) % Refill < Refill
          /\ (clock - L) % Refill \in Nat
      BY <1>1, DivDef
    <3>2. Refill * add = 0
      BY <1>3
    <3>. QED
      BY <1>1, <3>1, <3>2
  <2>2. RefillBucket(bucket) = bucket
    BY <1>3 DEF RefillBucket
  <2>. QED
    BY <1>1, <2>1, <2>2 DEF RateInv
<1>4. CASE add > 0
  <2>. DEFINE b == RefillBucket(bucket)
  <2>1. b = [tokens |-> IF t + add > Rpm THEN Rpm ELSE t + add, lastRefill |-> clock]
    BY <1>4 DEF RefillBucket
  <2>2. /\ b \in [tokens : 0 .. Rpm, lastRefill : Nat] /\ b.lastRefill = clock
        /\ b.tokens <= t + add /\ b.tokens \in Nat
    BY <1>1, <1>2, <2>1
  <2>3. ASSUME NEW i \in 1 .. Len(allowed)
        PROVE  Len(allowed) - i + 1 + b.tokens <= Rpm + Earned(allowed[i], clock)
    <3>. DEFINE x == allowed[i]
                n == Len(allowed) - i + 1
    <3>1. /\ x \in Nat /\ x <= clock /\ x < L + Refill /\ n \in Nat
          /\ n + t <= Rpm + Earned(x, L)
      BY SMTT(30) DEF RateInv, Fits
    <3>2. n + b.tokens <= Rpm + Earned(x, clock)
      <4>. HIDE DEF x, n, L, t, add, b
      <4>1. clock - L >= Refill
        BY <1>1, <1>2, <1>4, DivPositive DEF add
      <4>2. /\ x \in Nat /\ L \in Nat /\ clock \in Nat /\ n \in Nat /\ t \in Nat /\ b.tokens \in Nat
            /\ x < L + Refill /\ L + Refill <= clock
        BY <1>1, <2>2, <3>1, <4>1
      <4>3. n + t <= Rpm + Earned(x, L)
        BY <3>1
      <4>4. b.tokens <= t + (clock - L) \div Refill
        BY <2>2 DEF add
      <4>. QED
        BY <4>2, <4>3, <4>4, Account
    <3>. QED
      BY <3>2
  <2>4. \A i \in 1 .. Len(allowed) : allowed[i] < clock + Refill
    BY <1>1 DEF RateInv
  <2>. QED
    BY <1>1, <2>2, <2>3, <2>4 DEF Fits
<1>. QED
  BY <1>2, <1>3, <1>4

(* So does making the bucket: nothing was let through before.              *)
LEMMA CallersFits ==
    ASSUME Limits, RateInv
    PROVE  LET b == RefillBucket(CallersBucket)
           IN  Fits(b) /\ clock < b.lastRefill + Refill
<1>1. CASE bucket.tokens = Rpm
  <2>1. clock \in Nat /\ allowed = <<>> /\ CallersBucket = [tokens |-> Rpm, lastRefill |-> clock]
    BY <1>1 DEF RateInv, CallersBucket, NoBucket
  <2>2. 0 \div Refill = 0
    BY DivDef DEF Limits
  <2>3. RefillBucket(CallersBucket) = [tokens |-> Rpm, lastRefill |-> clock]
    BY <2>1, <2>2 DEF RefillBucket
  <2>. QED
    BY <2>1, <2>3 DEF Fits, Limits
<1>2. CASE bucket.tokens # Rpm
  BY <1>2, RefillFits DEF CallersBucket
<1>. QED
  BY <1>1, <1>2

(* A request that is let through takes a token.                            *)
LEMMA GuardKeepsRate ==
    ASSUME Limits, RateInv, NEW ok \in BOOLEAN, Guard(ok), UNCHANGED clock, phase' # "boot"
    PROVE  RateInv'
<1>. DEFINE b == RefillBucket(CallersBucket)
            n == Len(allowed)
<1>. USE DEF Limits
<1>1. Fits(b) /\ clock < b.lastRefill + Refill
  BY CallersFits
<1>2. /\ b \in [tokens : 0 .. Rpm, lastRefill : Nat] /\ b.lastRefill <= clock
      /\ b.tokens \in 0 .. Rpm /\ b.lastRefill \in Nat /\ clock \in Nat
      /\ allowed \in Seq(Nat) /\ n \in Nat
  BY <1>1 DEF Fits, RateInv
<1>. HIDE DEF b
<1>3. CASE ~ok
  <2>1. bucket' = b /\ allowed' = allowed
    BY <1>3 DEF Guard, b
  <2>2. b.tokens # Rpm
    <3>1. ok = (b.tokens > 0)
      BY Zenon DEF Guard, b
    <3>2. ~(b.tokens > 0)
      BY <1>3, <3>1, Zenon
    <3>. QED
      BY <1>2, <3>2
  <2>. QED
    BY <1>1, <2>1, <2>2 DEF RateInv, Fits, RateIsBounded, Earned
<1>4. CASE ok
  <2>1. bucket' = [b EXCEPT !.tokens = @ - 1] /\ allowed' = Append(allowed, clock) /\ b.tokens > 0
    BY <1>4 DEF Guard, b
  <2>2. /\ bucket' \in [tokens : 0 .. Rpm, lastRefill : Nat]
        /\ bucket'.tokens = b.tokens - 1 /\ bucket'.lastRefill = b.lastRefill
    BY <1>2, <2>1
  <2>3. /\ allowed' \in Seq(Nat) /\ Len(allowed') = n + 1 /\ allowed'[n + 1] = clock
        /\ \A i \in 1 .. n : allowed'[i] = allowed[i]
    BY <1>2, <2>1
  <2>4. ASSUME NEW i \in 1 .. n + 1 PROVE allowed'[i] <= clock
    <3>1. CASE i = n + 1
      BY <1>2, <2>3, <3>1
    <3>2. CASE i \in 1 .. n
      BY <2>3, <3>2 DEF RateInv
    <3>. QED
      BY <1>2, <3>1, <3>2
  <2>5. ASSUME NEW i \in 1 .. n + 1
        PROVE  /\ allowed'[i] < b.lastRefill + Refill
               /\ n + 1 - i + 1 + b.tokens - 1 <= Rpm + Earned(allowed'[i], b.lastRefill)
    <3>1. CASE i = n + 1
      <4>1. Earned(clock, b.lastRefill) \in Nat
        <5>1. CASE b.lastRefill <= clock
          BY <5>1 DEF Earned
        <5>. QED
          BY <1>2, <5>1
      <4>. QED
        BY <1>1, <1>2, <2>3, <3>1, <4>1
    <3>2. CASE i \in 1 .. n
      <4>1. /\ allowed[i] < b.lastRefill + Refill
            /\ n - i + 1 + b.tokens <= Rpm + Earned(allowed[i], b.lastRefill)
        BY <1>1, <3>2 DEF Fits
      <4>2. n + 1 - i + 1 + b.tokens - 1 = n - i + 1 + b.tokens
        BY <1>2
      <4>. QED
        BY <2>3, <3>2, <4>1, <4>2
    <3>. QED
      BY <1>2, <3>1, <3>2
  <2>6. ASSUME NEW i \in 1 .. n + 1
        PROVE  n + 1 - i + 1 <= Rpm + (clock - allowed'[i] + Refill - 1) \div Refill
    <3>. DEFINE x == allowed'[i]
                E == Earned(x, b.lastRefill)
                s == (clock - x + Refill - 1) \div Refill
    <3>1. x \in Nat /\ x <= clock /\ clock - x + Refill - 1 \in Nat
      BY <1>2, <2>3, <2>4
    <3>2. s \in Nat
      BY <3>1, DivDef
    <3>3. E \in Nat /\ E <= s
      <4>1. CASE b.lastRefill <= x
        BY <3>2, <4>1 DEF Earned
      <4>2. CASE b.lastRefill > x
        <5>1. /\ b.lastRefill - x + Refill - 1 \in Nat
              /\ b.lastRefill - x + Refill - 1 <= clock - x + Refill - 1
          <6>1. Refill \in Nat \ {0} /\ b.lastRefill \in Nat /\ clock \in Nat /\ b.lastRefill <= clock
            BY <1>2 DEF Limits
          <6>. HIDE DEF x, b
          <6>. QED
            BY <3>1, <4>2, <6>1
        <5>2. E = (b.lastRefill - x + Refill - 1) \div Refill
          BY <1>2, <3>1, <4>2 DEF Earned
        <5>3. E <= s
          BY <3>1, <5>1, <5>2, DivMono
        <5>4. E \in Nat
          BY <5>1, <5>2, DivDef
        <5>. QED
          BY <5>3, <5>4
      <4>. QED
        BY <1>2, <3>1, <4>1, <4>2
    <3>. HIDE DEF E, s
    <3>4. n + 1 - i + 1 + b.tokens - 1 <= Rpm + E
      BY <2>5 DEF E
    <3>5. n + 1 - i + 1 <= Rpm + s
      BY <1>2, <2>1, <3>2, <3>3, <3>4
    <3>. QED
      BY <3>5 DEF s
  <2>7. RateIsBounded'
    <3>. SUFFICES ASSUME NEW i \in 1 .. n + 1, NEW j \in 1 .. n + 1, i <= j
                  PROVE  j - i + 1 <= Rpm + (allowed'[j] - allowed'[i] + Refill - 1) \div Refill
      BY <2>3 DEF RateIsBounded
    <3>1. CASE j = n + 1
      BY <2>3, <2>6, <3>1
    <3>2. CASE j \in 1 .. n
      <4>1. i \in 1 .. n
        BY <1>2, <3>2
      <4>2. j - i + 1 <= Rpm + (allowed[j] - allowed[i] + Refill - 1) \div Refill
        <5>1. i \in DOMAIN allowed /\ j \in DOMAIN allowed
          BY <1>2, <3>2, <4>1
        <5>2. RateIsBounded
          BY DEF RateInv
        <5>. QED
          BY <5>1, <5>2 DEF RateIsBounded
      <4>. QED
        BY <2>3, <3>2, <4>1, <4>2
    <3>. QED
      BY <1>2, <3>1, <3>2
  <2>8. Fits(bucket)'
    BY <1>2, <2>2, <2>3, <2>5 DEF Fits, Earned
  <2>9. bucket'.tokens # Rpm
    BY <1>2, <2>1, <2>2
  <2>. QED
    BY <1>2, <2>3, <2>4, <2>7, <2>8, <2>9 DEF RateInv
<1>. QED
  BY <1>3, <1>4

LEMMA RateNext ==
    ASSUME Limits
    PROVE  RateInv /\ [Next]_vars => RateInv'
<1>. SUFFICES ASSUME RateInv, [Next]_vars PROVE RateInv'
  OBVIOUS
<1>1. ASSUME UNCHANGED <<bucket, allowed, clock>>, phase' = "boot" => phase = "boot" PROVE RateInv'
  BY <1>1 DEF RateInv, Fits, Earned, RateIsBounded
<1>2. CASE Migrate \/ StorageChanges \/ JobStarts \/ JobEnds
  BY <1>1, <1>2 DEF Migrate, StorageChanges, JobStarts, JobEnds, limiter
<1>3. CASE Start
  <2>1. bucket' = [tokens |-> Rpm, lastRefill |-> clock] /\ UNCHANGED <<allowed, clock>>
    BY <1>3 DEF Start, NoBucket
  <2>. QED
    BY <1>3, <2>1 DEF Start, RateInv, Fits, RateIsBounded, Limits
<1>4. CASE Crash
  BY <1>4 DEF Crash, RateInv, Fits, RateIsBounded
<1>5. CASE Tick
  <2>1. clock' = clock + 1 /\ UNCHANGED <<phase, bucket, allowed>>
    BY <1>5 DEF Tick, limiter
  <2>2. RateIsBounded' /\ (phase = "boot" => allowed = <<>>)'
    BY <2>1 DEF RateInv, RateIsBounded
  <2>3. /\ (clock \in Nat /\ allowed \in Seq(Nat))' /\ (bucket.tokens = Rpm => allowed = <<>>)'
        /\ \A i \in 1 .. Len(allowed') : allowed'[i] <= clock'
    BY <2>1 DEF RateInv
  <2>4. Fits(bucket)'
    <3>1. Fits(bucket) /\ clock \in Nat
      BY DEF RateInv
    <3>. QED
      BY <2>1, <3>1 DEF Fits, Earned
  <2>. QED
    BY <2>2, <2>3, <2>4 DEF RateInv
<1>6. ASSUME NEW r \in Requests, NEW route \in {"api", "health"}, Arrive(r, route) PROVE RateInv'
  BY <1>6, GuardKeepsRate DEF Arrive
<1>7. CASE \E r \in Requests : Handled(r)
  BY <1>1, <1>7 DEF Handled, limiter
<1>8. CASE \E s \in Sockets : Open(s) \/ CloseByPeer(s) \/ Remove(s)
  BY <1>1, <1>8 DEF Open, CloseByPeer, Remove, limiter
<1>9. CASE Signal \/ RunnerStopped \/ DeadlinePasses \/ Drained
  BY <1>1, <1>9 DEF Signal, RunnerStopped, DeadlinePasses, Drained, limiter
<1>10. CASE UNCHANGED vars
  BY <1>1, <1>10 DEF vars
<1>. QED
  BY <1>2, <1>3, <1>4, <1>5, <1>6, <1>7, <1>8, <1>9, <1>10 DEF Next

LEMMA RateInit == ASSUME Limits PROVE Init => RateInv
<1>. SUFFICES ASSUME Init PROVE RateInv
  OBVIOUS
<1>1. clock = 0 /\ allowed = <<>> /\ bucket = [tokens |-> Rpm, lastRefill |-> 0]
  BY DEF Init, NoBucket
<1>. QED
  BY <1>1 DEF RateInv, Fits, RateIsBounded, Limits

(* Between any two requests let through there are at most the bucket and   *)
(* what the time between them refills, for every limit and interval, and   *)
(* across restarts (rateLimiter.ts:30-64).                                 *)
THEOREM RateWithinBounds ==
    ASSUME Limits
    PROVE  Spec => []RateIsBounded
<1>1. Init => RateInv
  BY RateInit
<1>2. RateInv /\ [Next]_vars => RateInv'
  BY RateNext
<1>3. RateInv => RateIsBounded
  BY DEF RateInv
<1>. QED
  BY <1>1, <1>2, <1>3, PTL DEF Spec

(* An empty bucket was taken from since it was last refilled.              *)
BusyInv ==
    phase \notin {"boot", "down"} /\ bucket.tokens = 0
        => allowed # <<>> /\ allowed[Len(allowed)] >= bucket.lastRefill

LEMMA GuardKeepsBusy ==
    ASSUME Limits, RateInv, BusyInv, phase \notin {"boot", "down"}, NEW ok \in BOOLEAN, Guard(ok)
    PROVE  /\ BusyInv'
           /\ ~ok => allowed # <<>> /\ clock - allowed[Len(allowed)] < Refill
<1>. DEFINE b == RefillBucket(CallersBucket)
<1>. USE DEF Limits
<1>1. Fits(b) /\ clock < b.lastRefill + Refill
  BY CallersFits
<1>2. /\ b.lastRefill <= clock /\ b.tokens \in 0 .. Rpm /\ b.lastRefill \in Nat /\ clock \in Nat
      /\ b \in [tokens : 0 .. Rpm, lastRefill : Nat] /\ allowed \in Seq(Nat)
      /\ \A i \in 1 .. Len(allowed) : allowed[i] <= clock
  BY <1>1 DEF Fits, RateInv
<1>3. b.tokens = 0 => allowed # <<>> /\ allowed[Len(allowed)] >= b.lastRefill
  <2>. DEFINE add == (clock - bucket.lastRefill) \div Refill
  <2>. SUFFICES ASSUME b.tokens = 0
                PROVE  allowed # <<>> /\ allowed[Len(allowed)] >= b.lastRefill
    OBVIOUS
  <2>0. bucket.tokens # Rpm
    <3>1. ASSUME bucket.tokens = Rpm PROVE b.tokens = Rpm
      <4>1. CallersBucket = [tokens |-> Rpm, lastRefill |-> clock]
        BY <3>1 DEF CallersBucket, NoBucket
      <4>2. (clock - clock) \div Refill = 0
        <5>1. 0 \div Refill = 0
          BY DivDef
        <5>. QED
          BY <1>2, <5>1
      <4>. QED
        BY <4>1, <4>2 DEF RefillBucket
    <3>. QED
      BY <3>1
  <2>. HIDE DEF b
  <2>1. CASE add = 0
    <3>1. b = bucket
      BY <2>0, <2>1 DEF RefillBucket, CallersBucket, b
    <3>. QED
      BY <3>1 DEF BusyInv
  <2>2. CASE add # 0
    <3>0. bucket.tokens \in 0 .. Rpm /\ bucket.lastRefill \in Nat /\ bucket.lastRefill <= clock
      BY DEF RateInv, Fits
    <3>1. clock - bucket.lastRefill \in Nat
      BY <1>2, <3>0
    <3>2. add \in Nat /\ add > 0
      BY <2>2, <3>1, DivDef
    <3>. HIDE DEF add
    <3>3. b = [tokens |-> IF bucket.tokens + add > Rpm THEN Rpm ELSE bucket.tokens + add,
               lastRefill |-> clock]
      BY <2>0, <2>2 DEF RefillBucket, CallersBucket, add, b
    <3>4. b.tokens > 0
      BY <3>0, <3>2, <3>3
    <3>. QED
      BY <3>4
  <2>. QED
    BY <2>1, <2>2
<1>. HIDE DEF b
<1>4. ~ok => allowed # <<>> /\ clock - allowed[Len(allowed)] < Refill
  <2>. SUFFICES ASSUME ~ok PROVE allowed # <<>> /\ clock - allowed[Len(allowed)] < Refill
    OBVIOUS
  <2>1. b.tokens = 0
    <3>1. ok = (b.tokens > 0)
      BY Zenon DEF Guard, b
    <3>2. ~(b.tokens > 0)
      BY <3>1, Zenon
    <3>. QED
      BY <1>2, <3>2
  <2>2. allowed # <<>> /\ allowed[Len(allowed)] >= b.lastRefill
    BY <1>2, <1>3, <2>1
  <2>3. allowed[Len(allowed)] \in Nat
    BY <1>2, <2>2
  <2>. QED
    BY <1>1, <1>2, <2>2, <2>3
<1>5. BusyInv'
  <2>1. CASE ok
    <3>1. bucket'.lastRefill = b.lastRefill /\ allowed' = Append(allowed, clock)
      BY <1>2, <2>1 DEF Guard, b
    <3>2. allowed' # <<>> /\ allowed'[Len(allowed')] = clock
      BY <1>2, <3>1
    <3>. QED
      BY <1>2, <3>1, <3>2 DEF BusyInv
  <2>2. CASE ~ok
    <3>1. bucket' = b /\ allowed' = allowed
      BY <2>2 DEF Guard, b
    <3>. QED
      BY <1>3, <3>1 DEF BusyInv
  <2>. QED
    BY <2>1, <2>2
<1>. QED
  BY <1>4, <1>5

LEMMA BusyNext ==
    ASSUME Limits
    PROVE  RateInv /\ BusyInv /\ [Next]_vars
               => /\ BusyInv'
                  /\ refused' /\ ~refused
                         => allowed # <<>> /\ clock - allowed[Len(allowed)] < Refill
<1>. DEFINE Recent == refused' /\ ~refused
                          => allowed # <<>> /\ clock - allowed[Len(allowed)] < Refill
<1>. SUFFICES ASSUME RateInv, BusyInv, [Next]_vars PROVE BusyInv' /\ Recent
  OBVIOUS
<1>1. ASSUME UNCHANGED limiter, phase \in {"boot", "down"} => phase' \in {"boot", "down"}
      PROVE  BusyInv' /\ Recent
  BY <1>1 DEF limiter, BusyInv
<1>2. CASE Migrate \/ StorageChanges \/ JobStarts \/ JobEnds \/ Tick
  BY <1>1, <1>2 DEF Migrate, StorageChanges, JobStarts, JobEnds, Tick
<1>3. CASE Start
  BY <1>3 DEF Start, NoBucket, BusyInv, Limits
<1>4. CASE Crash
  BY <1>4 DEF Crash, BusyInv
<1>5. ASSUME NEW r \in Requests, NEW route \in {"api", "health"}, Arrive(r, route)
      PROVE  BusyInv' /\ Recent
  <2>1. PICK ok \in BOOLEAN : Guard(ok)
    BY <1>5 DEF Arrive
  <2>2. phase \notin {"boot", "down"}
    BY <1>5 DEF Arrive
  <2>3. refused' = ~ok
    BY <2>1 DEF Guard
  <2>. QED
    BY <2>1, <2>2, <2>3, GuardKeepsBusy
<1>6. CASE \E r \in Requests : Handled(r)
  BY <1>1, <1>6 DEF Handled
<1>7. CASE \E s \in Sockets : Open(s) \/ CloseByPeer(s) \/ Remove(s)
  BY <1>1, <1>7 DEF Open, CloseByPeer, Remove
<1>8. CASE Signal \/ RunnerStopped \/ DeadlinePasses \/ Drained
  BY <1>1, <1>8 DEF Signal, RunnerStopped, DeadlinePasses, Drained
<1>9. CASE UNCHANGED vars
  BY <1>1, <1>9 DEF vars, limiter
<1>. QED
  BY <1>2, <1>3, <1>4, <1>5, <1>6, <1>7, <1>8, <1>9 DEF Next

(* A caller that was let through nothing for a refill interval is never    *)
(* refused (rateLimiter.ts:30-64), for every limit and interval.           *)
THEOREM RefusedWhenBusy ==
    ASSUME Limits
    PROVE  Spec => RefusedOnlyWhenBusy
<1>1. Init => RateInv /\ BusyInv
  BY RateInit DEF Init, BusyInv
<1>2. RateInv /\ BusyInv /\ [Next]_vars => RateInv' /\ BusyInv'
  BY RateNext, BusyNext
<1>3. RateInv /\ BusyInv /\ [Next]_vars
         => [refused' /\ ~refused => allowed # <<>> /\ clock - allowed[Len(allowed)] < Refill]_vars
  BY BusyNext
<1>. QED
  BY <1>1, <1>2, <1>3, PTL DEF Spec, RefusedOnlyWhenBusy

----------------------------------------------------------------------------
(* Recurring tasks.  Of numbers up to a bound there is a largest.          *)
LEMMA LargestIs ==
    ASSUME NEW S, S \subseteq Nat, NEW m \in S \union {0}, \A k \in S : k <= m
    PROVE  R!Largest(S) = m
<1> DEFINE L == CHOOSE n \in S \union {0} : \A k \in S : k <= n
<1>1. L \in S \union {0} /\ \A k \in S : k <= L
  OBVIOUS
<1>2. R!Largest(S) = L
  BY DEF R!Largest
<1> HIDE DEF L
<1> QED BY <1>1, <1>2

LEMMA LargestBounds ==
    ASSUME NEW N \in Nat, NEW S, S \subseteq 0 .. N
    PROVE  R!Largest(S) \in S \union {0} /\ \A k \in S : k <= R!Largest(S)
<1>1. CASE S = {}
  BY <1>1, LargestIs
<1>2. CASE S # {}
  <2> DEFINE Gaps == { N - k : k \in S }
  <2>1. Gaps \subseteq Nat /\ Gaps # {}
    BY <1>2
  <2>2. PICK m \in Gaps : \A k \in Gaps : m <= k
    <3> HIDE DEF Gaps
    <3> QED BY <2>1, LeastNumber
  <2>3. PICK n \in S : m = N - n
    BY <2>2
  <2>4. ASSUME NEW k \in S PROVE k <= n
    <3>1. m <= N - k
      BY <2>2
    <3> QED BY <2>3, <3>1
  <2>5. n \in Nat /\ S \subseteq Nat
    OBVIOUS
  <2> HIDE DEF Gaps
  <2>6. R!Largest(S) = n
    BY <2>3, <2>4, <2>5, LargestIs
  <2> QED BY <2>3, <2>4, <2>6
<1> QED BY <1>1, <1>2

----------------------------------------------------------------------------
(* What generating does to the tasks: rows are added, for dates that had   *)
(* none, and no date of the range that a template wants is left out.       *)
Added(ts, q) == Len(ts) + 1 .. Len(q)

Wants(rt0, n) == n \in R!Occurrences[rt0] /\ (rt0.end # 0 => n <= rt0.end)

Held(q, s, n) == \E t \in DOMAIN q : q[t].series = s /\ q[t].date = n /\ ~q[t].gone

Extends(ts, q, S) ==
    /\ q \in Seq(R!Instances) /\ Len(ts) <= Len(q) /\ \A t \in DOMAIN ts : q[t] = ts[t]
    /\ \A t \in Added(ts, q) : /\ q[t].series \in S /\ ~q[t].gone /\ q[t].date \in R!Days
                               /\ q[t].date \notin R!TakenDates(ts, q[t].series)
    /\ \A t, u \in Added(ts, q) : t # u /\ q[t].series = q[u].series => q[t].date # q[u].date

LEMMA ExtendsNothing == ASSUME NEW ts \in Seq(R!Instances), NEW S PROVE Extends(ts, ts, S)
BY DEF Extends, Added

LEMMA HeldStays ==
    ASSUME NEW ts \in Seq(R!Instances), NEW q, NEW S, Extends(ts, q, S), NEW s, NEW n, Held(ts, s, n)
    PROVE  Held(q, s, n)
<1>1. PICK t \in DOMAIN ts : ts[t].series = s /\ ts[t].date = n /\ ~ts[t].gone
  BY DEF Held
<1>2. t \in DOMAIN q /\ q[t] = ts[t]
  <2>1. t \in 1 .. Len(ts) /\ Len(ts) \in Nat /\ Len(q) \in Nat /\ DOMAIN q = 1 .. Len(q) /\ Len(ts) <= Len(q)
    BY DEF Extends
  <2> QED BY <2>1 DEF Extends
<1> QED BY <1>1, <1>2 DEF Held

(* Rows of one template are added after those of others.                   *)
LEMMA ExtendsOn ==
    ASSUME NEW ts \in Seq(R!Instances), NEW q, NEW p, NEW S, NEW s, s \notin S,
           Extends(ts, q, S), Extends(q, p, {s})
    PROVE  Extends(ts, p, S \union {s})
<1>1. /\ Len(ts) \in Nat /\ Len(q) \in Nat /\ Len(p) \in Nat /\ Len(ts) <= Len(q) /\ Len(q) <= Len(p)
      /\ p \in Seq(R!Instances) /\ DOMAIN ts = 1 .. Len(ts) /\ DOMAIN q = 1 .. Len(q)
  BY DEF Extends
<1>2. \A t \in DOMAIN ts : t \in DOMAIN q /\ p[t] = ts[t]
  BY <1>1 DEF Extends
<1>3. \A t \in Added(ts, p) : t \in Added(q, p) \/ (t \in Added(ts, q) /\ t \in DOMAIN q /\ p[t] = q[t])
  BY <1>1 DEF Extends, Added
<1>4. R!TakenDates(ts, s) \subseteq R!TakenDates(q, s)
  <2>1. \A t \in DOMAIN ts : t \in DOMAIN q /\ q[t] = ts[t]
    BY <1>1 DEF Extends
  <2> QED BY <2>1 DEF R!TakenDates, R!InstancesOf
<1>5. \A t \in Added(q, p) : /\ p[t].series = s /\ ~p[t].gone /\ p[t].date \in R!Days
                             /\ p[t].date \notin R!TakenDates(ts, s)
  BY <1>4 DEF Extends
<1>6. \A t \in Added(ts, q) : /\ q[t].series \in S /\ ~q[t].gone /\ q[t].date \in R!Days
                              /\ q[t].date \notin R!TakenDates(ts, q[t].series)
  BY DEF Extends
<1>7. \A t \in Added(ts, p) : /\ p[t].series \in S \union {s} /\ ~p[t].gone /\ p[t].date \in R!Days
                              /\ p[t].date \notin R!TakenDates(ts, p[t].series)
  BY <1>3, <1>5, <1>6
<1>8. ASSUME NEW t \in Added(ts, p), NEW u \in Added(ts, p), t # u, p[t].series = p[u].series
      PROVE  p[t].date # p[u].date
  <2>1. CASE t \in Added(q, p) /\ u \in Added(q, p)
    BY <1>8, <2>1 DEF Extends
  <2>2. CASE t \in Added(ts, q) /\ u \in Added(ts, q) /\ p[t] = q[t] /\ p[u] = q[u]
    BY <1>8, <2>2 DEF Extends
  <2>3. CASE \/ t \in Added(q, p) /\ u \in Added(ts, q) /\ p[u] = q[u]
             \/ u \in Added(q, p) /\ t \in Added(ts, q) /\ p[t] = q[t]
    BY <1>5, <1>6, <1>8, <2>3
  <2> QED BY <1>3, <1>8, <2>1, <2>2, <2>3
<1> QED BY <1>1, <1>2, <1>7, <1>8 DEF Extends

(* One row more, for a date that none of the added rows stands for.        *)
Lacks(ts, q, n) == \A t \in Added(ts, q) : q[t].date # n
StartsAt(p, q)    == \A t \in 1 .. Len(q) : p[t] = q[t]
Grown(ts, q, p, s, n) ==
    /\ Extends(ts, p, {s}) /\ Held(p, s, n) /\ Added(ts, p) = Added(ts, q) \union {Len(p)}
    /\ p[Len(p)].date = n /\ \A t \in DOMAIN q : p[t] = q[t] /\ t \in DOMAIN p

LEMMA OneMore ==
    ASSUME NEW ts \in Seq(R!Instances), NEW q, NEW s, Extends(ts, q, {s}),
           NEW n \in R!Days, n \notin R!TakenDates(ts, s), Lacks(ts, q, n),
           NEW x \in R!Instances, x.series = s, x.date = n, x.gone = FALSE,
           NEW p \in Seq(R!Instances), Len(p) = Len(q) + 1, p[Len(p)] = x, StartsAt(p, q)
    PROVE  Grown(ts, q, p, s, n)
<1>1. /\ q \in Seq(R!Instances) /\ Len(q) \in Nat /\ Len(ts) \in Nat /\ Len(ts) <= Len(q)
      /\ DOMAIN ts = 1 .. Len(ts) /\ DOMAIN q = 1 .. Len(q)
  BY DEF Extends
<1>2. DOMAIN p = 1 .. Len(q) + 1
  BY <1>1
<1>3. Added(ts, p) = Added(ts, q) \union {Len(p)} /\ Len(p) \in DOMAIN p
  BY <1>1, <1>2 DEF Added
<1>4. \A t \in Added(ts, q) : p[t] = q[t]
  BY <1>1 DEF Added, StartsAt
<1>5. \A t \in DOMAIN ts : p[t] = ts[t]
  BY <1>1 DEF Extends, StartsAt
<1>6. \A t \in Added(ts, p) : /\ p[t].series \in {s} /\ ~p[t].gone /\ p[t].date \in R!Days
                              /\ p[t].date \notin R!TakenDates(ts, p[t].series)
  BY <1>3, <1>4 DEF Extends
<1>7. ASSUME NEW t \in Added(ts, p), NEW u \in Added(ts, p), t # u, p[t].series = p[u].series
      PROVE  p[t].date # p[u].date
  <2>1. CASE t = Len(p)
    <3>1. u \in Added(ts, q) /\ p[t].date = n
      BY <1>3, <1>7, <2>1
    <3>2. q[u].date # n
      BY <3>1 DEF Lacks
    <3> QED BY <1>4, <3>1, <3>2
  <2>2. CASE u = Len(p)
    <3>1. t \in Added(ts, q) /\ p[u].date = n
      BY <1>3, <1>7, <2>2
    <3>2. q[t].date # n
      BY <3>1 DEF Lacks
    <3> QED BY <1>4, <3>1, <3>2
  <2>3. CASE t \in Added(ts, q) /\ u \in Added(ts, q)
    <3>1. p[t] = q[t] /\ p[u] = q[u]
      BY <1>4, <2>3
    <3> QED BY <1>7, <2>3, <3>1 DEF Extends
  <2> QED BY <1>3, <2>1, <2>2, <2>3
<1>8. Len(ts) <= Len(p)
  BY <1>1
<1>9. Extends(ts, p, {s})
  BY <1>5, <1>6, <1>7, <1>8 DEF Extends
<1>10. Held(p, s, n)
  BY <1>3 DEF Held
<1> QED BY <1>1, <1>2, <1>3, <1>9, <1>10 DEF StartsAt, Grown

LEMMA AppendInstance ==
    ASSUME NEW ts \in Seq(R!Instances), NEW q, NEW s \in R!SeriesIds, Extends(ts, q, {s}),
           NEW n \in R!Days, n \notin R!TakenDates(ts, s), Lacks(ts, q, n)
    PROVE  \E p : p = Append(q, R!Instance(s, n)) /\ Grown(ts, q, p, s, n)
<1>1. PICK x : x = R!Instance(s, n)
  OBVIOUS
<1>2. x \in R!Instances /\ x.series = s /\ x.date = n /\ x.gone = FALSE
  BY <1>1, SeriesAssumption DEF R!Instance, R!Instances, R!SeriesIds
<1>3. q \in Seq(R!Instances)
  BY DEF Extends
<1>4. PICK p : p = Append(q, x)
  OBVIOUS
<1>5. p \in Seq(R!Instances) /\ Len(p) = Len(q) + 1 /\ p[Len(p)] = x /\ StartsAt(p, q)
  BY <1>2, <1>3, <1>4 DEF StartsAt
<1>6. p = Append(q, R!Instance(s, n))
  BY <1>1, <1>4
<1>7. Grown(ts, q, p, s, n)
  BY <1>2, <1>5, OneMore
<1> QED BY <1>6, <1>7

----------------------------------------------------------------------------
(* A template has a start among the days, and wants days only.             *)
LEMMA TemplateFits ==
    ASSUME NEW rt0 \in R!Templates
    PROVE  /\ rt0.start \in R!Days /\ rt0 # R!NoTemplate
           /\ R!Occurrences[rt0] \subseteq R!Days
<1>1. PICK h \in Habits, start \in R!Days : rt0 = R!Template(h, start)
  BY DEF R!Templates
<1> DEFINE Schedule == [frequency: {"daily", "weekly", "monthly", "yearly"}, interval: Nat,
                        days: SUBSET (0 .. 6), dom: 0 .. 31, start: Int, end: Int]
<1>2. h \in Schedule /\ h.frequency # "none"
  BY SeriesAssumption
<1>3. start \in Int
  BY SeriesAssumption DEF R!Days
<1>4. PICK e \in Int : rt0 = [h EXCEPT !.start = start, !.end = e]
  <2>1. PICK e : e = IF h.end = 0 THEN 0 ELSE start + h.end
    OBVIOUS
  <2>2. e \in Int
    BY <1>2, <1>3, <2>1
  <2>3. R!Template(h, start) = [h EXCEPT !.start = start, !.end = e]
    BY <1>2, <2>1 DEF R!Template
  <2> QED BY <1>1, <2>2, <2>3
<1>5. rt0 \in Schedule /\ rt0.start = start /\ rt0.frequency # "none"
  BY <1>2, <1>3, <1>4
<1>6. R!NoTemplate.frequency = "none"
  BY DEF R!NoTemplate
<1>7. PICK open : open = [rt0 EXCEPT !.end = 0]
  OBVIOUS
<1>8. open.start = start /\ open.end = 0
  BY <1>5, <1>7
<1>9. R!Occurrences[rt0] = R!GenerateOccurrences(open, FirstDay, LastDay)
  BY <1>7 DEF R!Occurrences
<1>10. R!GenerateOccurrences(open, FirstDay, LastDay) \subseteq R!Days
  BY <1>3, <1>8, SeriesAssumption DEF R!GenerateOccurrences, R!Days
<1> QED BY <1>5, <1>6, <1>9, <1>10

LEMMA GenerationFills ==
    ASSUME NEW ts \in Seq(R!Instances), NEW s \in R!SeriesIds, NEW rt0 \in R!Templates,
           NEW a \in Nat \ {0}, NEW b \in Nat, a <= b + 1
    PROVE  LET q == R!GenerateInstances(rt0, ts, s, a, b)
           IN  Extends(ts, q, {s}) /\ \A n \in a .. b : Wants(rt0, n) => Held(q, s, n)
<1> DEFINE M == R!Missing(rt0, ts, s, a, b)
           A == Seq(R!Instances)
           N == b - a + 1
           Step(q, n) == IF n \in M THEN Append(q, R!Instance(s, n)) ELSE q
           g == [i \in 1 .. N |-> [q \in A |-> Step(q, a - 1 + i)]]
           Sol(f) == f = [n \in a - 1 .. b |-> IF n = a - 1 THEN ts
                                               ELSE IF n \in M THEN Append(f[n - 1], R!Instance(s, n))
                                               ELSE f[n - 1]]
           fix == CHOOSE f : Sol(f)
<1>1. R!GenerateInstances(rt0, ts, s, a, b) = fix[b]
  BY DEF R!GenerateInstances
<1>2. M \subseteq R!Days /\ M \subseteq a .. b /\ \A n \in M : n \notin R!TakenDates(ts, s)
  BY TemplateFits, SeriesAssumption DEF R!Missing, R!Days
<1>3. N \in Nat /\ \A i \in 0 .. N : a - 1 + i \in a - 1 .. b
  OBVIOUS
<1>4. \A n \in M : R!Instance(s, n) \in R!Instances
  BY <1>2, SeriesAssumption DEF R!Instance, R!Instances, R!SeriesIds
<1>5. \A n \in M : \A t \in DOMAIN ts : ~(ts[t].series = s /\ ts[t].date = n /\ ~ts[t].gone)
  BY <1>2 DEF R!TakenDates, R!InstancesOf
<1>6. ASSUME NEW n \in a .. b, Wants(rt0, n), n \notin M PROVE Held(ts, s, n)
  BY <1>6 DEF R!Missing, Wants, R!TakenDates, R!InstancesOf, Held
<1> HIDE DEF M
<1>7. g \in [1 .. N -> [A -> A]]
  <2>1. ASSUME NEW i \in 1 .. N, NEW q \in A PROVE Step(q, a - 1 + i) \in A
    BY <1>4
  <2> QED BY <2>1
<1>8. PICK h : Solves(h, N, A, ts, g)
  <2> HIDE DEF g, A, N
  <2> QED BY <1>3, <1>7, RecursionExists DEF A
<1>9. \E f : Sol(f)
  <2> DEFINE k == [n \in a - 1 .. b |-> h[n - (a - 1)]]
  <2>1. h[0] = ts /\ \A i \in 1 .. N : h[i] = Step(h[i - 1], a - 1 + i)
    <3>1. h[0] = ts /\ h \in [0 .. N -> A] /\ \A i \in 1 .. N : h[i] = g[i][h[i - 1]]
      <4> HIDE DEF g, A, N
      <4> QED BY <1>8 DEF Solves
    <3>2. ASSUME NEW i \in 1 .. N PROVE h[i] = Step(h[i - 1], a - 1 + i)
      <4>1. h[i - 1] \in A
        BY <1>3, <3>1
      <4>2. g[i][h[i - 1]] = Step(h[i - 1], a - 1 + i)
        <5> HIDE DEF A, N
        <5> QED BY <4>1
      <4> QED BY <3>1, <4>2
    <3> QED BY <3>1, <3>2
  <2>2. ASSUME NEW n \in a - 1 .. b
        PROVE  k[n] = IF n = a - 1 THEN ts ELSE IF n \in M THEN Append(k[n - 1], R!Instance(s, n)) ELSE k[n - 1]
    <3>1. CASE n = a - 1
      BY <2>1, <3>1
    <3>2. CASE n # a - 1
      <4>1. n - (a - 1) \in 1 .. N /\ n - 1 \in a - 1 .. b /\ a - 1 + (n - (a - 1)) = n
        BY <3>2
      <4>2. h[n - (a - 1)] = Step(h[(n - (a - 1)) - 1], n)
        BY <2>1, <4>1
      <4>3. k[n - 1] = h[(n - (a - 1)) - 1]
        <5>1. (n - 1) - (a - 1) = (n - (a - 1)) - 1
          OBVIOUS
        <5> QED BY <4>1, <5>1
      <4> QED BY <3>2, <4>2, <4>3
    <3> QED BY <3>1, <3>2
  <2>3. Sol(k)
    <3> HIDE DEF k
    <3>1. DOMAIN k = a - 1 .. b /\ k = [n \in a - 1 .. b |-> k[n]]
      BY DEF k
    <3> QED BY <2>2, <3>1
  <2> HIDE DEF k
  <2> QED BY <2>3
<1>10. Sol(fix)
  <2> HIDE DEF Sol
  <2> QED BY <1>9
<1>11. fix[a - 1] = ts /\ \A n \in a .. b : fix[n] = Step(fix[n - 1], n)
  <2> HIDE DEF fix
  <2>1. a - 1 \in a - 1 .. b /\ \A n \in a .. b : n \in a - 1 .. b /\ n # a - 1
    OBVIOUS
  <2> QED BY <1>10, <2>1
<1> HIDE DEF fix, Sol
(* After the date n the rows of the dates up to n are there.               *)
<1> DEFINE Good(q, n) == /\ Extends(ts, q, {s}) /\ \A t \in Added(ts, q) : q[t].date <= n
                         /\ \A m \in M : m <= n => Held(q, s, m)
           G == { i \in 0 .. N : Good(fix[a - 1 + i], a - 1 + i) }
<1>12. 0 \in G
  <2>1. Added(ts, ts) = {}
    BY DEF Added
  <2>2. \A m \in M : ~(m <= a - 1)
    BY <1>2
  <2> QED BY <1>3, <1>11, <2>1, <2>2, ExtendsNothing
<1>13. ASSUME NEW i \in 0 .. N, i < N, i \in G PROVE i + 1 \in G
  <2> DEFINE n == a + i
             q == fix[a - 1 + i]
  <2>1. n \in a .. b /\ n \in Nat /\ a - 1 + (i + 1) = n /\ n - 1 = a - 1 + i /\ i + 1 \in 0 .. N
    BY <1>3, <1>13
  <2>2. fix[n] = Step(q, n)
    BY <1>11, <2>1
  <2>3. Good(q, n - 1)
    BY <1>13, <2>1
  <2> HIDE DEF q, n
  <2>4. /\ Extends(ts, q, {s}) /\ \A t \in Added(ts, q) : q[t].date <= n - 1
        /\ \A m \in M : m <= n - 1 => Held(q, s, m)
    BY <2>3
  <2>5. \A t \in Added(ts, q) : q[t].date \in Nat
    BY <2>4, SeriesAssumption DEF Extends, R!Days
  <2>6. CASE n \notin M
    <3>1. fix[n] = q
      BY <2>2, <2>6
    <3>2. \A m \in M : m <= n => m <= n - 1
      BY <1>2, <2>1, <2>6
    <3>3. \A t \in Added(ts, q) : q[t].date <= n
      BY <2>1, <2>4, <2>5
    <3>4. Good(q, n)
      BY <2>4, <3>2, <3>3
    <3> QED BY <2>1, <3>1, <3>4
  <2>7. CASE n \in M
    <3>1. n \in R!Days /\ n \notin R!TakenDates(ts, s) /\ Lacks(ts, q, n)
      BY <1>2, <2>1, <2>4, <2>5, <2>7 DEF Lacks
    <3>2. PICK p : /\ p = Append(q, R!Instance(s, n))
                   /\ Extends(ts, p, {s}) /\ Held(p, s, n) /\ Added(ts, p) = Added(ts, q) \union {Len(p)}
                   /\ p[Len(p)].date = n /\ \A t \in DOMAIN q : p[t] = q[t] /\ t \in DOMAIN p
      <4>1. \E p : p = Append(q, R!Instance(s, n)) /\ Grown(ts, q, p, s, n)
        BY <2>4, <3>1, AppendInstance
      <4> QED BY <4>1 DEF Grown
    <3>3. fix[n] = p
      BY <2>2, <2>7, <3>2
    <3>4. \A t \in Added(ts, q) : t \in DOMAIN q
      <4>1. q \in Seq(R!Instances) /\ Len(ts) \in Nat
        BY <2>4 DEF Extends
      <4> QED BY <4>1 DEF Added
    <3>5. \A t \in Added(ts, p) : p[t].date <= n
      BY <2>1, <2>4, <2>5, <3>2, <3>4
    <3>6. \A m \in M : m <= n => m = n \/ m <= n - 1
      BY <1>2, <2>1
    <3>7. \A m : Held(q, s, m) => Held(p, s, m)
      BY <3>2 DEF Held
    <3>8. \A m \in M : m <= n => Held(p, s, m)
      BY <2>4, <3>2, <3>6, <3>7
    <3>9. Good(p, n)
      BY <3>2, <3>5, <3>8
    <3> QED BY <2>1, <3>3, <3>9
  <2> QED BY <2>6, <2>7
<1>14. \A i \in 0 .. N : i \in G
  <2> HIDE DEF G
  <2> QED BY <1>3, <1>12, <1>13, BoundedInduction
<1>15. N \in G /\ a - 1 + N = b
  <2>1. N \in 0 .. N
    BY <1>3
  <2>2. N \in G
    <3> HIDE DEF G, N
    <3> QED BY <1>14, <2>1
  <2> QED BY <2>2
<1>16. Good(fix[b], b)
  BY <1>15
<1>17. \A m \in M : m <= b
  BY <1>2
<1>18. \A n \in a .. b : Wants(rt0, n) => Held(fix[b], s, n)
  BY <1>6, <1>16, <1>17, HeldStays
<1> QED BY <1>1, <1>16, <1>18

----------------------------------------------------------------------------
(* A row for every date wanted of s is there.                              *)
Filled(q, rt0, s, a, b) == \A n \in a .. b : Wants(rt0, n) => Held(q, s, n)

LEMMA GeneratesOne ==
    ASSUME NEW ts \in Seq(R!Instances), NEW s \in R!SeriesIds, NEW rt0 \in R!Templates,
           NEW a \in Nat \ {0}, NEW b \in Nat, a <= b + 1
    PROVE  \E q : /\ q = R!GenerateInstances(rt0, ts, s, a, b)
                  /\ Extends(ts, q, {s}) /\ Filled(q, rt0, s, a, b)
<1>1. PICK q : q = R!GenerateInstances(rt0, ts, s, a, b)
  OBVIOUS
<1>2. Extends(ts, q, {s}) /\ \A n \in a .. b : Wants(rt0, n) => Held(q, s, n)
  BY <1>1, GenerationFills
<1> QED BY <1>1, <1>2 DEF Filled

LEMMA FilledStays ==
    ASSUME NEW ts \in Seq(R!Instances), NEW q, NEW S, Extends(ts, q, S), NEW rt0, NEW s, NEW a, NEW b,
           Filled(ts, rt0, s, a, b)
    PROVE  Filled(q, rt0, s, a, b)
BY HeldStays DEF Filled

(* The templates one after another.                                        *)
AllFilled(q, S, a, b) == \A s \in S : Filled(q, series[s], s, a, b)

LEMMA GeneratesAll ==
    ASSUME NEW ts \in Seq(R!Instances), series \in [R!SeriesIds -> R!Templates \union {R!NoTemplate}],
           NEW a \in Nat \ {0}, NEW b \in Nat, a <= b + 1
    PROVE  \E q : /\ q = R!GenerateAllInstances(ts, a, b)
                  /\ Extends(ts, q, R!Known) /\ AllFilled(q, R!Known, a, b)
<1> DEFINE A == Seq(R!Instances)
           Step(q, s) == IF s \in R!Known THEN R!GenerateInstances(series[s], q, s, a, b) ELSE q
           Sol(f) == f = [s \in 0 .. MaxSeries |->
                            CASE s = 0        -> ts
                              [] s \in R!Known -> R!GenerateInstances(series[s], f[s - 1], s, a, b)
                              [] OTHER        -> f[s - 1]]
           fix == CHOOSE f : Sol(f)
           g == [i \in 1 .. MaxSeries |-> [q \in A |-> Step(q, i)]]
<1>1. R!GenerateAllInstances(ts, a, b) = fix[MaxSeries]
  BY DEF R!GenerateAllInstances
<1>2. MaxSeries \in Nat /\ R!Known \subseteq 1 .. MaxSeries /\ \A s \in R!Known : series[s] \in R!Templates
  BY SeriesAssumption DEF R!Known, R!SeriesIds
<1>3. ASSUME NEW q \in A, NEW s \in R!Known
      PROVE  /\ Step(q, s) \in A /\ Extends(q, Step(q, s), {s})
             /\ Filled(Step(q, s), series[s], s, a, b)
  <2>1. PICK p : /\ p = R!GenerateInstances(series[s], q, s, a, b)
                 /\ Extends(q, p, {s}) /\ Filled(p, series[s], s, a, b)
    <3>1. s \in R!SeriesIds /\ series[s] \in R!Templates
      BY <1>2 DEF R!SeriesIds
    <3> QED BY <3>1, GeneratesOne
  <2>2. Step(q, s) = p
    BY <2>1
  <2> QED BY <2>1, <2>2 DEF Extends
<1>4. g \in [1 .. MaxSeries -> [A -> A]]
  <2>1. ASSUME NEW i \in 1 .. MaxSeries, NEW q \in A PROVE Step(q, i) \in A
    BY <1>3
  <2> HIDE DEF Step, A
  <2> QED BY <2>1
<1>5. PICK h : h \in [0 .. MaxSeries -> A] /\ h[0] = ts /\ \A i \in 1 .. MaxSeries : h[i] = Step(h[i - 1], i)
  <2>1. PICK h : Solves(h, MaxSeries, A, ts, g)
    <3> HIDE DEF g
    <3> QED BY <1>2, <1>4, RecursionExists
  <2>2. h[0] = ts /\ h \in [0 .. MaxSeries -> A] /\ \A i \in 1 .. MaxSeries : h[i] = g[i][h[i - 1]]
    <3> HIDE DEF g, A
    <3> QED BY <2>1 DEF Solves
  <2>3. ASSUME NEW i \in 1 .. MaxSeries PROVE h[i] = Step(h[i - 1], i)
    <3>1. h[i - 1] \in A
      <4>1. i - 1 \in 0 .. MaxSeries
        BY <1>2
      <4> QED BY <2>2, <4>1
    <3> HIDE DEF A, Step
    <3> QED BY <2>2, <3>1
  <2> HIDE DEF A, Step
  <2> QED BY <2>2, <2>3
<1>6. \E f : Sol(f)
  <2>1. ASSUME NEW s \in 0 .. MaxSeries
        PROVE  h[s] = CASE s = 0        -> ts
                        [] s \in R!Known -> R!GenerateInstances(series[s], h[s - 1], s, a, b)
                        [] OTHER        -> h[s - 1]
    <3>1. CASE s = 0
      <4>1. s \notin R!Known
        BY <1>2, <3>1
      <4> QED BY <1>5, <3>1, <4>1
    <3>2. CASE s # 0
      <4>1. s \in 1 .. MaxSeries
        BY <1>2, <3>2
      <4>2. h[s] = Step(h[s - 1], s)
        BY <1>5, <4>1
      <4> QED BY <3>2, <4>2
    <3> QED BY <3>1, <3>2
  <2>2. Sol(h)
    <3>1. h = [s \in 0 .. MaxSeries |-> h[s]]
      BY <1>5
    <3> QED BY <2>1, <3>1
  <2> HIDE DEF Sol
  <2> QED BY <2>2
<1>7. Sol(fix)
  <2> HIDE DEF Sol
  <2> QED BY <1>6
<1>8. fix[0] = ts /\ \A i \in 1 .. MaxSeries : fix[i] = Step(fix[i - 1], i)
  <2> HIDE DEF fix
  <2>1. 0 \in 0 .. MaxSeries /\ 0 \notin R!Known
    BY <1>2
  <2>2. fix[0] = ts
    BY <1>7, <2>1
  <2>3. ASSUME NEW i \in 1 .. MaxSeries PROVE fix[i] = Step(fix[i - 1], i)
    <3>1. i \in 0 .. MaxSeries /\ i # 0
      BY <1>2
    <3> QED BY <1>7, <3>1
  <2> HIDE DEF Sol, Step
  <2> QED BY <2>2, <2>3
<1> HIDE DEF fix, Sol, Step
<1> DEFINE Below(i) == R!Known \intersect 1 .. i
           G == { i \in 0 .. MaxSeries : Extends(ts, fix[i], Below(i)) /\ AllFilled(fix[i], Below(i), a, b) }
<1>9. 0 \in G
  <2>1. Below(0) = {} /\ 0 \in 0 .. MaxSeries
    BY <1>2
  <2> QED BY <1>8, <2>1, ExtendsNothing DEF AllFilled
<1>10. ASSUME NEW i \in 0 .. MaxSeries, i < MaxSeries, i \in G PROVE i + 1 \in G
  <2>1. Extends(ts, fix[i], Below(i)) /\ AllFilled(fix[i], Below(i), a, b) /\ fix[i] \in A
    BY <1>10 DEF Extends
  <2>2. i + 1 \in 1 .. MaxSeries /\ i + 1 \in 0 .. MaxSeries /\ fix[i + 1] = Step(fix[i], i + 1)
    <3>1. i + 1 \in 1 .. MaxSeries /\ (i + 1) - 1 = i /\ i + 1 \in 0 .. MaxSeries
      BY <1>2, <1>10
    <3> QED BY <1>8, <3>1
  <2>3. CASE i + 1 \notin R!Known
    <3>1. fix[i + 1] = fix[i]
      BY <2>2, <2>3 DEF Step
    <3>2. Below(i + 1) = Below(i)
      BY <1>2, <2>3
    <3> QED BY <2>1, <2>2, <3>1, <3>2
  <2>4. CASE i + 1 \in R!Known
    <3>1. PICK s : s = i + 1
      OBVIOUS
    <3>2. PICK q : q = fix[i]
      OBVIOUS
    <3>3. PICK p : p = fix[s]
      OBVIOUS
    <3>4. Extends(q, p, {s}) /\ Filled(p, series[s], s, a, b)
      BY <1>3, <2>1, <2>2, <2>4, <3>1, <3>2, <3>3
    <3>5. s \notin Below(i)
      BY <3>1
    <3>6. PICK U : U = Below(i)
      OBVIOUS
    <3>7. Extends(ts, q, U) /\ AllFilled(q, U, a, b) /\ s \notin U /\ q \in A
      BY <2>1, <3>2, <3>5, <3>6
    <3>8. Extends(ts, p, U \union {s})
      BY <3>4, <3>7, ExtendsOn
    <3>9. AllFilled(p, U, a, b)
      BY <3>4, <3>7, FilledStays DEF AllFilled
    <3>10. AllFilled(p, U \union {s}, a, b)
      BY <3>4, <3>9 DEF AllFilled
    <3>11. Below(i + 1) = U \union {s}
      BY <1>2, <2>4, <3>1, <3>6
    <3> QED BY <2>2, <3>1, <3>3, <3>8, <3>10, <3>11
  <2> QED BY <2>3, <2>4
<1>11. MaxSeries \in G
  <2>1. \A i \in 0 .. MaxSeries : i \in G
    <3> HIDE DEF G
    <3> QED BY <1>2, <1>9, <1>10, BoundedInduction
  <2> HIDE DEF G
  <2> QED BY <1>2, <2>1
<1>12. Below(MaxSeries) = R!Known
  BY <1>2
<1> QED BY <1>1, <1>11, <1>12

----------------------------------------------------------------------------
(* Instances by their dates, and by their place where dates agree.         *)
LEMMA EarlierOrders ==
    ASSUME NEW ts \in Seq(R!Instances), NEW t \in DOMAIN ts, NEW u \in DOMAIN ts, NEW v \in DOMAIN ts
    PROVE  /\ ts[t].date \in Nat /\ ~R!Earlier(ts, t, t)
           /\ R!Earlier(ts, t, u) /\ R!Earlier(ts, u, v) => R!Earlier(ts, t, v)
           /\ t = u \/ R!Earlier(ts, t, u) \/ R!Earlier(ts, u, t)
<1>1. ASSUME NEW w \in DOMAIN ts PROVE ts[w].date \in Nat /\ w \in Nat
  <2>1. ts[w] \in R!Instances /\ w \in Nat
    OBVIOUS
  <2>2. R!Days \subseteq Nat
    BY SeriesAssumption DEF R!Days
  <2>3. ts[w].date \in R!Days \union {0}
    BY <2>1 DEF R!Instances
  <2>4. PICK d : d = ts[w].date
    OBVIOUS
  <2>5. d \in R!Days \/ d = 0
    BY <2>3, <2>4
  <2>6. d \in Nat
    <3>1. CASE d \in R!Days
      BY <3>1, SeriesAssumption DEF R!Days
    <3>2. CASE d = 0
      BY <3>2
    <3> QED BY <2>5, <3>1, <3>2
  <2> QED BY <2>1, <2>4, <2>6
<1>2. /\ ts[t].date \in Nat /\ ts[u].date \in Nat /\ ts[v].date \in Nat
      /\ t \in Nat /\ u \in Nat /\ v \in Nat
  BY <1>1
<1> QED BY <1>2 DEF R!Earlier

LEMMA RanksExist ==
    ASSUME NEW ts \in Seq(R!Instances), NEW P, P \subseteq DOMAIN ts
    PROVE  /\ IsFiniteSet(P) /\ Cardinality(P) \in Nat /\ Cardinality(P) <= Len(ts)
           /\ \E rank \in [P -> Nat] :
                 /\ \A t \in P : rank[t] < Cardinality(P)
                 /\ \A t, u \in P : R!Earlier(ts, u, t) => rank[u] < rank[t]
<1>1. DOMAIN ts = 1 .. Len(ts) /\ Len(ts) \in Nat
  OBVIOUS
<1>2. IsFiniteSet(1 .. Len(ts)) /\ Cardinality(1 .. Len(ts)) = Len(ts)
  <2>1. IsFiniteSet(1 .. Len(ts)) /\ Cardinality(1 .. Len(ts)) = IF 1 > Len(ts) THEN 0 ELSE Len(ts) - 1 + 1
    BY <1>1, FS_Interval
  <2> QED BY <1>1, <2>1
<1>3. IsFiniteSet(P) /\ Cardinality(P) \in Nat /\ Cardinality(P) <= Len(ts)
  BY <1>1, <1>2, FS_Subset, FS_CardinalityType
<1> DEFINE Before(t) == { u \in P : R!Earlier(ts, u, t) }
           rank == [t \in P |-> Cardinality(Before(t))]
<1>4. ASSUME NEW t \in P PROVE /\ Before(t) \subseteq P /\ t \notin Before(t) /\ IsFiniteSet(Before(t))
                               /\ Cardinality(Before(t)) \in Nat /\ Cardinality(Before(t)) < Cardinality(P)
  <2>1. Before(t) \subseteq P /\ t \notin Before(t)
    BY EarlierOrders
  <2>2. Before(t) # P
    BY <2>1
  <2> HIDE DEF Before
  <2>3. IsFiniteSet(Before(t)) /\ Cardinality(Before(t)) <= Cardinality(P) /\ Cardinality(Before(t)) # Cardinality(P)
    BY <1>3, <2>1, <2>2, FS_Subset
  <2> QED BY <1>3, <2>1, <2>3, FS_CardinalityType
<1>5. ASSUME NEW t \in P, NEW u \in P, R!Earlier(ts, u, t) PROVE Cardinality(Before(u)) < Cardinality(Before(t))
  <2>1. Before(u) \subseteq Before(t)
    BY <1>5, EarlierOrders
  <2>2. u \in Before(t) /\ u \notin Before(u)
    BY <1>5, EarlierOrders
  <2>3. IsFiniteSet(Before(t)) /\ Cardinality(Before(t)) \in Nat /\ Cardinality(Before(u)) \in Nat
    BY <1>4
  <2> HIDE DEF Before
  <2>4. Cardinality(Before(u)) <= Cardinality(Before(t)) /\ Cardinality(Before(u)) # Cardinality(Before(t))
    BY <2>1, <2>2, <2>3, FS_Subset
  <2> QED BY <2>3, <2>4
<1>6. rank \in [P -> Nat] /\ (\A t \in P : rank[t] < Cardinality(P))
      /\ \A t, u \in P : R!Earlier(ts, u, t) => rank[u] < rank[t]
  BY <1>4, <1>5
<1> HIDE DEF rank
<1> QED BY <1>3, <1>6

----------------------------------------------------------------------------
(* The streak that ends with an instance, as StreakTo computes it.         *)
Just(ts, P, t) ==
    { u \in P : R!Earlier(ts, u, t) /\ \A v \in P : ~(R!Earlier(ts, u, v) /\ R!Earlier(ts, v, t)) }

Linked(rt0, ts, P, t) == \E u \in Just(ts, P, t) : ts[u].done /\ R!Adjacent(rt0, ts[u].date, ts[t].date)

Counted(rt0, ts, P, f, t) ==
    IF ~ts[t].done THEN 0
    ELSE IF Linked(rt0, ts, P, t) THEN f[CHOOSE u \in Just(ts, P, t) : TRUE] + 1 ELSE 1

IsStreak(rt0, ts, P, f) == f \in [P -> Nat] /\ \A t \in P : f[t] = Counted(rt0, ts, P, f, t)

LEMMA StreakToExists ==
    ASSUME NEW ts \in Seq(R!Instances), NEW P, P \subseteq DOMAIN ts, NEW rt0
    PROVE  IsStreak(rt0, ts, P, R!StreakTo(rt0, ts, P))
<1> DEFINE prev(t) == { u \in P : R!Earlier(ts, u, t)
                          /\ \A v \in P : ~(R!Earlier(ts, u, v) /\ R!Earlier(ts, v, t)) }
           Sol(f) == f = [t \in P |->
                            IF ~ts[t].done THEN 0
                            ELSE IF \E u \in prev(t) : ts[u].done /\ R!Adjacent(rt0, ts[u].date, ts[t].date)
                                 THEN f[CHOOSE u \in prev(t) : TRUE] + 1 ELSE 1]
           fix == CHOOSE f : Sol(f)
           g == [f \in [P -> Nat] |-> [t \in P |-> Counted(rt0, ts, P, f, t)]]
<1>1. R!StreakTo(rt0, ts, P) = fix
  BY DEF R!StreakTo
<1>2. ASSUME NEW t \in P, Linked(rt0, ts, P, t)
      PROVE  (CHOOSE u \in Just(ts, P, t) : TRUE) \in Just(ts, P, t)
  BY <1>2 DEF Linked
<1>3. g \in [[P -> Nat] -> [P -> Nat]]
  <2>1. ASSUME NEW f \in [P -> Nat], NEW t \in P PROVE Counted(rt0, ts, P, f, t) \in Nat
    <3>1. CASE Linked(rt0, ts, P, t)
      <4>1. (CHOOSE u \in Just(ts, P, t) : TRUE) \in P
        BY <1>2, <3>1 DEF Just
      <4> QED BY <3>1, <4>1 DEF Counted
    <3>2. CASE ~Linked(rt0, ts, P, t)
      BY <3>2 DEF Counted
    <3> QED BY <3>1, <3>2
  <2> QED BY <2>1
<1>4. PICK rank \in [P -> Nat] : /\ \A t \in P : rank[t] < Cardinality(P)
                                 /\ \A t, u \in P : R!Earlier(ts, u, t) => rank[u] < rank[t]
  BY RanksExist
<1>5. Local(g, P, rank)
  <2>1. ASSUME NEW f1 \in [P -> Nat], NEW f2 \in [P -> Nat], NEW t \in P,
               \A u \in P : rank[u] < rank[t] => f1[u] = f2[u]
        PROVE  g[f1][t] = g[f2][t]
    <3>1. CASE Linked(rt0, ts, P, t)
      <4>1. PICK u : u = CHOOSE w \in Just(ts, P, t) : TRUE
        OBVIOUS
      <4>2. u \in P /\ R!Earlier(ts, u, t)
        BY <1>2, <3>1, <4>1 DEF Just
      <4>3. f1[u] = f2[u]
        BY <1>4, <2>1, <4>2
      <4>4. Counted(rt0, ts, P, f1, t) = Counted(rt0, ts, P, f2, t)
        BY <4>1, <4>3 DEF Counted
      <4> QED BY <4>4
    <3>2. CASE ~Linked(rt0, ts, P, t)
      <4>1. Counted(rt0, ts, P, f1, t) = Counted(rt0, ts, P, f2, t)
        BY <3>2 DEF Counted
      <4> QED BY <4>1
    <3> QED BY <3>1, <3>2
  <2> HIDE DEF g
  <2> QED BY <2>1 DEF Local
<1>6. PICK h \in [P -> Nat] : h = g[h]
  <2>1. Cardinality(P) \in Nat
    BY RanksExist
  <2> HIDE DEF g
  <2> QED BY <1>3, <1>4, <1>5, <2>1, FixedPoint, ZenonT(60)
<1>7. Sol(h)
  <2>1. h = [t \in P |-> Counted(rt0, ts, P, h, t)]
    BY <1>6
  <2> HIDE DEF g
  <2> QED BY <2>1 DEF Counted, Linked, Just
<1>8. Sol(fix)
  <2> HIDE DEF Sol
  <2> QED BY <1>7
(* Any solution has these values.                                          *)
<1>9. \A t \in P : fix[t] = Counted(rt0, ts, P, fix, t)
  <2> HIDE DEF fix
  <2> QED BY <1>8 DEF Counted, Linked, Just
<1>10. DOMAIN fix = P
  <2> HIDE DEF fix
  <2> QED BY <1>8
<1> HIDE DEF fix, Sol, g
<1>11. ASSUME NEW t \in P PROVE fix[t] \in Nat
  <2> DEFINE Bad == { rank[u] : u \in { w \in P : fix[w] \notin Nat } }
  <2> SUFFICES ASSUME fix[t] \notin Nat PROVE FALSE
    OBVIOUS
  <2>1. Bad \subseteq Nat /\ Bad # {}
    OBVIOUS
  <2>2. PICK m \in Bad : \A k \in Bad : m <= k
    <3> HIDE DEF Bad
    <3> QED BY <2>1, LeastNumber
  <2>3. PICK w \in P : rank[w] = m /\ fix[w] \notin Nat
    BY <2>2
  <2>4. CASE Linked(rt0, ts, P, w)
    <3>1. PICK u : u = CHOOSE x \in Just(ts, P, w) : TRUE
      OBVIOUS
    <3>2. u \in P /\ R!Earlier(ts, u, w)
      BY <1>2, <2>4, <3>1 DEF Just
    <3>3. rank[u] < rank[w]
      BY <1>4, <3>2
    <3>4. fix[u] \in Nat
      <4>1. ~(m <= rank[u]) /\ (fix[u] \notin Nat => rank[u] \in Bad)
        BY <2>3, <3>2, <3>3
      <4> HIDE DEF Bad
      <4> QED BY <2>2, <4>1
    <3>5. Counted(rt0, ts, P, fix, w) \in Nat
      BY <3>1, <3>4 DEF Counted
    <3> QED BY <1>9, <2>3, <3>5
  <2>5. CASE ~Linked(rt0, ts, P, w)
    <3>1. Counted(rt0, ts, P, fix, w) \in Nat
      BY <2>5 DEF Counted
    <3> QED BY <1>9, <2>3, <3>1
  <2> QED BY <2>4, <2>5
<1>12. fix \in [P -> Nat]
  <2>1. \A f : Sol(f) => f = [t \in P |-> f[t]]
    BY DEF Sol
  <2>2. fix = [t \in P |-> fix[t]]
    BY <1>8, <2>1
  <2> QED BY <1>11, <2>2
<1> QED BY <1>1, <1>9, <1>12 DEF IsStreak

(* A streak is no longer than there are instances.                         *)
LEMMA StreakBounded ==
    ASSUME NEW ts \in Seq(R!Instances), NEW P, P \subseteq DOMAIN ts, NEW rt0, NEW f, IsStreak(rt0, ts, P, f)
    PROVE  \A t \in P : f[t] \in 0 .. Cardinality(P)
<1>1. PICK rank \in [P -> Nat] : /\ \A t \in P : rank[t] < Cardinality(P)
                                 /\ \A t, u \in P : R!Earlier(ts, u, t) => rank[u] < rank[t]
  BY RanksExist
<1>2. f \in [P -> Nat] /\ \A t \in P : f[t] = Counted(rt0, ts, P, f, t)
  BY DEF IsStreak
<1>3. ASSUME NEW t \in P PROVE f[t] <= rank[t] + 1
  <2> DEFINE Bad == { rank[u] : u \in { w \in P : ~(f[w] <= rank[w] + 1) } }
  <2> SUFFICES ASSUME ~(f[t] <= rank[t] + 1) PROVE FALSE
    OBVIOUS
  <2>1. Bad \subseteq Nat /\ Bad # {}
    OBVIOUS
  <2>2. PICK m \in Bad : \A k \in Bad : m <= k
    <3> HIDE DEF Bad
    <3> QED BY <2>1, LeastNumber
  <2>3. PICK w \in P : rank[w] = m /\ ~(f[w] <= rank[w] + 1)
    BY <2>2
  <2>4. CASE Linked(rt0, ts, P, w)
    <3>1. PICK u : u = CHOOSE x \in Just(ts, P, w) : TRUE
      OBVIOUS
    <3>2. u \in P /\ R!Earlier(ts, u, w)
      BY <2>4, <3>1 DEF Just, Linked
    <3>3. rank[u] < rank[w]
      BY <1>1, <3>2
    <3>4. f[u] <= rank[u] + 1
      <4>1. ~(m <= rank[u]) /\ (~(f[u] <= rank[u] + 1) => rank[u] \in Bad)
        BY <2>3, <3>2, <3>3
      <4> HIDE DEF Bad
      <4> QED BY <2>2, <4>1
    <3>5. f[w] = 0 \/ f[w] = f[u] + 1
      BY <1>2, <2>4, <3>1 DEF Counted
    <3> HIDE DEF Bad
    <3>6. f[u] \in Nat /\ rank[u] \in Nat /\ rank[w] \in Nat
      BY <1>2, <3>2
    <3> QED BY <2>3, <3>3, <3>4, <3>5, <3>6
  <2>5. CASE ~Linked(rt0, ts, P, w)
    <3>1. f[w] = 0 \/ f[w] = 1
      BY <1>2, <2>5 DEF Counted
    <3> QED BY <2>3, <3>1
  <2> QED BY <2>4, <2>5
<1>4. Cardinality(P) \in Nat
  BY RanksExist
<1> QED BY <1>1, <1>2, <1>3, <1>4

----------------------------------------------------------------------------
(* Unbroken runs, as StreaksAreRuns means them, over any instances P.      *)
Distinct(ts, P)     == \A t, u \in P : ts[t].date = ts[u].date => t = u
DatesOf(ts, P)      == { ts[t].date : t \in P }
Window(ts, P, a, b) == { t \in P : a <= ts[t].date /\ ts[t].date <= b }
RunFrom(rt0, ts, P, a, b) ==
    /\ a \in R!Days /\ b \in R!Days /\ a <= b /\ a \in DatesOf(ts, P) /\ b \in DatesOf(ts, P)
    /\ \A t \in Window(ts, P, a, b) : ts[t].done
    /\ { n \in a + 1 .. b : n \in R!Occurrences[rt0] } = DatesOf(ts, Window(ts, P, a, b)) \ {a}

(* The streak to t is the longest run that ends on its date.               *)
Longest(rt0, ts, P, f, t) ==
    /\ \A a \in Nat : RunFrom(rt0, ts, P, a, ts[t].date)
                        => Cardinality(Window(ts, P, a, ts[t].date)) <= f[t]
    /\ f[t] # 0 => \E a \in Nat : /\ RunFrom(rt0, ts, P, a, ts[t].date)
                                  /\ Cardinality(Window(ts, P, a, ts[t].date)) = f[t]

Instanced(ts, P) == P \subseteq DOMAIN ts /\ Distinct(ts, P) /\ \A t \in P : ts[t].date \in R!Days

LEMMA DatesAreNumbers ==
    ASSUME NEW ts, NEW P, Instanced(ts, P)
    PROVE  \A t \in P : ts[t].date \in Nat
<1> SUFFICES ASSUME NEW t \in P PROVE ts[t].date \in Nat
  OBVIOUS
<1>1. PICK d : d = ts[t].date
  OBVIOUS
<1>2. d \in R!Days
  BY <1>1 DEF Instanced
<1>3. d \in Nat
  BY <1>2, SeriesAssumption DEF R!Days
<1> QED BY <1>1, <1>3

(* Among instances of different dates the one before is the one of the     *)
(* latest date before.                                                     *)
LEMMA JustBefore ==
    ASSUME NEW ts \in Seq(R!Instances), NEW P, Instanced(ts, P), NEW t \in P
    PROVE  /\ \A u \in Just(ts, P, t) : /\ u \in P /\ ts[u].date < ts[t].date
                                        /\ \A v \in P : ts[v].date < ts[t].date => ts[v].date <= ts[u].date
           /\ \A u, v \in Just(ts, P, t) : u = v
           /\ (\E v \in P : ts[v].date < ts[t].date) => \E u \in P : u \in Just(ts, P, t)
<1>1. \A u, v \in P : R!Earlier(ts, u, v) <=> ts[u].date < ts[v].date
  <2> SUFFICES ASSUME NEW u \in P, NEW v \in P PROVE R!Earlier(ts, u, v) <=> ts[u].date < ts[v].date
    OBVIOUS
  <2>1. ts[u].date \in Nat /\ ts[v].date \in Nat
    BY DatesAreNumbers
  <2>2. CASE u = v
    <3>1. u \in Nat
      BY DEF Instanced
    <3>2. u \in P /\ ~(ts[u].date < ts[v].date)
      BY <2>1, <2>2
    <3> QED BY <2>1, <2>2, <3>1, <3>2 DEF R!Earlier
  <2>3. CASE u # v
    <3>1. ts[u].date # ts[v].date
      BY <2>3 DEF Instanced, Distinct
    <3> QED BY <2>1, <3>1 DEF R!Earlier
  <2> QED BY <2>2, <2>3
<1>2. ASSUME NEW u \in Just(ts, P, t)
      PROVE  /\ u \in P /\ ts[u].date < ts[t].date
             /\ \A v \in P : ts[v].date < ts[t].date => ts[v].date <= ts[u].date
  <2>1. u \in P /\ ts[u].date < ts[t].date
    BY <1>1 DEF Just
  <2>2. ASSUME NEW v \in P, ts[v].date < ts[t].date PROVE ts[v].date <= ts[u].date
    <3>1. ~(ts[u].date < ts[v].date)
      BY <1>1, <2>1, <2>2 DEF Just
    <3>2. ts[u].date \in Nat /\ ts[v].date \in Nat
      BY <2>1, DatesAreNumbers
    <3> QED BY <3>1, <3>2
  <2> QED BY <2>1, <2>2
<1>3. ASSUME NEW u \in Just(ts, P, t), NEW v \in Just(ts, P, t) PROVE u = v
  <2>1. u \in P /\ v \in P /\ ts[u].date <= ts[v].date /\ ts[v].date <= ts[u].date
    BY <1>2
  <2>2. ts[u].date \in Nat /\ ts[v].date \in Nat
    BY <2>1, DatesAreNumbers
  <2>3. ts[u].date = ts[v].date
    BY <2>1, <2>2
  <2> QED BY <2>1, <2>3 DEF Instanced, Distinct
<1>4. ASSUME NEW w \in P, ts[w].date < ts[t].date PROVE \E u \in P : u \in Just(ts, P, t)
  <2> DEFINE E == { v \in P : ts[v].date < ts[t].date }
             Gaps == { ts[t].date - ts[v].date : v \in E }
  <2>1. Gaps \subseteq Nat /\ Gaps # {}
    <3>1. \A v \in E : ts[t].date - ts[v].date \in Nat
      <4> SUFFICES ASSUME NEW v \in E PROVE ts[t].date - ts[v].date \in Nat
        OBVIOUS
      <4>1. ts[t].date \in Nat /\ ts[v].date \in Nat /\ ts[v].date < ts[t].date
        BY DatesAreNumbers
      <4> QED BY <4>1
    <3>2. w \in E
      BY <1>4
    <3> HIDE DEF E
    <3> QED BY <3>1, <3>2
  <2>2. PICK m \in Gaps : \A k \in Gaps : m <= k
    <3> HIDE DEF Gaps
    <3> QED BY <2>1, LeastNumber
  <2>3. PICK u \in E : m = ts[t].date - ts[u].date
    BY <2>2
  <2>4. ASSUME NEW v \in P, ts[u].date < ts[v].date, ts[v].date < ts[t].date PROVE FALSE
    <3>1. v \in E
      BY <2>4
    <3>2. ts[t].date - ts[v].date \in Gaps
      <4> HIDE DEF E
      <4> QED BY <3>1
    <3>3. ts[t].date - ts[u].date <= ts[t].date - ts[v].date
      <4> HIDE DEF Gaps
      <4> QED BY <2>2, <2>3, <3>2
    <3>4. ts[t].date \in Nat /\ ts[v].date \in Nat /\ ts[u].date \in Nat
      BY DatesAreNumbers
    <3> HIDE DEF Gaps, E
    <3> QED BY <2>4, <3>3, <3>4
  <2>5. u \in P /\ ts[u].date < ts[t].date
    BY <2>3
  <2> HIDE DEF Gaps, E
  <2>6. u \in Just(ts, P, t)
    <3>1. R!Earlier(ts, u, t)
      BY <1>1, <2>5
    <3>2. \A v \in P : ~(R!Earlier(ts, u, v) /\ R!Earlier(ts, v, t))
      BY <1>1, <2>4, <2>5
    <3> QED BY <2>5, <3>1, <3>2 DEF Just
  <2> QED BY <2>5, <2>6
<1> QED BY <1>2, <1>3, <1>4

----------------------------------------------------------------------------
(* A run that goes on, and one cut short.                                  *)
LEMMA WindowsAreFinite ==
    ASSUME NEW ts \in Seq(R!Instances), NEW P, P \subseteq DOMAIN ts, NEW a, NEW b
    PROVE  /\ IsFiniteSet(Window(ts, P, a, b)) /\ Cardinality(Window(ts, P, a, b)) \in Nat
           /\ Cardinality(Window(ts, P, a, b)) <= Cardinality(P)
<1>1. IsFiniteSet(P) /\ Window(ts, P, a, b) \subseteq P
  BY RanksExist DEF Window
<1> QED BY <1>1, FS_Subset, FS_CardinalityType

(* A run that ends on the date of u goes on to the date of t, the next     *)
(* after it, if t is done and the schedule has t and nothing in between.   *)
LEMMA RunGoesOn ==
    ASSUME NEW ts \in Seq(R!Instances), NEW P, Instanced(ts, P), NEW rt0 \in R!Templates,
           NEW t \in P, ts[t].done, NEW u \in Just(ts, P, t), R!Adjacent(rt0, ts[u].date, ts[t].date),
           NEW a \in Nat, RunFrom(rt0, ts, P, a, ts[u].date)
    PROVE  /\ RunFrom(rt0, ts, P, a, ts[t].date)
           /\ Cardinality(Window(ts, P, a, ts[t].date)) = Cardinality(Window(ts, P, a, ts[u].date)) + 1
<1>1. PICK d : d = ts[t].date
  OBVIOUS
<1>2. PICK e : e = ts[u].date
  OBVIOUS
<1>3. /\ u \in P /\ e < d /\ d \in Nat /\ e \in Nat /\ d \in R!Days /\ a <= e
      /\ \A v \in P : ts[v].date \in Nat /\ (ts[v].date < d => ts[v].date <= e)
  <2>1. u \in P /\ e < d /\ \A v \in P : ts[v].date < d => ts[v].date <= e
    BY <1>1, <1>2, JustBefore
  <2>2. d \in Nat /\ e \in Nat /\ \A v \in P : ts[v].date \in Nat
    BY <1>1, <1>2, <2>1, DatesAreNumbers
  <2>3. d \in R!Days
    BY <1>1 DEF Instanced
  <2>4. a <= e
    BY <1>2 DEF RunFrom
  <2> QED BY <2>1, <2>2, <2>3, <2>4
<1>4. PICK W : W = Window(ts, P, a, e)
  OBVIOUS
<1>5. Window(ts, P, a, d) = W \union {t} /\ t \notin W
  <2>1. ASSUME NEW v \in P PROVE (a <= ts[v].date /\ ts[v].date <= d) <=> (a <= ts[v].date /\ ts[v].date <= e) \/ v = t
    <3>1. ts[v].date \in Nat /\ (ts[v].date < d => ts[v].date <= e)
      BY <1>3
    <3>2. ts[v].date = d => v = t
      BY <1>1 DEF Instanced, Distinct
    <3>3. v = t => ts[v].date = d
      BY <1>1
    <3> QED BY <1>3, <3>1, <3>2, <3>3
  <2>2. ~(ts[t].date <= e)
    BY <1>1, <1>3
  <2> QED BY <1>4, <2>1, <2>2 DEF Window
<1>6. /\ a \in R!Days /\ a \in DatesOf(ts, P) /\ \A v \in W : ts[v].done
      /\ { n \in a + 1 .. e : n \in R!Occurrences[rt0] } = DatesOf(ts, W) \ {a}
  BY <1>2, <1>4 DEF RunFrom
<1>7. { n \in a + 1 .. d : n \in R!Occurrences[rt0] } = { n \in a + 1 .. e : n \in R!Occurrences[rt0] } \union {d}
  <2>1. d \in R!Occurrences[rt0] /\ \A n \in R!Occurrences[rt0] : ~(e < n /\ n < d)
    BY <1>1, <1>2 DEF R!Adjacent
  <2>2. \A n \in a + 1 .. d : n \in a + 1 .. e \/ (e < n /\ n < d) \/ n = d
    BY <1>3
  <2>3. d \in a + 1 .. d /\ a + 1 .. e \subseteq a + 1 .. d
    BY <1>3
  <2> QED BY <2>1, <2>2, <2>3
<1>8. DatesOf(ts, W \union {t}) \ {a} = (DatesOf(ts, W) \ {a}) \union {d}
  <2>1. DatesOf(ts, W \union {t}) = DatesOf(ts, W) \union {d}
    BY <1>1 DEF DatesOf
  <2>2. d # a
    BY <1>3
  <2> QED BY <2>1, <2>2
<1>9. RunFrom(rt0, ts, P, a, d)
  <2>1. d \in DatesOf(ts, P) /\ a <= d
    BY <1>1, <1>3 DEF DatesOf
  <2>2. \A v \in W \union {t} : ts[v].done
    BY <1>6
  <2> QED BY <1>3, <1>5, <1>6, <1>7, <1>8, <2>1, <2>2 DEF RunFrom
<1>10. Cardinality(W \union {t}) = Cardinality(W) + 1
  <2>1. IsFiniteSet(W)
    BY <1>4, WindowsAreFinite DEF Instanced
  <2> QED BY <1>5, <2>1, FS_AddElement
<1> QED BY <1>1, <1>2, <1>4, <1>5, <1>9, <1>10

(* And a run to t that starts earlier is one to u.                         *)
LEMMA RunGoesBack ==
    ASSUME NEW ts \in Seq(R!Instances), NEW P, Instanced(ts, P), NEW rt0 \in R!Templates,
           NEW t \in P, NEW u \in Just(ts, P, t),
           NEW a \in Nat, RunFrom(rt0, ts, P, a, ts[t].date), a # ts[t].date
    PROVE  /\ RunFrom(rt0, ts, P, a, ts[u].date) /\ ts[u].done /\ R!Adjacent(rt0, ts[u].date, ts[t].date)
           /\ Cardinality(Window(ts, P, a, ts[t].date)) = Cardinality(Window(ts, P, a, ts[u].date)) + 1
<1>1. PICK d : d = ts[t].date
  OBVIOUS
<1>2. PICK e : e = ts[u].date
  OBVIOUS
<1>3. /\ u \in P /\ e < d /\ d \in Nat /\ e \in Nat /\ e \in R!Days /\ a < d
      /\ \A v \in P : ts[v].date \in Nat /\ (ts[v].date < d => ts[v].date <= e)
  <2>1. u \in P /\ e < d /\ \A v \in P : ts[v].date < d => ts[v].date <= e
    BY <1>1, <1>2, JustBefore
  <2>2. d \in Nat /\ e \in Nat /\ \A v \in P : ts[v].date \in Nat
    BY <1>1, <1>2, <2>1, DatesAreNumbers
  <2>3. e \in R!Days
    BY <1>2, <2>1 DEF Instanced
  <2>4. a <= d /\ a # d
    BY <1>1 DEF RunFrom
  <2> QED BY <2>1, <2>2, <2>3, <2>4
<1>4. PICK W : W = Window(ts, P, a, e)
  OBVIOUS
<1>5. Window(ts, P, a, d) = W \union {t} /\ t \notin W
  <2>1. ASSUME NEW v \in P PROVE (a <= ts[v].date /\ ts[v].date <= d) <=> (a <= ts[v].date /\ ts[v].date <= e) \/ v = t
    <3>1. ts[v].date \in Nat /\ (ts[v].date < d => ts[v].date <= e)
      BY <1>3
    <3>2. ts[v].date = d => v = t
      BY <1>1 DEF Instanced, Distinct
    <3>3. v = t => ts[v].date = d
      BY <1>1
    <3> QED BY <1>3, <3>1, <3>2, <3>3
  <2>2. ~(ts[t].date <= e)
    BY <1>1, <1>3
  <2> QED BY <1>4, <2>1, <2>2 DEF Window
<1>6. /\ a \in R!Days /\ a \in DatesOf(ts, P) /\ \A v \in W \union {t} : ts[v].done
      /\ { n \in a + 1 .. d : n \in R!Occurrences[rt0] } = DatesOf(ts, W \union {t}) \ {a}
  BY <1>1, <1>5 DEF RunFrom
<1>7. a <= e /\ u \in W
  <2>1. PICK v \in P : ts[v].date = a
    BY <1>6 DEF DatesOf
  <2>2. a <= e
    BY <1>3, <2>1
  <2> QED BY <1>2, <1>3, <1>4, <2>2 DEF Window
<1>8. DatesOf(ts, W \union {t}) = DatesOf(ts, W) \union {d}
  BY <1>1 DEF DatesOf
<1>9. \A n \in DatesOf(ts, W) : n \in Nat /\ a <= n /\ n <= e
  <2>1. \A v \in W : v \in P /\ a <= ts[v].date /\ ts[v].date <= e
    BY <1>4 DEF Window
  <2> QED BY <1>3, <2>1 DEF DatesOf
<1>10. { n \in a + 1 .. e : n \in R!Occurrences[rt0] } = DatesOf(ts, W) \ {a}
  <2>1. ASSUME NEW n \in a + 1 .. e, n \in R!Occurrences[rt0] PROVE n \in DatesOf(ts, W) \ {a}
    <3>1. n \in a + 1 .. d /\ n # d
      BY <1>3
    <3> QED BY <1>6, <1>8, <2>1, <3>1
  <2>2. ASSUME NEW n \in DatesOf(ts, W) \ {a} PROVE n \in a + 1 .. e /\ n \in R!Occurrences[rt0]
    <3>1. n \in R!Occurrences[rt0]
      BY <1>6, <1>8
    <3>2. n \in Nat /\ a <= n /\ n <= e /\ n # a
      BY <1>9
    <3> QED BY <1>3, <3>1, <3>2
  <2> QED BY <2>1, <2>2
<1>11. RunFrom(rt0, ts, P, a, e)
  <2>1. e \in DatesOf(ts, P)
    BY <1>2, <1>3 DEF DatesOf
  <2> QED BY <1>3, <1>4, <1>6, <1>7, <1>10, <2>1 DEF RunFrom
<1>12. R!Adjacent(rt0, e, d)
  <2>1. d \in R!Occurrences[rt0]
    <3>1. d \in DatesOf(ts, W \union {t}) \ {a}
      <4>1. d # a
        BY <1>3
      <4> QED BY <1>8, <4>1
    <3> QED BY <1>6, <3>1
  <2>2. ASSUME NEW n \in R!Occurrences[rt0], e < n, n < d PROVE FALSE
    <3>1. n \in Nat
      <4>1. n \in R!Days
        BY TemplateFits
      <4> QED BY <4>1, SeriesAssumption DEF R!Days
    <3>2. n \in a + 1 .. d
      BY <1>3, <1>7, <2>2, <3>1
    <3>3. n \in DatesOf(ts, W)
      <4>1. n \in DatesOf(ts, W \union {t})
        BY <1>6, <2>2, <3>2
      <4>2. n # d
        BY <1>3, <2>2, <3>1
      <4> QED BY <1>8, <4>1, <4>2
    <3> QED BY <1>3, <1>9, <2>2, <3>1, <3>3
  <2> QED BY <1>3, <2>1, <2>2 DEF R!Adjacent
<1>13. Cardinality(W \union {t}) = Cardinality(W) + 1
  <2>1. IsFiniteSet(W)
    BY <1>4, WindowsAreFinite DEF Instanced
  <2> QED BY <1>5, <2>1, FS_AddElement
<1> QED BY <1>1, <1>2, <1>4, <1>5, <1>6, <1>7, <1>11, <1>12, <1>13

(* A done instance alone is a run.                                         *)
LEMMA RunOfOne ==
    ASSUME NEW ts \in Seq(R!Instances), NEW P, Instanced(ts, P), NEW rt0, NEW t \in P
    PROVE  /\ Window(ts, P, ts[t].date, ts[t].date) = {t}
           /\ Cardinality(Window(ts, P, ts[t].date, ts[t].date)) = 1
           /\ ts[t].done => RunFrom(rt0, ts, P, ts[t].date, ts[t].date)
<1>1. PICK d : d = ts[t].date
  OBVIOUS
<1>2. d \in Nat /\ d \in R!Days /\ \A v \in P : ts[v].date \in Nat
  BY <1>1, DatesAreNumbers DEF Instanced
<1>3. Window(ts, P, d, d) = {t}
  <2>1. \A v \in P : ts[v].date = d => v = t
    BY <1>1 DEF Instanced, Distinct
  <2>2. \A v \in P : d <= ts[v].date /\ ts[v].date <= d => ts[v].date = d
    BY <1>2
  <2> QED BY <1>1, <1>2, <2>1, <2>2 DEF Window
<1>4. Cardinality({t}) = 1
  BY FS_Singleton
<1>5. ASSUME ts[t].done PROVE RunFrom(rt0, ts, P, d, d)
  <2>1. DatesOf(ts, {t}) = {d} /\ d \in DatesOf(ts, P)
    BY <1>1 DEF DatesOf
  <2>2. { n \in d + 1 .. d : n \in R!Occurrences[rt0] } = {}
    BY <1>2
  <2>3. { n \in d + 1 .. d : n \in R!Occurrences[rt0] } = DatesOf(ts, {t}) \ {d}
    BY <2>1, <2>2
  <2>4. d <= d /\ \A v \in {t} : ts[v].done
    BY <1>2, <1>5
  <2> QED BY <1>2, <1>3, <2>1, <2>3, <2>4 DEF RunFrom
<1> QED BY <1>1, <1>3, <1>4, <1>5

----------------------------------------------------------------------------
(* What StreakTo counts is the longest run, for every instance.            *)
LEMMA StreaksAreLongest ==
    ASSUME NEW ts \in Seq(R!Instances), NEW P, Instanced(ts, P), NEW rt0 \in R!Templates,
           NEW f, IsStreak(rt0, ts, P, f)
    PROVE  \A t \in P : Longest(rt0, ts, P, f, t)
<1>1. /\ f \in [P -> Nat] /\ P \subseteq DOMAIN ts
      /\ \A t \in P : ts[t].date \in Nat /\ f[t] = Counted(rt0, ts, P, f, t)
  BY DatesAreNumbers DEF IsStreak, Instanced
<1>2. ASSUME NEW t \in P, \A u \in P : ts[u].date < ts[t].date => Longest(rt0, ts, P, f, u)
      PROVE  Longest(rt0, ts, P, f, t)
  <2>1. CASE ~ts[t].done
    <3>1. f[t] = 0
      BY <1>1, <2>1 DEF Counted
    <3>2. ASSUME NEW a \in Nat, RunFrom(rt0, ts, P, a, ts[t].date) PROVE FALSE
      <4>1. t \in Window(ts, P, a, ts[t].date)
        BY <1>1, <3>2 DEF RunFrom, Window
      <4> QED BY <2>1, <3>2, <4>1 DEF RunFrom
    <3> QED BY <3>1, <3>2 DEF Longest
  <2>2. CASE ts[t].done /\ Linked(rt0, ts, P, t)
    <3>1. PICK u \in Just(ts, P, t) : ts[u].done /\ R!Adjacent(rt0, ts[u].date, ts[t].date)
      BY <2>2 DEF Linked
    <3>2. u \in P /\ Longest(rt0, ts, P, f, u)
      BY <1>2, <3>1, JustBefore
    <3>3. f[t] = f[u] + 1 /\ f[u] \in Nat
      <4>1. (CHOOSE w \in Just(ts, P, t) : TRUE) = u
        <5>1. \A w \in Just(ts, P, t) : w = u
          BY <3>1, JustBefore
        <5> QED BY <3>1, <5>1
      <4> QED BY <1>1, <2>2, <3>2, <4>1 DEF Counted
    <3>4. ASSUME NEW a \in Nat, RunFrom(rt0, ts, P, a, ts[t].date)
          PROVE  Cardinality(Window(ts, P, a, ts[t].date)) <= f[t]
      <4>1. CASE a = ts[t].date
        <5>1. Cardinality(Window(ts, P, a, ts[t].date)) = 1
          BY <4>1, RunOfOne
        <5> QED BY <3>3, <5>1
      <4>2. CASE a # ts[t].date
        <5>1. /\ RunFrom(rt0, ts, P, a, ts[u].date)
              /\ Cardinality(Window(ts, P, a, ts[t].date)) = Cardinality(Window(ts, P, a, ts[u].date)) + 1
          BY <3>1, <3>4, <4>2, RunGoesBack
        <5>2. Cardinality(Window(ts, P, a, ts[u].date)) <= f[u]
          BY <3>2, <5>1 DEF Longest
        <5>3. Cardinality(Window(ts, P, a, ts[u].date)) \in Nat
          BY <1>1, WindowsAreFinite
        <5> QED BY <3>3, <5>1, <5>2, <5>3
      <4> QED BY <4>1, <4>2
    <3>5. \E a \in Nat : /\ RunFrom(rt0, ts, P, a, ts[t].date)
                         /\ Cardinality(Window(ts, P, a, ts[t].date)) = f[t]
      <4>1. f[u] # 0
        <5>1. CASE Linked(rt0, ts, P, u)
          <6>1. PICK w : w = CHOOSE v \in Just(ts, P, u) : TRUE
            OBVIOUS
          <6>2. w \in P
            BY <5>1, <6>1 DEF Linked, Just
          <6>3. f[u] = f[w] + 1 /\ f[w] \in Nat
            BY <1>1, <3>1, <3>2, <5>1, <6>1, <6>2 DEF Counted
          <6>4. f[u] # 0
            <7>1. PICK i \in Nat : i = f[w]
              BY <6>3
            <7> QED BY <6>3, <7>1
          <6> QED BY <6>4
        <5>2. CASE ~Linked(rt0, ts, P, u)
          <6>1. f[u] = 1
            BY <1>1, <3>1, <3>2, <5>2 DEF Counted
          <6> QED BY <6>1
        <5> QED BY <5>1, <5>2
      <4>2. PICK a \in Nat : RunFrom(rt0, ts, P, a, ts[u].date) /\ Cardinality(Window(ts, P, a, ts[u].date)) = f[u]
        BY <3>2, <4>1 DEF Longest
      <4>3. /\ RunFrom(rt0, ts, P, a, ts[t].date)
            /\ Cardinality(Window(ts, P, a, ts[t].date)) = Cardinality(Window(ts, P, a, ts[u].date)) + 1
        BY <2>2, <3>1, <4>2, RunGoesOn
      <4> QED BY <3>3, <4>2, <4>3
    <3> QED BY <3>4, <3>5 DEF Longest
  <2>3. CASE ts[t].done /\ ~Linked(rt0, ts, P, t)
    <3>1. f[t] = 1
      BY <1>1, <2>3 DEF Counted
    <3>2. ASSUME NEW a \in Nat, RunFrom(rt0, ts, P, a, ts[t].date) PROVE a = ts[t].date
      <4> SUFFICES ASSUME a # ts[t].date PROVE FALSE
        OBVIOUS
      <4>1. PICK v \in P : ts[v].date = a
        BY <3>2 DEF RunFrom, DatesOf
      <4>2. ts[v].date < ts[t].date
        <5>1. a <= ts[t].date
          BY <3>2 DEF RunFrom
        <5> QED BY <1>1, <4>1, <5>1
      <4>3. PICK u \in P : u \in Just(ts, P, t)
        BY <4>2, JustBefore
      <4>4. ts[u].done /\ R!Adjacent(rt0, ts[u].date, ts[t].date)
        BY <3>2, <4>3, RunGoesBack
      <4> QED BY <2>3, <4>3, <4>4 DEF Linked
    <3>3. /\ RunFrom(rt0, ts, P, ts[t].date, ts[t].date)
          /\ Cardinality(Window(ts, P, ts[t].date, ts[t].date)) = 1
      BY <2>3, RunOfOne
    <3>4. ts[t].date \in Nat
      BY <1>1
    <3> QED BY <3>1, <3>2, <3>3, <3>4 DEF Longest
  <2> QED BY <2>1, <2>2, <2>3
<1>3. SUFFICES ASSUME NEW t \in P, ~Longest(rt0, ts, P, f, t) PROVE FALSE
  OBVIOUS
<1> DEFINE Bad == { ts[u].date : u \in { w \in P : ~Longest(rt0, ts, P, f, w) } }
<1>4. Bad \subseteq Nat /\ Bad # {}
  BY <1>1, <1>3
<1>5. PICK m \in Bad : \A k \in Bad : m <= k
  <2> HIDE DEF Bad
  <2> QED BY <1>4, LeastNumber
<1>6. PICK w \in P : ts[w].date = m /\ ~Longest(rt0, ts, P, f, w)
  BY <1>5
<1>7. ASSUME NEW u \in P, ts[u].date < ts[w].date PROVE Longest(rt0, ts, P, f, u)
  <2>1. ~Longest(rt0, ts, P, f, u) => ts[u].date \in Bad
    OBVIOUS
  <2> HIDE DEF Bad
  <2>2. ~(m <= ts[u].date)
    BY <1>1, <1>6, <1>7
  <2> QED BY <1>5, <2>1, <2>2
<1> QED BY <1>2, <1>6, <1>7

----------------------------------------------------------------------------
(* The statistics of a template.                                           *)
DueOf(ts, s) == { t \in R!InstancesOf(ts, s) : ts[t].date <= today }

LatestOf(ts, P) == { t \in P : \A u \in P : u = t \/ R!Earlier(ts, u, t) }

LEMMA LatestExists ==
    ASSUME NEW ts \in Seq(R!Instances), NEW P, P \subseteq DOMAIN ts, P # {}
    PROVE  (CHOOSE t \in LatestOf(ts, P) : TRUE) \in LatestOf(ts, P)
<1>1. PICK rank \in [P -> Nat] : /\ \A t \in P : rank[t] < Cardinality(P)
                                 /\ \A t, u \in P : R!Earlier(ts, u, t) => rank[u] < rank[t]
  BY RanksExist
<1>2. PICK N : N = Cardinality(P)
  OBVIOUS
<1>3. N \in Nat /\ \A t \in P : rank[t] \in Nat /\ rank[t] < N
  BY <1>1, <1>2, RanksExist
<1> DEFINE Gaps == { N - rank[t] : t \in P }
<1>4. Gaps \subseteq Nat /\ Gaps # {}
  <2>1. \A t \in P : N - rank[t] \in Nat
    BY <1>3
  <2> QED BY <2>1
<1>5. PICK m \in Gaps : \A k \in Gaps : m <= k
  <2> HIDE DEF Gaps
  <2> QED BY <1>4, LeastNumber
<1>6. PICK t \in P : m = N - rank[t]
  BY <1>5
<1>7. ASSUME NEW u \in P, u # t PROVE R!Earlier(ts, u, t)
  <2> SUFFICES ASSUME R!Earlier(ts, t, u) PROVE FALSE
    BY <1>7, EarlierOrders
  <2>1. rank[t] < rank[u]
    BY <1>1
  <2>2. N - rank[t] <= N - rank[u]
    <3>1. N - rank[u] \in Gaps
      OBVIOUS
    <3> HIDE DEF Gaps
    <3> QED BY <1>5, <1>6, <3>1
  <2> QED BY <1>3, <2>1, <2>2
<1> HIDE DEF Gaps
<1>8. t \in LatestOf(ts, P)
  BY <1>7 DEF LatestOf
<1> QED BY <1>8

----------------------------------------------------------------------------
(* The lengths of runs, of all of them and of those that end on a day.     *)
RunsIn(rt0, ts, P)       == { r \in R!Days \X R!Days : RunFrom(rt0, ts, P, r[1], r[2]) }
LengthIn(ts, P, r)       == Cardinality(Window(ts, P, r[1], r[2]))
Lengths(rt0, ts, P)      == { LengthIn(ts, P, r) : r \in RunsIn(rt0, ts, P) }
LengthsTo(rt0, ts, P, n) == { LengthIn(ts, P, r) : r \in { q \in RunsIn(rt0, ts, P) : q[2] = n } }

(* The current streak is the longest run to the latest date.               *)
LEMMA CurrentIsRun ==
    ASSUME NEW ts \in Seq(R!Instances), NEW P, Instanced(ts, P), NEW rt0 \in R!Templates,
           NEW f, IsStreak(rt0, ts, P, f), NEW t \in LatestOf(ts, P)
    PROVE  f[t] = R!Largest(LengthsTo(rt0, ts, P, R!Largest(DatesOf(ts, P))))
<1>1. /\ t \in P /\ P \subseteq DOMAIN ts /\ f[t] \in Nat /\ Longest(rt0, ts, P, f, t)
      /\ \A u \in P : ts[u].date \in Nat
  BY StreaksAreLongest, DatesAreNumbers DEF LatestOf, Instanced, IsStreak
<1>2. PICK d : d = ts[t].date
  OBVIOUS
<1>3. R!Largest(DatesOf(ts, P)) = d
  <2>1. ASSUME NEW u \in P PROVE ts[u].date <= d
    <3>1. u = t \/ R!Earlier(ts, u, t)
      BY DEF LatestOf
    <3>2. ts[u].date \in Nat /\ d \in Nat
      BY <1>1, <1>2
    <3> QED BY <1>2, <3>1, <3>2 DEF R!Earlier
  <2>2. PICK D : D = DatesOf(ts, P)
    OBVIOUS
  <2>3. D \subseteq Nat /\ d \in D /\ \A k \in D : k <= d
    BY <1>1, <1>2, <2>1, <2>2 DEF DatesOf
  <2> QED BY <2>2, <2>3, LargestIs
<1>4. PICK S : S = LengthsTo(rt0, ts, P, d)
  OBVIOUS
<1>5. ASSUME NEW k \in S PROVE k \in Nat /\ k <= f[t]
  <2>1. PICK r \in RunsIn(rt0, ts, P) : r[2] = d /\ k = LengthIn(ts, P, r)
    BY <1>4 DEF LengthsTo
  <2>2. PICK a : a = r[1]
    OBVIOUS
  <2>3. RunFrom(rt0, ts, P, a, d) /\ a \in Nat /\ k = Cardinality(Window(ts, P, a, d))
    <3>1. r \in R!Days \X R!Days /\ RunFrom(rt0, ts, P, r[1], r[2])
      BY <2>1 DEF RunsIn
    <3>2. a \in R!Days
      BY <2>2, <3>1
    <3>3. a \in Nat
      BY <3>2, SeriesAssumption DEF R!Days
    <3> QED BY <2>1, <2>2, <3>1, <3>3 DEF LengthIn
  <2>4. k \in Nat
    BY <1>1, <2>3, WindowsAreFinite
  <2> QED BY <1>1, <1>2, <2>3, <2>4 DEF Longest
<1>6. f[t] # 0 => f[t] \in S
  <2> SUFFICES ASSUME f[t] # 0 PROVE f[t] \in S
    OBVIOUS
  <2>1. PICK a \in Nat : RunFrom(rt0, ts, P, a, d) /\ Cardinality(Window(ts, P, a, d)) = f[t]
    BY <1>1, <1>2 DEF Longest
  <2>2. PICK r : r = <<a, d>>
    OBVIOUS
  <2>3. r[1] = a /\ r[2] = d /\ r \in R!Days \X R!Days
    BY <2>1, <2>2 DEF RunFrom
  <2>4. r \in RunsIn(rt0, ts, P) /\ LengthIn(ts, P, r) = f[t]
    BY <2>1, <2>3 DEF RunsIn, LengthIn
  <2> QED BY <1>4, <2>3, <2>4 DEF LengthsTo
<1>7. S \subseteq Nat /\ f[t] \in S \union {0} /\ \A k \in S : k <= f[t]
  BY <1>5, <1>6
<1>8. R!Largest(S) = f[t]
  BY <1>7, LargestIs
<1> QED BY <1>3, <1>4, <1>8

LEMMA NoRunWithoutInstances ==
    ASSUME NEW ts, NEW rt0, NEW n
    PROVE  R!Largest(LengthsTo(rt0, ts, {}, n)) = 0
<1>1. LengthsTo(rt0, ts, {}, n) = {}
  BY DEF LengthsTo, RunsIn, RunFrom, DatesOf
<1> QED BY <1>1, LargestIs

(* No run is longer than a number that bounds the streaks.                 *)
LEMMA RunsAreBounded ==
    ASSUME NEW ts \in Seq(R!Instances), NEW P, Instanced(ts, P), NEW rt0 \in R!Templates,
           NEW f, IsStreak(rt0, ts, P, f), NEW L \in Nat, \A t \in P : f[t] <= L
    PROVE  L >= R!Largest(Lengths(rt0, ts, P))
<1>1. PICK S : S = Lengths(rt0, ts, P)
  OBVIOUS
<1>2. ASSUME NEW k \in S PROVE k \in 0 .. L
  <2>1. PICK r \in RunsIn(rt0, ts, P) : k = LengthIn(ts, P, r)
    BY <1>1 DEF Lengths
  <2>2. PICK a, b : a = r[1] /\ b = r[2]
    OBVIOUS
  <2>3. RunFrom(rt0, ts, P, a, b) /\ a \in Nat /\ k = Cardinality(Window(ts, P, a, b))
    <3>1. r \in R!Days \X R!Days /\ RunFrom(rt0, ts, P, r[1], r[2])
      BY <2>1 DEF RunsIn
    <3>2. a \in R!Days
      BY <2>2, <3>1
    <3>3. a \in Nat
      BY <3>2, SeriesAssumption DEF R!Days
    <3> QED BY <2>1, <2>2, <3>1, <3>3 DEF LengthIn
  <2>4. PICK t \in P : ts[t].date = b
    BY <2>3 DEF RunFrom, DatesOf
  <2>5. k <= f[t] /\ f[t] <= L /\ f[t] \in Nat
    BY <2>3, <2>4, StreaksAreLongest DEF Longest, IsStreak
  <2>6. k \in Nat
    BY <2>3, WindowsAreFinite DEF Instanced
  <2> QED BY <2>5, <2>6
<1>3. S \subseteq 0 .. L
  BY <1>2
<1>4. R!Largest(S) \in S \union {0}
  BY <1>3, LargestBounds
<1>5. R!Largest(S) \in 0 .. L
  <2>1. PICK l : l = R!Largest(S)
    OBVIOUS
  <2>2. l \in S \/ l = 0
    BY <1>4, <2>1
  <2>3. l \in 0 .. L
    <3>1. l \in S => l \in 0 .. L
      BY <1>3
    <3>2. 0 \in 0 .. L
      OBVIOUS
    <3> QED BY <2>2, <3>1, <3>2
  <2> QED BY <2>1, <2>3
<1> QED BY <1>1, <1>5

----------------------------------------------------------------------------
(* What ComputeStats answers.  The numbers of an INSTANCE are the same.    *)
LEMMA SameCount == ASSUME NEW S PROVE R!Cardinality(S) = Cardinality(S)
BY DEF R!Cardinality, Cardinality

StatsOf(rt0, ts, s, c, P, f) ==
    /\ P = DueOf(ts, s) /\ f = R!StreakTo(rt0, ts, P) /\ c \in R!Streaks
    /\ c.current = IF P = {} THEN 0 ELSE f[CHOOSE t \in LatestOf(ts, P) : TRUE]
    /\ c.longest \in Nat /\ \A t \in P : f[t] <= c.longest

LEMMA StatsCount ==
    ASSUME NEW ts \in Seq(R!Instances), Len(ts) <= MaxTasks, NEW s, NEW rt0, NEW old \in R!Streaks,
           NEW c, c = R!ComputeStats(rt0, ts, s, old)
    PROVE  \E P, f : StatsOf(rt0, ts, s, c, P, f)
<1> DEFINE P    == DueOf(ts, s)
           f    == R!StreakTo(rt0, ts, P)
           cur  == IF P = {} THEN 0 ELSE f[CHOOSE t \in LatestOf(ts, P) : TRUE]
           done == { t \in R!InstancesOf(ts, s) : ts[t].done }
           lon  == R!Largest({old.longest} \union { f[t] : t \in P })
           las  == R!Largest({ ts[t].date : t \in done })
<1>3. c = [current |-> cur, longest |-> lon, total |-> Cardinality(done), last |-> las]
  <2>1. R!ComputeStats(rt0, ts, s, old)
          = [current |-> cur, longest |-> lon, total |-> R!Cardinality(done), last |-> las]
    BY DEF R!ComputeStats, DueOf, LatestOf
  <2> HIDE DEF cur, done, lon, las
  <2> QED BY <2>1, SameCount
<1>10. P = DueOf(ts, s) /\ f = R!StreakTo(rt0, ts, P)
  OBVIOUS
<1> HIDE DEF P, f
<1>1. P \subseteq DOMAIN ts /\ IsFiniteSet(P) /\ Cardinality(P) \in Nat /\ Cardinality(P) <= MaxTasks
  <2>1. P \subseteq DOMAIN ts
    BY <1>10 DEF DueOf, R!InstancesOf
  <2>2. Len(ts) \in Nat /\ MaxTasks \in Nat
    BY SeriesAssumption
  <2>3. IsFiniteSet(P) /\ Cardinality(P) \in Nat /\ Cardinality(P) <= Len(ts)
    BY <2>1, RanksExist
  <2> QED BY <2>1, <2>2, <2>3
<1>2. \A t \in P : f[t] \in 0 .. MaxTasks
  <2>1. \A t \in P : f[t] \in 0 .. Cardinality(P)
    BY <1>1, <1>10, StreakToExists, StreakBounded
  <2> QED BY <1>1, <2>1, SeriesAssumption
<1>4. cur \in 0 .. MaxTasks
  <2>1. CASE P = {}
    BY <2>1, SeriesAssumption
  <2>2. CASE P # {}
    <3>1. PICK t : t = CHOOSE u \in LatestOf(ts, P) : TRUE
      OBVIOUS
    <3>2. t \in P
      BY <1>1, <2>2, <3>1, LatestExists DEF LatestOf
    <3> QED BY <1>2, <2>2, <3>1, <3>2
  <2> QED BY <2>1, <2>2
<1>5. lon \in 0 .. MaxTasks /\ \A t \in P : f[t] <= lon
  <2>1. PICK S : S = {old.longest} \union { f[t] : t \in P }
    OBVIOUS
  <2>2. old.longest \in 0 .. MaxTasks
    BY DEF R!Streaks
  <2>3. S \subseteq 0 .. MaxTasks /\ MaxTasks \in Nat /\ \A t \in P : f[t] \in S
    BY <1>2, <2>1, <2>2, SeriesAssumption
  <2>4. R!Largest(S) \in S \union {0} /\ \A k \in S : k <= R!Largest(S)
    BY <2>3, LargestBounds
  <2>5. lon = R!Largest(S)
    BY <2>1
  <2>6. PICK l : l = R!Largest(S)
    OBVIOUS
  <2>7. (l \in S \/ l = 0) /\ \A k \in S : k <= l
    BY <2>4, <2>6
  <2>8. l \in 0 .. MaxTasks
    <3>1. l \in S => l \in 0 .. MaxTasks
      BY <2>3
    <3>2. 0 \in 0 .. MaxTasks
      BY <2>3
    <3> QED BY <2>7, <3>1, <3>2
  <2> HIDE DEF lon
  <2> QED BY <2>3, <2>5, <2>6, <2>7, <2>8
<1>6. Cardinality(done) \in 0 .. MaxTasks
  <2>1. done \subseteq DOMAIN ts
    BY DEF R!InstancesOf
  <2> HIDE DEF done
  <2>2. Cardinality(done) \in Nat /\ Cardinality(done) <= Len(ts) /\ Len(ts) \in Nat /\ MaxTasks \in Nat
    BY <2>1, RanksExist, SeriesAssumption
  <2> QED BY <2>2
<1>7. las \in R!Days \union {0}
  <2>1. PICK S : S = { ts[t].date : t \in done }
    OBVIOUS
  <2>2. S \subseteq R!Days \union {0}
    <3>1. ASSUME NEW t \in DOMAIN ts PROVE ts[t].date \in R!Days \union {0}
      <4>1. ts[t] \in R!Instances
        OBVIOUS
      <4> QED BY <4>1 DEF R!Instances
    <3> QED BY <2>1, <3>1 DEF R!InstancesOf
  <2>3. S \subseteq 0 .. LastDay /\ LastDay \in Nat
    <3>1. R!Days \union {0} \subseteq 0 .. LastDay
      BY SeriesAssumption DEF R!Days
    <3> QED BY <2>2, <3>1, SeriesAssumption
  <2>4. R!Largest(S) \in S \union {0}
    BY <2>3, LargestBounds
  <2> QED BY <2>1, <2>2, <2>4
<1> HIDE DEF cur, lon, las, done
<1>8. c \in R!Streaks
  BY <1>3, <1>4, <1>5, <1>6, <1>7 DEF R!Streaks
<1>9. c.current = cur /\ c.longest = lon
  BY <1>3
<1>11. lon \in Nat
  BY <1>5
<1>12. c.current = (IF P = {} THEN 0 ELSE f[CHOOSE t \in LatestOf(ts, P) : TRUE])
  BY <1>9 DEF cur
<1>13. c.longest \in Nat /\ \A t \in P : f[t] <= c.longest
  BY <1>5, <1>9, <1>11
<1>14. StatsOf(rt0, ts, s, c, P, f)
  BY <1>8, <1>10, <1>12, <1>13 DEF StatsOf
<1> QED BY <1>14

----------------------------------------------------------------------------
(* What holds of the tasks, whatever the tasks are.                        *)
OneDate(ts, E) ==
    \A t, u \in DOMAIN ts \ E :
        t # u /\ ~ts[t].gone /\ ~ts[u].gone /\ ts[t].series = ts[u].series /\ ts[t].series # 0
        => ts[t].date # ts[u].date

Dated(ts) == \A t \in DOMAIN ts : ts[t].series # 0 => ts[t].date \in R!Days

Orphans(ts, sr, H) ==
    \A t \in DOMAIN ts : ts[t].series # 0 /\ sr[ts[t].series] = R!NoTemplate => t \in H

LEMMA ExtendsKeeps ==
    ASSUME NEW ts \in Seq(R!Instances), NEW q, NEW S, Extends(ts, q, S), S \subseteq R!SeriesIds,
           NEW E, OneDate(ts, E), Dated(ts),
           NEW sr, NEW H, Orphans(ts, sr, H), \A s \in S : sr[s] # R!NoTemplate
    PROVE  OneDate(q, E) /\ Dated(q) /\ Orphans(q, sr, H)
<1>1. DOMAIN q = DOMAIN ts \union Added(ts, q) /\ \A t \in DOMAIN ts : q[t] = ts[t]
  <2>1. /\ q \in Seq(R!Instances) /\ Len(q) \in Nat /\ Len(ts) \in Nat /\ Len(ts) <= Len(q)
        /\ DOMAIN ts = 1 .. Len(ts) /\ DOMAIN q = 1 .. Len(q)
    BY DEF Extends
  <2>2. DOMAIN q = DOMAIN ts \union Added(ts, q)
    BY <2>1 DEF Added
  <2> QED BY <2>2 DEF Extends
<1>2. \A t \in Added(ts, q) : /\ q[t].series \in S /\ ~q[t].gone /\ q[t].date \in R!Days
                              /\ q[t].date \notin R!TakenDates(ts, q[t].series)
  BY DEF Extends
<1>3. ASSUME NEW t \in Added(ts, q), NEW u \in DOMAIN ts, ~q[u].gone, q[t].series = q[u].series
      PROVE  q[t].date # q[u].date
  BY <1>1, <1>2, <1>3 DEF R!TakenDates, R!InstancesOf
<1>4. OneDate(q, E)
  <2>1. SUFFICES ASSUME NEW t \in DOMAIN q \ E, NEW u \in DOMAIN q \ E,
                        t # u, ~q[t].gone, ~q[u].gone, q[t].series = q[u].series, q[t].series # 0
                 PROVE  q[t].date # q[u].date
    BY DEF OneDate
  <2>2. CASE t \in DOMAIN ts /\ u \in DOMAIN ts
    <3>1. q[t] = ts[t] /\ q[u] = ts[u]
      BY <1>1, <2>2
    <3> QED BY <2>1, <2>2, <3>1 DEF OneDate
  <2>3. CASE t \in Added(ts, q) /\ u \in Added(ts, q)
    BY <2>1, <2>3 DEF Extends
  <2>4. CASE t \in Added(ts, q) /\ u \in DOMAIN ts
    BY <1>3, <2>1, <2>4
  <2>5. CASE u \in Added(ts, q) /\ t \in DOMAIN ts
    BY <1>3, <2>1, <2>5
  <2> QED BY <1>1, <2>2, <2>3, <2>4, <2>5
<1>5. Dated(q)
  BY <1>1, <1>2 DEF Dated
<1>6. Orphans(q, sr, H)
  <2>1. SUFFICES ASSUME NEW t \in DOMAIN q, q[t].series # 0, sr[q[t].series] = R!NoTemplate PROVE t \in H
    BY DEF Orphans
  <2>2. t \notin Added(ts, q)
    BY <1>2, <2>1
  <2>3. t \in DOMAIN ts /\ q[t] = ts[t]
    BY <1>1, <2>2
  <2> QED BY <2>1, <2>3 DEF Orphans
<1> QED BY <1>4, <1>5, <1>6

----------------------------------------------------------------------------
(* Statistics computed from the tasks as they are after the step say what  *)
(* the instances say.                                                      *)
LEMMA RunsNext ==
    ASSUME NEW s, NEW ts, NEW P, NEW rt0, tasks' = ts, R!Due(s)' = P, series'[s] = rt0
    PROVE  /\ R!Runs(s)' = RunsIn(rt0, ts, P)
           /\ \A r : R!RunLength(s, r)' = LengthIn(ts, P, r)
<1>1. \A a, b : R!Between(s, a, b)' = Window(ts, P, a, b)
  BY DEF R!Between, Window
<1>2. ASSUME NEW r \in R!Days \X R!Days
      PROVE  (/\ r[1] <= r[2] /\ {r[1], r[2]} \subseteq { tasks'[t].date : t \in R!Due(s)' }
              /\ R!Unbroken(s, r[1], r[2])')
             <=> RunFrom(rt0, ts, P, r[1], r[2])
  <2>1. PICK a, b : a = r[1] /\ b = r[2]
    OBVIOUS
  <2>2. a \in R!Days /\ b \in R!Days
    BY <2>1
  <2>3. PICK W : W = Window(ts, P, a, b)
    OBVIOUS
  <2>4. R!Between(s, a, b)' = W
    BY <1>1, <2>3
  <2>5. PICK O : O = R!Occurrences[rt0]
    OBVIOUS
  <2>6. R!Occurrences[series'[s]] = O
    BY <2>5
  <2>7. { tasks'[t].date : t \in R!Due(s)' } = DatesOf(ts, P) /\ { tasks'[t].date : t \in W } = DatesOf(ts, W)
    BY DEF DatesOf
  <2>8. R!Unbroken(s, a, b)' <=> /\ \A t \in W : ts[t].done
                                 /\ { n \in a + 1 .. b : n \in O } = DatesOf(ts, W) \ {a}
    BY <2>4, <2>6, <2>7 DEF R!Unbroken
  <2>9. RunFrom(rt0, ts, P, a, b) <=>
           /\ a <= b /\ a \in DatesOf(ts, P) /\ b \in DatesOf(ts, P)
           /\ \A t \in W : ts[t].done
           /\ { n \in a + 1 .. b : n \in O } = DatesOf(ts, W) \ {a}
    BY <2>2, <2>3, <2>5 DEF RunFrom
  <2> QED BY <2>1, <2>7, <2>8, <2>9
<1>3. R!Runs(s)' = RunsIn(rt0, ts, P)
  BY <1>2 DEF R!Runs, RunsIn
<1>4. \A r : R!RunLength(s, r)' = LengthIn(ts, P, r)
  BY <1>1, SameCount DEF R!RunLength, LengthIn
<1> QED BY <1>3, <1>4

LEMMA StreaksNext ==
    ASSUME NEW ts \in Seq(R!Instances), Len(ts) <= MaxTasks, OneDate(ts, {}), Dated(ts),
           tasks' = ts, today' = today, NEW s \in R!SeriesIds, NEW rt0 \in R!Templates, series'[s] = rt0,
           NEW old \in R!Streaks, NEW c, c = R!ComputeStats(rt0, ts, s, old), stats'[s] = c, answer'.id = s
    PROVE  R!StreaksAreRuns'
<1>1. PICK P, f : StatsOf(rt0, ts, s, c, P, f)
  BY StatsCount
<1>2. P = DueOf(ts, s) /\ f = R!StreakTo(rt0, ts, P)
  BY <1>1 DEF StatsOf
<1>3. Instanced(ts, P)
  <2>1. P \subseteq DOMAIN ts /\ \A t \in P : ~ts[t].gone /\ ts[t].series = s
    BY <1>2 DEF DueOf, R!InstancesOf
  <2>2. s # 0
    BY SeriesAssumption DEF R!SeriesIds
  <2>3. \A t, u \in P : t # u => ts[t].date # ts[u].date
    BY <2>1, <2>2 DEF OneDate
  <2>4. \A t \in P : ts[t].date \in R!Days
    BY <2>1, <2>2 DEF Dated
  <2> QED BY <2>1, <2>3, <2>4 DEF Instanced, Distinct
<1>4. IsStreak(rt0, ts, P, f)
  BY <1>2, <1>3, StreakToExists DEF Instanced
<1>5. R!Due(s)' = P
  BY <1>2 DEF R!Due, R!InstancesOf, DueOf
<1>6. /\ R!Runs(s)' = RunsIn(rt0, ts, P)
      /\ \A r : R!RunLength(s, r)' = LengthIn(ts, P, r)
  BY <1>5, RunsNext
<1>7. PICK n : n = R!Largest(DatesOf(ts, P))
  OBVIOUS
<1>8. { R!RunLength(s, r)' : r \in { q \in R!Runs(s)' : q[2] = n } } = LengthsTo(rt0, ts, P, n)
  BY <1>6 DEF LengthsTo
<1>9. { R!RunLength(s, r)' : r \in R!Runs(s)' } = Lengths(rt0, ts, P)
  BY <1>6 DEF Lengths
<1>10. c.current = R!Largest(LengthsTo(rt0, ts, P, n))
  <2>1. CASE P = {}
    BY <1>1, <2>1, NoRunWithoutInstances DEF StatsOf
  <2>2. CASE P # {}
    <3>1. PICK t : t = CHOOSE u \in LatestOf(ts, P) : TRUE
      OBVIOUS
    <3>2. t \in LatestOf(ts, P)
      BY <1>3, <2>2, <3>1, LatestExists DEF Instanced
    <3>3. f[t] = R!Largest(LengthsTo(rt0, ts, P, n))
      BY <1>3, <1>4, <1>7, <3>2, CurrentIsRun
    <3> QED BY <1>1, <2>2, <3>1, <3>3 DEF StatsOf
  <2> QED BY <2>1, <2>2
<1>11. c.longest >= R!Largest(Lengths(rt0, ts, P))
  <2>1. PICK L : L = c.longest
    OBVIOUS
  <2>2. L \in Nat /\ \A t \in P : f[t] <= L
    BY <1>1, <2>1 DEF StatsOf
  <2>3. L >= R!Largest(Lengths(rt0, ts, P))
    BY <1>3, <1>4, <2>2, RunsAreBounded
  <2> QED BY <2>1, <2>3
<1>12. R!Largest({ tasks'[t].date : t \in R!Due(s)' }) = n
  <2>1. { tasks'[t].date : t \in R!Due(s)' } = DatesOf(ts, P)
    BY <1>5 DEF DatesOf
  <2> QED BY <1>7, <2>1
<1> QED BY <1>8, <1>9, <1>10, <1>11, <1>12, ZenonT(60) DEF R!StreaksAreRuns

----------------------------------------------------------------------------
(* The inductive invariant of the recurring tasks.                         *)
SeriesInv ==
    /\ R!TypeOK /\ Len(tasks) <= MaxTasks
    /\ Orphans(tasks, series, heirless) /\ Dated(tasks)
    /\ R!OneInstancePerDate /\ R!GenerationComplete /\ R!StreaksAreRuns

LEMMA DaysAreNumbers == R!Days \subseteq Nat \ {0}
BY SeriesAssumption DEF R!Days

LEMMA SeriesStart == ASSUME R!Init PROVE SeriesInv
<1>1. /\ series = [s \in R!SeriesIds |-> R!NoTemplate] /\ tasks = <<>> /\ today = FirstDay
      /\ stats = [s \in R!SeriesIds |-> R!NoStats] /\ answer = R!NoAnswer
      /\ excused = {} /\ heirless = {} /\ requested = 0
  BY DEF R!Init
<1>2. R!NoStats \in R!Streaks
  BY SeriesAssumption DEF R!NoStats, R!Streaks
<1>3. /\ series \in [R!SeriesIds -> R!Templates \union {R!NoTemplate}]
      /\ tasks \in Seq(R!Instances) /\ Len(tasks) = 0 /\ DOMAIN tasks = {}
      /\ stats \in [R!SeriesIds -> R!Streaks]
  BY <1>1, <1>2
<1>4. today \in R!Days /\ requested \in 0 .. MaxSteps /\ Len(tasks) <= MaxTasks
  BY <1>1, <1>3, SeriesAssumption DEF R!Days
<1>5. R!TypeOK
  BY <1>1, <1>3, <1>4 DEF R!TypeOK
<1>6. answer.op = "none"
  BY <1>1 DEF R!NoAnswer
<1>7. R!GenerationComplete /\ R!StreaksAreRuns
  BY <1>6 DEF R!GenerationComplete, R!StreaksAreRuns
<1>8. R!OneInstancePerDate /\ Orphans(tasks, series, heirless) /\ Dated(tasks)
  BY <1>3 DEF R!OneInstancePerDate, Orphans, Dated
<1> QED BY <1>4, <1>5, <1>7, <1>8 DEF SeriesInv

LEMMA TemplatesOf ==
    ASSUME NEW h \in Habits, NEW n \in R!Days
    PROVE  R!Template(h, n) \in R!Templates /\ R!Template(h, n) # R!NoTemplate
<1>1. R!Template(h, n) \in R!Templates
  BY DEF R!Templates
<1>2. PICK rt0 : rt0 = R!Template(h, n)
  OBVIOUS
<1>3. rt0 # R!NoTemplate
  BY <1>1, <1>2, TemplateFits
<1> QED BY <1>1, <1>2, <1>3

LEMMA SeriesOfTasks ==
    ASSUME NEW ts \in Seq(R!Instances)
    PROVE  \A t \in DOMAIN ts : ts[t].series # 0 => ts[t].series \in R!SeriesIds
<1> SUFFICES ASSUME NEW t \in DOMAIN ts, ts[t].series # 0 PROVE ts[t].series \in R!SeriesIds
  OBVIOUS
<1>1. ts[t] \in R!Instances
  OBVIOUS
<1>2. ts[t].series \in 0 .. MaxSeries
  BY <1>1 DEF R!Instances
<1> QED BY <1>2, SeriesAssumption DEF R!SeriesIds

(* A new id is not in use.                                                 *)
LEMMA NewIdIsFree == ASSUME R!NextId \in R!SeriesIds PROVE R!NextId \notin R!Known
<1>1. PICK K : K = R!Known
  OBVIOUS
<1>2. K \subseteq 0 .. MaxSeries /\ MaxSeries \in Nat
  BY <1>1, SeriesAssumption DEF R!Known, R!SeriesIds
<1>3. \A k \in K : k <= R!Largest(K)
  BY <1>2, LargestBounds
<1>4. PICK l : l = R!Largest(K)
  OBVIOUS
<1>5. l \in 0 .. MaxSeries
  <2>1. l \in K \/ l = 0
    BY <1>2, <1>4, LargestBounds
  <2>2. l \in K => l \in 0 .. MaxSeries
    BY <1>2
  <2>3. 0 \in 0 .. MaxSeries
    BY <1>2
  <2> QED BY <2>1, <2>2, <2>3
<1>6. l + 1 \notin K
  BY <1>3, <1>4, <1>5
<1> QED BY <1>1, <1>4, <1>6 DEF R!NextId

(* Requests on the templates alone.                                        *)
LEMMA TemplateSteps ==
    ASSUME SeriesInv, NEW c \in Habits, NEW n \in R!Days,
           R!CreateTemplate(c, n) \/ \E s \in R!Known : R!UpdateTemplate(s, c, n)
    PROVE  SeriesInv'
<1>1. PICK rt0 : rt0 = R!Template(c, n)
  OBVIOUS
<1>2. rt0 \in R!Templates /\ rt0 # R!NoTemplate
  BY <1>1, TemplatesOf
<1>3. PICK s \in R!SeriesIds : series' = [series EXCEPT ![s] = rt0]
  <2>1. CASE R!CreateTemplate(c, n)
    BY <1>1, <2>1 DEF R!CreateTemplate
  <2>2. CASE \E s \in R!Known : R!UpdateTemplate(s, c, n)
    BY <1>1, <2>2 DEF R!UpdateTemplate, R!Known
  <2> QED BY <2>1, <2>2
<1>4. /\ R!Request /\ answer' = R!NoAnswer
      /\ tasks' = tasks /\ stats' = stats /\ today' = today /\ excused' = excused /\ heirless' = heirless
  BY DEF R!CreateTemplate, R!UpdateTemplate
<1>5. R!TypeOK /\ Len(tasks) <= MaxTasks /\ Orphans(tasks, series, heirless) /\ Dated(tasks) /\ R!OneInstancePerDate
  BY DEF SeriesInv
<1>6. series' \in [R!SeriesIds -> R!Templates \union {R!NoTemplate}]
  BY <1>2, <1>3, <1>5 DEF R!TypeOK
<1>7. requested' \in 0 .. MaxSteps
  BY <1>4, <1>5, SeriesAssumption DEF R!Request, R!TypeOK
<1>8. R!TypeOK'
  BY <1>4, <1>5, <1>6, <1>7 DEF R!TypeOK
<1>9. answer'.op = "none"
  BY <1>4 DEF R!NoAnswer
<1>10. R!GenerationComplete' /\ R!StreaksAreRuns'
  BY <1>9 DEF R!GenerationComplete, R!StreaksAreRuns
<1>11. Orphans(tasks, series, heirless)'
  <2>1. ASSUME NEW k, series'[k] = R!NoTemplate, k \in R!SeriesIds PROVE series[k] = R!NoTemplate
    BY <1>2, <1>3, <1>5, <2>1 DEF R!TypeOK
  <2>2. \A t \in DOMAIN tasks : tasks[t].series # 0 => tasks[t].series \in R!SeriesIds
    BY <1>5, SeriesOfTasks DEF R!TypeOK
  <2> QED BY <1>4, <1>5, <2>1, <2>2 DEF Orphans
<1>12. R!OneInstancePerDate' /\ Dated(tasks)' /\ (Len(tasks) <= MaxTasks)'
  BY <1>4, <1>5 DEF R!OneInstancePerDate, Dated
<1> QED BY <1>8, <1>10, <1>11, <1>12 DEF SeriesInv

LEMMA DeleteTemplateStep ==
    ASSUME SeriesInv, NEW s \in R!Known, R!DeleteTemplate(s)
    PROVE  SeriesInv'
<1>1. R!TypeOK /\ Len(tasks) <= MaxTasks /\ Orphans(tasks, series, heirless) /\ Dated(tasks) /\ R!OneInstancePerDate
  BY DEF SeriesInv
<1>2. /\ R!Request /\ answer' = R!NoAnswer /\ s \in R!SeriesIds
      /\ series' = [series EXCEPT ![s] = R!NoTemplate] /\ stats' = [stats EXCEPT ![s] = R!NoStats]
      /\ heirless' = heirless \union { t \in DOMAIN tasks : tasks[t].series = s }
      /\ tasks' = tasks /\ today' = today /\ excused' = excused
  BY DEF R!DeleteTemplate, R!Known
<1>3. R!NoStats \in R!Streaks
  BY SeriesAssumption DEF R!NoStats, R!Streaks
<1>4. /\ series' \in [R!SeriesIds -> R!Templates \union {R!NoTemplate}]
      /\ stats' \in [R!SeriesIds -> R!Streaks]
  BY <1>1, <1>2, <1>3 DEF R!TypeOK
<1>5. heirless' \subseteq DOMAIN tasks
  BY <1>1, <1>2 DEF R!TypeOK
<1>6. requested' \in 0 .. MaxSteps
  BY <1>1, <1>2, SeriesAssumption DEF R!Request, R!TypeOK
<1>7. R!TypeOK'
  BY <1>1, <1>2, <1>4, <1>5, <1>6 DEF R!TypeOK
<1>8. answer'.op = "none"
  BY <1>2 DEF R!NoAnswer
<1>9. R!GenerationComplete' /\ R!StreaksAreRuns'
  BY <1>8 DEF R!GenerationComplete, R!StreaksAreRuns
<1>10. Orphans(tasks, series, heirless)'
  <2>1. ASSUME NEW k, series'[k] = R!NoTemplate, k \in R!SeriesIds, k # s PROVE series[k] = R!NoTemplate
    BY <1>1, <1>2, <2>1 DEF R!TypeOK
  <2>2. \A t \in DOMAIN tasks : tasks[t].series # 0 => tasks[t].series \in R!SeriesIds
    BY <1>1, SeriesOfTasks DEF R!TypeOK
  <2> QED BY <1>1, <1>2, <2>1, <2>2 DEF Orphans
<1>11. R!OneInstancePerDate' /\ Dated(tasks)' /\ (Len(tasks) <= MaxTasks)'
  BY <1>1, <1>2 DEF R!OneInstancePerDate, Dated
<1> QED BY <1>7, <1>9, <1>10, <1>11 DEF SeriesInv

----------------------------------------------------------------------------
(* Rows were added to the tasks, and they are what was asked for.          *)
LEMMA AddedRows ==
    ASSUME SeriesInv, R!Request, NEW q, R!Rows(q), NEW S, S \subseteq R!SeriesIds,
           NEW sr \in [R!SeriesIds -> R!Templates \union {R!NoTemplate}], series' = sr,
           \A s \in S : sr[s] # R!NoTemplate,
           NEW ts \in Seq(R!Instances), Extends(ts, q, S), DOMAIN ts = DOMAIN tasks,
           OneDate(ts, excused \union heirless), Dated(ts), Orphans(ts, sr, heirless),
           NEW a \in Nat, NEW b \in Nat, \A s \in S : Filled(q, sr[s], s, a, b),
           answer' = [op |-> "generated", ids |-> S, from |-> a, to |-> b],
           UNCHANGED <<stats, today, excused, heirless>>
    PROVE  SeriesInv'
<1>1. R!TypeOK
  BY DEF SeriesInv
<1>2. tasks' = q /\ Len(q) <= MaxTasks /\ q \in Seq(R!Instances)
  BY DEF R!Rows, Extends
<1>3. OneDate(q, excused \union heirless) /\ Dated(q) /\ Orphans(q, sr, heirless)
  BY ExtendsKeeps
<1>4. DOMAIN tasks \subseteq DOMAIN q
  <2>1. /\ q \in Seq(R!Instances) /\ Len(q) \in Nat /\ Len(ts) \in Nat /\ Len(ts) <= Len(q)
        /\ DOMAIN ts = 1 .. Len(ts) /\ DOMAIN q = 1 .. Len(q)
    BY DEF Extends
  <2> QED BY <2>1
<1>5. excused' \subseteq DOMAIN q /\ heirless' \subseteq DOMAIN q
  BY <1>1, <1>4 DEF R!TypeOK
<1>6. requested' \in 0 .. MaxSteps
  BY <1>1, SeriesAssumption DEF R!Request, R!TypeOK
<1>7. R!TypeOK'
  BY <1>1, <1>2, <1>5, <1>6 DEF R!TypeOK
<1>8. R!OneInstancePerDate'
  BY <1>2, <1>3 DEF R!OneInstancePerDate, OneDate
<1>9. Orphans(tasks, series, heirless)' /\ Dated(tasks)'
  BY <1>2, <1>3
<1>10. answer'.op = "generated" /\ answer'.ids = S /\ answer'.from = a /\ answer'.to = b
  OBVIOUS
<1>11. R!GenerationComplete'
  <2>1. ASSUME NEW s \in S, NEW n \in a .. b, n \in R!Occurrences[sr[s]], sr[s].end # 0 => n <= sr[s].end
        PROVE  \E t \in DOMAIN q : q[t].series = s /\ q[t].date = n /\ ~q[t].gone
    <3>1. Filled(q, sr[s], s, a, b) /\ Wants(sr[s], n)
      BY <2>1 DEF Wants
    <3>2. Held(q, s, n)
      BY <3>1 DEF Filled
    <3> QED BY <3>2 DEF Held
  <2> QED BY <1>2, <1>10, <2>1 DEF R!GenerationComplete
<1>12. R!StreaksAreRuns'
  BY <1>10 DEF R!StreaksAreRuns
<1> QED BY <1>2, <1>7, <1>8, <1>9, <1>11, <1>12 DEF SeriesInv

LEMMA TasksFit ==
    ASSUME SeriesInv
    PROVE  /\ tasks \in Seq(R!Instances) /\ series \in [R!SeriesIds -> R!Templates \union {R!NoTemplate}]
           /\ OneDate(tasks, excused \union heirless) /\ Dated(tasks) /\ Orphans(tasks, series, heirless)
           /\ R!Known \subseteq R!SeriesIds /\ \A s \in R!Known : series[s] \in R!Templates
           /\ today \in Nat \ {0} /\ LastDay \in Nat /\ today <= LastDay
           /\ FirstDay \in Nat \ {0} /\ FirstDay <= today
<1>1. /\ tasks \in Seq(R!Instances) /\ series \in [R!SeriesIds -> R!Templates \union {R!NoTemplate}]
      /\ today \in R!Days /\ Dated(tasks) /\ Orphans(tasks, series, heirless) /\ R!OneInstancePerDate
  BY DEF SeriesInv, R!TypeOK
<1>2. OneDate(tasks, excused \union heirless)
  BY <1>1 DEF OneDate, R!OneInstancePerDate
<1>3. R!Known \subseteq R!SeriesIds /\ \A s \in R!Known : series[s] \in R!Templates
  BY <1>1 DEF R!Known
<1>4. today \in Nat \ {0} /\ LastDay \in Nat /\ today <= LastDay /\ FirstDay \in Nat \ {0} /\ FirstDay <= today
  BY <1>1, SeriesAssumption DEF R!Days
<1> QED BY <1>1, <1>2, <1>3, <1>4

LEMMA GenerateStep ==
    ASSUME SeriesInv, NEW s \in R!Known, R!Generate(s, today, LastDay)
    PROVE  SeriesInv'
<1>1. PICK q : /\ q = R!GenerateInstances(series[s], tasks, s, today, LastDay)
               /\ Extends(tasks, q, {s}) /\ Filled(q, series[s], s, today, LastDay)
  <2>1. today <= LastDay + 1 /\ s \in R!SeriesIds /\ series[s] \in R!Templates
    BY TasksFit
  <2> QED BY <2>1, TasksFit, GeneratesOne
<1>2. /\ R!Request /\ R!Rows(q) /\ series' = series /\ UNCHANGED <<stats, today, excused, heirless>>
      /\ answer' = [op |-> "generated", ids |-> {s}, from |-> today, to |-> LastDay]
  BY <1>1 DEF R!Generate
<1>3. {s} \subseteq R!SeriesIds /\ (\A k \in {s} : series[k] # R!NoTemplate)
      /\ \A k \in {s} : Filled(q, series[k], k, today, LastDay)
  BY <1>1, TasksFit DEF R!Known
<1>4. PICK S : S = {s}
  OBVIOUS
<1>5. /\ Extends(tasks, q, S) /\ S \subseteq R!SeriesIds /\ (\A k \in S : series[k] # R!NoTemplate)
      /\ (\A k \in S : Filled(q, series[k], k, today, LastDay))
      /\ answer' = [op |-> "generated", ids |-> S, from |-> today, to |-> LastDay]
  BY <1>1, <1>2, <1>3, <1>4
<1> QED BY <1>2, <1>5, TasksFit, AddedRows

LEMMA GenerateAllStep ==
    ASSUME SeriesInv, R!GenerateAll(FirstDay, today)
    PROVE  SeriesInv'
<1>1. PICK q : /\ q = R!GenerateAllInstances(tasks, FirstDay, today)
               /\ Extends(tasks, q, R!Known) /\ AllFilled(q, R!Known, FirstDay, today)
  <2>1. FirstDay <= today + 1
    BY TasksFit
  <2> QED BY <2>1, TasksFit, GeneratesAll
<1>2. /\ R!Request /\ R!Rows(q) /\ series' = series /\ UNCHANGED <<stats, today, excused, heirless>>
      /\ answer' = [op |-> "generated", ids |-> R!Known, from |-> FirstDay, to |-> today]
  BY <1>1 DEF R!GenerateAll
<1>3. PICK S : S = R!Known
  OBVIOUS
<1>4. /\ Extends(tasks, q, S) /\ S \subseteq R!SeriesIds /\ (\A k \in S : series[k] # R!NoTemplate)
      /\ (\A k \in S : Filled(q, series[k], k, FirstDay, today))
      /\ answer' = [op |-> "generated", ids |-> S, from |-> FirstDay, to |-> today]
  BY <1>1, <1>2, <1>3, TasksFit DEF AllFilled, R!Known
<1> QED BY <1>2, <1>4, TasksFit, AddedRows

(* A task of no template becomes the first instance of a new one.          *)
LEMMA AdoptStep ==
    ASSUME SeriesInv, NEW t \in DOMAIN tasks, NEW c \in Habits, R!Adopt(t, c)
    PROVE  SeriesInv'
<1>1. PICK start : start = IF tasks[t].date = 0 THEN today ELSE tasks[t].date
  OBVIOUS
<1>2. PICK rt0 : rt0 = R!Template(c, start)
  OBVIOUS
<1>3. PICK s : s = R!NextId
  OBVIOUS
<1>4. PICK ts : ts = [tasks EXCEPT ![t] = [@ EXCEPT !.series = s, !.date = start]]
  OBVIOUS
<1>5. /\ R!Request /\ ~tasks[t].gone /\ tasks[t].series = 0 /\ s \in R!SeriesIds
      /\ series' = [series EXCEPT ![s] = rt0] /\ UNCHANGED <<stats, today, excused, heirless>>
      /\ R!Rows(R!GenerateInstances(rt0, ts, s, start + 1, start + Horizon))
      /\ answer' = [op |-> "generated", ids |-> {s}, from |-> start + 1, to |-> start + Horizon]
  BY <1>1, <1>2, <1>3, <1>4 DEF R!Adopt
<1>6. tasks[t] \in R!Instances /\ today \in R!Days
  BY DEF SeriesInv, R!TypeOK
<1>7. start \in R!Days /\ start \in Nat
  <2>1. start \in R!Days
    BY <1>1, <1>6 DEF R!Instances
  <2> QED BY <2>1, DaysAreNumbers
<1>8. rt0 \in R!Templates /\ rt0 # R!NoTemplate
  BY <1>2, <1>7, TemplatesOf
<1>9. s \notin R!Known /\ series[s] = R!NoTemplate /\ s # 0 /\ s \in 0 .. MaxSeries
  BY <1>3, <1>5, NewIdIsFree, SeriesAssumption DEF R!Known, R!SeriesIds
<1>10. PICK x : x = [tasks[t] EXCEPT !.series = s, !.date = start]
  OBVIOUS
<1>11. x \in R!Instances /\ x.series = s /\ x.date = start /\ x.gone = tasks[t].gone
  BY <1>6, <1>7, <1>9, <1>10 DEF R!Instances
<1>12. ts \in Seq(R!Instances) /\ DOMAIN ts = DOMAIN tasks /\ ts[t] = x /\ \A u \in DOMAIN tasks : u # t => ts[u] = tasks[u]
  <2>1. ts = [tasks EXCEPT ![t] = x]
    BY <1>4, <1>10
  <2>2. tasks \in Seq(R!Instances)
    BY TasksFit
  <2> QED BY <1>11, <2>1, <2>2
<1>13. PICK sr : sr = [series EXCEPT ![s] = rt0]
  OBVIOUS
<1>14. sr \in [R!SeriesIds -> R!Templates \union {R!NoTemplate}] /\ sr[s] = rt0 /\ \A k \in R!SeriesIds : k # s => sr[k] = series[k]
  BY <1>5, <1>8, <1>13, TasksFit
<1>15. OneDate(ts, excused \union heirless)
  <2>1. SUFFICES ASSUME NEW u \in DOMAIN ts \ (excused \union heirless), NEW v \in DOMAIN ts \ (excused \union heirless),
                        u # v, ~ts[u].gone, ~ts[v].gone, ts[u].series = ts[v].series, ts[u].series # 0
                 PROVE  ts[u].date # ts[v].date
    BY DEF OneDate
  <2>2. ASSUME NEW w \in DOMAIN tasks, w # t, w \notin heirless PROVE tasks[w].series # s
    BY <1>9, <2>2, TasksFit DEF Orphans
  <2>3. u # t /\ v # t
    BY <1>11, <1>12, <2>1, <2>2
  <2>4. ts[u] = tasks[u] /\ ts[v] = tasks[v]
    BY <1>12, <2>3
  <2> QED BY <1>12, <2>1, <2>4, TasksFit DEF OneDate
<1>16. Dated(ts)
  BY <1>7, <1>11, <1>12, TasksFit DEF Dated
<1>17. Orphans(ts, sr, heirless)
  <2>1. SUFFICES ASSUME NEW u \in DOMAIN ts, ts[u].series # 0, sr[ts[u].series] = R!NoTemplate PROVE u \in heirless
    BY DEF Orphans
  <2>2. u # t
    BY <1>8, <1>11, <1>12, <1>14, <2>1
  <2>3. ts[u] = tasks[u] /\ u \in DOMAIN tasks
    BY <1>12, <2>2
  <2>4. tasks[u].series \in R!SeriesIds
    BY <2>1, <2>3, SeriesOfTasks, TasksFit
  <2>5. series[tasks[u].series] = R!NoTemplate
    BY <1>8, <1>14, <2>1, <2>3, <2>4
  <2> QED BY <2>1, <2>3, <2>5, TasksFit DEF Orphans
<1>18. PICK a, b : a = start + 1 /\ b = start + Horizon
  OBVIOUS
<1>19. a \in Nat \ {0} /\ b \in Nat /\ a <= b + 1
  BY <1>7, <1>18, SeriesAssumption
<1>20. PICK q : /\ q = R!GenerateInstances(rt0, ts, s, a, b)
                /\ Extends(ts, q, {s}) /\ Filled(q, rt0, s, a, b)
  BY <1>5, <1>8, <1>12, <1>19, GeneratesOne
<1>21. PICK S : S = {s}
  OBVIOUS
<1>22. /\ R!Request /\ R!Rows(q) /\ series' = sr /\ UNCHANGED <<stats, today, excused, heirless>>
       /\ Extends(ts, q, S) /\ S \subseteq R!SeriesIds /\ (\A k \in S : sr[k] # R!NoTemplate)
       /\ (\A k \in S : Filled(q, sr[k], k, a, b))
       /\ answer' = [op |-> "generated", ids |-> S, from |-> a, to |-> b]
  BY <1>5, <1>8, <1>13, <1>14, <1>18, <1>20, <1>21
<1>23. a \in Nat /\ b \in Nat
  BY <1>19
<1> QED BY <1>12, <1>14, <1>15, <1>16, <1>17, <1>22, <1>23, AddedRows

(* A task of no template.                                                  *)
LEMMA CreateTaskStep ==
    ASSUME SeriesInv, NEW n \in {0, today}, R!CreateTask(n)
    PROVE  SeriesInv'
<1>1. PICK x : x = [series |-> 0, date |-> n, done |-> FALSE, gone |-> FALSE]
  OBVIOUS
<1>2. PICK q : q = Append(tasks, x)
  OBVIOUS
<1>3. /\ R!Request /\ tasks' = q /\ Len(q) <= MaxTasks /\ answer' = R!NoAnswer
      /\ UNCHANGED <<series, stats, today, excused, heirless>>
  BY <1>1, <1>2 DEF R!CreateTask, R!Rows
<1>4. R!TypeOK /\ today \in R!Days
  BY DEF SeriesInv, R!TypeOK
<1>5. x \in R!Instances /\ x.series = 0
  BY <1>1, <1>4, SeriesAssumption DEF R!Instances
<1>6. /\ q \in Seq(R!Instances) /\ DOMAIN tasks \subseteq DOMAIN q
      /\ \A t \in DOMAIN q : (t \in DOMAIN tasks /\ q[t] = tasks[t]) \/ q[t].series = 0
  <2>1. tasks \in Seq(R!Instances)
    BY TasksFit
  <2> QED BY <1>2, <1>5, <2>1
<1>7. requested' \in 0 .. MaxSteps
  BY <1>3, <1>4, SeriesAssumption DEF R!Request, R!TypeOK
<1>8. R!TypeOK'
  BY <1>3, <1>4, <1>6, <1>7 DEF R!TypeOK
<1>9. OneDate(q, excused \union heirless)
  <2>1. SUFFICES ASSUME NEW u \in DOMAIN q \ (excused \union heirless), NEW v \in DOMAIN q \ (excused \union heirless),
                        u # v, ~q[u].gone, ~q[v].gone, q[u].series = q[v].series, q[u].series # 0
                 PROVE  q[u].date # q[v].date
    BY DEF OneDate
  <2>2. /\ u \in DOMAIN tasks /\ q[u] = tasks[u]
        /\ v \in DOMAIN tasks /\ q[v] = tasks[v]
    BY <1>6, <2>1
  <2> QED BY <2>1, <2>2, TasksFit DEF OneDate
<1>10. R!OneInstancePerDate'
  BY <1>3, <1>9 DEF R!OneInstancePerDate, OneDate
<1>11. Dated(tasks)' /\ Orphans(tasks, series, heirless)'
  BY <1>3, <1>6, TasksFit DEF Dated, Orphans
<1>12. answer'.op = "none"
  BY <1>3 DEF R!NoAnswer
<1>13. R!GenerationComplete' /\ R!StreaksAreRuns'
  BY <1>12 DEF R!GenerationComplete, R!StreaksAreRuns
<1> QED BY <1>3, <1>8, <1>10, <1>11, <1>13 DEF SeriesInv

----------------------------------------------------------------------------
(* Statistics are recomputed from the tasks of the step.                   *)
LEMMA Recomputed ==
    ASSUME R!TypeOK, NEW ts \in Seq(R!Instances), Len(ts) <= MaxTasks, Dated(ts), tasks' = ts,
           NEW s, R!Refresh(ts, {s}), series' = series, today' = today, R!OneInstancePerDate',
           answer' = (IF s \in R!Known THEN [op |-> "stats", id |-> s] ELSE R!NoAnswer)
    PROVE  stats' \in [R!SeriesIds -> R!Streaks] /\ R!GenerationComplete' /\ R!StreaksAreRuns'
<1>1. stats' = [k \in R!SeriesIds |-> IF k \in {s} /\ series[k] # R!NoTemplate
                                      THEN R!ComputeStats(series[k], ts, k, stats[k]) ELSE stats[k]]
  BY DEF R!Refresh
<1>2. stats \in [R!SeriesIds -> R!Streaks] /\ series \in [R!SeriesIds -> R!Templates \union {R!NoTemplate}]
  BY DEF R!TypeOK
<1>3. ASSUME NEW k \in R!SeriesIds PROVE R!ComputeStats(series[k], ts, k, stats[k]) \in R!Streaks
  <2>1. PICK rt0, old, c : rt0 = series[k] /\ old = stats[k] /\ c = R!ComputeStats(rt0, ts, k, old)
    OBVIOUS
  <2>2. old \in R!Streaks
    BY <1>2, <2>1
  <2>3. PICK P, f : StatsOf(rt0, ts, k, c, P, f)
    BY <2>1, <2>2, StatsCount
  <2> QED BY <2>1, <2>3 DEF StatsOf
<1>4. stats' \in [R!SeriesIds -> R!Streaks]
  BY <1>1, <1>2, <1>3
<1>5. answer'.op # "generated"
  <2>1. CASE s \in R!Known
    BY <2>1
  <2>2. CASE s \notin R!Known
    BY <2>2 DEF R!NoAnswer
  <2> QED BY <2>1, <2>2
<1>6. R!GenerationComplete'
  BY <1>5 DEF R!GenerationComplete
<1>7. CASE s \notin R!Known
  <2>1. answer'.op = "none"
    BY <1>7 DEF R!NoAnswer
  <2>2. R!StreaksAreRuns'
    BY <2>1 DEF R!StreaksAreRuns
  <2> QED BY <1>4, <1>6, <2>2
<1>8. CASE s \in R!Known /\ ~(excused' \union heirless' = {})
  <2>1. R!StreaksAreRuns'
    BY <1>8 DEF R!StreaksAreRuns
  <2> QED BY <1>4, <1>6, <2>1
<1>9. CASE s \in R!Known /\ excused' \union heirless' = {}
  <2>1. OneDate(ts, {})
    BY <1>9 DEF R!OneInstancePerDate, OneDate
  <2>2. PICK rt0, old, c : rt0 = series[s] /\ old = stats[s] /\ c = R!ComputeStats(rt0, ts, s, old)
    OBVIOUS
  <2>3. s \in R!SeriesIds /\ rt0 \in R!Templates /\ series'[s] = rt0 /\ old \in R!Streaks /\ stats'[s] = c
    BY <1>1, <1>2, <1>9, <2>2 DEF R!Known
  <2>4. answer'.id = s
    BY <1>9
  <2>5. R!StreaksAreRuns'
    BY <2>1, <2>2, <2>3, <2>4, StreaksNext
  <2> QED BY <1>4, <1>6, <2>5
<1> QED BY <1>7, <1>8, <1>9

(* A row changes, its template and date stay.                              *)
LEMMA ChangedStep ==
    ASSUME SeriesInv, NEW t \in DOMAIN tasks, NEW x \in R!Instances, R!Changed(t, x),
           x.series = tasks[t].series, x.date = tasks[t].date,
           excused' \subseteq DOMAIN tasks, excused \subseteq excused',
           x.gone \/ ~tasks[t].gone \/ t \in excused'
    PROVE  SeriesInv'
<1>1. PICK ts : ts = [tasks EXCEPT ![t] = x]
  OBVIOUS
<1>2. R!TypeOK /\ Len(tasks) <= MaxTasks
  BY DEF SeriesInv
<1>3. /\ R!Request /\ tasks' = ts /\ R!Refresh(ts, {x.series})
      /\ answer' = (IF x.series \in R!Known THEN [op |-> "stats", id |-> x.series] ELSE R!NoAnswer)
      /\ series' = series /\ today' = today /\ heirless' = heirless
  BY <1>1 DEF R!Changed
<1>4. /\ ts \in Seq(R!Instances) /\ DOMAIN ts = DOMAIN tasks /\ Len(ts) = Len(tasks)
      /\ ts[t] = x /\ \A u \in DOMAIN tasks : u # t => ts[u] = tasks[u]
  BY <1>1, TasksFit
<1>5. \A u \in DOMAIN tasks : ts[u].series = tasks[u].series /\ ts[u].date = tasks[u].date
  BY <1>4
<1>6. Dated(ts) /\ Orphans(ts, series, heirless)
  BY <1>4, <1>5, TasksFit DEF Dated, Orphans
<1>7. \A u \in DOMAIN tasks : u \notin excused' /\ ~ts[u].gone => ~tasks[u].gone /\ u \notin excused
  BY <1>4
<1>8. OneDate(ts, excused' \union heirless)
  <2>1. SUFFICES ASSUME NEW u \in DOMAIN ts \ (excused' \union heirless), NEW v \in DOMAIN ts \ (excused' \union heirless),
                        u # v, ~ts[u].gone, ~ts[v].gone, ts[u].series = ts[v].series, ts[u].series # 0
                 PROVE  ts[u].date # ts[v].date
    BY DEF OneDate
  <2>2. ~tasks[u].gone /\ u \notin excused /\ ~tasks[v].gone /\ v \notin excused
    BY <1>4, <1>7, <2>1
  <2> QED BY <1>4, <1>5, <2>1, <2>2, TasksFit DEF OneDate
<1>9. R!OneInstancePerDate'
  BY <1>3, <1>8 DEF R!OneInstancePerDate, OneDate
<1>10. Len(ts) <= MaxTasks
  BY <1>2, <1>4
<1>11. PICK s : s = x.series
  OBVIOUS
<1>12. stats' \in [R!SeriesIds -> R!Streaks] /\ R!GenerationComplete' /\ R!StreaksAreRuns'
  BY <1>2, <1>3, <1>4, <1>6, <1>9, <1>10, <1>11, Recomputed
<1>13. requested' \in 0 .. MaxSteps
  BY <1>2, <1>3, SeriesAssumption DEF R!Request, R!TypeOK
<1>14. R!TypeOK'
  BY <1>2, <1>3, <1>4, <1>12, <1>13 DEF R!TypeOK
<1> QED BY <1>3, <1>6, <1>9, <1>10, <1>12, <1>14 DEF SeriesInv

LEMMA TaskSteps ==
    ASSUME SeriesInv, NEW t \in DOMAIN tasks, R!Toggle(t) \/ R!Trash(t) \/ R!Restore(t)
    PROVE  SeriesInv'
<1>1. PICK y : y = tasks[t]
  OBVIOUS
<1>2. y \in R!Instances /\ excused \subseteq DOMAIN tasks
  BY <1>1 DEF SeriesInv, R!TypeOK
<1>3. CASE R!Toggle(t)
  <2>1. PICK x : x = [y EXCEPT !.done = ~@]
    OBVIOUS
  <2>2. x \in R!Instances /\ x.series = y.series /\ x.date = y.date /\ x.gone = y.gone
    BY <1>2, <2>1 DEF R!Instances
  <2>3. R!Changed(t, x) /\ ~y.gone /\ excused' = excused
    BY <1>1, <1>3, <2>1 DEF R!Toggle
  <2> QED BY <1>1, <1>2, <2>2, <2>3, ChangedStep
<1>4. CASE R!Trash(t)
  <2>1. PICK x : x = [y EXCEPT !.gone = TRUE]
    OBVIOUS
  <2>2. x \in R!Instances /\ x.series = y.series /\ x.date = y.date /\ x.gone
    BY <1>2, <2>1 DEF R!Instances
  <2>3. R!Changed(t, x) /\ excused' = excused
    BY <1>1, <1>4, <2>1 DEF R!Trash
  <2> QED BY <1>1, <1>2, <2>2, <2>3, ChangedStep
<1>5. CASE R!Restore(t)
  <2>1. PICK x : x = [y EXCEPT !.gone = FALSE]
    OBVIOUS
  <2>2. x \in R!Instances /\ x.series = y.series /\ x.date = y.date
    BY <1>2, <2>1 DEF R!Instances
  <2>3. R!Changed(t, x) /\ excused' = excused \union {t}
    BY <1>1, <1>5, <2>1 DEF R!Restore
  <2>4. excused' \subseteq DOMAIN tasks /\ excused \subseteq excused' /\ t \in excused'
    BY <1>2, <2>3
  <2> QED BY <1>1, <2>2, <2>3, <2>4, ChangedStep
<1> QED BY <1>3, <1>4, <1>5

LEMMA GetStatsStep ==
    ASSUME SeriesInv, NEW s \in R!Known, R!GetStats(s)
    PROVE  SeriesInv'
<1>1. R!TypeOK /\ Len(tasks) <= MaxTasks /\ R!OneInstancePerDate
  BY DEF SeriesInv
<1>2. /\ R!Request /\ R!Refresh(tasks, {s}) /\ answer' = [op |-> "stats", id |-> s]
      /\ UNCHANGED <<series, tasks, today, excused, heirless>>
  BY DEF R!GetStats
<1>3. PICK ts : ts = tasks
  OBVIOUS
<1>4. R!OneInstancePerDate'
  BY <1>1, <1>2 DEF R!OneInstancePerDate
<1>5. /\ ts \in Seq(R!Instances) /\ Len(ts) <= MaxTasks /\ Dated(ts) /\ tasks' = ts /\ R!Refresh(ts, {s})
      /\ answer' = (IF s \in R!Known THEN [op |-> "stats", id |-> s] ELSE R!NoAnswer)
  BY <1>1, <1>2, <1>3, TasksFit
<1>6. stats' \in [R!SeriesIds -> R!Streaks] /\ R!GenerationComplete' /\ R!StreaksAreRuns'
  BY <1>1, <1>2, <1>4, <1>5, Recomputed
<1>7. requested' \in 0 .. MaxSteps
  BY <1>1, <1>2, SeriesAssumption DEF R!Request, R!TypeOK
<1>8. R!TypeOK'
  BY <1>1, <1>2, <1>6, <1>7 DEF R!TypeOK
<1>9. Dated(tasks)' /\ Orphans(tasks, series, heirless)' /\ (Len(tasks) <= MaxTasks)'
  BY <1>1, <1>2, TasksFit DEF Dated, Orphans
<1> QED BY <1>4, <1>6, <1>8, <1>9 DEF SeriesInv

LEMMA NextDayStep == ASSUME SeriesInv, R!NextDay PROVE SeriesInv'
<1>1. R!TypeOK /\ Len(tasks) <= MaxTasks /\ R!OneInstancePerDate
  BY DEF SeriesInv
<1>2. /\ today < LastDay /\ today' = today + 1 /\ answer' = R!NoAnswer
      /\ UNCHANGED <<series, tasks, stats, excused, heirless, requested>>
  BY DEF R!NextDay
<1>3. today' \in R!Days
  BY <1>1, <1>2, SeriesAssumption DEF R!TypeOK, R!Days
<1>4. R!TypeOK'
  BY <1>1, <1>2, <1>3 DEF R!TypeOK
<1>5. answer'.op = "none"
  BY <1>2 DEF R!NoAnswer
<1>6. R!GenerationComplete' /\ R!StreaksAreRuns'
  BY <1>5 DEF R!GenerationComplete, R!StreaksAreRuns
<1>7. Dated(tasks)' /\ Orphans(tasks, series, heirless)' /\ (Len(tasks) <= MaxTasks)' /\ R!OneInstancePerDate'
  BY <1>1, <1>2, TasksFit DEF Dated, Orphans, R!OneInstancePerDate
<1> QED BY <1>4, <1>6, <1>7 DEF SeriesInv

LEMMA SeriesRests == ASSUME SeriesInv, UNCHANGED seriesVars PROVE SeriesInv'
<1>1. /\ UNCHANGED <<series, tasks, stats, today>> /\ UNCHANGED <<answer, excused, heirless, requested>>
      /\ R!TypeOK /\ Orphans(tasks, series, heirless) /\ Dated(tasks) /\ Len(tasks) <= MaxTasks
      /\ R!OneInstancePerDate /\ R!GenerationComplete /\ R!StreaksAreRuns
  BY DEF SeriesInv, seriesVars
<1>2. R!TypeOK' /\ Dated(tasks)' /\ Orphans(tasks, series, heirless)' /\ (Len(tasks) <= MaxTasks)'
  BY <1>1 DEF R!TypeOK, Dated, Orphans
<1>3. R!OneInstancePerDate' /\ R!GenerationComplete'
  BY <1>1 DEF R!OneInstancePerDate, R!GenerationComplete
<1>4. R!StreaksAreRuns'
  BY <1>1 DEF R!StreaksAreRuns, R!Due, R!Runs, R!RunLength, R!Unbroken, R!Between, R!InstancesOf
<1> QED BY <1>2, <1>3, <1>4 DEF SeriesInv

(* What the recurring tasks need of the part at work.                      *)
SeriesHolds == part = "series" => SeriesInv

LEMMA SeriesStep == ASSUME SeriesInv, R!Next PROVE SeriesInv'
<1>1. CASE \E c \in Habits, n \in {today, today + 1} \intersect R!Days :
              R!CreateTemplate(c, n) \/ \E s \in R!Known : R!UpdateTemplate(s, c, n)
  BY <1>1, TemplateSteps
<1>2. CASE \E s \in R!Known : R!DeleteTemplate(s) \/ R!GetStats(s)
  BY <1>2, DeleteTemplateStep, GetStatsStep
<1>3. CASE \E s \in R!Known : R!Generate(s, today, LastDay)
  BY <1>3, GenerateStep
<1>4. CASE R!GenerateAll(FirstDay, today)
  BY <1>4, GenerateAllStep
<1>5. CASE \E n \in {0, today} : R!CreateTask(n)
  BY <1>5, CreateTaskStep
<1>6. CASE \E t \in DOMAIN tasks, c \in Habits : R!Adopt(t, c)
  BY <1>6, AdoptStep
<1>7. CASE \E t \in DOMAIN tasks : R!Toggle(t) \/ R!Trash(t) \/ R!Restore(t)
  BY <1>7, TaskSteps
<1>8. CASE R!NextDay
  BY <1>8, NextDayStep
<1> QED BY <1>1, <1>2, <1>3, <1>4, <1>5, <1>6, <1>7, <1>8 DEF R!Next

LEMMA PartsKeepSeries ==
    ASSUME SeriesHolds, [PartsNext]_<<vars, others>>
    PROVE  SeriesHolds'
<1>1. CASE part = "series" /\ R!Next /\ UNCHANGED part
  BY <1>1, SeriesStep DEF SeriesHolds
<1>2. CASE UNCHANGED <<part, seriesVars>>
  BY <1>2, SeriesRests DEF SeriesHolds
<1> QED BY <1>1, <1>2 DEF PartsNext, others

(* However templates are created, rescheduled and deleted, tasks generated, *)
(* adopted, completed, deleted and restored, no date has two instances of  *)
(* a template, none is missing of the days generated, and the streaks are  *)
(* what the instances say (RecurringTaskService.ts).                       *)
THEOREM SeriesOfServer == PartsSpec => []InstancesFollow
<1>1. PartsInit => SeriesHolds
  BY SeriesStart DEF PartsInit, SeriesHolds
<1>2. SeriesHolds /\ [PartsNext]_<<vars, others>> => SeriesHolds'
  BY PartsKeepSeries
<1>3. SeriesHolds => InstancesFollow
  BY DEF SeriesHolds, SeriesInv, InstancesFollow
<1> QED BY <1>1, <1>2, <1>3, PTL DEF PartsSpec

----------------------------------------------------------------------------
(* Snapshots beside the other parts: what SnapshotsProofs proves holds of  *)
(* the part of that name.                                                  *)
P == INSTANCE SnapshotsProofs WITH
        MaxTask <- 3, MaxList <- 1, MaxTab <- 1, MaxSeries <- 1, MaxSteps <- 4,
        Flaws <- SomeFlaws, Forests <- Trees

LEMMA Three == ASSUME NEW S, NEW a \in S, NEW b \in S, NEW c \in S PROVE <<a, b, c>> \in Seq(S)
OBVIOUS

LEMMA SnapshotsAssumed == P!SnapshotsAssumption
<1>1. P!NoFlaw \in SomeFlaws
  BY DEF P!NoFlaw, SomeFlaws, Flaw
<1>2. ASSUME NEW f \in Trees
      PROVE  f \in Seq([up: Nat, canceled: BOOLEAN]) /\ \A n \in DOMAIN f : f[n].up < n
  <2>1. \A u \in Nat, c \in BOOLEAN : /\ Node(u, c) \in [up: Nat, canceled: BOOLEAN]
                                      /\ Node(u, c).up = u
    BY DEF Node
  <2>2. CASE f = <<Node(0, TRUE), Node(0, FALSE), Node(2, FALSE)>>
    <3>1. Len(f) = 3 /\ f[1].up = 0 /\ f[2].up = 0 /\ f[3].up = 2
      BY <2>1, <2>2
    <3>2. f \in Seq([up: Nat, canceled: BOOLEAN])
      BY <2>1, <2>2, Three
    <3> QED BY <3>1, <3>2
  <2>3. CASE f = <<Node(0, FALSE), Node(0, FALSE), Node(1, TRUE)>>
    <3>1. Len(f) = 3 /\ f[1].up = 0 /\ f[2].up = 0 /\ f[3].up = 1
      BY <2>1, <2>3
    <3>2. f \in Seq([up: Nat, canceled: BOOLEAN])
      BY <2>1, <2>3, Three
    <3> QED BY <3>1, <3>2
  <2>4. CASE f = <<Node(0, FALSE), Node(1, TRUE), Node(1, TRUE)>>
    <3>1. Len(f) = 3 /\ f[1].up = 0 /\ f[2].up = 1 /\ f[3].up = 1
      BY <2>1, <2>4
    <3>2. f \in Seq([up: Nat, canceled: BOOLEAN])
      BY <2>1, <2>4, Three
    <3> QED BY <3>1, <3>2
  <2> QED BY <2>2, <2>3, <2>4 DEF Trees
<1> QED BY <1>1, <1>2, NoneAssumption DEF P!SnapshotsAssumption

LEMMA SnapshotsBegins == X!Init => P!Init
BY DEF X!Init, P!Init, X!TaskIds, P!TaskIds, X!ListIds, P!ListIds, X!NoRow, P!NoRow

LEMMA SnapshotsTables ==
    /\ X!TaskIds = P!TaskIds /\ X!ListIds = P!ListIds /\ X!TabIds = P!TabIds /\ X!SeriesIds = P!SeriesIds
    /\ X!NoRow = P!NoRow /\ X!NoFlaw = P!NoFlaw
    /\ \A d : X!Present(d) = P!Present(d) /\ X!Lists(d) = P!Lists(d)
    /\ X!Present(db)' = P!Present(db)'
BY DEF X!TaskIds, P!TaskIds, X!ListIds, P!ListIds, X!TabIds, P!TabIds, X!SeriesIds, P!SeriesIds,
       X!NoRow, P!NoRow, X!NoFlaw, P!NoFlaw, X!Present, P!Present, X!Lists, P!Lists

LEMMA SnapshotsAccept == \A d, flaw : X!Restorable(d, flaw) <=> P!Restorable(d, flaw)
<1>1. \A d : X!ValidReferences(d) <=> P!ValidReferences(d)
  BY SnapshotsTables DEF X!ValidReferences, P!ValidReferences
<1>2. \A flaw : X!ValidDocument(flaw) <=> P!ValidDocument(flaw)
  BY DEF X!ValidDocument, P!ValidDocument, X!ValidTask, P!ValidTask, X!ValidSomedayTab,
       P!ValidSomedayTab, X!ValidSomedayList, P!ValidSomedayList, X!ValidProject,
       P!ValidProject, X!ValidRecurringTask, P!ValidRecurringTask, X!ValidHoliday,
       P!ValidHoliday, X!ValidDayNote, P!ValidDayNote, X!ValidUserPreferences,
       P!ValidUserPreferences, X!Accepts, P!Accepts
<1> QED BY <1>1, <1>2 DEF X!Restorable, P!Restorable

LEMMA SnapshotsIds ==
    /\ X!NewTask = P!NewTask /\ X!NewList = P!NewList /\ X!NewTab = P!NewTab
    /\ \A S, n : X!Before(S, n) = P!Before(S, n)
    /\ \A n : X!ParentRow(n) = P!ParentRow(n)
<1>1. \A S : X!NextFree(S) = P!NextFree(S)
  BY DEF X!NextFree, P!NextFree
<1>2. X!NewTask = P!NewTask /\ X!NewList = P!NewList /\ X!NewTab = P!NewTab
  BY <1>1, SnapshotsTables DEF X!NewTask, P!NewTask, X!NewList, P!NewList, X!NewTab, P!NewTab
<1>3. \A S, n : X!Before(S, n) = P!Before(S, n)
  BY DEF X!Before, P!Before, X!Cardinality, P!Cardinality
<1>4. \A n : X!ParentRow(n) = P!ParentRow(n)
  BY DEF X!ParentRow, P!ParentRow, X!Up, P!Up
<1> QED BY <1>2, <1>3, <1>4

LEMMA SnapshotsSteps == X!Next => P!Next
<1> USE SnapshotsTables, SnapshotsIds
    DEF X!Idle, P!Idle, X!Busy, P!Busy, X!Count, P!Count, X!Write, P!Write
<1>1. \A l, p, s : X!CreateTask(l, p, s) => P!CreateTask(l, p, s)
  BY DEF X!CreateTask, P!CreateTask
<1>2. \A t : X!TrashTask(t) => P!TrashTask(t)
  BY DEF X!TrashTask, P!TrashTask
<1>3. \A t : X!UntrashTask(t) => P!UntrashTask(t)
  BY DEF X!UntrashTask, P!UntrashTask
<1>4. \A t : X!PurgeTask(t) => P!PurgeTask(t)
  BY DEF X!PurgeTask, P!PurgeTask, X!NoRow, P!NoRow
<1>5. \A tab : X!CreateList(tab) => P!CreateList(tab)
  BY DEF X!CreateList, P!CreateList
<1>6. \A tab : X!DeleteTab(tab) => P!DeleteTab(tab)
  BY DEF X!DeleteTab, P!DeleteTab
<1>7. X!CreateTab => P!CreateTab
  BY DEF X!CreateTab, P!CreateTab
<1>8. X!RemoveList => P!RemoveList
  BY DEF X!RemoveList, P!RemoveList
<1>9. \A l : X!DeleteList(l) => P!DeleteList(l)
  BY DEF X!DeleteList, P!DeleteList, X!TasksOf, P!TasksOf
<1>10. \A ok : X!RemoveNext(ok) => P!RemoveNext(ok)
  BY DEF X!RemoveNext, P!RemoveNext
<1>11. \A s : X!CreateSeries(s) => P!CreateSeries(s)
  BY DEF X!CreateSeries, P!CreateSeries
<1>12. \A s : X!DeleteSeries(s) => P!DeleteSeries(s)
  BY DEF X!DeleteSeries, P!DeleteSeries
<1>13. X!Export => P!Export
  BY DEF X!Export, P!Export, X!BuildSnapshot, P!BuildSnapshot
<1>14. \A d, flaw : X!Restore(d, flaw) => P!Restore(d, flaw)
  BY SnapshotsAccept DEF X!Restore, P!Restore, X!BuildSnapshot, P!BuildSnapshot
<1>15. X!WriteAll => P!WriteAll
  BY DEF X!WriteAll, P!WriteAll, X!Loaded, P!Loaded
<1>16. \A f : X!StartImport(f) => P!StartImport(f)
  BY DEF X!StartImport, P!StartImport, X!Roots, P!Roots
<1>17. X!CreateLevel => P!CreateLevel
  BY DEF X!CreateLevel, P!CreateLevel
<1>18. (X!CancelRow => P!CancelRow) /\ (X!NextLevel => P!NextLevel)
  BY DEF X!CancelRow, P!CancelRow, X!NextLevel, P!NextLevel, X!Canceled, P!Canceled,
         X!Below, P!Below, X!Up, P!Up
<1>19. X!FinishImport => P!FinishImport
  BY DEF X!FinishImport, P!FinishImport
<1>20. X!Crash => P!Crash
  BY DEF X!Crash, P!Crash
<1> QED BY <1>1, <1>2, <1>3, <1>4, <1>5, <1>6, <1>7, <1>8, <1>9, <1>10, <1>11, <1>12,
           <1>13, <1>14, <1>15, <1>16, <1>17, <1>18, <1>19, <1>20 DEF X!Next, P!Next, X!MapV1Forward, P!MapV1Forward

LEMMA SnapshotsKept == X!Init => P!SnapshotsInv
BY SnapshotsBegins, SnapshotsAssumed, P!InitHolds

LEMMA PartsKeepSnapshots ==
    ASSUME part = "snapshots" => P!SnapshotsInv, PartsNext \/ UNCHANGED <<vars, others>>
    PROVE  /\ (part = "snapshots" => P!SnapshotsInv)'
           /\ part = "snapshots" => P!RestoreStep
<1>1. part' = part
  BY DEF PartsNext, others
<1>2. SUFFICES ASSUME part = "snapshots" PROVE P!SnapshotsInv' /\ P!RestoreStep
  BY <1>1
<1>3. P!Next \/ UNCHANGED P!vars
  BY <1>2, SnapshotsSteps DEF PartsNext, others, snapshotVars, P!vars
<1> QED BY <1>2, <1>3, SnapshotsAssumed, P!NextKeeps, P!SameKeeps, P!RestoresAreSafe

LEMMA SnapshotsLoaded == \A d : X!Loaded(d) = P!Loaded(d)
BY DEF X!Loaded, P!Loaded

(* A restore of the server leaves every table as it was or as the document *)
(* says, and never replaces what no backup holds (SnapshotRestoreWriter,   *)
(* RestoreIsSafe for the instance the run checks).                         *)
THEOREM RestoresOfServer == PartsSpec => RestoreSafe
<1> DEFINE Inv == part = "snapshots" => P!SnapshotsInv
<1>1. PartsInit => Inv
  BY SnapshotsKept DEF PartsInit
<1>2. Inv /\ [PartsNext]_<<vars, others>> => Inv'
  BY PartsKeepSnapshots
<1>3. Inv /\ [PartsNext]_<<vars, others>> => [part = "snapshots" => X!RestoreStep]_<<vars, others>>
  BY PartsKeepSnapshots, SnapshotsLoaded DEF X!RestoreStep, P!RestoreStep
<1> QED BY <1>1, <1>2, <1>3, PTL DEF PartsSpec, RestoreSafe

(* Exports of the server can be restored, and imports make the tree of the *)
(* file (ImportService, ExportService; ExportsRestore and ImportsKeepTrees *)
(* for the instance the run checks).                                       *)
THEOREM TreesOfServer == PartsSpec => []TreesKept
<1> DEFINE Inv == part = "snapshots" => P!SnapshotsInv
<1>1. PartsInit => Inv
  BY SnapshotsKept DEF PartsInit
<1>2. Inv /\ [PartsNext]_<<vars, others>> => Inv'
  BY PartsKeepSnapshots
<1>3. Inv => TreesKept
  <2>1. P!RestorableUntilDeleted => X!RestorableUntilDeleted
    BY SnapshotsTables DEF X!RestorableUntilDeleted, P!RestorableUntilDeleted, X!ValidReferences,
       P!ValidReferences, X!BuildSnapshot, P!BuildSnapshot
  <2>2. P!ImportKeepsTree => X!ImportKeepsTree
    BY SnapshotsIds DEF X!ImportKeepsTree, P!ImportKeepsTree
  <2> QED BY <2>1, <2>2, SnapshotsAssumed, P!ReferencesAreFound, P!TreesAreKept DEF TreesKept
<1> QED BY <1>1, <1>2, <1>3, PTL DEF PartsSpec

----------------------------------------------------------------------------
(* The storage adapters, side by side.                                     *)

(* Rows whose ids go up to n.                                              *)
Sound(x, n) == x \in Seq(T!Rows) /\ \A i \in DOMAIN x : x[i].id <= n

(* A table of day notes: none in the trash, one for a date.                *)
Tidy(x) ==
    \A i \in DOMAIN x :
        /\ ~x[i].gone
        /\ \A j \in DOMAIN x : i # j => x[i].key # x[j].key /\ x[i].id # x[j].id

(* Whatever set the two apart, the rows stay rows; until then the tables   *)
(* are one table, whose ids the counter knows and whose notes are tidy.    *)
AdapterInv ==
    /\ kind \in T!AllKinds /\ stamps \in 0 .. Calls /\ counter \in 0 .. 2 * stamps
    /\ Sound(sql, 2 * stamps) /\ Sound(mem, 2 * stamps) /\ Sound(saved, 2 * stamps)
    /\ answers \in [sql: {"row", "none", "error"}, mem: {"row", "none", "error"}]
    /\ apart \subseteq {"moved", "reused", "same tag", "empty patch"}
    /\ apart = {} =>
         /\ sql = mem /\ answers.sql = answers.mem
         /\ kind # "prefs" => \A i \in DOMAIN sql : sql[i].id <= counter
         /\ kind = "note" => Tidy(sql) /\ Tidy(saved)

LEMMA Largest ==
    ASSUME NEW S, NEW n \in Nat, S \subseteq 0 .. n
    PROVE  /\ T!MaxOf(S) \in S \union {0}
           /\ \A k \in S \union {0} : k <= T!MaxOf(S)
<1> DEFINE B == { b \in Nat : \A k \in S \union {0} : k <= b }
<1>1. n \in B /\ B \subseteq Nat
  OBVIOUS
<1>2. PICK m \in B : \A k \in B : m <= k
  <2> HIDE DEF B
  <2> QED BY <1>1, LeastNumber
<1>3. m \in S \union {0}
  <2> SUFFICES ASSUME m \notin S \union {0} PROVE FALSE
    OBVIOUS
  <2>1. m \in Nat /\ m # 0 /\ \A k \in S \union {0} : k \in Nat /\ k <= m /\ k # m
    BY <1>2
  <2>2. m - 1 \in Nat /\ \A k \in S \union {0} : k <= m - 1
    BY <2>1
  <2>3. m - 1 \in B
    BY <2>2
  <2> HIDE DEF B
  <2> QED BY <1>2, <2>1, <2>3
<1>4. m \in S \union {0} /\ \A k \in S \union {0} : k <= m
  BY <1>2, <1>3
<1>5. PICK w : /\ w = T!MaxOf(S)
               /\ w = CHOOSE v \in S \union {0} : \A k \in S \union {0} : k <= v
  BY DEF T!MaxOf
<1>6. w \in S \union {0} /\ \A k \in S \union {0} : k <= w
  <2> HIDE DEF B
  <2> QED BY <1>4, <1>5, Zenon
<1> QED BY <1>5, <1>6

(* What Without computes.                                                  *)
LEMMA WithoutRecursion ==
    ASSUME NEW x \in Seq(T!Rows), NEW S
    PROVE  \E f : /\ T!Without(x, S) = f[Len(x)]
                  /\ f[0] = <<>>
                  /\ \A i \in 1 .. Len(x) :
                        f[i] = IF x[i].id \in S THEN f[i - 1] ELSE Append(f[i - 1], x[i])
<1> DEFINE G(f) == [i \in 0 .. Len(x) |->
                      IF i = 0 THEN <<>> ELSE IF x[i].id \in S THEN f[i - 1] ELSE Append(f[i - 1], x[i])]
           A == Seq(T!Rows)
           g == [i \in 1 .. Len(x) |-> [y \in A |-> IF x[i].id \in S THEN y ELSE Append(y, x[i])]]
<1>1. Len(x) \in Nat /\ g \in [1 .. Len(x) -> [A -> A]] /\ <<>> \in A
  OBVIOUS
<1>2. PICK h : Solves(h, Len(x), A, <<>>, g)
  <2> HIDE DEF g, A
  <2> QED BY <1>1, RecursionExists
<1>3. h \in [0 .. Len(x) -> A] /\ h[0] = <<>> /\ \A i \in 1 .. Len(x) : h[i] = g[i][h[i - 1]]
  <2> HIDE DEF g, A
  <2> QED BY <1>2 DEF Solves
<1>4. \A i \in 1 .. Len(x) : i - 1 \in 0 .. Len(x) /\ h[i - 1] \in A
  <2> HIDE DEF A, g
  <2> QED BY <1>1, <1>3
<1>5. \A i \in 1 .. Len(x) : h[i] = IF x[i].id \in S THEN h[i - 1] ELSE Append(h[i - 1], x[i])
  <2> TAKE i \in 1 .. Len(x)
  <2>1. g[i] = [y \in A |-> IF x[i].id \in S THEN y ELSE Append(y, x[i])]
    OBVIOUS
  <2> HIDE DEF g
  <2> QED BY <1>3, <1>4, <2>1
<1>6. h = G(h)
  <2> HIDE DEF g, A
  <2>1. \A i \in 0 .. Len(x) : i = 0 \/ i \in 1 .. Len(x)
    BY <1>1
  <2>2. \A i \in 0 .. Len(x) : h[i] = G(h)[i]
    BY <1>3, <1>5, <2>1
  <2>3. DOMAIN h = 0 .. Len(x) /\ h = [i \in 0 .. Len(x) |-> h[i]]
    BY <1>3
  <2> QED BY <2>2, <2>3
<1>7. PICK f : f = G(f) /\ f = CHOOSE f1 : f1 = G(f1)
  <2> HIDE DEF G
  <2> QED BY <1>6
<1>8. T!Without(x, S) = f[Len(x)]
  BY <1>7 DEF T!Without
<1>9. \A i \in 0 .. Len(x) : f[i] = IF i = 0 THEN <<>>
          ELSE IF x[i].id \in S THEN f[i - 1] ELSE Append(f[i - 1], x[i])
  BY <1>7
<1> HIDE DEF g, G, A
<1>10. /\ f[0] = <<>>
       /\ \A i \in 1 .. Len(x) : f[i] = IF x[i].id \in S THEN f[i - 1] ELSE Append(f[i - 1], x[i])
  BY <1>1, <1>9
<1> QED BY <1>8, <1>10

(* Without keeps rows of the table, and a tidy table tidy.                 *)
LEMMA WithoutKeeps ==
    ASSUME NEW x \in Seq(T!Rows), NEW S
    PROVE  /\ T!Without(x, S) \in Seq(T!Rows)
           /\ \A i \in DOMAIN T!Without(x, S) : \E j \in DOMAIN x : T!Without(x, S)[i] = x[j]
           /\ Tidy(x) => Tidy(T!Without(x, S))
<1>1. PICK f : /\ T!Without(x, S) = f[Len(x)]
               /\ f[0] = <<>>
               /\ \A i \in 1 .. Len(x) :
                     f[i] = IF x[i].id \in S THEN f[i - 1] ELSE Append(f[i - 1], x[i])
  BY WithoutRecursion
<1>2. Len(x) \in Nat /\ DOMAIN x = 1 .. Len(x) /\ \A i \in 1 .. Len(x) : x[i] \in T!Rows
  OBVIOUS
<1> DEFINE Drawn(y, n) == \A i \in DOMAIN y : \E j \in 1 .. n : y[i] = x[j]
           K == { i \in 0 .. Len(x) : f[i] \in Seq(T!Rows) /\ Drawn(f[i], i) /\ (Tidy(x) => Tidy(f[i])) }
<1>3. 0 \in K
  <2>1. <<>> \in Seq(T!Rows) /\ Drawn(<<>>, 0) /\ Tidy(<<>>) /\ 0 \in 0 .. Len(x)
    BY <1>2 DEF Tidy
  <2> HIDE DEF Drawn
  <2> QED BY <1>1, <2>1
<1>4. ASSUME NEW n \in 0 .. Len(x), n < Len(x), n \in K PROVE n + 1 \in K
  <2>1. /\ n + 1 \in 1 .. Len(x) /\ n + 1 - 1 = n /\ f[n] \in Seq(T!Rows) /\ x[n + 1] \in T!Rows
        /\ Drawn(f[n], n) /\ (Tidy(x) => Tidy(f[n]))
    BY <1>2, <1>4
  <2>2. f[n + 1] = IF x[n + 1].id \in S THEN f[n] ELSE Append(f[n], x[n + 1])
    <3> HIDE DEF K
    <3> QED BY <1>1, <2>1
  <2>3. \A y : Drawn(y, n) => Drawn(y, n + 1)
    BY <2>1
  <2>4. CASE x[n + 1].id \in S
    <3>1. f[n + 1] = f[n]
      BY <2>2, <2>4
    <3>2. Drawn(f[n + 1], n + 1)
      <4> HIDE DEF Drawn
      <4> QED BY <2>1, <2>3, <3>1
    <3> HIDE DEF Drawn
    <3> QED BY <2>1, <3>1, <3>2
  <2>5. CASE x[n + 1].id \notin S
    <3> DEFINE y == f[n]
               z == Append(y, x[n + 1])
    <3>1. f[n + 1] = z
      BY <2>2, <2>5
    <3>2. /\ z \in Seq(T!Rows) /\ Len(z) = Len(y) + 1 /\ Len(y) \in Nat
          /\ DOMAIN y = 1 .. Len(y) /\ DOMAIN z = 1 .. Len(y) + 1
          /\ \A i \in 1 .. Len(y) : z[i] = y[i]
          /\ z[Len(y) + 1] = x[n + 1]
      BY <2>1
    <3> HIDE DEF y, z
    <3>6. Drawn(y, n) /\ (Tidy(x) => Tidy(y))
      BY <2>1 DEF y
    <3>3. Drawn(z, n + 1)
      <4> SUFFICES ASSUME NEW i \in DOMAIN z PROVE \E j \in 1 .. n + 1 : z[i] = x[j]
        OBVIOUS
      <4>1. CASE i \in 1 .. Len(y)
        BY <2>1, <3>2, <3>6, <4>1
      <4>2. CASE i = Len(y) + 1
        BY <2>1, <3>2, <4>2
      <4> QED BY <3>2, <4>1, <4>2
    <3>4. ASSUME Tidy(x) PROVE Tidy(z)
      <4>1. \A i \in 1 .. Len(y) : ~y[i].gone /\ y[i].key # x[n + 1].key /\ y[i].id # x[n + 1].id
        <5> TAKE i \in 1 .. Len(y)
        <5>1. PICK j \in 1 .. n : y[i] = x[j]
          BY <3>2, <3>6
        <5>2. j \in DOMAIN x /\ n + 1 \in DOMAIN x /\ j # n + 1
          BY <1>2, <2>1
        <5> QED BY <3>4, <5>1, <5>2 DEF Tidy
      <4>2. ~x[n + 1].gone
        BY <1>2, <2>1, <3>4 DEF Tidy
      <4>3. \A i, j \in 1 .. Len(y) : i # j => y[i].key # y[j].key /\ y[i].id # y[j].id
        BY <3>2, <3>4, <3>6 DEF Tidy
      <4> QED BY <3>2, <4>1, <4>2, <4>3 DEF Tidy
    <3> HIDE DEF Drawn
    <3> QED BY <2>1, <3>1, <3>2, <3>3, <3>4
  <2> QED BY <2>4, <2>5
<1>5. \A n \in 0 .. Len(x) : n \in K
  <2> HIDE DEF K
  <2> QED BY <1>2, <1>3, <1>4, BoundedInduction
<1>6. Len(x) \in K
  <2> HIDE DEF K
  <2> QED BY <1>2, <1>5
<1> QED BY <1>1, <1>2, <1>6

(* A patch names fields of a row and says what they become.                *)
PatchOf(p) == DOMAIN p \subseteq T!Fields /\ \A f \in DOMAIN p : p[f] \in T!Values

LEMMA PatchesFit == \A p \in T!Patches : PatchOf(p)
BY DEF T!Patches, PatchOf

LEMMA RowStamped ==
    ASSUME NEW row \in T!Rows, stamps \in 0 .. Calls, NEW g \in BOOLEAN
    PROVE  /\ T!Stamped(row) \in T!Rows /\ T!Stamped(row).id = row.id
           /\ T!Stamped(row).key = row.key /\ T!Stamped(row).gone = row.gone
           /\ [T!Stamped(row) EXCEPT !.gone = g] \in T!Rows
           /\ [T!Stamped(row) EXCEPT !.gone = g].id = row.id
BY DEF T!Stamped, T!Rows

LEMMA RowPatched ==
    ASSUME NEW row \in T!Rows, NEW p, PatchOf(p), NEW C1 \in SUBSET T!Fields
    PROVE  /\ T!Patched(row, p, C1) \in T!Rows /\ T!Patched(row, p, C1).id = row.id
           /\ T!Patched(row, p, C1).gone = row.gone /\ T!Patched(row, p, C1).stamp = row.stamp
           /\ \A f \in T!Fields : T!Patched(row, p, C1)[f] = IF f \in DOMAIN p \intersect C1 THEN p[f] ELSE row[f]
<1>1. DOMAIN row = {"id", "key", "ref", "val", "stamp", "gone"}
  BY DEF T!Rows
<1> DEFINE q == T!Patched(row, p, C1)
<1>2. /\ q = [f \in {"id", "key", "ref", "val", "stamp", "gone"} |-> q[f]]
      /\ \A f \in {"id", "key", "ref", "val", "stamp", "gone"} :
            q[f] = IF f \in DOMAIN p \intersect C1 THEN p[f] ELSE row[f]
  BY <1>1 DEF T!Patched
<1>3. q["id"] = row.id /\ q["gone"] = row.gone /\ q["stamp"] = row.stamp
  BY <1>2 DEF T!Fields
<1>4. \A f \in T!Fields : q[f] \in T!Values
  BY <1>2 DEF T!Fields, T!Rows, PatchOf
<1>5. q = [id |-> q["id"], key |-> q["key"], ref |-> q["ref"], val |-> q["val"],
           stamp |-> q["stamp"], gone |-> q["gone"]]
  <2> HIDE DEF q
  <2> QED BY <1>2
<1>6. q \in T!Rows
  <2> HIDE DEF q
  <2>1. q["key"] \in T!Values /\ q["ref"] \in T!Values /\ q["val"] \in T!Values
    BY <1>4 DEF T!Fields
  <2> QED BY <1>3, <1>5, <2>1 DEF T!Rows
<1>7. \A f \in T!Fields : q[f] = IF f \in DOMAIN p \intersect C1 THEN p[f] ELSE row[f]
  BY <1>2 DEF T!Fields
<1> HIDE DEF q
<1> QED BY <1>3, <1>6, <1>7 DEF q

(* Rows whose ids are ids of x.                                            *)
Within(y, x) == y \in Seq(T!Rows) /\ \A i \in DOMAIN y : \E j \in DOMAIN x : y[i].id = x[j].id

Answered(r) == r.answer \in {"row", "none", "error"}

LEMMA Found ==
    ASSUME NEW x \in Seq(T!Rows), NEW id, T!Has(x, id)
    PROVE  T!At(x, id) \in DOMAIN x /\ x[T!At(x, id)].id = id /\ x[T!At(x, id)] \in T!Rows
<1>1. \E i \in DOMAIN x : x[i].id = id
  BY DEF T!Has, T!Ids
<1>2. T!At(x, id) \in DOMAIN x /\ x[T!At(x, id)].id = id
  BY <1>1 DEF T!At
<1> QED BY <1>2

LEMMA Changed ==
    ASSUME NEW x \in Seq(T!Rows), NEW id, T!Has(x, id), NEW row \in T!Rows, row.id = id
    PROVE  Within(T!Change(x, id, row), x)
<1> DEFINE a == T!At(x, id)
           y == [x EXCEPT ![a] = row]
<1>1. a \in DOMAIN x /\ x[a].id = id
  BY Found
<1> HIDE DEF a
<1>2. y \in Seq(T!Rows) /\ DOMAIN y = DOMAIN x /\ \A i \in DOMAIN x : y[i].id = x[i].id
  BY <1>1
<1>3. T!Change(x, id, row) = y
  BY DEF T!Change, a
<1> HIDE DEF y
<1> QED BY <1>2, <1>3 DEF Within

LEMMA Same == ASSUME NEW x \in Seq(T!Rows) PROVE Within(x, x)
BY DEF Within

LEMMA Edits ==
    ASSUME NEW x \in Seq(T!Rows), stamps \in 0 .. Calls, NEW id,
           NEW p, PatchOf(p), NEW C1 \in SUBSET T!Fields
    PROVE  /\ Within(T!Edit(x, id, p, C1).rows, x) /\ Answered(T!Edit(x, id, p, C1))
           /\ Within(T!EditLive(x, id, p, C1).rows, x) /\ Answered(T!EditLive(x, id, p, C1))
<1>1. Within(x, x)
  BY Same
<1>2. ASSUME T!Has(x, id)
      PROVE  /\ Within(T!Change(x, id, T!Patched(x[T!At(x, id)], p, C1)), x)
             /\ Within(T!Change(x, id, T!Stamped(T!Patched(x[T!At(x, id)], p, C1))), x)
  <2>1. x[T!At(x, id)].id = id /\ x[T!At(x, id)] \in T!Rows
    BY <1>2, Found
  <2>2. /\ T!Patched(x[T!At(x, id)], p, C1) \in T!Rows
        /\ T!Patched(x[T!At(x, id)], p, C1).id = id
    BY <2>1, RowPatched
  <2>3. /\ T!Stamped(T!Patched(x[T!At(x, id)], p, C1)) \in T!Rows
        /\ T!Stamped(T!Patched(x[T!At(x, id)], p, C1)).id = id
    BY <2>2, RowStamped
  <2> QED BY <1>2, <2>2, <2>3, Changed
<1> QED BY <1>1, <1>2 DEF T!Edit, T!EditLive, T!Live, T!Done, T!NotFound, Answered

LEMMA Trashes ==
    ASSUME NEW x \in Seq(T!Rows), stamps \in 0 .. Calls, NEW id
    PROVE  /\ Within(T!Trash(x, id).rows, x) /\ Answered(T!Trash(x, id))
           /\ Within(T!Untrash(x, id).rows, x) /\ Answered(T!Untrash(x, id))
<1>1. Within(x, x)
  BY Same
<1>2. ASSUME T!Has(x, id), NEW g \in BOOLEAN
      PROVE  Within(T!Change(x, id, [T!Stamped(x[T!At(x, id)]) EXCEPT !.gone = g]), x)
  <2>1. x[T!At(x, id)].id = id /\ x[T!At(x, id)] \in T!Rows
    BY <1>2, Found
  <2>2. /\ [T!Stamped(x[T!At(x, id)]) EXCEPT !.gone = g] \in T!Rows
        /\ [T!Stamped(x[T!At(x, id)]) EXCEPT !.gone = g].id = id
    BY <2>1, RowStamped
  <2> QED BY <1>2, <2>2, Changed
<1> QED BY <1>1, <1>2 DEF T!Trash, T!Untrash, T!Live, T!Trashed, T!Done, T!NotFound, Answered

LEMMA Drops ==
    ASSUME NEW x \in Seq(T!Rows), NEW id, NEW S
    PROVE  /\ Within(T!Without(x, S), x)
           /\ Within(T!Drop(x, id).rows, x) /\ Answered(T!Drop(x, id))
           /\ Within(T!PurgeBefore(x, id).rows, x) /\ Answered(T!PurgeBefore(x, id))
<1>1. \A D : Within(T!Without(x, D), x)
  BY WithoutKeeps DEF Within
<1>2. Within(x, x)
  BY Same
<1> QED BY <1>1, <1>2 DEF T!Drop, T!PurgeBefore, T!Done, T!NotFound, Answered


(* x with a row behind it.                                                 *)
Longer(y, x, row) ==
    /\ y \in Seq(T!Rows) /\ DOMAIN y = 1 .. Len(x) + 1 /\ y[Len(x) + 1] = row
    /\ \A i \in DOMAIN x : y[i] = x[i]

(* Inserting one row or two.                                               *)
LEMMA Inserted ==
    ASSUME NEW x \in Seq(T!Rows), NEW id \in 0 .. 2 * Calls, NEW r \in T!Input, stamps \in 0 .. Calls
    PROVE  /\ T!NewRow(id, r) \in T!Rows /\ T!NewRow(id, r).id = id /\ T!NewRow(id, r).key = r.key
           /\ T!NewRow(id, r).gone = FALSE
           /\ T!Insert(x, id, r) = [rows |-> Append(x, T!NewRow(id, r)), answer |-> "row"]
           /\ Longer(T!Insert(x, id, r).rows, x, T!NewRow(id, r))
           /\ Answered(T!Insert(x, id, r))
           /\ [r EXCEPT !.ref = 0] = r
<1> DEFINE w == T!NewRow(id, r)
<1>1. w \in T!Rows /\ w.id = id /\ w.key = r.key /\ w.gone = FALSE
  <2>1. r.key \in T!Values /\ r.ref \in T!Values /\ r.val \in T!Values
    BY DEF T!Input, T!Values
  <2> QED BY <2>1 DEF T!NewRow, T!Rows
<1>2. [r EXCEPT !.ref = 0] = r
  BY DEF T!Input
<1>3. T!Insert(x, id, r) = [rows |-> Append(x, w), answer |-> "row"]
  BY DEF T!Insert, T!Done
<1> HIDE DEF w
<1>4. /\ Append(x, w) \in Seq(T!Rows) /\ DOMAIN Append(x, w) = 1 .. Len(x) + 1
      /\ \A i \in DOMAIN x : Append(x, w)[i] = x[i]
      /\ Append(x, w)[Len(x) + 1] = w
  BY <1>1
<1>5. Answered(T!Insert(x, id, r))
  BY <1>3 DEF Answered
<1>6. Longer(T!Insert(x, id, r).rows, x, w)
  BY <1>3, <1>4 DEF Longer
<1> QED BY <1>1, <1>2, <1>3, <1>5, <1>6 DEF w

LEMMA NextFree ==
    ASSUME NEW n \in Nat, NEW x, Sound(x, n)
    PROVE  T!NextId(x) \in 1 .. n + 1 /\ \A i \in DOMAIN x : x[i].id < T!NextId(x)
<1>1. T!Ids(x) \subseteq 0 .. n /\ \A i \in DOMAIN x : x[i].id \in T!Ids(x)
  <2>1. \A i \in DOMAIN x : x[i] \in T!Rows
    BY DEF Sound
  <2>2. \A i \in DOMAIN x : x[i].id \in Nat
    BY <2>1 DEF T!Rows
  <2> QED BY <2>2 DEF T!Ids, Sound
<1>2. T!MaxOf(T!Ids(x)) \in 0 .. n /\ \A k \in T!Ids(x) : k <= T!MaxOf(T!Ids(x))
  BY <1>1, Largest
<1> QED BY <1>1, <1>2 DEF T!NextId

LEMMA InsertsOne ==
    ASSUME NEW x, NEW r
    PROVE  T!InsertAll(x, <<r>>) = T!Insert(x, T!NextId(x), r)
<1> DEFINE G(f) == [i \in 0 .. Len(<<r>>) |->
                      IF i = 0 THEN x ELSE T!Insert(f[i - 1], T!NextId(f[i - 1]), <<r>>[i]).rows]
           h == [i \in 0 .. 1 |-> IF i = 0 THEN x ELSE T!Insert(x, T!NextId(x), r).rows]
<1>1. h = G(h)
  OBVIOUS
<1>2. PICK f : f = G(f) /\ f = CHOOSE g : g = G(g)
  <2> HIDE DEF G, h
  <2> QED BY <1>1
<1>3. f[0] = x /\ f[1] = T!Insert(f[0], T!NextId(f[0]), r).rows
  BY <1>2
<1>4. T!InsertAll(x, <<r>>) = T!Done(f[1])
  BY <1>2 DEF T!InsertAll
<1> QED BY <1>3, <1>4 DEF T!Insert, T!Done

LEMMA InsertsTwo ==
    ASSUME NEW x, NEW r, NEW y, y = T!Insert(x, T!NextId(x), r).rows
    PROVE  T!InsertAll(x, <<r, r>>) = T!Insert(y, T!NextId(y), r)
<1> DEFINE G(f) == [i \in 0 .. Len(<<r, r>>) |->
                      IF i = 0 THEN x ELSE T!Insert(f[i - 1], T!NextId(f[i - 1]), <<r, r>>[i]).rows]
           h == [i \in 0 .. 2 |-> IF i = 0 THEN x ELSE IF i = 1 THEN y ELSE T!Insert(y, T!NextId(y), r).rows]
<1>1. h = G(h)
  OBVIOUS
<1>2. PICK f : f = G(f) /\ f = CHOOSE g : g = G(g)
  <2> HIDE DEF G, h
  <2> QED BY <1>1
<1>3. f[0] = x /\ f[1] = T!Insert(f[0], T!NextId(f[0]), r).rows /\ f[2] = T!Insert(f[1], T!NextId(f[1]), r).rows
  BY <1>2
<1>4. T!InsertAll(x, <<r, r>>) = T!Done(f[2])
  BY <1>2 DEF T!InsertAll
<1> QED BY <1>3, <1>4 DEF T!Insert, T!Done

LEMMA MemInserts ==
    ASSUME NEW x \in Seq(T!Rows), NEW n \in Nat, n + 2 <= 2 * Calls, NEW r \in T!Input, stamps \in 0 .. Calls
    PROVE  /\ T!MemInsertAll(x, n, <<r>>) = T!Insert(x, n + 1, r)
           /\ T!MemInsertAll(x, n, <<r, r>>) = T!Insert(T!Insert(x, n + 1, r).rows, n + 2, r)
<1> DEFINE a == T!NewRow(n + 1, r)
           b == T!NewRow(n + 2, r)
<1>0. a \in T!Rows /\ b \in T!Rows
  <2>1. n + 1 \in 0 .. 2 * Calls /\ n + 2 \in 0 .. 2 * Calls
    BY CallsAssumption
  <2> QED BY <2>1, Inserted
<1>1. [i \in DOMAIN <<r>> |-> T!NewRow(n + i, <<r>>[i])] = <<a>>
  OBVIOUS
<1>2. [i \in DOMAIN <<r, r>> |-> T!NewRow(n + i, <<r, r>>[i])] = <<a, b>>
  OBVIOUS
<1>3. T!MemInsertAll(x, n, <<r>>) = T!Done(x \o <<a>>) /\ T!MemInsertAll(x, n, <<r, r>>) = T!Done(x \o <<a, b>>)
  BY <1>1, <1>2 DEF T!MemInsertAll
<1>4. T!Insert(x, n + 1, r) = T!Done(Append(x, a))
      /\ T!Insert(Append(x, a), n + 2, r) = T!Done(Append(Append(x, a), b))
  BY DEF T!Insert
<1> HIDE DEF a, b
<1>5. x \o <<a>> = Append(x, a) /\ x \o <<a, b>> = Append(Append(x, a), b)
  BY <1>0
<1>6. T!Insert(x, n + 1, r).rows = Append(x, a)
  BY <1>4 DEF T!Done
<1> QED BY <1>3, <1>4, <1>5, <1>6

----------------------------------------------------------------------------
LEMMA WithinSound ==
    ASSUME NEW x, NEW n \in Int, Sound(x, n), NEW y, Within(y, x)
    PROVE  Sound(y, n) /\ \A k \in Int : (\A i \in DOMAIN x : x[i].id <= k) => \A i \in DOMAIN y : y[i].id <= k
BY DEF Sound, Within

LEMMA SoundMore ==
    ASSUME NEW x, NEW n \in Int, Sound(x, n), NEW m \in Int, n <= m
    PROVE  Sound(x, m)
<1>1. \A i \in DOMAIN x : x[i] \in T!Rows
  BY DEF Sound
<1>2. \A i \in DOMAIN x : x[i].id \in Int
  BY <1>1 DEF T!Rows
<1> QED BY <1>2 DEF Sound

LEMMA StampsFit == ASSUME AdapterInv PROVE stamps \in Nat /\ stamps \in 0 .. Calls /\ counter \in 0 .. 2 * stamps
<1>1. stamps \in 0 .. Calls /\ counter \in 0 .. 2 * stamps
  BY Zenon DEF AdapterInv
<1>2. stamps \in Nat
  BY <1>1, CallsAssumption
<1> QED BY <1>1, <1>2

(* What a call has to do.                                                  *)
LEMMA CallKeeps ==
    ASSUME AdapterInv, NEW c, T!Call(c),
           NEW s, s = T!SqliteCall(kind, sql, c), NEW m, m = T!InMemoryCall(kind, mem, counter, c),
           Sound(s.rows, 2 * stamps + 2), Sound(m.rows, 2 * stamps + 2), Answered(s), Answered(m),
           NEW n, n = T!CounterAfter(kind, counter, mem, c), n \in 0 .. 2 * stamps + 2,
           T!Parting(c, s, m) = {} =>
              /\ s = m
              /\ kind # "prefs" => \A i \in DOMAIN s.rows : s.rows[i].id <= n
              /\ kind = "note" => Tidy(s.rows)
    PROVE  AdapterInv'
<1>1. /\ stamps < Calls /\ apart = {} /\ stamps' = stamps + 1 /\ sql' = s.rows /\ mem' = m.rows
      /\ answers' = [sql |-> s.answer, mem |-> m.answer] /\ counter' = n
      /\ apart' = apart \union T!Parting(c, s, m) /\ UNCHANGED <<kind, saved>>
  BY DEF T!Call
<1>2. kind' \in T!AllKinds /\ stamps' \in 0 .. Calls /\ counter' \in 0 .. 2 * stamps'
  BY <1>1, CallsAssumption DEF AdapterInv
<1>3. 2 * stamps' = 2 * stamps + 2 /\ 2 * stamps \in Int /\ 2 * stamps + 2 \in Int
  BY <1>1 DEF AdapterInv
<1>4. Sound(saved, 2 * stamps + 2)
  <2> DEFINE lo == 2 * stamps
             hi == 2 * stamps + 2
  <2>1. lo \in Int /\ hi \in Int /\ lo <= hi
    BY StampsFit
  <2>2. Sound(saved, lo)
    BY Zenon DEF AdapterInv
  <2> HIDE DEF lo, hi
  <2>3. Sound(saved, hi)
    BY <2>1, <2>2, SoundMore
  <2> QED BY <2>3 DEF hi
<1>5. (Sound(sql, 2 * stamps) /\ Sound(mem, 2 * stamps) /\ Sound(saved, 2 * stamps))'
  <2>1. Sound(sql', 2 * stamps') /\ Sound(mem', 2 * stamps') /\ Sound(saved', 2 * stamps')
    BY <1>1, <1>3, <1>4
  <2> QED BY <2>1 DEF Sound
<1>6. /\ answers' \in [sql: {"row", "none", "error"}, mem: {"row", "none", "error"}]
      /\ apart' \subseteq {"moved", "reused", "same tag", "empty patch"}
  <2>1. T!Parting(c, s, m) \subseteq {"moved", "reused", "same tag", "empty patch"}
    BY DEF T!Parting
  <2> QED BY <1>1, <2>1 DEF Answered
<1>7. ASSUME apart' = {}
      PROVE  /\ sql' = mem' /\ answers'.sql = answers'.mem
             /\ kind' # "prefs" => \A i \in DOMAIN sql' : sql'[i].id <= counter'
             /\ kind' = "note" => Tidy(sql)' /\ Tidy(saved)'
  <2>1. T!Parting(c, s, m) = {}
    BY <1>1, <1>7
  <2>2. kind = "note" => Tidy(saved)
    BY <1>1 DEF AdapterInv
  <2> QED BY <1>1, <2>1, <2>2 DEF Tidy
<1> QED BY <1>2, <1>5, <1>6, <1>7 DEF AdapterInv

(* A call that inserts nothing.                                            *)
LEMMA ChangeKeeps ==
    ASSUME AdapterInv, NEW c, T!Call(c),
           NEW s, s = T!SqliteCall(kind, sql, c), NEW m, m = T!InMemoryCall(kind, mem, counter, c),
           Within(s.rows, sql), Within(m.rows, mem), Answered(s), Answered(m),
           kind # "prefs", c.op \notin {"create", "replaceAll"},
           T!Parting(c, s, m) = {} => s = m /\ (kind = "note" => Tidy(s.rows))
    PROVE  AdapterInv'
<1>1. apart = {} /\ 2 * stamps \in Int /\ 2 * stamps + 2 \in Int /\ counter \in Int
  BY DEF T!Call, AdapterInv
<1>2. Sound(s.rows, 2 * stamps) /\ Sound(m.rows, 2 * stamps)
  BY <1>1, WithinSound DEF AdapterInv
<1>3. Sound(s.rows, 2 * stamps + 2) /\ Sound(m.rows, 2 * stamps + 2)
  BY <1>1, <1>2, SoundMore
<1>4. T!CounterAfter(kind, counter, mem, c) = counter
  BY DEF T!CounterAfter
<1>5. counter \in 0 .. 2 * stamps + 2
  BY StampsFit
<1>6. \A i \in DOMAIN s.rows : s.rows[i].id <= counter
  BY <1>1, WithinSound DEF AdapterInv
<1> QED BY <1>3, <1>4, <1>5, <1>6, CallKeeps


----------------------------------------------------------------------------
(* The actions.                                                            *)

LEMMA InvParts ==
    ASSUME AdapterInv
    PROVE  /\ kind \in T!AllKinds
           /\ sql \in Seq(T!Rows) /\ mem \in Seq(T!Rows) /\ saved \in Seq(T!Rows)
           /\ Sound(sql, 2 * stamps) /\ Sound(mem, 2 * stamps) /\ Sound(saved, 2 * stamps)
           /\ apart = {} => /\ sql = mem
                            /\ kind # "prefs" => \A i \in DOMAIN sql : sql[i].id <= counter
                            /\ kind = "note" => Tidy(sql) /\ Tidy(saved)
BY DEF AdapterInv, Sound

(* Two columns of a patch that names no list.                              *)
LEMMA NoListMoved ==
    ASSUME NEW row, NEW p \in T!Patches, "ref" \notin DOMAIN p
    PROVE  T!Patched(row, p, {"key", "val"}) = T!Patched(row, p, T!Fields)
<1>1. \A f : f \in DOMAIN p \intersect {"key", "val"} <=> f \in DOMAIN p \intersect T!Fields
  BY PatchesFit DEF PatchOf, T!Fields
<1> QED BY <1>1 DEF T!Patched

LEMMA UpdateOfRows ==
    ASSUME NEW k \in T!AllKinds \ {"note", "prefs"}, NEW x \in Seq(T!Rows), NEW id,
           NEW p \in T!Patches, stamps \in 0 .. Calls, NEW n,
           NEW c, c = T!Ask("update", id, <<>>, p),
           NEW s, s = T!SqliteCall(k, x, c), NEW m, m = T!InMemoryCall(k, x, n, c)
    PROVE  /\ Within(s.rows, x) /\ Answered(s) /\ Within(m.rows, x) /\ Answered(m)
           /\ \/ s = m
              \/ k = "task" /\ "ref" \in DOMAIN p
              \/ k = "project" /\ s.answer = "error"
              \/ k = "series" /\ DOMAIN p \intersect T!SeriesColumns = {}
<1>1. c.op = "update" /\ c.id = id /\ c.patch = p
  BY DEF T!Ask
<1>2. PatchOf(p)
  BY PatchesFit
<1>3. \A C1 \in SUBSET T!Fields : /\ Within(T!Edit(x, id, p, C1).rows, x) /\ Answered(T!Edit(x, id, p, C1))
                                  /\ Within(T!EditLive(x, id, p, C1).rows, x) /\ Answered(T!EditLive(x, id, p, C1))
  BY <1>2, Edits
<1>4. {"key", "val"} \in SUBSET T!Fields /\ T!Fields \in SUBSET T!Fields /\ {} \in SUBSET T!Fields
  BY DEF T!Fields
<1>5. Within(T!Thrown(x).rows, x) /\ Answered(T!Thrown(x)) /\ T!Thrown(x).answer = "error"
  BY Same DEF T!Thrown, Answered
<1>6. CASE k = "task"
  <2>1. s = T!EditLive(x, id, p, {"key", "val"}) /\ m = T!EditLive(x, id, p, T!Fields)
    BY <1>1, <1>6 DEF T!SqliteCall, T!InMemoryCall, T!SqliteTask, T!InMemoryTask, T!SqliteTaskUpdate
  <2>2. "ref" \notin DOMAIN p => s = m
    BY <2>1, NoListMoved DEF T!EditLive
  <2> QED BY <1>3, <1>4, <1>6, <2>1, <2>2
<1>7. CASE k \in {"tab", "list", "holiday"}
  <2>1. s = T!Edit(x, id, p, T!Fields) /\ m = T!Edit(x, id, p, T!Fields)
    BY <1>1, <1>7 DEF T!SqliteCall, T!InMemoryCall, T!SqliteTab, T!InMemoryTab, T!SqliteList, T!InMemoryList,
         T!SqliteHoliday, T!InMemoryHoliday
  <2> QED BY <1>3, <1>4, <2>1
<1>8. CASE k = "project"
  <2>1. s \in {T!Thrown(x), T!Edit(x, id, p, T!Fields)} /\ m = T!Edit(x, id, p, T!Fields)
    BY <1>1, <1>8 DEF T!SqliteCall, T!InMemoryCall, T!SqliteProject, T!InMemoryProject
  <2> QED BY <1>3, <1>4, <1>5, <1>8, <2>1
<1>9. CASE k = "series"
  <2>1. /\ IF DOMAIN p \intersect T!SeriesColumns = {} THEN s = T!Edit(x, id, p, {})
           ELSE s = T!EditLive(x, id, p, T!SeriesColumns)
        /\ m = T!EditLive(x, id, p, T!SeriesColumns)
    BY <1>1, <1>9 DEF T!SqliteCall, T!InMemoryCall, T!SqliteSeries, T!InMemorySeries
  <2>2. T!SeriesColumns = {"key", "val"}
    BY DEF T!SeriesColumns
  <2> QED BY <1>3, <1>4, <1>9, <2>1, <2>2
<1> QED BY <1>6, <1>7, <1>8, <1>9 DEF T!AllKinds

LEMMA UpdateKeeps == ASSUME AdapterInv, T!Update, kind # "prefs" PROVE AdapterInv'
<1>1. PICK id \in T!Ids(sql) \union {1}, p \in T!Patches : T!Call(T!Ask("update", id, <<>>, p))
  BY DEF T!Update
<1> DEFINE c == T!Ask("update", id, <<>>, p)
           s == T!SqliteCall(kind, sql, c)
           m == T!InMemoryCall(kind, mem, counter, c)
<1>2. kind \in T!AllKinds \ {"note", "prefs"} /\ apart = {} /\ sql = mem /\ sql \in Seq(T!Rows)
  BY <1>1, InvParts DEF T!Update, T!Call
<1>3. stamps \in 0 .. Calls
  BY StampsFit
<1>4. c.op = "update" /\ c.patch = p
  BY DEF T!Ask
<1> HIDE DEF c, s, m
<1>5. /\ Within(s.rows, sql) /\ Answered(s) /\ Within(m.rows, mem) /\ Answered(m)
      /\ \/ s = m
         \/ kind = "task" /\ "ref" \in DOMAIN p
         \/ kind = "project" /\ s.answer = "error"
         \/ kind = "series" /\ DOMAIN p \intersect T!SeriesColumns = {}
  <2>1. c = T!Ask("update", id, <<>>, p) /\ s = T!SqliteCall(kind, sql, c) /\ m = T!InMemoryCall(kind, sql, counter, c)
    BY <1>2 DEF c, s, m
  <2> QED BY <1>2, <1>3, <2>1, UpdateOfRows
<1>6. T!Parting(c, s, m) = {} => s = m
  <2> SUFFICES ASSUME T!Parting(c, s, m) = {} PROVE s = m
    OBVIOUS
  <2>1. "moved" \notin T!Parting(c, s, m) /\ "same tag" \notin T!Parting(c, s, m) /\ "empty patch" \notin T!Parting(c, s, m)
    OBVIOUS
  <2> QED BY <1>4, <1>5, <2>1 DEF T!Parting
<1>7. T!Call(c) /\ s = T!SqliteCall(kind, sql, c) /\ m = T!InMemoryCall(kind, mem, counter, c)
  BY <1>1 DEF c, s, m
<1>8. c.op \notin {"create", "replaceAll"} /\ kind # "note" /\ kind # "prefs"
  BY <1>2, <1>4
<1> QED BY <1>5, <1>6, <1>7, <1>8, ChangeKeeps


(* Calls that both adapters answer alike, and that only change or drop     *)
(* rows.                                                                   *)
LEMMA AlikeKeeps ==
    ASSUME AdapterInv, NEW c, T!Call(c), kind # "prefs", c.op \notin {"create", "replaceAll"},
           NEW r, r = T!SqliteCall(kind, sql, c), r = T!InMemoryCall(kind, sql, counter, c),
           Within(r.rows, sql), Answered(r), kind = "note" => Tidy(r.rows)
    PROVE  AdapterInv'
<1>1. sql = mem
  BY InvParts DEF T!Call
<1> QED BY <1>1, ChangeKeeps

LEMMA DeleteKeeps == ASSUME AdapterInv, T!Delete, kind # "prefs" PROVE AdapterInv'
<1>1. PICK id \in T!Ids(sql) \union T!Values : T!Call(T!Ask("delete", id, <<>>, T!Nothing))
  BY DEF T!Delete
<1> DEFINE c == T!Ask("delete", id, <<>>, T!Nothing)
           r == T!SqliteCall(kind, sql, c)
<1>2. kind \in T!AllKinds \ {"prefs"} /\ sql \in Seq(T!Rows) /\ stamps \in 0 .. Calls
  BY InvParts, StampsFit
<1>3. c.op = "delete" /\ c.id = id
  BY DEF T!Ask
<1> HIDE DEF c
<1>4. CASE kind = "task"
  <2>1. r = T!Trash(sql, id) /\ T!InMemoryCall(kind, sql, counter, c) = T!Trash(sql, id)
    BY <1>3, <1>4 DEF T!SqliteCall, T!InMemoryCall, T!SqliteTask, T!InMemoryTask
  <2>2. Within(r.rows, sql) /\ Answered(r)
    BY <1>2, <2>1, Trashes
  <2> HIDE DEF r
  <2> QED BY <1>1, <1>3, <1>4, <2>1, <2>2, AlikeKeeps DEF c, r
<1>5. CASE kind \in {"tab", "list", "project", "holiday", "series"}
  <2>1. r = T!Drop(sql, id) /\ T!InMemoryCall(kind, sql, counter, c) = T!Drop(sql, id)
    BY <1>3, <1>5 DEF T!SqliteCall, T!InMemoryCall, T!SqliteTab, T!InMemoryTab, T!SqliteList, T!InMemoryList,
         T!SqliteHoliday, T!InMemoryHoliday, T!SqliteProject, T!InMemoryProject, T!SqliteSeries, T!InMemorySeries
  <2>2. Within(r.rows, sql) /\ Answered(r)
    BY <1>2, <2>1, Drops
  <2> HIDE DEF r
  <2> QED BY <1>1, <1>3, <1>5, <2>1, <2>2, AlikeKeeps DEF c, r
<1>6. CASE kind = "note"
  <2>1. /\ r = IF T!NoteOf(sql, id) = {} THEN T!NotFound(sql) ELSE T!Done(T!Without(sql, T!NoteOf(sql, id)))
        /\ T!InMemoryCall(kind, sql, counter, c) = r
    BY <1>3, <1>6 DEF T!SqliteCall, T!InMemoryCall, T!SqliteNote, T!InMemoryNote
  <2>2. Tidy(sql)
    BY <1>1, <1>6, InvParts DEF T!Call
  <2>3. Within(r.rows, sql) /\ Answered(r)
    BY <1>2, <2>1, Drops, Same DEF T!NotFound, T!Done, Answered
  <2>4. Tidy(r.rows)
    BY <1>2, <2>1, <2>2, WithoutKeeps DEF T!NotFound, T!Done
  <2> HIDE DEF r
  <2> QED BY <1>1, <1>3, <1>6, <2>1, <2>3, <2>4, AlikeKeeps DEF c, r
<1> QED BY <1>2, <1>4, <1>5, <1>6 DEF T!AllKinds

LEMMA TaskCallsKeep ==
    ASSUME AdapterInv, T!ForceDelete \/ T!Restore \/ T!PurgeOld PROVE AdapterInv'
<1>1. kind = "task" /\ sql \in Seq(T!Rows) /\ stamps \in 0 .. Calls
  BY InvParts, StampsFit DEF T!ForceDelete, T!Restore, T!PurgeOld
<1>2. ASSUME NEW op \in {"forceDelete", "restore", "purge"}, NEW id, T!Call(T!Ask(op, id, <<>>, T!Nothing))
      PROVE  AdapterInv'
  <2> DEFINE c == T!Ask(op, id, <<>>, T!Nothing)
             r == T!SqliteCall(kind, sql, c)
  <2>1. c.op = op /\ c.id = id
    BY DEF T!Ask
  <2> HIDE DEF c
  <2>2. /\ r = T!InMemoryCall(kind, sql, counter, c)
        /\ r \in {T!Drop(sql, id), T!Untrash(sql, id), T!PurgeBefore(sql, id)}
    BY <1>1, <2>1 DEF T!SqliteCall, T!InMemoryCall, T!SqliteTask, T!InMemoryTask
  <2>3. Within(r.rows, sql) /\ Answered(r)
    BY <1>1, <2>2, Drops, Trashes
  <2> HIDE DEF r
  <2> QED BY <1>1, <1>2, <2>1, <2>2, <2>3, AlikeKeeps DEF c, r
<1>3. CASE T!ForceDelete
  BY <1>2, <1>3 DEF T!ForceDelete
<1>4. CASE T!Restore
  BY <1>2, <1>4 DEF T!Restore
<1>5. CASE T!PurgeOld
  BY <1>2, <1>5 DEF T!PurgeOld
<1> QED BY <1>3, <1>4, <1>5

LEMMA StatsKeep == ASSUME AdapterInv, T!UpsertStats PROVE AdapterInv'
<1>1. PICK id \in T!Ids(sql) : T!Call(T!Ask("stats", id, <<>>, [ref |-> 1]))
  BY DEF T!UpsertStats
<1>2. kind = "series" /\ sql \in Seq(T!Rows) /\ stamps \in 0 .. Calls
  BY InvParts, StampsFit DEF T!UpsertStats
<1> DEFINE c == T!Ask("stats", id, <<>>, [ref |-> 1])
           r == T!SqliteCall(kind, sql, c)
           p == [ref |-> 1]
<1>3. c.op = "stats" /\ c.id = id /\ c.patch = p
  BY DEF T!Ask
<1> HIDE DEF c
<1>4. r = T!Edit(sql, id, p, {"ref"}) /\ T!InMemoryCall(kind, sql, counter, c) = T!Edit(sql, id, p, {"ref"})
  BY <1>2, <1>3 DEF T!SqliteCall, T!InMemoryCall, T!SqliteSeries, T!InMemorySeries
<1>5. PatchOf(p) /\ {"ref"} \in SUBSET T!Fields
  BY DEF PatchOf, T!Fields, T!Values
<1> HIDE DEF r, p
<1>6. Within(r.rows, sql) /\ Answered(r)
  BY <1>2, <1>4, <1>5, Edits
<1> QED BY <1>1, <1>2, <1>3, <1>4, <1>6, AlikeKeeps DEF c, r, p

(* The one row of preferences.                                             *)
LEMMA PrefsKeep ==
    ASSUME AdapterInv, kind = "prefs", T!Update \/ T!Delete PROVE AdapterInv'
<1>1. sql \in Seq(T!Rows) /\ stamps \in 0 .. Calls /\ stamps \in Nat /\ Sound(sql, 2 * stamps)
  BY InvParts, StampsFit
<1>2. ASSUME NEW c, T!Call(c), NEW r, r = T!SqliteCall(kind, sql, c), r = T!InMemoryCall(kind, sql, counter, c),
             Sound(r.rows, 2 * stamps), Answered(r)
      PROVE  AdapterInv'
  <2>1. sql = mem
    BY <1>2, InvParts DEF T!Call
  <2>2. T!CounterAfter(kind, counter, mem, c) = 0
    BY DEF T!CounterAfter
  <2>3. Sound(r.rows, 2 * stamps + 2)
    <3> DEFINE lo == 2 * stamps
               hi == 2 * stamps + 2
    <3>1. lo \in Int /\ hi \in Int /\ lo <= hi
      BY <1>1
    <3>2. Sound(r.rows, lo)
      BY <1>2
    <3> HIDE DEF lo, hi
    <3>3. Sound(r.rows, hi)
      BY <3>1, <3>2, SoundMore
    <3> QED BY <3>3 DEF hi
  <2>4. 0 \in 0 .. 2 * stamps + 2
    BY <1>1
  <2> QED BY <1>2, <2>1, <2>2, <2>3, <2>4, CallKeeps
<1>3. CASE T!Update
  <2>1. PICK id \in T!Ids(sql) \union {1}, p \in T!Patches : T!Call(T!Ask("update", id, <<>>, p))
    BY <1>3 DEF T!Update
  <2> DEFINE c == T!Ask("update", id, <<>>, p)
             r == T!SqliteCall(kind, sql, c)
             row == IF sql = <<>> THEN T!Default ELSE sql[1]
             q == T!Stamped(T!Patched(row, p, T!Fields))
  <2>2. c.op = "update" /\ c.patch = p
    BY DEF T!Ask
  <2> HIDE DEF c
  <2>3. r = T!Done(<<q>>) /\ T!InMemoryCall(kind, sql, counter, c) = T!Done(<<q>>)
    BY <2>2 DEF T!SqliteCall, T!InMemoryCall, T!SqlitePrefs, T!InMemoryPrefs
  <2>4. row \in T!Rows /\ row.id <= 2 * stamps
    <3>1. T!Default \in T!Rows /\ T!Default.id = 0
      BY CallsAssumption DEF T!Default, T!Rows, T!Values
    <3>2. ASSUME sql # <<>> PROVE sql[1] \in T!Rows /\ sql[1].id <= 2 * stamps
      <4>1. 1 \in DOMAIN sql
        BY <1>1, <3>2
      <4> QED BY <1>1, <4>1 DEF Sound
    <3> QED BY <1>1, <3>1, <3>2
  <2>5. q \in T!Rows /\ q.id = row.id
    <3> HIDE DEF row
    <3>1. PatchOf(p) /\ T!Fields \in SUBSET T!Fields
      BY PatchesFit
    <3>2. T!Patched(row, p, T!Fields) \in T!Rows /\ T!Patched(row, p, T!Fields).id = row.id
      BY <2>4, <3>1, RowPatched
    <3> QED BY <1>1, <3>2, RowStamped
  <2> HIDE DEF q, r
  <2>6. Sound(<<q>>, 2 * stamps)
    <3> HIDE DEF row
    <3> QED BY <2>4, <2>5 DEF Sound
  <2>7. Sound(r.rows, 2 * stamps) /\ Answered(r)
    BY <2>3, <2>6 DEF T!Done, Answered
  <2> QED BY <1>2, <2>1, <2>3, <2>7 DEF c, r
<1>4. CASE T!Delete
  <2>1. PICK id \in T!Ids(sql) \union T!Values : T!Call(T!Ask("delete", id, <<>>, T!Nothing))
    BY <1>4 DEF T!Delete
  <2> DEFINE c == T!Ask("delete", id, <<>>, T!Nothing)
             r == T!SqliteCall(kind, sql, c)
  <2>2. c.op = "delete"
    BY DEF T!Ask
  <2> HIDE DEF c
  <2>3. r = T!Done(<<>>) /\ T!InMemoryCall(kind, sql, counter, c) = T!Done(<<>>)
    BY <2>2 DEF T!SqliteCall, T!InMemoryCall, T!SqlitePrefs, T!InMemoryPrefs
  <2>4. Sound(r.rows, 2 * stamps) /\ Answered(r)
    <3>1. Sound(<<>>, 2 * stamps)
      BY DEF Sound
    <3> QED BY <2>3, <3>1 DEF T!Done, Answered
  <2> HIDE DEF r
  <2> QED BY <1>2, <2>1, <2>3, <2>4 DEF c, r
<1> QED BY <1>3, <1>4


(* Writing back what was saved.                                            *)
LEMMA ReplaceKeeps == ASSUME AdapterInv, T!ReplaceAll PROVE AdapterInv'
<1>1. PICK rows \in {saved} \union (IF kind = "tab" THEN {T!Without(saved, {0})} ELSE {}) :
         T!Call(T!Ask("replaceAll", 0, rows, T!Nothing))
  BY DEF T!ReplaceAll
<1> DEFINE c == T!Ask("replaceAll", 0, rows, T!Nothing)
           r == T!SqliteCall(kind, sql, c)
           lo == 2 * stamps
           hi == 2 * stamps + 2
           n == T!CounterAfter(kind, counter, mem, c)
<1>2. /\ saved \in Seq(T!Rows) /\ stamps \in 0 .. Calls /\ lo \in Nat /\ hi \in Nat /\ lo <= hi
      /\ Sound(saved, lo) /\ kind \in T!AllKinds
  BY InvParts, StampsFit
<1>3. c.op = "replaceAll" /\ c.rows = rows
  BY DEF T!Ask
<1>4. apart = {} /\ sql = mem /\ (kind = "note" => Tidy(saved))
  BY <1>1, InvParts DEF T!Call
<1> HIDE DEF c, lo, hi
<1>5. Sound(rows, lo) /\ (kind # "tab" => rows = saved)
  <2>1. Within(T!Without(saved, {0}), saved) /\ Within(saved, saved)
    BY <1>2, Drops, Same
  <2> QED BY <1>1, <1>2, <2>1, WithinSound
<1>6. r = T!InMemoryCall(kind, sql, counter, c) /\ Answered(r) /\ Sound(r.rows, lo)
      /\ T!MaxOf(T!Ids(rows)) \in 0 .. lo
      /\ (\A i \in DOMAIN r.rows : r.rows[i].id <= T!MaxOf(T!Ids(rows)))
      /\ (kind = "note" => r.rows = saved)
  <2>1. /\ T!MaxOf(T!Ids(rows)) \in 0 .. lo
        /\ \A i \in DOMAIN rows : rows[i].id \in Nat /\ rows[i].id <= T!MaxOf(T!Ids(rows))
    <3>1. \A i \in DOMAIN rows : rows[i] \in T!Rows
      BY <1>5 DEF Sound
    <3>2. \A i \in DOMAIN rows : rows[i].id \in Nat /\ rows[i].id \in T!Ids(rows)
      BY <3>1 DEF T!Rows, T!Ids
    <3>3. T!Ids(rows) \subseteq 0 .. lo
      BY <1>2, <1>5, <3>2 DEF T!Ids, Sound
    <3> QED BY <1>2, <3>2, <3>3, Largest
  <2>2. CASE kind \in {"task", "list", "project", "note", "holiday", "prefs"}
    <3>1. r = T!Done(rows) /\ T!InMemoryCall(kind, sql, counter, c) = T!Done(rows)
      BY <1>3, <2>2 DEF T!SqliteCall, T!InMemoryCall, T!SqliteTask, T!InMemoryTask, T!SqliteList, T!InMemoryList,
         T!SqliteHoliday, T!InMemoryHoliday, T!SqliteProject, T!InMemoryProject, T!SqliteNote, T!InMemoryNote,
         T!SqlitePrefs, T!InMemoryPrefs
    <3> HIDE DEF r
    <3>2. r.rows = rows /\ r.answer = "row"
      BY <3>1 DEF T!Done
    <3>3. kind = "note" => rows = saved
      BY <1>5
    <3>4. \A i \in DOMAIN r.rows : r.rows[i].id <= T!MaxOf(T!Ids(rows))
      BY <2>1, <3>2
    <3> QED BY <1>5, <2>1, <3>1, <3>2, <3>3, <3>4 DEF Answered
  <2>3. CASE kind = "series"
    <3> DEFINE y == T!WithoutStats(rows)
    <3>1. r = T!Done(y) /\ T!InMemoryCall(kind, sql, counter, c) = T!Done(y)
      BY <1>3, <2>3 DEF T!SqliteCall, T!InMemoryCall, T!SqliteSeries, T!InMemorySeries
    <3>2. \A row \in T!Rows : [row EXCEPT !.ref = 0] \in T!Rows /\ [row EXCEPT !.ref = 0].id = row.id
      BY DEF T!Rows, T!Values
    <3>3. Within(y, rows)
      <4>1. rows \in Seq(T!Rows) /\ Len(rows) \in Nat /\ DOMAIN rows = 1 .. Len(rows)
        BY <1>5 DEF Sound
      <4>2. y = [i \in 1 .. Len(rows) |-> [rows[i] EXCEPT !.ref = 0]]
        BY <4>1 DEF T!WithoutStats
      <4>3. \A i \in 1 .. Len(rows) : rows[i] \in T!Rows
        BY <4>1
      <4> HIDE DEF y
      <4>4. DOMAIN y = 1 .. Len(rows) /\ \A i \in 1 .. Len(rows) : y[i] \in T!Rows /\ y[i].id = rows[i].id
        BY <3>2, <4>2, <4>3
      <4>5. y \in [1 .. Len(rows) -> T!Rows]
        BY <4>2, <4>4
      <4>6. y \in Seq(T!Rows)
        BY <4>1, <4>5
      <4> QED BY <4>1, <4>4, <4>6 DEF Within
    <3>4. Sound(y, lo) /\ \A i \in DOMAIN y : y[i].id <= T!MaxOf(T!Ids(rows))
      <4> HIDE DEF y
      <4> QED BY <1>2, <1>5, <2>1, <3>3, WithinSound
    <3> HIDE DEF r, y
    <3>5. r.rows = y /\ r.answer = "row"
      BY <3>1 DEF T!Done
    <3>6. \A i \in DOMAIN r.rows : r.rows[i].id <= T!MaxOf(T!Ids(rows))
      BY <3>4, <3>5
    <3> QED BY <2>1, <2>3, <3>1, <3>4, <3>5, <3>6 DEF Answered
  <2>4. CASE kind = "tab"
    <3> DEFINE y == T!EnsureDefault(rows)
    <3>1. r = T!Done(y) /\ T!InMemoryCall(kind, sql, counter, c) = T!Done(y)
      BY <1>3, <2>4 DEF T!SqliteCall, T!InMemoryCall, T!SqliteTab, T!InMemoryTab
    <3>2. T!Default \in T!Rows /\ T!Default.id = 0
      BY CallsAssumption DEF T!Default, T!Rows, T!Values
    <3>3. Sound(y, lo) /\ \A i \in DOMAIN y : y[i].id <= T!MaxOf(T!Ids(rows))
      <4>1. rows \in Seq(T!Rows)
        BY <1>5 DEF Sound
      <4>2. Append(rows, T!Default) \in Seq(T!Rows)
            /\ \A i \in DOMAIN Append(rows, T!Default) :
                  (i \in DOMAIN rows /\ Append(rows, T!Default)[i] = rows[i]) \/ Append(rows, T!Default)[i] = T!Default
        BY <3>2, <4>1
      <4>3. 0 <= T!MaxOf(T!Ids(rows)) /\ 0 <= lo
        BY <1>2, <2>1
      <4>4. Sound(Append(rows, T!Default), lo)
            /\ \A i \in DOMAIN Append(rows, T!Default) : Append(rows, T!Default)[i].id <= T!MaxOf(T!Ids(rows))
        BY <1>5, <2>1, <3>2, <4>2, <4>3 DEF Sound
      <4>5. y \in {rows, Append(rows, T!Default)}
        BY DEF T!EnsureDefault
      <4> HIDE DEF y
      <4> QED BY <1>5, <2>1, <4>4, <4>5
    <3> HIDE DEF r, y
    <3>4. r.rows = y /\ r.answer = "row"
      BY <3>1 DEF T!Done
    <3>5. \A i \in DOMAIN r.rows : r.rows[i].id <= T!MaxOf(T!Ids(rows))
      BY <3>3, <3>4
    <3> QED BY <2>1, <2>4, <3>1, <3>3, <3>4, <3>5 DEF Answered
  <2> QED BY <1>2, <2>2, <2>3, <2>4 DEF T!AllKinds
<1>7. n \in 0 .. lo /\ (kind # "prefs" => \A i \in DOMAIN r.rows : r.rows[i].id <= n)
  <2>1. n = IF kind = "prefs" THEN 0 ELSE T!MaxOf(T!Ids(rows))
    BY <1>3 DEF T!CounterAfter
  <2>2. 0 \in 0 .. lo
    BY <1>2
  <2> HIDE DEF n, r
  <2> QED BY <1>6, <2>1, <2>2
<1>8. r = T!InMemoryCall(kind, mem, counter, c) /\ (kind = "note" => Tidy(r.rows))
  BY <1>4, <1>6
<1>9. Sound(r.rows, hi) /\ n \in 0 .. hi
  <2> HIDE DEF r, n
  <2> QED BY <1>2, <1>6, <1>7, SoundMore
<1>10. T!Call(c)
  BY <1>1 DEF c
<1> HIDE DEF r, n
<1> QED BY <1>6, <1>7, <1>8, <1>9, <1>10, CallKeeps DEF r, n, hi

LEMMA InsertSound ==
    ASSUME NEW n \in Nat, NEW x, Sound(x, n), NEW id \in 0 .. n + 1, id <= 2 * Calls, NEW r \in T!Input,
           stamps \in 0 .. Calls
    PROVE  /\ Sound(T!Insert(x, id, r).rows, n + 1)
           /\ \A k \in Nat : (\A i \in DOMAIN x : x[i].id <= k) /\ id <= k + 1
                                => \A i \in DOMAIN T!Insert(x, id, r).rows : T!Insert(x, id, r).rows[i].id <= k + 1
           /\ (\A i \in DOMAIN x : x[i].id < id) => T!NextId(T!Insert(x, id, r).rows) = id + 1
<1> DEFINE y == T!Insert(x, id, r).rows
<1>1. x \in Seq(T!Rows) /\ \A i \in DOMAIN x : x[i] \in T!Rows
  BY DEF Sound
<1>2. \A i \in DOMAIN x : x[i].id \in Nat
  BY <1>1 DEF T!Rows
<1>3. id \in 0 .. 2 * Calls
  BY CallsAssumption
<1>4. /\ y \in Seq(T!Rows) /\ DOMAIN y = 1 .. Len(x) + 1 /\ y[Len(x) + 1].id = id
      /\ \A i \in DOMAIN x : y[i] = x[i]
  <2>1. Longer(y, x, T!NewRow(id, r)) /\ T!NewRow(id, r).id = id
    BY <1>1, <1>3, Inserted
  <2> HIDE DEF y
  <2> QED BY <2>1 DEF Longer
<1>5. DOMAIN x = 1 .. Len(x) /\ Len(x) \in Nat
  BY <1>1
<1> HIDE DEF y
<1>6. \A i \in DOMAIN y : (i \in DOMAIN x /\ y[i] = x[i]) \/ y[i].id = id
  BY <1>4, <1>5
<1>7. Sound(y, n + 1)
  BY <1>2, <1>4, <1>6 DEF Sound
<1>8. \A k \in Nat : (\A i \in DOMAIN x : x[i].id <= k) /\ id <= k + 1 => \A i \in DOMAIN y : y[i].id <= k + 1
  BY <1>2, <1>6
<1>9. ASSUME \A i \in DOMAIN x : x[i].id < id PROVE T!NextId(y) = id + 1
  <2>1. T!Ids(y) \subseteq 0 .. id /\ id \in T!Ids(y)
    <3>1. Len(x) + 1 \in DOMAIN y
      BY <1>4, <1>5
    <3>2. \A i \in DOMAIN y : y[i].id \in 0 .. id
      BY <1>2, <1>6, <1>9
    <3> QED BY <1>4, <3>1, <3>2 DEF T!Ids
  <2>2. T!MaxOf(T!Ids(y)) \in 0 .. id /\ id <= T!MaxOf(T!Ids(y))
    BY <2>1, Largest
  <2> QED BY <2>2 DEF T!NextId
<1> QED BY <1>7, <1>8, <1>9 DEF y

(* What a call that inserts begins with.                                   *)
LEMMA BeforeInsert ==
    ASSUME AdapterInv, NEW c, T!Call(c), kind # "prefs"
    PROVE  /\ apart = {} /\ sql = mem /\ (kind = "note" => Tidy(sql)) /\ sql \in Seq(T!Rows)
           /\ kind \in T!AllKinds /\ stamps \in Nat
           /\ stamps \in 0 .. Calls /\ stamps + 1 <= Calls /\ counter \in 0 .. 2 * stamps /\ Sound(sql, 2 * stamps)
           /\ \A i \in DOMAIN sql : sql[i].id <= counter
           /\ T!NextId(sql) \in 1 .. 2 * stamps + 1 /\ \A i \in DOMAIN sql : sql[i].id < T!NextId(sql)
<1>1. /\ apart = {} /\ sql = mem /\ (kind = "note" => Tidy(sql)) /\ sql \in Seq(T!Rows)
      /\ \A i \in DOMAIN sql : sql[i].id <= counter
  BY InvParts DEF T!Call
<1>2. /\ kind \in T!AllKinds /\ stamps \in Nat /\ stamps \in 0 .. Calls /\ stamps < Calls
      /\ counter \in 0 .. 2 * stamps /\ Sound(sql, 2 * stamps)
  BY InvParts, StampsFit DEF T!Call
<1>3. stamps + 1 <= Calls /\ 2 * stamps \in Nat
  BY <1>2, CallsAssumption
<1>4. T!NextId(sql) \in 1 .. 2 * stamps + 1 /\ \A i \in DOMAIN sql : sql[i].id < T!NextId(sql)
  BY <1>2, <1>3, NextFree
<1> QED BY <1>1, <1>2, <1>3, <1>4

(* Both insert one row (an error in its place is a known difference).      *)
LEMMA InsertKeeps ==
    ASSUME AdapterInv, NEW c, T!Call(c), kind # "prefs", c.op = "create", NEW r \in T!Input,
           \/ T!SqliteCall(kind, sql, c) = T!Insert(sql, T!NextId(sql), r)
           \/ kind = "project" /\ T!SqliteCall(kind, sql, c) = T!Thrown(sql),
           T!InMemoryCall(kind, mem, counter, c) = T!Insert(mem, counter + 1, r),
           T!CounterAfter(kind, counter, mem, c) = counter + 1,
           kind = "note" => \A i \in DOMAIN sql : sql[i].key # r.key
    PROVE  AdapterInv'
<1> DEFINE s == T!SqliteCall(kind, sql, c)
           m == T!InMemoryCall(kind, mem, counter, c)
           lo == 2 * stamps
           id == T!NextId(sql)
<1>1. /\ apart = {} /\ sql = mem /\ (kind = "note" => Tidy(sql)) /\ sql \in Seq(T!Rows)
      /\ stamps \in 0 .. Calls /\ Sound(sql, lo) /\ \A i \in DOMAIN sql : sql[i].id <= counter
  BY BeforeInsert
<1>2. /\ lo \in Nat /\ lo + 2 <= 2 * Calls /\ lo + 2 = 2 * stamps + 2
      /\ counter \in 0 .. lo /\ counter \in Nat /\ counter + 1 \in 0 .. lo + 1 /\ counter + 1 \in 0 .. lo + 2
      /\ counter + 1 <= 2 * Calls /\ counter + 1 \in 0 .. 2 * Calls
  BY BeforeInsert, CallsAssumption
<1>3. /\ id \in 0 .. lo + 1 /\ id <= 2 * Calls /\ id \in 0 .. 2 * Calls
      /\ \A i \in DOMAIN sql : sql[i].id < id
  BY BeforeInsert, CallsAssumption
<1> HIDE DEF s, m, lo, id
<1>4. /\ Sound(T!Insert(sql, id, r).rows, lo + 1) /\ Sound(T!Insert(sql, counter + 1, r).rows, lo + 1)
      /\ \A i \in DOMAIN T!Insert(sql, counter + 1, r).rows : T!Insert(sql, counter + 1, r).rows[i].id <= counter + 1
  <2>1. Sound(T!Insert(sql, id, r).rows, lo + 1)
    BY <1>1, <1>2, <1>3, InsertSound
  <2> DEFINE y == T!Insert(sql, counter + 1, r).rows
  <2>2. /\ Sound(y, lo + 1)
        /\ \A k \in Nat : (\A i \in DOMAIN sql : sql[i].id <= k) /\ counter + 1 <= k + 1
                              => \A i \in DOMAIN y : y[i].id <= k + 1
    BY <1>1, <1>2, InsertSound
  <2>3. \A i \in DOMAIN y : y[i].id <= counter + 1
    <3> HIDE DEF y
    <3> QED BY <1>1, <1>2, <2>2
  <2> QED BY <2>1, <2>2, <2>3
<1>5. Answered(T!Insert(sql, id, r)) /\ Answered(T!Insert(sql, counter + 1, r))
  BY <1>1, <1>2, <1>3, Inserted
<1>6. T!Thrown(sql).rows = sql /\ T!Thrown(sql).answer = "error"
  BY DEF T!Thrown
<1>7. s = T!Insert(sql, id, r) \/ (kind = "project" /\ s = T!Thrown(sql))
  BY DEF s, id
<1>8. m = T!Insert(sql, counter + 1, r)
  BY <1>1 DEF m
<1>9. Sound(s.rows, lo + 2) /\ Sound(m.rows, lo + 2) /\ Answered(s) /\ Answered(m)
  BY <1>1, <1>2, <1>4, <1>5, <1>6, <1>7, <1>8, SoundMore DEF Answered
<1>10. ASSUME T!Parting(c, s, m) = {}
       PROVE  /\ s = m /\ (\A i \in DOMAIN s.rows : s.rows[i].id <= counter + 1)
              /\ (kind = "note" => Tidy(s.rows))
  <2>1. "reused" \notin T!Parting(c, s, m) /\ "same tag" \notin T!Parting(c, s, m)
    BY <1>10
  <2>2. id = counter + 1 /\ ~(kind = "project" /\ s.answer = "error")
    BY <2>1 DEF T!Parting, id
  <2>3. s = m
    BY <1>6, <1>7, <1>8, <2>2
  <2>4. ASSUME kind = "note" PROVE Tidy(m.rows)
    <3> DEFINE y == m.rows
               w == T!NewRow(counter + 1, r)
    <3>1. /\ DOMAIN y = 1 .. Len(sql) + 1 /\ (\A i \in DOMAIN sql : y[i] = sql[i]) /\ y[Len(sql) + 1] = w
          /\ w.id = counter + 1 /\ w.key = r.key /\ w.gone = FALSE
      <4> DEFINE n == counter + 1
      <4>1. n \in 0 .. 2 * Calls /\ sql \in Seq(T!Rows) /\ stamps \in 0 .. Calls
        BY <1>1, <1>2
      <4> HIDE DEF n
      <4>2. /\ T!NewRow(n, r).id = n /\ T!NewRow(n, r).key = r.key /\ T!NewRow(n, r).gone = FALSE
            /\ Longer(T!Insert(sql, n, r).rows, sql, T!NewRow(n, r))
        <5>1. T!NewRow(n, r).id = n /\ T!NewRow(n, r).key = r.key /\ T!NewRow(n, r).gone = FALSE
          BY DEF T!NewRow
        <5>2. Longer(T!Insert(sql, n, r).rows, sql, T!NewRow(n, r))
          BY <4>1, Inserted
        <5> QED BY <5>1, <5>2
      <4>3. m = T!Insert(sql, n, r)
        BY <1>8 DEF n
      <4>4. w = T!NewRow(n, r)
        BY DEF n
      <4> HIDE DEF w
      <4>5. w.id = n /\ w.key = r.key /\ w.gone = FALSE
        BY <4>2, <4>4
      <4>6. DOMAIN y = 1 .. Len(sql) + 1 /\ (\A i \in DOMAIN sql : y[i] = sql[i]) /\ y[Len(sql) + 1] = w
        BY <4>2, <4>3, <4>4 DEF Longer
      <4> QED BY <4>5, <4>6 DEF n
    <3>2. DOMAIN sql = 1 .. Len(sql) /\ Len(sql) \in Nat /\ Tidy(sql)
      BY <1>1, <2>4
    <3>3. \A i \in DOMAIN sql : sql[i].key # w.key /\ sql[i].id # w.id
      <4>1. \A i \in DOMAIN sql : sql[i].id # counter + 1
        BY <1>3, <2>2
      <4> HIDE DEF w
      <4> QED BY <2>4, <3>1, <4>1
    <3> HIDE DEF y, w
    <3> QED BY <3>1, <3>2, <3>3 DEF Tidy, y
  <2> QED BY <1>4, <1>8, <2>3, <2>4
<1> QED BY <1>2, <1>9, <1>10, CallKeeps DEF s, m


LEMMA CreateKeeps == ASSUME AdapterInv, T!Create PROVE AdapterInv'
<1>1. PICK r \in T!Input : T!Call(T!Ask("create", 0, <<r>>, T!Nothing))
  BY DEF T!Create
<1> DEFINE c == T!Ask("create", 0, <<r>>, T!Nothing)
           s == T!SqliteCall(kind, sql, c)
           m == T!InMemoryCall(kind, mem, counter, c)
           n == T!CounterAfter(kind, counter, mem, c)
<1>2. c.op = "create" /\ c.rows = <<r>> /\ c.rows[1] = r /\ Len(c.rows) = 1 /\ c.patch = T!Nothing
  BY DEF T!Ask
<1>3. T!Call(c) /\ kind # "prefs"
  BY <1>1 DEF T!Create
<1> HIDE DEF c
<1>4. /\ sql = mem /\ (kind = "note" => Tidy(sql)) /\ sql \in Seq(T!Rows)
      /\ kind \in T!AllKinds /\ stamps \in 0 .. Calls /\ counter \in Nat /\ counter + 2 <= 2 * Calls
  <2>1. /\ sql = mem /\ (kind = "note" => Tidy(sql)) /\ sql \in Seq(T!Rows) /\ kind \in T!AllKinds
        /\ stamps \in Nat /\ stamps \in 0 .. Calls /\ stamps + 1 <= Calls /\ counter \in 0 .. 2 * stamps
    BY <1>3, BeforeInsert
  <2> QED BY <2>1, CallsAssumption
<1>5. [r EXCEPT !.ref = 0] = r
  BY DEF T!Input
<1>6. ASSUME kind = "note" => \A i \in DOMAIN sql : sql[i].key # r.key PROVE AdapterInv'
  <2>1. kind = "note" => T!NoteOf(sql, r.key) = {}
    BY <1>6 DEF T!NoteOf
  <2>2. n = counter + 1
    BY <1>2, <1>3, <1>4, <2>1 DEF T!CounterAfter
  <2>3. /\ (s = T!Insert(sql, T!NextId(sql), r)) \/ (kind = "project" /\ s = T!Thrown(sql))
        /\ m = T!Insert(mem, counter + 1, r)
    <3>1. CASE kind = "task"
      <4>1. s = T!InsertAll(sql, <<r>>) /\ m = T!MemInsertAll(mem, counter, <<r>>)
        BY <1>2, <3>1 DEF T!SqliteCall, T!InMemoryCall, T!SqliteTask, T!InMemoryTask
      <4>2. T!InsertAll(sql, <<r>>) = T!Insert(sql, T!NextId(sql), r)
        BY InsertsOne
      <4>3. T!MemInsertAll(mem, counter, <<r>>) = T!Insert(mem, counter + 1, r)
        BY <1>4, MemInserts
      <4> HIDE DEF s, m
      <4> QED BY <4>1, <4>2, <4>3
    <3>2. CASE kind \in {"tab", "list", "holiday", "project"}
      BY <1>2, <3>2 DEF T!SqliteCall, T!InMemoryCall, T!SqliteTab, T!InMemoryTab, T!SqliteList, T!InMemoryList,
         T!SqliteHoliday, T!InMemoryHoliday, T!SqliteProject, T!InMemoryProject
    <3>3. CASE kind = "series"
      BY <1>2, <1>5, <3>3 DEF T!SqliteCall, T!InMemoryCall, T!SqliteSeries, T!InMemorySeries
    <3>4. CASE kind = "note"
      BY <1>2, <1>4, <2>1, <3>4 DEF T!SqliteCall, T!InMemoryCall, T!SqliteNote, T!InMemoryNote
    <3> QED BY <1>3, <1>4, <3>1, <3>2, <3>3, <3>4 DEF T!AllKinds
  <2> HIDE DEF s, m, n
  <2> QED BY <1>2, <1>3, <1>6, <2>2, <2>3, InsertKeeps DEF s, m, n
<1>7. ASSUME kind = "note", NEW a \in DOMAIN sql, sql[a].key = r.key PROVE AdapterInv'
  <2>1. Tidy(sql) /\ sql[a] \in T!Rows /\ ~sql[a].gone
    BY <1>4, <1>7 DEF Tidy
  <2>2. \A i \in DOMAIN sql : sql[i].key = r.key <=> i = a
    BY <1>7, <2>1 DEF Tidy
  <2>3. T!NoteOf(sql, r.key) = {sql[a].id}
    BY <2>2, <1>7 DEF T!NoteOf
  <2>4. T!Has(sql, sql[a].id) /\ T!At(sql, sql[a].id) = a
    <3>1. T!Has(sql, sql[a].id)
      BY <1>7 DEF T!Has, T!Ids
    <3>2. T!At(sql, sql[a].id) \in DOMAIN sql /\ sql[T!At(sql, sql[a].id)].id = sql[a].id
      BY <1>4, <3>1, Found
    <3> QED BY <1>7, <2>1, <3>1, <3>2 DEF Tidy
  <2> DEFINE q == T!Stamped([sql[a] EXCEPT !.val = r.val])
             y == [sql EXCEPT ![a] = q]
             p == [val |-> r.val]
  <2>5. q \in T!Rows /\ q.id = sql[a].id /\ q.key = sql[a].key /\ q.gone = FALSE
    <3>1. r.val \in T!Values
      BY DEF T!Input, T!Values
    <3>2. /\ [sql[a] EXCEPT !.val = r.val] \in T!Rows
          /\ [sql[a] EXCEPT !.val = r.val].id = sql[a].id
          /\ [sql[a] EXCEPT !.val = r.val].key = sql[a].key
          /\ [sql[a] EXCEPT !.val = r.val].gone = sql[a].gone
      BY <2>1, <3>1 DEF T!Rows
    <3>3. sql[a].gone = FALSE
      BY <2>1 DEF T!Rows
    <3> QED BY <1>4, <3>2, <3>3, RowStamped
  <2>6. T!Patched(sql[a], p, T!Fields) = [sql[a] EXCEPT !.val = r.val]
    <3>1. DOMAIN sql[a] = {"id", "key", "ref", "val", "stamp", "gone"}
      BY <2>1 DEF T!Rows
    <3>2. DOMAIN p \intersect T!Fields = {"val"}
      BY DEF T!Fields
    <3>3. p["val"] = r.val
      OBVIOUS
    <3> HIDE DEF p
    <3>4. T!Patched(sql[a], p, T!Fields) = [f \in DOMAIN sql[a] |-> IF f = "val" THEN r.val ELSE sql[a][f]]
      BY <3>2, <3>3 DEF T!Patched
    <3>5. [sql[a] EXCEPT !.val = r.val] = [f \in DOMAIN sql[a] |-> IF f = "val" THEN r.val ELSE sql[a][f]]
      BY <3>1
    <3> QED BY <3>4, <3>5
  <2>7. s = T!Done(y)
    <3>1. s = T!EditLive(sql, sql[a].id, p, T!Fields)
      <4>1. (CHOOSE k \in {sql[a].id} : TRUE) = sql[a].id
        OBVIOUS
      <4>2. s = T!EditLive(sql, CHOOSE k \in {sql[a].id} : TRUE, p, T!Fields)
        BY <1>2, <1>7, <2>3 DEF T!SqliteCall, T!SqliteNote
      <4> QED BY <4>1, <4>2
    <3>2. T!Live(sql, sql[a].id)
      BY <2>1, <2>4 DEF T!Live
    <3> HIDE DEF s, p
    <3>3. s = T!Done(T!Change(sql, sql[a].id, T!Stamped(T!Patched(sql[a], p, T!Fields))))
      BY <2>4, <3>1, <3>2 DEF T!EditLive
    <3> QED BY <2>4, <2>6, <3>3 DEF T!Change
  <2>8. m = T!Done(y)
    <3>1. m = T!Done([i \in DOMAIN mem |-> IF mem[i].key = r.key
                                          THEN T!Stamped([mem[i] EXCEPT !.val = r.val]) ELSE mem[i]])
      BY <1>2, <1>4, <1>7, <2>3 DEF T!InMemoryCall, T!InMemoryNote
    <3>2. [i \in DOMAIN sql |-> IF sql[i].key = r.key
                                THEN T!Stamped([sql[i] EXCEPT !.val = r.val]) ELSE sql[i]] = y
      BY <1>7, <2>2
    <3> HIDE DEF m, y
    <3> QED BY <1>4, <3>1, <3>2
  <2>9. n = counter
    BY <1>2, <1>4, <1>7, <2>3 DEF T!CounterAfter
  <2>10. /\ y \in Seq(T!Rows) /\ DOMAIN y = DOMAIN sql
         /\ \A i \in DOMAIN sql : y[i].id = sql[i].id /\ y[i].key = sql[i].key /\ ~y[i].gone
    <3>1. \A i \in DOMAIN sql : y[i] = IF i = a THEN q ELSE sql[i]
      BY <1>7
    <3>2. \A i \in DOMAIN sql : ~sql[i].gone
      BY <2>1 DEF Tidy
    <3>3. y \in Seq(T!Rows) /\ DOMAIN y = DOMAIN sql
      <4> HIDE DEF q
      <4> QED BY <1>4, <2>5
    <3> HIDE DEF q, y
    <3> QED BY <2>5, <3>1, <3>2, <3>3
  <2>11. Tidy(y) /\ Within(y, sql)
    <3> HIDE DEF y
    <3> QED BY <2>1, <2>10 DEF Tidy, Within
  <2>12. T!Done(y).rows = y /\ Answered(T!Done(y))
    BY DEF T!Done, Answered
  <2> DEFINE lo == 2 * stamps
             hi == 2 * stamps + 2
  <2>13. lo \in Int /\ hi \in Int /\ lo <= hi /\ Sound(sql, lo) /\ counter \in 0 .. hi
         /\ \A i \in DOMAIN sql : sql[i].id <= counter
    BY <1>3, BeforeInsert
  <2> HIDE DEF s, m, n, y, lo, hi
  <2>14. Sound(y, lo) /\ \A i \in DOMAIN y : y[i].id <= counter
    BY <1>4, <2>11, <2>13, WithinSound
  <2>15. Sound(y, hi)
    BY <2>13, <2>14, SoundMore
  <2> QED BY <1>3, <2>7, <2>8, <2>9, <2>11, <2>12, <2>13, <2>14, <2>15, CallKeeps DEF s, m, n, hi
<1> QED BY <1>6, <1>7


LEMMA CreateManyKeeps == ASSUME AdapterInv, T!CreateMany PROVE AdapterInv'
<1>1. PICK r \in T!Input : T!Call(T!Ask("create", 0, <<r, r>>, T!Nothing))
  BY DEF T!CreateMany
<1> DEFINE c == T!Ask("create", 0, <<r, r>>, T!Nothing)
           s == T!SqliteCall(kind, sql, c)
           m == T!InMemoryCall(kind, mem, counter, c)
           n == T!CounterAfter(kind, counter, mem, c)
           lo == 2 * stamps
           id == T!NextId(sql)
           x == T!Insert(sql, id, r).rows
           y == T!Insert(sql, counter + 1, r).rows
           id2 == T!NextId(x)
<1>2. c.op = "create" /\ c.rows = <<r, r>> /\ Len(c.rows) = 2
  BY DEF T!Ask
<1>3. T!Call(c) /\ kind = "task"
  BY <1>1 DEF T!CreateMany
<1> HIDE DEF c
<1>4. /\ sql = mem /\ sql \in Seq(T!Rows) /\ stamps \in 0 .. Calls /\ Sound(sql, lo)
      /\ \A i \in DOMAIN sql : sql[i].id <= counter
  BY <1>3, BeforeInsert
<1>5. /\ lo \in Nat /\ lo + 1 \in Nat /\ lo + 2 <= 2 * Calls /\ lo + 2 = 2 * stamps + 2 /\ lo + 1 + 1 = lo + 2
      /\ counter \in Nat /\ counter + 1 \in Nat /\ counter + 2 \in Nat /\ counter + 2 <= 2 * Calls
      /\ counter + 1 \in 0 .. lo + 1 /\ counter + 1 <= 2 * Calls /\ counter + 2 \in 0 .. lo + 2
      /\ counter + 1 + 1 = counter + 2
  <2>1. stamps \in Nat /\ stamps + 1 <= Calls /\ counter \in 0 .. 2 * stamps
    BY <1>3, BeforeInsert
  <2> QED BY <2>1, CallsAssumption
<1>6. id \in 0 .. lo + 1 /\ id <= 2 * Calls /\ \A i \in DOMAIN sql : sql[i].id < id
  <2>1. id \in 1 .. 2 * stamps + 1 /\ \A i \in DOMAIN sql : sql[i].id < id
    BY <1>3, BeforeInsert
  <2>2. stamps \in Nat /\ stamps + 1 <= Calls
    BY <1>3, BeforeInsert
  <2> QED BY <2>1, <2>2, CallsAssumption
<1>7. s = T!Insert(x, id2, r)
  <2>1. s = T!InsertAll(sql, <<r, r>>)
    BY <1>2, <1>3 DEF T!SqliteCall, T!SqliteTask
  <2> QED BY <2>1, InsertsTwo
<1>8. m = T!Insert(y, counter + 2, r)
  <2>1. m = T!MemInsertAll(mem, counter, <<r, r>>)
    BY <1>2, <1>3 DEF T!InMemoryCall, T!InMemoryTask
  <2>2. T!MemInsertAll(sql, counter, <<r, r>>) = T!Insert(y, counter + 2, r)
    BY <1>4, <1>5, MemInserts
  <2> HIDE DEF m, y
  <2> QED BY <1>4, <2>1, <2>2
<1>9. n = counter + 2
  BY <1>2, <1>3 DEF T!CounterAfter
<1> HIDE DEF s, m, n, lo, id
<1>10. Sound(x, lo + 1) /\ id2 = id + 1
  <2>1. /\ lo \in Nat /\ Sound(sql, lo) /\ id \in 0 .. lo + 1 /\ id <= 2 * Calls /\ stamps \in 0 .. Calls
        /\ \A i \in DOMAIN sql : sql[i].id < id
    BY <1>4, <1>5, <1>6
  <2>2. Sound(x, lo + 1) /\ ((\A i \in DOMAIN sql : sql[i].id < id) => id2 = id + 1)
    BY <2>1, InsertSound
  <2> HIDE DEF x, id2
  <2> QED BY <2>1, <2>2
<1>11. Sound(y, lo + 1) /\ \A i \in DOMAIN y : y[i].id <= counter + 1
  <2>1. /\ Sound(y, lo + 1)
        /\ \A k \in Nat : (\A i \in DOMAIN sql : sql[i].id <= k) /\ counter + 1 <= k + 1
                              => \A i \in DOMAIN y : y[i].id <= k + 1
    BY <1>4, <1>5, InsertSound
  <2> HIDE DEF y
  <2> QED BY <1>4, <1>5, <2>1
<1>12. id = counter + 1 => x = y
  OBVIOUS
<1> HIDE DEF x, y, id2
<1>13. id2 \in 0 .. lo + 1 + 1 /\ id2 <= 2 * Calls /\ id2 \in 0 .. 2 * Calls
  BY <1>5, <1>6, <1>10, CallsAssumption
<1>14. counter + 2 \in 0 .. lo + 1 + 1 /\ counter + 2 <= counter + 1 + 1 /\ counter + 2 \in 0 .. 2 * Calls
  BY <1>5, CallsAssumption
<1>15. Sound(s.rows, lo + 1 + 1)
  BY <1>4, <1>5, <1>7, <1>10, <1>13, InsertSound
<1>16. Sound(m.rows, lo + 1 + 1) /\ \A i \in DOMAIN m.rows : m.rows[i].id <= counter + 1 + 1
  <2> DEFINE n1 == lo + 1
             e == counter + 2
  <2>1. /\ n1 \in Nat /\ Sound(y, n1) /\ e \in 0 .. n1 + 1 /\ e <= 2 * Calls /\ r \in T!Input
        /\ stamps \in 0 .. Calls /\ m = T!Insert(y, e, r)
    BY <1>4, <1>5, <1>8, <1>11, <1>14
  <2> HIDE DEF n1, e
  <2>2. /\ Sound(m.rows, n1 + 1)
        /\ \A k \in Nat : (\A i \in DOMAIN y : y[i].id <= k) /\ e <= k + 1
              => \A i \in DOMAIN m.rows : m.rows[i].id <= k + 1
    BY <2>1, InsertSound
  <2>3. e <= counter + 1 + 1 /\ n1 + 1 = lo + 1 + 1
    BY <1>14 DEF e, n1
  <2> QED BY <1>5, <1>11, <2>2, <2>3
<1>17. Answered(s) /\ Answered(m)
  <2>1. x \in Seq(T!Rows) /\ y \in Seq(T!Rows)
    BY <1>10, <1>11 DEF Sound
  <2> QED BY <1>4, <1>7, <1>8, <1>13, <1>14, <2>1, Inserted
<1>18. T!Parting(c, s, m) = {} => s = m
  <2> SUFFICES ASSUME T!Parting(c, s, m) = {} PROVE s = m
    OBVIOUS
  <2>1. "reused" \notin T!Parting(c, s, m)
    OBVIOUS
  <2>2. id = counter + 1
    BY <1>2, <1>3, <2>1 DEF T!Parting, id
  <2> QED BY <1>5, <1>7, <1>8, <1>10, <1>12, <2>2
<1>19. Sound(s.rows, 2 * stamps + 2) /\ Sound(m.rows, 2 * stamps + 2) /\ n \in 0 .. 2 * stamps + 2
       /\ \A i \in DOMAIN m.rows : m.rows[i].id <= n
  BY <1>5, <1>9, <1>15, <1>16
<1> QED BY <1>3, <1>17, <1>18, <1>19, CallKeeps DEF s, m, n


LEMMA SnapshotKeeps == ASSUME AdapterInv, T!Snapshot PROVE AdapterInv'
<1>1. saved' = sql /\ UNCHANGED <<kind, sql, mem, counter, answers, stamps, apart>>
  BY DEF T!Snapshot
<1>2. Sound(sql', 2 * stamps') /\ Sound(mem', 2 * stamps') /\ Sound(saved', 2 * stamps')
  BY <1>1, InvParts
<1>3. (Sound(sql, 2 * stamps) /\ Sound(mem, 2 * stamps) /\ Sound(saved, 2 * stamps))'
  BY <1>2 DEF Sound
<1>4. apart = {} => (kind = "note" => Tidy(sql)' /\ Tidy(saved)')
  BY <1>1, InvParts DEF Tidy
<1> QED BY <1>1, <1>3, <1>4 DEF AdapterInv

LEMMA AdaptersStay ==
    ASSUME AdapterInv, UNCHANGED <<kind, sql, mem, counter, saved, answers, stamps, apart>> PROVE AdapterInv'
<1>1. Sound(sql', 2 * stamps') /\ Sound(mem', 2 * stamps') /\ Sound(saved', 2 * stamps')
  BY InvParts
<1>2. (Sound(sql, 2 * stamps) /\ Sound(mem, 2 * stamps) /\ Sound(saved, 2 * stamps))'
  BY <1>1 DEF Sound
<1>3. apart = {} => (kind = "note" => Tidy(sql)' /\ Tidy(saved)')
  BY InvParts DEF Tidy
<1> QED BY <1>2, <1>3 DEF AdapterInv

LEMMA AdaptersBegin == ASSUME T!Init PROVE AdapterInv
<1>1. T!Default \in T!Rows /\ T!Default.id = 0 /\ T!Default.gone = FALSE
  BY CallsAssumption DEF T!Default, T!Rows, T!Values
<1>2. sql \in {<<>>, <<T!Default>>} /\ mem = sql /\ saved = sql /\ (kind = "note" => sql = <<>>)
  BY DEF T!Init, T!Seeded
<1>3. sql \in Seq(T!Rows) /\ \A i \in DOMAIN sql : sql[i].id = 0
  <2> HIDE DEF T!Default
  <2>1. CASE sql = <<>>
    BY <2>1
  <2>2. CASE sql = <<T!Default>>
    BY <1>1, <2>2
  <2> QED BY <1>2, <2>1, <2>2
<1>4. stamps = 0 /\ counter = 0 /\ apart = {} /\ answers = [sql |-> "none", mem |-> "none"] /\ kind \in T!AllKinds
  BY DEF T!Init, T!AllKinds
<1>5. 0 \in 0 .. Calls /\ 2 * stamps = 0 /\ 0 \in 0 .. 2 * stamps
  BY <1>4, CallsAssumption
<1>6. Sound(sql, 2 * stamps) /\ Sound(mem, 2 * stamps) /\ Sound(saved, 2 * stamps)
  BY <1>2, <1>3, <1>5 DEF Sound
<1>7. kind = "note" => Tidy(sql) /\ Tidy(saved)
  BY <1>2 DEF Tidy
<1>8. \A i \in DOMAIN sql : sql[i].id <= counter
  BY <1>3, <1>4
<1> QED BY <1>2, <1>4, <1>5, <1>6, <1>7, <1>8 DEF AdapterInv

LEMMA AdaptersStep == ASSUME AdapterInv, T!Next PROVE AdapterInv'
<1>1. T!Update \/ T!Delete => AdapterInv'
  BY UpdateKeeps, DeleteKeeps, PrefsKeep
<1> QED BY <1>1, CreateKeeps, CreateManyKeeps, TaskCallsKeep, StatsKeep, SnapshotKeeps, ReplaceKeeps DEF T!Next

LEMMA PartsKeepAdapters ==
    ASSUME part = "storage" => AdapterInv, [PartsNext]_<<vars, others>>
    PROVE  (part = "storage" => AdapterInv)'
<1>1. part' = part
  BY DEF PartsNext, others
<1>2. SUFFICES ASSUME part = "storage" PROVE AdapterInv'
  BY <1>1
<1>3. T!Next \/ UNCHANGED <<kind, sql, mem, counter, saved, answers, stamps, apart>>
  BY <1>2 DEF PartsNext, others, storageVars
<1> QED BY <1>2, <1>3, AdaptersStep, AdaptersStay

(* After any calls, and however many, the SQLite repository and its twin   *)
(* in memory hold the same rows and gave the same answer, unless one of    *)
(* the known differences came up (packages/server/src/adapters/data).      *)
THEOREM AdaptersAgreeAlways == PartsSpec => []AdaptersAgree
<1> DEFINE Inv == part = "storage" => AdapterInv
<1>1. PartsInit => Inv
  BY AdaptersBegin DEF PartsInit
<1>2. Inv /\ [PartsNext]_<<vars, others>> => Inv'
  BY PartsKeepAdapters
<1>3. Inv => AdaptersAgree
  BY DEF AdapterInv, AdaptersAgree, T!AdaptersAgree
<1> QED BY <1>1, <1>2, <1>3, PTL DEF PartsSpec

----------------------------------------------------------------------------
(* Every part keeps to its types.                                          *)

(* Some migrations, and time that may pass.                                *)
Bounds == Migrations \in Nat /\ MaxTime \in Nat

ServerInv == TypeOK /\ ServesMigrated /\ DrainInv /\ RateInv

LEMMA ServerBegins ==
    ASSUME IsFiniteSet(Requests), Limits, Bounds, Init
    PROVE  ServerInv
<1>1. ServesMigrated /\ DrainInv /\ RateInv
  BY DrainInit, RateInit DEF Init, ServesMigrated, Alive
<1>2. bucket \in [tokens: 0 .. Rpm, lastRefill: 0 .. MaxTime]
  BY DEF Init, NoBucket, Limits, Bounds
<1>3. allowed \in Seq(0 .. MaxTime) /\ clock \in 0 .. MaxTime
  BY DEF Init, Bounds
<1>4. requests \in [Requests -> {"none", "api", "health"}] /\ inFlight \in Nat /\ active \in Nat
  BY DEF Init
<1>5. clients \subseteq Sockets /\ sockets \in [Sockets -> {"none", "open", "closing", "gone"}]
  BY DEF Init
<1>6. /\ phase \in {"boot", "serving", "runner", "drain", "closed", "down"}
      /\ storage \in {"ok", "broken", "closed"} /\ busy \in BOOLEAN /\ deadline \in BOOLEAN
      /\ refused \in BOOLEAN
  BY DEF Init
<1>7. schema \in 0 .. Migrations /\ recorded \in 0 .. Migrations
  BY DEF Init, Bounds
<1>8. TypeOK
  BY <1>2, <1>3, <1>4, <1>5, <1>6, <1>7 DEF TypeOK
<1> QED BY <1>1, <1>8 DEF ServerInv

(* The limiter's own invariant bounds the times it keeps by the clock.     *)
LEMMA TimesFitNext ==
    ASSUME RateInv', clock' \in 0 .. MaxTime, MaxTime \in Nat
    PROVE  bucket' \in [tokens: 0 .. Rpm, lastRefill: 0 .. MaxTime] /\ allowed' \in Seq(0 .. MaxTime)
<1>1. bucket' \in [tokens: 0 .. Rpm, lastRefill: Nat] /\ bucket'.lastRefill <= clock'
  BY DEF RateInv, Fits
<1>2. bucket'.lastRefill \in 0 .. MaxTime
  BY <1>1
<1>3. bucket' \in [tokens: 0 .. Rpm, lastRefill: 0 .. MaxTime]
  BY <1>1, <1>2
<1>4. allowed' \in Seq(Nat) /\ \A i \in 1 .. Len(allowed') : allowed'[i] \in 0 .. MaxTime
  BY DEF RateInv
<1>5. allowed' \in Seq(0 .. MaxTime)
  BY <1>4
<1> QED BY <1>3, <1>5

(* What the limiter and the counters do not keep to their types.           *)
Process ==
    /\ phase \in {"boot", "serving", "runner", "drain", "closed", "down"}
    /\ schema \in 0 .. Migrations /\ recorded \in 0 .. Migrations /\ clock \in 0 .. MaxTime
    /\ storage \in {"ok", "broken", "closed"} /\ busy \in BOOLEAN /\ deadline \in BOOLEAN
    /\ requests \in [Requests -> {"none", "api", "health"}]

Wires ==
    /\ clients \subseteq Sockets /\ sockets \in [Sockets -> {"none", "open", "closing", "gone"}]
    /\ refused \in BOOLEAN

LEMMA ProcessNext ==
    ASSUME Bounds, Process, ServesMigrated, Next \/ UNCHANGED vars
    PROVE  Process'
<1> USE DEF Process, boot, serving, limiter, wire, Bounds
<1>1. CASE Migrate
  BY <1>1 DEF Migrate, ServesMigrated
<1>2. CASE Start
  BY <1>2 DEF Start
<1>3. CASE Crash
  BY <1>3 DEF Crash
<1>4. CASE StorageChanges
  BY <1>4 DEF StorageChanges
<1>5. CASE JobStarts
  BY <1>5 DEF JobStarts
<1>6. CASE JobEnds
  BY <1>6 DEF JobEnds
<1>7. CASE Tick
  BY <1>7 DEF Tick
<1>8. ASSUME NEW r \in Requests, Handled(r) PROVE Process'
  BY <1>8 DEF Handled, FinishRequest
<1>9. ASSUME NEW r \in Requests, NEW route \in {"api", "health"}, Arrive(r, route) PROVE Process'
  BY <1>9 DEF Arrive
<1>10. CASE \E s \in Sockets : Open(s) \/ CloseByPeer(s) \/ Remove(s)
  BY <1>10 DEF Open, CloseByPeer, Remove
<1>11. CASE Signal
  BY <1>11 DEF Signal
<1>12. CASE RunnerStopped
  BY <1>12 DEF RunnerStopped
<1>13. CASE DeadlinePasses
  BY <1>13 DEF DeadlinePasses
<1>14. CASE Drained
  BY <1>14 DEF Drained
<1>15. CASE UNCHANGED vars
  BY <1>15 DEF vars
<1> QED BY <1>1, <1>2, <1>3, <1>4, <1>5, <1>6, <1>7, <1>8, <1>9, <1>10, <1>11, <1>12, <1>13,
           <1>14, <1>15 DEF Next

LEMMA WiresNext ==
    ASSUME Wires, Next \/ UNCHANGED vars
    PROVE  Wires'
<1> USE DEF Wires, limiter, wire
<1>1. CASE Migrate
  BY <1>1 DEF Migrate
<1>2. CASE Start
  BY <1>2 DEF Start
<1>3. CASE Crash
  BY <1>3 DEF Crash
<1>4. CASE StorageChanges \/ JobStarts \/ JobEnds
  BY <1>4 DEF StorageChanges, JobStarts, JobEnds
<1>5. CASE Tick
  BY <1>5 DEF Tick
<1>6. ASSUME NEW r \in Requests, Handled(r) PROVE Wires'
  BY <1>6 DEF Handled
<1>7. ASSUME NEW r \in Requests, NEW route \in {"api", "health"}, Arrive(r, route) PROVE Wires'
  <2>1. UNCHANGED wire
    BY <1>7 DEF Arrive
  <2>2. refused' \in BOOLEAN
    BY <1>7, Zenon DEF Arrive, Guard
  <2> QED BY <2>1, <2>2
<1>8. ASSUME NEW s \in Sockets, Open(s) \/ CloseByPeer(s) \/ Remove(s) PROVE Wires'
  BY <1>8 DEF Open, CloseByPeer, Remove
<1>9. CASE Signal \/ RunnerStopped \/ DeadlinePasses
  BY <1>9 DEF Signal, RunnerStopped, DeadlinePasses
<1>10. CASE Drained
  BY <1>10 DEF Drained, CloseAll
<1>11. CASE UNCHANGED vars
  BY <1>11 DEF vars
<1> QED BY <1>1, <1>2, <1>3, <1>4, <1>5, <1>6, <1>7, <1>8, <1>9, <1>10, <1>11 DEF Next

LEMMA ServerNext ==
    ASSUME IsFiniteSet(Requests), Limits, Bounds, ServerInv, Next \/ UNCHANGED vars
    PROVE  ServerInv'
<1>1. ServesMigrated' /\ DrainInv' /\ RateInv'
  BY MigratedNext, DrainNext, RateNext DEF ServerInv
<1>2. Process' /\ Wires'
  BY ProcessNext, WiresNext DEF ServerInv, TypeOK, Process, Wires
<1>3. inFlight' \in Nat /\ active' \in Nat
  BY <1>1 DEF DrainInv, Counters, InFlightCovers
<1>4. bucket' \in [tokens: 0 .. Rpm, lastRefill: 0 .. MaxTime] /\ allowed' \in Seq(0 .. MaxTime)
  BY <1>1, <1>2, TimesFitNext DEF Process, Bounds
<1>5. TypeOK'
  BY <1>2, <1>3, <1>4 DEF TypeOK, Process, Wires
<1> QED BY <1>1, <1>5 DEF ServerInv

LEMMA StorageTyped == ASSUME AdapterInv PROVE T!TypeOK
<1>1. counter \in 0 .. 2 * Calls /\ stamps \in 0 .. Calls
  BY StampsFit, CallsAssumption
<1>2. sql \in Seq(T!Rows) /\ mem \in Seq(T!Rows) /\ saved \in Seq(T!Rows) /\ kind \in T!AllKinds
  BY InvParts
<1>3. answers \in [sql: {"row", "none", "error"}, mem: {"row", "none", "error"}]
  BY Zenon DEF AdapterInv, Sound
<1>4. apart \subseteq {"moved", "reused", "same tag", "empty patch"}
  BY Zenon DEF AdapterInv, Sound
<1> QED BY <1>1, <1>2, <1>3, <1>4, Zenon DEF T!TypeOK

LEMMA SnapshotsTyped == ASSUME P!SnapshotsInv PROVE X!TypeOK
<1>1. P!TypeOK
  BY DEF P!SnapshotsInv
<1>2. X!Tables = P!Tables
  BY SnapshotsTables DEF X!Tables, P!Tables, X!TaskRows, P!TaskRows
<1>3. restoring \in [tables: P!Tables, flaw: SomeFlaws] \union {None}
  BY <1>1 DEF P!TypeOK
<1>4. deleting \in [list: P!ListIds, tasks: SUBSET P!TaskIds] \union {None}
  BY <1>1 DEF P!TypeOK
<1> QED BY <1>1, <1>2, <1>3, <1>4, SnapshotsTables DEF X!TypeOK, P!TypeOK

(* However long the parts run, every variable keeps to its type: what the  *)
(* process knows of itself, the tables of both repositories, those of the  *)
(* snapshots, and the templates, tasks and streaks (TypeOK of HttpServer,  *)
(* Storage, Snapshots and RecurringSeries).                                *)
THEOREM TypesOfServer ==
    ASSUME IsFiniteSet(Requests), Limits, Bounds
    PROVE  PartsSpec => []TypesOK
<1> DEFINE Stored == part = "storage" => AdapterInv
           Copied == part = "snapshots" => P!SnapshotsInv
           Inv == ServerInv /\ Stored /\ Copied /\ SeriesHolds
<1>1. PartsInit => Inv
  BY ServerBegins, AdaptersBegin, SnapshotsKept, SeriesStart DEF PartsInit, SeriesHolds
<1>2. Inv /\ [PartsNext]_<<vars, others>> => Inv'
  <2> SUFFICES ASSUME Inv, [PartsNext]_<<vars, others>> PROVE Inv'
    OBVIOUS
  <2>1. ServerInv'
    <3>1. Next \/ UNCHANGED vars
      BY DEF PartsNext
    <3> QED BY <3>1, ServerNext
  <2>2. Stored' /\ Copied'
    BY PartsKeepAdapters, PartsKeepSnapshots
  <2>3. SeriesHolds'
    BY PartsKeepSeries
  <2> QED BY <2>1, <2>2, <2>3
<1>3. Inv => TypesOK
  <2> SUFFICES ASSUME Inv PROVE TypesOK
    OBVIOUS
  <2>1. part = "storage" => T!TypeOK
    BY StorageTyped
  <2>2. part = "snapshots" => X!TypeOK
    BY SnapshotsTyped
  <2>3. part = "series" => R!TypeOK
    BY DEF SeriesHolds, SeriesInv
  <2> QED BY <2>1, <2>2, <2>3 DEF TypesOK, ServerInv
<1> QED BY <1>1, <1>2, <1>3, PTL DEF PartsSpec
=============================================================================
