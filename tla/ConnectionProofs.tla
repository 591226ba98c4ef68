--------------------------- MODULE ConnectionProofs ---------------------------
(***************************************************************************)
(* Proofs about the tab's end of the WebSocket, for every backoff limit    *)
(* and any number of sockets and failures.                                 *)
(*                                                                         *)
(* A page holds one socket because a new one is made by the timer only,    *)
(* the timer runs only after a close event has been handled, and a close   *)
(* event is the last a socket gives: until then the socket is the          *)
(* service's own, after it every socket is dead.  The other parts of the   *)
(* invariant follow the status, which the toasts and the header follow.    *)
(***************************************************************************)
EXTENDS MCLive, RecursionLemmas, FiniteSetTheorems, SequenceTheorems

Greeting == {"open", "ack"}
Dead(q)  == q.state = "closed" /\ q.owed = <<>>
Quiet(q) == q.state \in {"closing", "closed"} /\ \A i \in DOMAIN q.owed : q.owed[i] \notin Greeting

(* A socket that owes its end is closed, and close is the last event.      *)
Shape(q) ==
    \A i \in DOMAIN q.owed :
        /\ q.owed[i] \in {"error", "close"} => q.state = "closed"
        /\ q.owed[i] = "close" => i = Len(q.owed)

(* Every socket but the service's own w is on its way out, and has nothing *)
(* more to say while the page is there.                                    *)
Held(ss, w, m) ==
    /\ ss \in Seq(Sockets)
    /\ \A s \in 1 .. Len(ss) :
          /\ Shape(ss[s])
          /\ s # w => Quiet(ss[s]) /\ (m => Dead(ss[s]))

(* The last toast tells whether the page was connected last.               *)
ToastsFollow ==
    /\ Len(toasts) <= 2
    /\ before = "connected" <=> (toasts # <<>> /\ toasts[Len(toasts)] = "connected")
    /\ Len(toasts) = 2 => toasts[1] # toasts[2]

(* What the service and the store keep of one another.                     *)
Together ==
    /\ timer # 0 => mounted /\ ws = 0 /\ status = "reconnecting"
    /\ mounted => before = status /\ ~intentional
    /\ ~mounted => ws = 0 /\ header = 0 /\ intentional
    /\ ping => ws # 0
    /\ header # 0 => header = ws /\ service = ws
    /\ ToastsFollow

ConnInv == TypeOK /\ Held(sockets, ws, mounted) /\ Together

----------------------------------------------------------------------------
(* The delay stays within its limit.                                       *)
LEMMA DelayBounded ==
    ASSUME NEW n \in Nat
    PROVE  Delay(n) \in 0 .. MaxDelay
<1>1. IsFiniteSet(1 .. n) /\ Cardinality(1 .. n) = n
  BY FS_Interval
<1>2. IsFiniteSet(SUBSET (1 .. n)) /\ Cardinality(SUBSET (1 .. n)) = 2 ^ n
  BY <1>1, FS_SUBSET
<1>3. 2 ^ n \in Nat
  BY <1>2, FS_CardinalityType
<1> QED BY <1>3, BoundsAssumption DEF Delay

Event == {"open", "ack", "error", "close"}

(* The recursion of Ungreeted.                                             *)
LEMMA UngreetedRecursion ==
    ASSUME NEW o \in Seq(Event)
    PROVE  \E f : /\ Ungreeted(o) = f[Len(o)]
                  /\ f[0] = <<>>
                  /\ \A i \in 1 .. Len(o) :
                        f[i] = IF o[i] \in Greeting THEN f[i - 1] ELSE Append(f[i - 1], o[i])
<1> DEFINE G(f) == [i \in 0 .. Len(o) |->
                       IF i = 0 THEN <<>>
                       ELSE IF o[i] \in {"open", "ack"} THEN f[i - 1] ELSE Append(f[i - 1], o[i])]
           A == Seq(Event)
           g == [i \in 1 .. Len(o) |-> [x \in A |->
                      IF o[i] \in {"open", "ack"} THEN x ELSE Append(x, o[i])]]
<1>1. Len(o) \in Nat /\ g \in [1 .. Len(o) -> [A -> A]] /\ <<>> \in A
  OBVIOUS
<1>2. PICK h : Solves(h, Len(o), A, <<>>, g)
  <2> HIDE DEF g, A
  <2> QED BY <1>1, RecursionExists
<1>3. h \in [0 .. Len(o) -> A] /\ h[0] = <<>> /\ \A i \in 1 .. Len(o) : h[i] = g[i][h[i - 1]]
  <2> HIDE DEF g, A
  <2> QED BY <1>2 DEF Solves
<1>4. \A i \in 1 .. Len(o) : i - 1 \in 0 .. Len(o) /\ h[i - 1] \in A
  <2> HIDE DEF g, A
  <2> QED BY <1>1, <1>3
<1>5. \A i \in 1 .. Len(o) : h[i] = IF o[i] \in {"open", "ack"} THEN h[i - 1] ELSE Append(h[i - 1], o[i])
  <2> TAKE i \in 1 .. Len(o)
  <2>1. g[i] = [x \in A |-> IF o[i] \in {"open", "ack"} THEN x ELSE Append(x, o[i])]
    OBVIOUS
  <2> HIDE DEF g
  <2> QED BY <1>3, <1>4, <2>1
<1>6. h = G(h)
  <2> HIDE DEF g, A
  <2>1. \A i \in 0 .. Len(o) : i = 0 \/ i \in 1 .. Len(o)
    BY <1>1
  <2>2. \A i \in 0 .. Len(o) : h[i] = G(h)[i]
    BY <1>3, <1>5, <2>1
  <2>3. DOMAIN h = 0 .. Len(o) /\ h = [i \in 0 .. Len(o) |-> h[i]]
    BY <1>3
  <2> QED BY <2>2, <2>3
<1>7. PICK f : f = G(f) /\ f = CHOOSE f1 : f1 = G(f1)
  <2> HIDE DEF G
  <2> QED BY <1>6
<1>8. Ungreeted(o) = f[Len(o)]
  BY <1>7 DEF Ungreeted
<1>9. \A i \in 0 .. Len(o) : f[i] = IF i = 0 THEN <<>>
          ELSE IF o[i] \in {"open", "ack"} THEN f[i - 1] ELSE Append(f[i - 1], o[i])
  BY <1>7
<1> HIDE DEF g, G, A
<1>10. /\ f[0] = <<>>
       /\ \A i \in 1 .. Len(o) : f[i] = IF o[i] \in {"open", "ack"} THEN f[i - 1] ELSE Append(f[i - 1], o[i])
  BY <1>1, <1>9
<1> QED BY <1>8, <1>10 DEF Greeting

(* Arithmetic of the induction over the events.                            *)
LEMMA NextIndex ==
    ASSUME NEW N \in Nat, NEW n \in 0 .. N, n < N
    PROVE  n \in Nat /\ n + 1 \in 1 .. N /\ n + 1 \in 0 .. N /\ n + 1 - 1 = n /\ n # N
OBVIOUS

(* What a close() leaves of the events o: no greeting, nothing new, and a  *)
(* close event the last.                                                   *)
LeftOf(o, u) ==
    /\ u \in Seq(Event)
    /\ \A k \in DOMAIN u :
          /\ u[k] \notin Greeting
          /\ \E i \in 1 .. Len(o) : o[i] = u[k]
          /\ u[k] = "close" => k = Len(u)

(* A close() leaves no greeting.                                           *)
LEMMA UngreetedEvents ==
    ASSUME NEW o \in Seq(Event), \A i \in DOMAIN o : o[i] = "close" => i = Len(o)
    PROVE  LeftOf(o, Ungreeted(o))
<1>1. PICK f : /\ Ungreeted(o) = f[Len(o)]
               /\ f[0] = <<>>
               /\ \A i \in 1 .. Len(o) :
                     f[i] = IF o[i] \in Greeting THEN f[i - 1] ELSE Append(f[i - 1], o[i])
  BY UngreetedRecursion
<1>2. Len(o) \in Nat /\ DOMAIN o = 1 .. Len(o) /\ \A i \in 1 .. Len(o) : o[i] \in Event
  OBVIOUS
<1> DEFINE Good == { i \in 0 .. Len(o) :
                    /\ f[i] \in Seq(Event)
                    /\ \A k \in DOMAIN f[i] :
                          /\ f[i][k] \notin Greeting
                          /\ \E j \in 1 .. i : o[j] = f[i][k]
                          /\ f[i][k] = "close" => k = Len(f[i]) /\ i = Len(o) }
<1>3. 0 \in Good
  <2>1. 0 \in 0 .. Len(o)
    BY <1>2
  <2>2. f[0] \in Seq(Event) /\ DOMAIN f[0] = {}
    BY <1>1
  <2> QED BY <2>1, <2>2
<1>4. ASSUME NEW n \in 0 .. Len(o), n < Len(o), n \in Good PROVE n + 1 \in Good
  <2>0. n \in Nat /\ n + 1 \in 1 .. Len(o) /\ n + 1 \in 0 .. Len(o) /\ n + 1 - 1 = n /\ n # Len(o)
    BY <1>2, <1>4, NextIndex, SMTT(30)
  <2>1. /\ n \in Nat /\ n + 1 \in 1 .. Len(o) /\ n + 1 \in 0 .. Len(o) /\ n + 1 - 1 = n /\ n # Len(o)
        /\ o[n + 1] \in Event /\ f[n] \in Seq(Event)
    BY <1>2, <1>4, <2>0
  <2>2. \A k \in DOMAIN f[n] : /\ f[n][k] \notin Greeting /\ f[n][k] # "close"
                               /\ \E j \in 1 .. n + 1 : o[j] = f[n][k]
    BY <1>4, <2>1, SMTT(30)
  <2>3. o[n + 1] = "close" => n + 1 = Len(o)
    BY <1>2, <2>1
  <2>4. f[n + 1] = IF o[n + 1] \in Greeting THEN f[n] ELSE Append(f[n], o[n + 1])
    <3> HIDE DEF Good
    <3> QED BY <1>1, <2>1
  <2>5. CASE o[n + 1] \in Greeting
    <3>1. f[n + 1] = f[n]
      BY <2>4, <2>5
    <3> QED BY <2>1, <2>2, <3>1
  <2>6. CASE o[n + 1] \notin Greeting
    <3> DEFINE a == Append(f[n], o[n + 1])
    <3>1. a \in Seq(Event) /\ DOMAIN a = 1 .. Len(f[n]) + 1 /\ Len(a) = Len(f[n]) + 1
          /\ DOMAIN f[n] = 1 .. Len(f[n]) /\ Len(f[n]) \in Nat
          /\ a[Len(a)] = o[n + 1] /\ \A k \in DOMAIN f[n] : a[k] = f[n][k]
      BY <2>1
    <3>2. f[n + 1] = a
      BY <2>4, <2>6
    <3> HIDE DEF a
    <3>3. \A k \in DOMAIN a : k \in DOMAIN f[n] \/ k = Len(a)
      BY <3>1
    <3>4. \A k \in DOMAIN a : /\ a[k] \notin Greeting
                              /\ \E j \in 1 .. n + 1 : o[j] = a[k]
                              /\ a[k] = "close" => k = Len(a) /\ n + 1 = Len(o)
      BY <2>1, <2>2, <2>3, <2>6, <3>1, <3>3
    <3> QED BY <2>1, <3>1, <3>2, <3>4
  <2> QED BY <2>5, <2>6
<1>5. \A n \in 0 .. Len(o) : n \in Good
  <2> HIDE DEF Good
  <2> QED BY <1>2, <1>3, <1>4, BoundedInduction
<1>6. Len(o) \in Good
  <2> HIDE DEF Good
  <2> QED BY <1>2, <1>5
<1>7. LeftOf(o, f[Len(o)])
  BY <1>6 DEF LeftOf
<1> QED BY <1>1, <1>7

----------------------------------------------------------------------------
(* What a close() makes of the sockets.                                    *)
LEMMA ClosingOne ==
    ASSUME NEW ss \in Seq(Sockets), NEW s \in 1 .. Len(ss), Shape(ss[s])
    PROVE  /\ Closing(ss, s) \in Seq(Sockets) /\ Len(Closing(ss, s)) = Len(ss)
           /\ \A r \in 1 .. Len(ss) : r # s => Closing(ss, s)[r] = ss[r]
           /\ Quiet(Closing(ss, s)[s]) /\ Shape(Closing(ss, s)[s])
<1> DEFINE o == ss[s].owed
           st == IF ss[s].state = "closed" THEN "closed" ELSE "closing"
           q == [state |-> st, owed |-> Ungreeted(o)]
           cs == [ss EXCEPT ![s] = q]
<1>1. ss[s] \in Sockets /\ s # 0
  OBVIOUS
<1>2. Closing(ss, s) = cs
  BY <1>1 DEF Closing
<1>3. o \in Seq(Event) /\ \A i \in DOMAIN o : o[i] = "close" => i = Len(o)
  BY <1>1 DEF Sockets, Event, Shape
<1> HIDE DEF o
<1>3a. DOMAIN o = 1 .. Len(o)
  BY <1>3
<1>4. /\ Ungreeted(o) \in Seq(Event)
      /\ \A k \in DOMAIN Ungreeted(o) :
            /\ Ungreeted(o)[k] \notin Greeting
            /\ \E i \in DOMAIN o : o[i] = Ungreeted(o)[k]
            /\ Ungreeted(o)[k] = "close" => k = Len(Ungreeted(o))
  BY <1>3, <1>3a, UngreetedEvents DEF LeftOf
<1>5. \A i \in DOMAIN o : o[i] \in {"error", "close"} => ss[s].state = "closed"
  BY DEF o, Shape
<1>6. q \in Sockets /\ q.state = st /\ q.owed = Ungreeted(o)
  BY <1>4 DEF Sockets, Event
<1> HIDE DEF q
<1>7. Quiet(q) /\ Shape(q)
  BY <1>4, <1>5, <1>6 DEF Quiet, Shape
<1>8. cs \in Seq(Sockets) /\ Len(cs) = Len(ss) /\ cs[s] = q
      /\ \A r \in 1 .. Len(ss) : r # s => cs[r] = ss[r]
  BY <1>6
<1> HIDE DEF cs
<1> QED BY <1>2, <1>7, <1>8

(* Of none it makes nothing.                                               *)
LEMMA ClosingNone == \A ss : Closing(ss, 0) = ss
BY DEF Closing

(* What is left of what is owed.                                           *)
LEMMA TailOf ==
    ASSUME NEW o \in Seq(Event), o # <<>>
    PROVE  /\ Tail(o) \in Seq(Event) /\ Len(Tail(o)) = Len(o) - 1 /\ Len(o) \in Nat \ {0}
           /\ Head(o) = o[1] /\ DOMAIN o = 1 .. Len(o) /\ DOMAIN Tail(o) = 1 .. Len(o) - 1
           /\ \A i \in DOMAIN Tail(o) : Tail(o)[i] = o[i + 1]
           /\ Len(o) = 1 => Tail(o) = <<>>
<1>1. Len(o) \in Nat \ {0} /\ DOMAIN o = 1 .. Len(o) /\ Head(o) = o[1]
  OBVIOUS
<1>2. Tail(o) \in Seq(Event) /\ Len(Tail(o)) = Len(o) - 1
  OBVIOUS
<1>3. DOMAIN Tail(o) = 1 .. Len(o) - 1 /\ \A i \in 1 .. Len(o) - 1 : Tail(o)[i] = o[i + 1]
  OBVIOUS
<1>4. Len(o) = 1 => Tail(o) = <<>>
  <2> DEFINE t == Tail(o)
  <2>1. t \in Seq(Event) /\ (Len(o) = 1 => Len(t) = 0)
    BY <1>2
  <2> HIDE DEF t
  <2>2. Len(o) = 1 => t = <<>>
    BY <2>1
  <2> QED BY <2>2 DEF t
<1> QED BY <1>1, <1>2, <1>3, <1>4

(* What is first of what is owed.                                          *)
LEMMA OwedFirst ==
    ASSUME NEW q \in Sockets, q.owed # <<>>
    PROVE  1 \in DOMAIN q.owed /\ q.owed[1] = Head(q.owed)
<1>1. q.owed \in Seq(Event)
  BY DEF Sockets, Event
<1> QED BY <1>1

(* What follows the first event of a socket.                               *)
LEMMA TakenOne ==
    ASSUME sockets \in Seq(Sockets), NEW s \in Ids, sockets[s].owed # <<>>, Shape(sockets[s])
    PROVE  /\ Taken(s) \in Seq(Sockets) /\ Len(Taken(s)) = Len(sockets)
           /\ \A r \in Ids : r # s => Taken(s)[r] = sockets[r]
           /\ Taken(s)[s].state = sockets[s].state /\ Shape(Taken(s)[s])
           /\ Quiet(sockets[s]) => Quiet(Taken(s)[s])
           /\ Head(sockets[s].owed) = "close" => Dead(Taken(s)[s])
<1> DEFINE o == sockets[s].owed
           st == sockets[s].state
           q == [sockets[s] EXCEPT !.owed = Tail(o)]
           ts == [sockets EXCEPT ![s] = q]
<1>0. sockets[s] \in Sockets
  BY DEF Ids
<1>1. o \in Seq(Event) /\ o # <<>>
  BY <1>0 DEF Sockets, Event
<1>3. /\ \A i \in DOMAIN o : o[i] \in {"error", "close"} => st = "closed"
      /\ \A i \in DOMAIN o : o[i] = "close" => i = Len(o)
  BY DEF Shape
<1>6a. Quiet(sockets[s]) => st \in {"closing", "closed"} /\ \A i \in DOMAIN o : o[i] \notin Greeting
  BY DEF Quiet
<1>8. Taken(s) = ts
  BY DEF Taken
<1>4a. o = sockets[s].owed /\ st = sockets[s].state
  OBVIOUS
<1> HIDE DEF o, st
<1>2. /\ Tail(o) \in Seq(Event) /\ Len(Tail(o)) = Len(o) - 1 /\ Len(o) \in Nat \ {0}
      /\ Head(o) = o[1] /\ DOMAIN o = 1 .. Len(o) /\ DOMAIN Tail(o) = 1 .. Len(o) - 1
      /\ \A i \in DOMAIN Tail(o) : Tail(o)[i] = o[i + 1]
      /\ Len(o) = 1 => Tail(o) = <<>>
  BY <1>1, TailOf
<1>4. q \in Sockets /\ q.state = st /\ q.owed = Tail(o)
  BY <1>0, <1>2, <1>4a DEF Sockets, Event
<1> HIDE DEF q
<1>5. Shape(q)
  BY <1>2, <1>3, <1>4 DEF Shape
<1>6. Quiet(sockets[s]) => Quiet(q)
  BY <1>2, <1>4, <1>6a DEF Quiet
<1>7. Head(o) = "close" => Dead(q)
  BY <1>2, <1>3, <1>4 DEF Dead
<1>9. ts \in Seq(Sockets) /\ Len(ts) = Len(sockets) /\ ts[s] = q
      /\ \A r \in Ids : r # s => ts[r] = sockets[r]
  BY <1>4 DEF Ids
<1> HIDE DEF ts
<1> QED BY <1>4, <1>4a, <1>5, <1>6, <1>7, <1>8, <1>9

(* The last two of up to three.                                            *)
LEMMA LastTwoOf ==
    ASSUME NEW T, NEW w \in Seq(T), Len(w) \in 1 .. 3
    PROVE  /\ LastTwo(w) \in Seq(T)
           /\ Len(LastTwo(w)) = IF Len(w) = 1 THEN 1 ELSE 2
           /\ LastTwo(w)[Len(LastTwo(w))] = w[Len(w)]
           /\ Len(w) # 1 => LastTwo(w)[1] = w[Len(w) - 1]
<1> DEFINE n == Len(w)
<1>1. n = 1 \/ n = 2 \/ n = 3
  OBVIOUS
<1>2. LastTwo(w) = IF n > 2 THEN SubSeq(w, n - 1, n) ELSE w
  BY DEF LastTwo
<1>3. n = Len(w)
  OBVIOUS
<1> HIDE DEF n
<1>4. CASE n = 3
  <2> DEFINE u == SubSeq(w, 2, 3)
  <2>1. LastTwo(w) = u
    BY <1>2, <1>4
  <2>2. /\ u \in Seq(T) /\ Len(u) = 3 - 2 + 1
        /\ \A i \in 1 .. 3 - 2 + 1 : u[i] = w[2 + i - 1]
    <3>1. 2 \in 1 .. Len(w) + 1 /\ 3 \in 2 - 1 .. Len(w)
      BY <1>3, <1>4
    <3> QED BY <3>1, SubSeqProperties
  <2> HIDE DEF u
  <2>3. Len(u) = 2 /\ u[1] = w[2] /\ u[2] = w[3]
    BY <2>2
  <2> QED BY <1>3, <1>4, <2>1, <2>2, <2>3
<1>5. CASE n # 3
  <2>1. LastTwo(w) = w
    BY <1>1, <1>2, <1>5
  <2>2. n - 1 = 1 \/ n = 1
    BY <1>1, <1>5
  <2> QED BY <1>1, <1>3, <1>5, <2>1, <2>2
<1> QED BY <1>4, <1>5

(* A toast that follows another kind.                                      *)
LEMMA ToastAdded ==
    ASSUME NEW T, NEW t \in Seq(T), Len(t) <= 2, NEW x \in T
    PROVE  /\ LastTwo(t \o <<x>>) \in Seq(T)
           /\ Len(LastTwo(t \o <<x>>)) = IF t = <<>> THEN 1 ELSE 2
           /\ LastTwo(t \o <<x>>)[Len(LastTwo(t \o <<x>>))] = x
           /\ t # <<>> => LastTwo(t \o <<x>>)[1] = t[Len(t)]
<1> DEFINE w == t \o <<x>>
           n == Len(t)
<1>1. w \in Seq(T) /\ Len(w) = n + 1
  OBVIOUS
<1>2. w[n + 1] = x
  OBVIOUS
<1>3. \A i \in 1 .. n : w[i] = t[i]
  OBVIOUS
<1>4. n \in Nat /\ n <= 2 /\ n = Len(t)
  OBVIOUS
<1>5. t = <<>> <=> n = 0
  OBVIOUS
<1> HIDE DEF w, n
<1>6. Len(w) \in 1 .. 3
  BY <1>1, <1>4
<1>7. /\ LastTwo(w) \in Seq(T)
      /\ Len(LastTwo(w)) = IF Len(w) = 1 THEN 1 ELSE 2
      /\ LastTwo(w)[Len(LastTwo(w))] = w[Len(w)]
      /\ Len(w) # 1 => LastTwo(w)[1] = w[Len(w) - 1]
  BY <1>1, <1>6, LastTwoOf
<1>8. /\ Len(w) = 1 <=> t = <<>>
      /\ w[Len(w)] = x
      /\ t # <<>> => w[Len(w) - 1] = t[n]
  <2>1. Len(w) - 1 = n /\ (n # 0 => n \in 1 .. n)
    BY <1>1, <1>4
  <2>2. w[Len(w)] = x
    BY <1>1, <1>2
  <2> QED BY <1>1, <1>3, <1>4, <1>5, <2>1, <2>2
<1>9. Len(LastTwo(w)) = IF t = <<>> THEN 1 ELSE 2
  BY <1>7, <1>8
<1>10. t # <<>> => LastTwo(w)[1] = t[Len(t)]
  BY <1>4, <1>7, <1>8
<1> QED BY <1>7, <1>8, <1>9, <1>10 DEF w

----------------------------------------------------------------------------
(* A socket that owes its end has no other before it.                      *)
LEMMA EndOwed ==
    ASSUME NEW q \in Sockets, Shape(q), q.state # "closed",
           NEW e \in {<<"close">>, <<"error", "close">>}
    PROVE  LET r == [state |-> "closed", owed |-> q.owed \o e]
           IN  r \in Sockets /\ Shape(r) /\ (Quiet(q) => Quiet(r))
<1> DEFINE o == q.owed
           p == o \o e
           r == [state |-> "closed", owed |-> p]
<1>1. o \in Seq(Event)
  BY DEF Sockets, Event
<1>2. \A i \in DOMAIN o : o[i] \notin {"error", "close"}
  BY DEF Shape
<1>3. Quiet(q) => \A i \in DOMAIN o : o[i] \notin Greeting
  BY DEF Quiet
<1> HIDE DEF o
<1>4a. e \in Seq(Event)
  <2>1. CASE e = <<"close">>
    BY <2>1 DEF Event
  <2>2. CASE e = <<"error", "close">>
    BY <2>2 DEF Event
  <2> QED BY <2>1, <2>2
<1>4b. p \in Seq(Event)
  BY <1>1, <1>4a
<1>4c. DOMAIN o = 1 .. Len(o) /\ Len(o) \in Nat
  BY <1>1
<1>4. p \in Seq(Event) /\ DOMAIN o = 1 .. Len(o) /\ DOMAIN p = 1 .. Len(p) /\ Len(o) \in Nat
  BY <1>4b, <1>4c
<1>5. /\ Len(p) \in Nat /\ \A i \in 1 .. Len(p) : i \in 1 .. Len(o) \/ i > Len(o)
      /\ \A i \in 1 .. Len(o) : p[i] = o[i]
      /\ \A i \in 1 .. Len(p) : i > Len(o) => p[i] \in {"error", "close"} /\ (p[i] = "close" => i = Len(p))
  <2>1. CASE e = <<"close">>
    BY <1>1, <1>4, <2>1
  <2>2. CASE e = <<"error", "close">>
    <3>1. Len(p) = Len(o) + 2 /\ p[Len(o) + 1] = "error" /\ p[Len(o) + 2] = "close"
      BY <1>1, <1>4, <2>2
    <3>2. \A i \in 1 .. Len(o) : p[i] = o[i]
      BY <1>1, <1>4, <2>2
    <3> HIDE DEF p
    <3> QED BY <1>4, <3>1, <3>2
  <2> QED BY <2>1, <2>2
<1> HIDE DEF p
<1>6. r \in Sockets /\ r.state = "closed" /\ r.owed = p
  BY <1>4 DEF Sockets, Event
<1> HIDE DEF r
<1>7. Shape(r)
  BY <1>2, <1>4, <1>5, <1>6 DEF Shape
<1>8. Quiet(q) => Quiet(r)
  BY <1>3, <1>4, <1>5, <1>6 DEF Quiet, Greeting
<1> QED BY <1>6, <1>7, <1>8 DEF r, p, o

(* One socket changes.                                                     *)
LEMMA OneChanges ==
    ASSUME Held(sockets, ws, mounted), NEW s \in Ids, NEW q \in Sockets, Shape(q),
           s = ws \/ (~mounted /\ Quiet(q))
    PROVE  /\ Held([sockets EXCEPT ![s] = q], ws, mounted)
           /\ Len([sockets EXCEPT ![s] = q]) = Len(sockets)
<1> DEFINE ts == [sockets EXCEPT ![s] = q]
<1>1. sockets \in Seq(Sockets)
  BY DEF Held
<1>2. ts \in Seq(Sockets) /\ Len(ts) = Len(sockets) /\ ts[s] = q
      /\ \A r \in 1 .. Len(sockets) : r # s => ts[r] = sockets[r]
  BY <1>1 DEF Ids
<1> HIDE DEF ts
<1>3. Held(ts, ws, mounted)
  BY <1>2 DEF Held
<1> QED BY <1>2, <1>3 DEF ts

(* A socket that is not quiet is the service's, and the page is there.     *)
LEMMA LoudIsOwn ==
    ASSUME Held(sockets, ws, mounted), Together, NEW s \in Ids, ~Quiet(sockets[s])
    PROVE  s = ws /\ mounted
<1>1. s = ws
  BY DEF Held, Ids
<1>2. s # 0
  BY DEF Held, Ids
<1> QED BY <1>1, <1>2 DEF Together

(* A step of the network.                                                  *)
LEMMA NetworkStep ==
    ASSUME ConnInv, UNCHANGED client, up' \in BOOLEAN, breaks' \in 0 .. MaxBreaks,
           Held(sockets', ws, mounted), Len(sockets') = Len(sockets)
    PROVE  ConnInv'
<1>1. Held(sockets, ws, mounted)'
  BY DEF client
<1>2. TypeOK'
  BY DEF ConnInv, TypeOK, client, Ids, Held
<1>3. Together'
  BY DEF ConnInv, Together, ToastsFollow, client
<1> QED BY <1>1, <1>2, <1>3 DEF ConnInv

----------------------------------------------------------------------------
(* The steps of the network, one by one.                                   *)
LEMMA AcceptStep ==
    ASSUME ConnInv, NEW s \in Ids, Accept(s)
    PROVE  ConnInv'
<1> DEFINE q == [state |-> "open", owed |-> <<"open", "ack">>]
<1>1. sockets[s].state = "connecting" /\ sockets[s].owed = <<>>
  BY DEF Accept
<1>2. s = ws
  BY <1>1, LoudIsOwn DEF ConnInv, Quiet
<1>3. sockets[s].owed \o <<"open", "ack">> = <<"open", "ack">>
  BY <1>1
<1>4. sockets' = [sockets EXCEPT ![s] = q]
  BY <1>3 DEF Accept, Owes
<1>5. q \in Sockets /\ Shape(q)
  BY DEF Sockets, Shape
<1> HIDE DEF q
<1>6. Held(sockets', ws, mounted) /\ Len(sockets') = Len(sockets)
  BY <1>2, <1>4, <1>5, OneChanges DEF ConnInv
<1>7. UNCHANGED client /\ up' \in BOOLEAN /\ breaks' \in 0 .. MaxBreaks
  BY DEF Accept, ConnInv, TypeOK
<1> QED BY <1>6, <1>7, NetworkStep

(* An attempt that is refused is the service's own, and owes its end.      *)
LEMMA RefuseStep ==
    ASSUME ConnInv, NEW s \in Ids, Refuse(s)
    PROVE  ConnInv'
<1> DEFINE q == [state |-> "closed", owed |-> <<"error", "close">>]
<1>1. sockets[s].state = "connecting" /\ sockets[s].owed = <<>>
  BY DEF Refuse
<1>2. s = ws
  BY <1>1, LoudIsOwn DEF ConnInv, Quiet
<1>3. sockets[s].owed \o <<"error", "close">> = <<"error", "close">>
  BY <1>1
<1>4. sockets' = [sockets EXCEPT ![s] = q]
  BY <1>3 DEF Refuse, Owes
<1>5. q \in Sockets /\ Shape(q)
  BY DEF Sockets, Shape
<1> HIDE DEF q
<1>6. Held(sockets', ws, mounted) /\ Len(sockets') = Len(sockets)
  BY <1>2, <1>4, <1>5, OneChanges DEF ConnInv
<1>7. UNCHANGED client /\ up' \in BOOLEAN /\ breaks' \in 0 .. MaxBreaks
  BY DEF Refuse, ConnInv, TypeOK
<1> QED BY <1>6, <1>7, NetworkStep

(* Only the service's own connection can break.                            *)
LEMMA BreakStep ==
    ASSUME ConnInv, NEW s \in Ids, Break(s)
    PROVE  ConnInv'
<1>1. PICK e \in {<<"close">>, <<"error", "close">>} : Owes(s, "closed", e)
  BY DEF Break
<1> DEFINE q == [state |-> "closed", owed |-> sockets[s].owed \o e]
<1>2. sockets[s].state = "open" /\ sockets[s] \in Sockets /\ Shape(sockets[s])
  BY DEF Break, ConnInv, Held, Ids
<1>3. s = ws
  BY <1>2, LoudIsOwn DEF ConnInv, Quiet
<1>4. sockets' = [sockets EXCEPT ![s] = q]
  BY <1>1 DEF Owes
<1>5. q \in Sockets /\ Shape(q)
  BY <1>2, EndOwed
<1> HIDE DEF q
<1>6. Held(sockets', ws, mounted) /\ Len(sockets') = Len(sockets)
  BY <1>3, <1>4, <1>5, OneChanges DEF ConnInv
<1>7. UNCHANGED client /\ up' \in BOOLEAN /\ breaks' \in 0 .. MaxBreaks
  <2>1. breaks \in 0 .. MaxBreaks /\ breaks < MaxBreaks /\ breaks' = breaks + 1
    BY DEF Break, ConnInv, TypeOK
  <2>2. UNCHANGED client /\ up' \in BOOLEAN
    BY DEF Break, ConnInv, TypeOK
  <2> QED BY <2>1, <2>2, BoundsAssumption
<1> QED BY <1>6, <1>7, NetworkStep

(* A socket that was closing is closed, and owes its end.                  *)
LEMMA CloseDoneStep ==
    ASSUME ConnInv, NEW s \in Ids, CloseDone(s)
    PROVE  ConnInv'
<1> DEFINE q == [state |-> "closed", owed |-> sockets[s].owed \o <<"close">>]
<1>2. sockets[s].state = "closing" /\ sockets[s] \in Sockets /\ Shape(sockets[s])
  BY DEF CloseDone, ConnInv, Held, Ids
<1>3. s = ws \/ (~mounted /\ Quiet(sockets[s]))
  BY <1>2 DEF ConnInv, Held, Ids, Dead
<1>4. sockets' = [sockets EXCEPT ![s] = q]
  BY DEF CloseDone, Owes
<1>5. q \in Sockets /\ Shape(q) /\ (Quiet(sockets[s]) => Quiet(q))
  BY <1>2, EndOwed
<1> HIDE DEF q
<1>6. Held(sockets', ws, mounted) /\ Len(sockets') = Len(sockets)
  BY <1>3, <1>4, <1>5, OneChanges DEF ConnInv
<1>7. UNCHANGED client /\ up' \in BOOLEAN /\ breaks' \in 0 .. MaxBreaks
  BY DEF CloseDone, ConnInv, TypeOK
<1> QED BY <1>6, <1>7, NetworkStep

(* The server goes, and the open connection with it.                       *)
LEMMA GoDownStep ==
    ASSUME ConnInv, GoDown
    PROVE  ConnInv'
<1> DEFINE q(s) == [state |-> "closed", owed |-> sockets[s].owed \o <<"close">>]
           ts == [s \in Ids |-> IF sockets[s].state = "open" THEN q(s) ELSE sockets[s]]
<1>1. sockets \in Seq(Sockets) /\ Len(sockets) \in Nat /\ DOMAIN sockets = Ids /\ Ids = 1 .. Len(sockets)
  BY DEF ConnInv, Held, Ids
<1>2. ASSUME NEW s \in Ids
      PROVE  /\ ts[s] \in Sockets /\ Shape(ts[s])
             /\ s # ws => Quiet(ts[s]) /\ (mounted => Dead(ts[s]))
  <2>1. sockets[s] \in Sockets /\ Shape(sockets[s])
        /\ (s # ws => Quiet(sockets[s]) /\ (mounted => Dead(sockets[s])))
    BY <1>1 DEF ConnInv, Held
  <2>2. CASE sockets[s].state = "open"
    <3>1. q(s) \in Sockets /\ Shape(q(s))
      BY <2>1, <2>2, EndOwed
    <3>2. ts[s] = q(s)
      BY <2>2
    <3>3. s = ws
      BY <2>1, <2>2 DEF Quiet
    <3> HIDE DEF ts, q
    <3> QED BY <3>1, <3>2, <3>3
  <2>3. CASE sockets[s].state # "open"
    <3>1. ts[s] = sockets[s]
      BY <2>3
    <3> HIDE DEF ts
    <3> QED BY <2>1, <3>1
  <2> QED BY <2>2, <2>3
<1>3. sockets' = ts
  BY DEF GoDown
<1>4. DOMAIN ts = 1 .. Len(sockets) /\ ts = [i \in 1 .. Len(sockets) |-> ts[i]]
  BY <1>1
<1> HIDE DEF ts, q
<1>5. ts \in [1 .. Len(sockets) -> Sockets]
  BY <1>1, <1>2, <1>4
<1>5a. ts \in Seq(Sockets) /\ Len(ts) = Len(sockets)
  BY <1>1, <1>5
<1>6. Held(ts, ws, mounted)
  BY <1>1, <1>2, <1>5a DEF Held
<1>7. UNCHANGED client /\ up' \in BOOLEAN /\ breaks' \in 0 .. MaxBreaks
  <2>1. breaks \in 0 .. MaxBreaks /\ breaks < MaxBreaks /\ breaks' = breaks + 1
    BY DEF GoDown, ConnInv, TypeOK
  <2>2. UNCHANGED client /\ up' \in BOOLEAN
    BY DEF GoDown
  <2> QED BY <2>1, <2>2, BoundsAssumption
<1> QED BY <1>3, <1>5a, <1>6, <1>7, NetworkStep

(* The server comes back.                                                  *)
LEMMA GoUpStep ==
    ASSUME ConnInv, GoUp
    PROVE  ConnInv'
<1>1. Held(sockets', ws, mounted) /\ Len(sockets') = Len(sockets)
  BY DEF GoUp, ConnInv
<1>2. UNCHANGED client /\ up' \in BOOLEAN /\ breaks' \in 0 .. MaxBreaks
  BY DEF GoUp, ConnInv, TypeOK
<1> QED BY <1>1, <1>2, NetworkStep

----------------------------------------------------------------------------
(* What the handlers do to the sockets.                                    *)
LEMMA DeadIsQuiet == \A q : Dead(q) => Quiet(q)
BY DEF Dead, Quiet

(* A handler takes one event of a socket; the close event leaves it dead.  *)
LEMMA TakenHeld ==
    ASSUME Held(sockets, ws, mounted), Together, NEW s \in Ids, sockets[s].owed # <<>>
    PROVE  /\ Held(Taken(s), ws, mounted) /\ Len(Taken(s)) = Len(sockets)
           /\ s = ws \/ ~mounted
           /\ Head(sockets[s].owed) = "close" => Held(Taken(s), 0, mounted)
<1>1. /\ sockets \in Seq(Sockets) /\ Shape(sockets[s])
      /\ \A r \in 1 .. Len(sockets) :
            /\ Shape(sockets[r])
            /\ r # ws => Quiet(sockets[r]) /\ (mounted => Dead(sockets[r]))
      /\ s \in 1 .. Len(sockets)
  BY DEF Held, Ids
<1>2. /\ Taken(s) \in Seq(Sockets) /\ Len(Taken(s)) = Len(sockets)
      /\ \A r \in Ids : r # s => Taken(s)[r] = sockets[r]
      /\ Taken(s)[s].state = sockets[s].state /\ Shape(Taken(s)[s])
      /\ Quiet(sockets[s]) => Quiet(Taken(s)[s])
      /\ Head(sockets[s].owed) = "close" => Dead(Taken(s)[s])
  BY <1>1, TakenOne
<1>3. s = ws \/ ~mounted
  BY <1>1 DEF Dead
<1> DEFINE ts == Taken(s)
<1>4. /\ ts \in Seq(Sockets) /\ Len(ts) = Len(sockets)
      /\ \A r \in 1 .. Len(sockets) : r # s => ts[r] = sockets[r]
      /\ Shape(ts[s]) /\ (Quiet(sockets[s]) => Quiet(ts[s]))
  BY <1>2 DEF Ids
<1> HIDE DEF ts
<1>5. Held(ts, ws, mounted)
  BY <1>1, <1>3, <1>4 DEF Held
<1>6. ASSUME Head(sockets[s].owed) = "close" PROVE Held(ts, 0, mounted)
  <2>1. Dead(ts[s]) /\ Quiet(ts[s])
    BY <1>2, <1>6, DeadIsQuiet DEF ts
  <2>2. \A r \in 1 .. Len(sockets) : r # s => r # ws
    BY <1>3 DEF Together
  <2> QED BY <1>1, <1>4, <2>1, <2>2 DEF Held
<1> QED BY <1>3, <1>4, <1>5, <1>6 DEF ts

(* A close() of the service's socket leaves no socket that could speak.    *)
LEMMA ClosingHeld ==
    ASSUME NEW ss, NEW w, NEW m \in BOOLEAN, Held(ss, w, m), w \in 0 .. Len(ss)
    PROVE  /\ Held(Closing(ss, w), w, m) /\ Len(Closing(ss, w)) = Len(ss)
           /\ Held(Closing(ss, w), 0, FALSE)
<1> DEFINE cs == Closing(ss, w)
<1>1. /\ ss \in Seq(Sockets)
      /\ \A r \in 1 .. Len(ss) :
            /\ Shape(ss[r])
            /\ r # w => Quiet(ss[r]) /\ (m => Dead(ss[r]))
  BY DEF Held
<1>2. CASE w = 0
  <2>1. Held(ss, 0, FALSE)
    BY <1>1, <1>2 DEF Held
  <2> QED BY <1>2, <2>1, ClosingNone
<1>3. CASE w # 0
  <2>1. w \in 1 .. Len(ss)
    BY <1>3
  <2>2. /\ cs \in Seq(Sockets) /\ Len(cs) = Len(ss)
        /\ \A r \in 1 .. Len(ss) : r # w => cs[r] = ss[r]
        /\ Quiet(cs[w]) /\ Shape(cs[w])
    BY <1>1, <2>1, ClosingOne
  <2> HIDE DEF cs
  <2>3. Held(cs, w, m) /\ Held(cs, 0, FALSE)
    BY <1>1, <2>2 DEF Held
  <2> QED BY <2>2, <2>3 DEF cs
<1> QED BY <1>2, <1>3

----------------------------------------------------------------------------
(* What the store makes of a status.                                       *)
Kinds == {"connected", "reconnecting", "disconnected"}

(* Nothing is added.                                                       *)
LEMMA NoToast ==
    ASSUME NEW t \in Seq(Kinds), Len(t) <= 2
    PROVE  LastTwo(t \o <<>>) = t
<1> DEFINE n == Len(t)
<1>1. t \o <<>> = t /\ n \in Nat /\ n <= 2
  OBVIOUS
<1>2. LastTwo(t) = IF n > 2 THEN SubSeq(t, n - 1, n) ELSE t
  BY DEF LastTwo
<1> HIDE DEF n
<1> QED BY <1>1, <1>2

(* The toasts follow every status a handler sets.                          *)
LEMMA StatusSet ==
    ASSUME toasts \in Seq(Kinds), ToastsFollow, NEW new \in Statuses, SetStatus(new),
           new # "disconnected", new = "connecting" => before # "connected"
    PROVE  toasts' \in Seq(Kinds) /\ ToastsFollow'
<1>1. before' = new /\ toasts' = LastTwo(toasts \o Toast(new))
  BY DEF SetStatus
<1>2. /\ Len(toasts) <= 2
      /\ before = "connected" <=> (toasts # <<>> /\ toasts[Len(toasts)] = "connected")
      /\ Len(toasts) = 2 => toasts[1] # toasts[2]
  BY DEF ToastsFollow
<1>3. CASE new = "connected" <=> before = "connected"
  <2>1. Toast(new) = <<>>
    BY <1>3 DEF Toast, Statuses
  <2>2. toasts' = toasts
    BY <1>1, <1>2, <2>1, NoToast
  <2> QED BY <1>1, <1>2, <1>3, <2>2 DEF ToastsFollow
<1>4. ASSUME NEW x \in Kinds, Toast(new) = <<x>>, x = "connected" <=> new = "connected",
             x = "connected" <=> before # "connected"
      PROVE  toasts' \in Seq(Kinds) /\ ToastsFollow'
  <2>1. toasts' = LastTwo(toasts \o <<x>>)
    BY <1>1, <1>4
  <2>2. /\ toasts' \in Seq(Kinds)
        /\ Len(toasts') = IF toasts = <<>> THEN 1 ELSE 2
        /\ toasts'[Len(toasts')] = x
        /\ toasts # <<>> => toasts'[1] = toasts[Len(toasts)]
    BY <1>2, <2>1, ToastAdded
  <2>3. toasts' # <<>>
    BY <2>2
  <2>4. toasts # <<>> => toasts[Len(toasts)] # x
    BY <1>2, <1>4
  <2> QED BY <1>1, <1>4, <2>2, <2>3, <2>4 DEF ToastsFollow
<1>5. CASE new = "connected" /\ before # "connected"
  <2>1. Toast(new) = <<"connected">>
    BY <1>5 DEF Toast
  <2> QED BY <1>4, <1>5, <2>1 DEF Kinds
<1>6. CASE new # "connected" /\ before = "connected"
  <2>1. new = "reconnecting"
    BY <1>6 DEF Statuses
  <2>2. Toast(new) = <<"reconnecting">>
    BY <1>6, <2>1 DEF Toast
  <2> QED BY <1>4, <1>6, <2>2 DEF Kinds
<1> QED BY <1>3, <1>5, <1>6

----------------------------------------------------------------------------
(* The steps of the page, one by one.  What a step does not touch keeps    *)
(* its type.                                                               *)
Typed == TypeOK /\ toasts \in Seq(Kinds) /\ ToastsFollow

(* What StatusSet asks of a state.                                         *)
LEMMA TypedHolds == ConnInv => Typed
BY DEF ConnInv, Typed, TypeOK, Kinds, Together

(* onopen: only the service's own socket has one to give.                  *)
LEMMA HandleOpenStep ==
    ASSUME ConnInv, NEW s \in Ids, HandleOpen(s)
    PROVE  ConnInv'
<1>1. sockets[s].owed # <<>> /\ Head(sockets[s].owed) = "open" /\ sockets' = Taken(s)
  BY DEF HandleOpen, Due
<1>2. sockets[s] \in Sockets
  BY DEF ConnInv, Held, Ids
<1>3. ~Quiet(sockets[s])
  BY <1>1, <1>2, OwedFirst DEF Quiet, Greeting
<1>4. s = ws /\ mounted
  BY <1>3, LoudIsOwn DEF ConnInv
<1>5. Held(sockets', ws, mounted) /\ Len(sockets') = Len(sockets)
  BY <1>1, TakenHeld DEF ConnInv
<1>6. /\ attempts' = 0 /\ ping' = TRUE
      /\ status' = "connected" /\ before' = "connected" /\ header' = header
      /\ UNCHANGED <<up, mounted, ws, intentional, timer, service, breaks>>
  BY DEF HandleOpen, SetStatus, HeaderAfter
<1>7. toasts' \in Seq(Kinds) /\ ToastsFollow'
  <2>1. SetStatus("connected") /\ "connected" \in Statuses
    BY DEF HandleOpen, Statuses
  <2> QED BY <2>1, StatusSet, TypedHolds DEF Typed
<1>8. ws # 0 /\ timer = 0
  BY <1>4 DEF ConnInv, Together, Ids
<1>9. TypeOK'
  BY <1>5, <1>6, <1>7 DEF ConnInv, TypeOK, Held, Ids, Statuses, Kinds
<1>10. Together'
  BY <1>4, <1>6, <1>7, <1>8 DEF ConnInv, Together
<1> QED BY <1>5, <1>6, <1>9, <1>10 DEF ConnInv

(* The greeting: the id the requests carry is that of the service's        *)
(* socket.                                                                 *)
LEMMA HandleAckStep ==
    ASSUME ConnInv, NEW s \in Ids, HandleAck(s)
    PROVE  ConnInv'
<1>1. sockets[s].owed # <<>> /\ Head(sockets[s].owed) = "ack" /\ sockets' = Taken(s)
  BY DEF HandleAck, Due
<1>2. sockets[s] \in Sockets
  BY DEF ConnInv, Held, Ids
<1>3. ~Quiet(sockets[s])
  BY <1>1, <1>2, OwedFirst DEF Quiet, Greeting
<1>4. s = ws /\ mounted
  BY <1>3, LoudIsOwn DEF ConnInv
<1>5. Held(sockets', ws, mounted) /\ Len(sockets') = Len(sockets)
  BY <1>1, TakenHeld DEF ConnInv
<1>6. /\ service' = s /\ header' = s
      /\ UNCHANGED <<up, mounted, ws, status, intentional, attempts, timer, ping, before, toasts, breaks>>
  BY <1>4 DEF HandleAck
<1>7. TypeOK'
  BY <1>5, <1>6 DEF ConnInv, TypeOK, Held, Ids
<1>8. Together'
  BY <1>4, <1>6 DEF ConnInv, Together, ToastsFollow
<1> QED BY <1>5, <1>6, <1>7, <1>8 DEF ConnInv

(* onerror closes the service's socket, whichever gave the error.          *)
LEMMA HandleErrorStep ==
    ASSUME ConnInv, NEW s \in Ids, HandleError(s)
    PROVE  ConnInv'
<1>1. sockets[s].owed # <<>> /\ sockets' = Closing(Taken(s), ws)
  BY DEF HandleError, Due
<1>2. Held(Taken(s), ws, mounted) /\ Len(Taken(s)) = Len(sockets)
  BY <1>1, TakenHeld DEF ConnInv
<1>3. ws \in 0 .. Len(Taken(s)) /\ mounted \in BOOLEAN
  BY <1>2 DEF ConnInv, TypeOK, Ids, Held
<1>4. Held(sockets', ws, mounted) /\ Len(sockets') = Len(sockets)
  BY <1>1, <1>2, <1>3, ClosingHeld
<1>5. /\ ping' = FALSE
      /\ UNCHANGED <<up, mounted, ws, status, intentional, attempts, timer, service, header, before,
                     toasts, breaks>>
  BY DEF HandleError
<1>6. TypeOK'
  BY <1>4, <1>5 DEF ConnInv, TypeOK, Held, Ids
<1>7. Together'
  BY <1>5 DEF ConnInv, Together, ToastsFollow
<1> QED BY <1>4, <1>5, <1>6, <1>7 DEF ConnInv

(* onclose: after it every socket is dead, and the timer may run.          *)
LEMMA HandleCloseStep ==
    ASSUME ConnInv, NEW s \in Ids, HandleClose(s)
    PROVE  ConnInv'
<1>1. sockets[s].owed # <<>> /\ Head(sockets[s].owed) = "close" /\ sockets' = Taken(s)
  BY DEF HandleClose, Due
<1>2. Held(sockets', 0, mounted) /\ Len(sockets') = Len(sockets)
  BY <1>1, TakenHeld DEF ConnInv
<1>3. ping' = FALSE /\ ws' = 0 /\ UNCHANGED <<up, mounted, intentional, service, breaks>>
  BY DEF HandleClose
<1>4. CASE mounted
  <2>1. ~intentional
    BY <1>4 DEF ConnInv, Together
  <2>2. SetStatus("reconnecting") /\ timer' = Delay(attempts) /\ attempts' = attempts + 1
    BY <2>1 DEF HandleClose, ScheduleReconnect
  <2>3. status' = "reconnecting" /\ before' = "reconnecting" /\ header' = 0
    BY <2>2 DEF SetStatus, HeaderAfter
  <2>4. attempts \in Nat
    BY DEF ConnInv, TypeOK
  <2>5. timer' \in 0 .. MaxDelay /\ attempts' \in Nat
    BY <2>2, <2>4, DelayBounded
  <2>6. toasts' \in Seq(Kinds) /\ ToastsFollow'
    <3>1. "reconnecting" \in Statuses
      BY DEF Statuses
    <3> QED BY <2>2, <3>1, StatusSet, TypedHolds DEF Typed
  <2>7. TypeOK'
    BY <1>2, <1>3, <2>3, <2>5, <2>6 DEF ConnInv, TypeOK, Held, Ids, Statuses, Kinds
  <2>8. Together'
    BY <1>3, <1>4, <2>1, <2>3, <2>6 DEF Together
  <2> QED BY <1>2, <1>3, <2>7, <2>8 DEF ConnInv
<1>5. CASE ~mounted
  <2>1. intentional /\ header = 0
    BY <1>5 DEF ConnInv, Together
  <2>2. status' = "disconnected" /\ UNCHANGED <<before, toasts, header, attempts, timer>>
    BY <1>5, <2>1 DEF HandleClose
  <2>3. TypeOK'
    BY <1>2, <1>3, <2>2 DEF ConnInv, TypeOK, Held, Ids, Statuses
  <2>4. Together'
    BY <1>3, <1>5, <2>1, <2>2 DEF ConnInv, Together, ToastsFollow
  <2> QED BY <1>2, <1>3, <2>3, <2>4 DEF ConnInv
<1> QED BY <1>4, <1>5

(* The timer runs on.                                                      *)
LEMMA WaitStep ==
    ASSUME ConnInv, Wait
    PROVE  ConnInv'
<1>1. /\ timer > 1 /\ timer' = timer - 1
      /\ UNCHANGED <<up, mounted, sockets, ws, status, intentional, attempts, ping, service, header,
                     before, toasts, breaks>>
  BY DEF Wait
<1>2. timer \in 0 .. MaxDelay
  BY DEF ConnInv, TypeOK
<1>3. timer # 0 /\ timer' \in 0 .. MaxDelay
  BY <1>1, <1>2, BoundsAssumption
<1>4. TypeOK'
  BY <1>1, <1>3 DEF ConnInv, TypeOK, Ids
<1>5. Together'
  BY <1>1, <1>3 DEF ConnInv, Together, ToastsFollow
<1> QED BY <1>1, <1>4, <1>5 DEF ConnInv

(* A new socket when every other is dead.                                  *)
LEMMA AppendHeld ==
    ASSUME Held(sockets, 0, TRUE)
    PROVE  LET ts == Append(sockets, [state |-> "connecting", owed |-> <<>>])
           IN  Held(ts, Len(sockets) + 1, TRUE) /\ Len(ts) = Len(sockets) + 1
<1> DEFINE q == [state |-> "connecting", owed |-> <<>>]
           ts == Append(sockets, q)
<1>1. sockets \in Seq(Sockets) /\ Len(sockets) \in Nat
      /\ \A r \in 1 .. Len(sockets) : Shape(sockets[r]) /\ Quiet(sockets[r]) /\ Dead(sockets[r])
  BY DEF Held
<1>2. q \in Sockets /\ Shape(q)
  BY DEF Sockets, Shape
<1> HIDE DEF q
<1>3. ts \in Seq(Sockets) /\ Len(ts) = Len(sockets) + 1 /\ ts[Len(sockets) + 1] = q
      /\ \A r \in 1 .. Len(sockets) : ts[r] = sockets[r]
  BY <1>1, <1>2
<1> HIDE DEF ts
<1>4. \A r \in 1 .. Len(ts) : r \in 1 .. Len(sockets) \/ r = Len(sockets) + 1
  BY <1>1, <1>3
<1>5. Held(ts, Len(sockets) + 1, TRUE)
  BY <1>1, <1>2, <1>3, <1>4 DEF Held
<1> QED BY <1>3, <1>5 DEF ts, q

(* The timer connects: nothing is left of the sockets before.              *)
LEMMA ReconnectStep ==
    ASSUME ConnInv, Reconnect
    PROVE  ConnInv'
<1>1. /\ timer = 1 /\ timer' = 0 /\ Connect
      /\ UNCHANGED <<up, mounted, attempts, ping, service, breaks>>
  BY DEF Reconnect
<1>2. mounted /\ ws = 0 /\ status = "reconnecting" /\ before = "reconnecting" /\ header = 0 /\ ~ping
  BY <1>1 DEF ConnInv, Together
<1>3. /\ intentional' = FALSE /\ ws' = Len(sockets) + 1 /\ SetStatus("connecting")
      /\ sockets' = Append(sockets, [state |-> "connecting", owed |-> <<>>])
  BY <1>1, <1>2 DEF Connect, Busy
<1>4. status' = "connecting" /\ before' = "connecting" /\ header' = header
  BY <1>3 DEF SetStatus, HeaderAfter
<1>5. Held(sockets, 0, TRUE)
  <2>1. mounted = TRUE
    BY <1>2 DEF ConnInv, TypeOK
  <2> QED BY <1>2, <2>1 DEF ConnInv
<1>6. Held(sockets', Len(sockets) + 1, TRUE) /\ Len(sockets') = Len(sockets) + 1
  BY <1>3, <1>5, AppendHeld
<1>7. Held(sockets', ws', mounted')
  <2>1. mounted' = TRUE
    BY <1>1, <1>2 DEF ConnInv, TypeOK
  <2> QED BY <1>3, <1>6, <2>1
<1>8. toasts' \in Seq(Kinds) /\ ToastsFollow'
  <2>1. "connecting" \in Statuses
    BY DEF Statuses
  <2> QED BY <1>2, <1>3, <2>1, StatusSet, TypedHolds DEF Typed
<1>9. Len(sockets) \in Nat /\ service \in 0 .. Len(sockets)
  BY DEF ConnInv, TypeOK, Ids
<1>10. TypeOK'
  <2>1. {ws, service, header}' \subseteq Ids' \union {0}
    BY <1>1, <1>2, <1>3, <1>4, <1>6, <1>9 DEF Ids
  <2>2. timer' \in 0 .. MaxDelay
    BY <1>1, BoundsAssumption
  <2> QED BY <1>1, <1>3, <1>4, <1>7, <1>8, <2>1, <2>2
          DEF ConnInv, TypeOK, Held, Statuses, Kinds
<1>11. Together'
  BY <1>1, <1>2, <1>3, <1>4, <1>8 DEF Together
<1> QED BY <1>7, <1>10, <1>11 DEF ConnInv

(* The page goes.                                                          *)
LEMMA DestroyStep ==
    ASSUME ConnInv, Destroy
    PROVE  ConnInv'
<1>1. /\ mounted' = FALSE /\ header' = 0 /\ intentional' = TRUE /\ ping' = FALSE /\ timer' = 0
      /\ sockets' = Closing(sockets, ws) /\ ws' = 0 /\ status' = "disconnected"
      /\ UNCHANGED <<up, attempts, service, before, toasts, breaks>>
  BY DEF Destroy
<1>2. ws \in 0 .. Len(sockets) /\ mounted \in BOOLEAN
  BY DEF ConnInv, TypeOK, Ids
<1>3. Held(sockets', 0, FALSE) /\ Len(sockets') = Len(sockets)
  BY <1>1, <1>2, ClosingHeld DEF ConnInv
<1>4. TypeOK'
  <2>1. timer' \in 0 .. MaxDelay /\ status' \in Statuses
    BY <1>1, BoundsAssumption DEF Statuses
  <2>2. sockets' \in Seq(Sockets) /\ {ws, service, header}' \subseteq Ids' \union {0}
    BY <1>1, <1>3 DEF ConnInv, TypeOK, Held, Ids
  <2> QED BY <1>1, <2>1, <2>2 DEF ConnInv, TypeOK
<1>5. Together'
  BY <1>1 DEF ConnInv, Together, ToastsFollow
<1> QED BY <1>1, <1>3, <1>4, <1>5 DEF ConnInv

(* The page has just come up.                                              *)
LEMMA InitHolds == Init => ConnInv
<1> SUFFICES ASSUME Init PROVE ConnInv
  OBVIOUS
<1> DEFINE q == [state |-> "connecting", owed |-> <<>>]
<1>1. q \in Sockets /\ Shape(q)
  BY DEF Sockets, Shape
<1> HIDE DEF q
<1>2. sockets = <<q>> /\ ws = 1
  BY DEF Init, q
<1>3. sockets \in Seq(Sockets) /\ Len(sockets) = 1 /\ sockets[1] = q
  BY <1>1, <1>2
<1>4. Held(sockets, ws, mounted)
  BY <1>1, <1>2, <1>3 DEF Held
<1>5. TypeOK
  <2>1. timer \in 0 .. MaxDelay /\ breaks \in 0 .. MaxBreaks
    BY BoundsAssumption DEF Init
  <2>2. {ws, service, header} \subseteq Ids \union {0}
    BY <1>3 DEF Init, Ids
  <2>3. toasts \in Seq({"connected", "reconnecting", "disconnected"})
    BY DEF Init
  <2> QED BY <1>3, <2>1, <2>2, <2>3 DEF Init, TypeOK, Statuses
<1>6. Together
  BY DEF Init, Together, ToastsFollow
<1> QED BY <1>4, <1>5, <1>6 DEF ConnInv

(* Every step keeps the invariant.                                         *)
LEMMA StepHolds == ConnInv /\ [Next]_vars => ConnInv'
<1> SUFFICES ASSUME ConnInv, [Next]_vars PROVE ConnInv'
  OBVIOUS
<1>1. CASE Network
  <2>1. PICK s \in Ids : Accept(s) \/ Refuse(s) \/ CloseDone(s)
    BY <1>1 DEF Network
  <2> QED BY <2>1, AcceptStep, RefuseStep, CloseDoneStep
<1>2. CASE Events
  <2>1. PICK s \in Ids : HandleOpen(s) \/ HandleAck(s) \/ HandleClose(s) \/ HandleError(s)
    BY <1>2 DEF Events
  <2> QED BY <2>1, HandleOpenStep, HandleAckStep, HandleCloseStep, HandleErrorStep
<1>3. CASE \E s \in Ids : Break(s)
  BY <1>3, BreakStep
<1>4. CASE Wait \/ Reconnect \/ Destroy \/ GoDown \/ GoUp
  BY <1>4, WaitStep, ReconnectStep, DestroyStep, GoDownStep, GoUpStep
<1>5. CASE UNCHANGED vars
  <2>1. TypeOK'
    BY <1>5 DEF ConnInv, TypeOK, Ids, vars
  <2>2. Together'
    BY <1>5 DEF ConnInv, Together, ToastsFollow, vars
  <2>3. Held(sockets, ws, mounted)'
    BY <1>5 DEF ConnInv, vars
  <2> QED BY <2>1, <2>2, <2>3 DEF ConnInv
<1> QED BY <1>1, <1>2, <1>3, <1>4, <1>5 DEF Next

(* What the invariant says of a live socket.                               *)
LEMMA InvGivesOneSocket == ConnInv => OneSocket
<1> SUFFICES ASSUME ConnInv PROVE OneSocket
  OBVIOUS
<1>1. ASSUME NEW s \in Ids, Live(s) PROVE s = ws
  BY <1>1 DEF ConnInv, Held, Ids, Live, Quiet
<1> QED BY <1>1 DEF ConnInv, Together, ToastsFollow, OneSocket

----------------------------------------------------------------------------
(* However sockets open, break and are replaced, a page holds one at a     *)
(* time, its requests carry the id of that one, and the toasts tell of     *)
(* found and lost in turns; alone or beside the other parts.               *)
THEOREM OneSocketAtATime == Spec => [](TypeOK /\ OneSocket)
<1>1. ConnInv => TypeOK /\ OneSocket
  BY InvGivesOneSocket DEF ConnInv
<1> QED BY InitHolds, StepHolds, <1>1, PTL DEF Spec

(* The same where the job runner and the server stand beside it.           *)
THEOREM PageInvariant == LiveSpec => []PageHolds
<1>1. LiveInit => ConnInv
  BY InitHolds DEF LiveInit
<1>2. ConnInv /\ [LiveNext]_liveVars => ConnInv'
  <2>1. [LiveNext]_liveVars => [Next]_vars
    BY DEF LiveNext, liveVars, page
  <2> QED BY <2>1, StepHolds
<1>3. ConnInv => PageHolds
  BY InvGivesOneSocket DEF ConnInv, PageHolds
<1> QED BY <1>1, <1>2, <1>3, PTL DEF LiveSpec
=============================================================================
