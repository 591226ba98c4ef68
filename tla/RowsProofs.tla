----------------------------- MODULE RowsProofs -----------------------------
(***************************************************************************)
(* Proofs about the stores of whole rows, the import form, the notes of    *)
(* days and the editors of a task, for any rows, contents, feeds, files,   *)
(* formats, texts and numbers of steps.                                    *)
(*                                                                         *)
(* What a quiet tab shows follows from what it shows, the server has and   *)
(* is still being said of each row before (Matches), which two facts about *)
(* the queue of events carry over the handling of its first (LastWord,     *)
(* MadeAgain); what a fetch brings is the server's unless a write has      *)
(* overtaken it (Fetched).  The lemmas go by what an operator does to the  *)
(* requests, the events and the rows shown, then action by action.  A note *)
(* is the field's text, the store's and the server's agreeing while no two *)
(* writes cross; an editor only writes fields that were touched in it.     *)
(***************************************************************************)
EXTENDS MCRows, RecursionLemmas, FiniteSetTheorems, SequenceTheorems

----------------------------------------------------------------------------
(* The rows.                                                               *)

(* What is shown under an id when all is well.                             *)
Row(x) == IF x = None THEN <<>> ELSE <<x>>

Batches == { b \in SUBSET (Y!Ids \X Values) : \A p, q \in b : p[1] = q[1] => p = q }

Events ==
    { e \in [type: {"created", "updated", "deleted", "imported", "connected", "restored"},
             id: Y!Ids \union {0}, v: Values \union {0} \union Batches] :
        /\ e.type \in {"created", "updated"} => e.id \in Y!Ids /\ e.v \in Values
        /\ e.type = "deleted" => e.id \in Y!Ids
        /\ e.type = "imported" => e.id = 0 /\ e.v \in Batches
        /\ e.type \in {"connected", "restored"} => e.id = 0 }

Asks ==
    { r \in [op: {"fetch", "create", "update", "remove", "import"}, id: Y!Ids \union {0},
             v: Values \union {0}, named: BOOLEAN, stage: {"sent", "ok", "failed"},
             rows: Y!Rows \union {<<>>}, mark: {"", "clean", "fine", "overtaken"}] :
        /\ r.op \in {"create", "update"} => r.v \in Values
        /\ r.op \in {"update", "remove"} => r.id \in Y!Ids
        /\ r.op \in {"fetch", "import"} => r.id = 0
        /\ r.op = "create" /\ r.stage = "ok" => r.id \in Y!Ids
        /\ r.op = "fetch" /\ r.stage = "ok" => r.rows \in Y!Rows /\ r.mark # "" }

RowsShape ==
    /\ kind \in Stores /\ server \in Y!Rows /\ items \in [Y!Ids -> Seq(Values)]
    /\ events \in Seq(Events) /\ requests \in Seq(Asks)
    /\ form \in Values \union {0} /\ named \in BOOLEAN /\ crossed \in BOOLEAN
    /\ hasty \in BOOLEAN /\ importing \in BOOLEAN

(* What is said about a row: the events on the way, and the answers to     *)
(* this tab's writes of it.                                                *)
Heard(es, id) == { es[n] : n \in { m \in DOMAIN es : Y!About(es[m], id) } }

Owed(r, id)   == r.op # "fetch" /\ r.stage = "ok" /\ r.id = id
Owes(rs, id)  == { rs[n] : n \in { m \in DOMAIN rs : Owed(rs[m], id) } }
Alone(rs, id) == \A m, n \in DOMAIN rs : Owed(rs[m], id) /\ Owed(rs[n], id) => m = n

Makes(e) == e.type \in {"created", "imported"}
Says(e, id, x) ==
    CASE e.type = "imported" -> <<id, x>> \in e.v
      [] e.type = "deleted"  -> x = None
      [] OTHER               -> x = e.v

(* Nothing after the n-th event makes the tab fetch everything.            *)
Stands(es, n) == \A m \in DOMAIN es : m > n => es[m].type # "restored"

(* The last event about a row says what the server holds, and a row that   *)
(* is there was made after each event that it is gone.                     *)
LastWord(es, table) ==
    \A id \in Y!Ids, n \in DOMAIN es :
        /\ Y!About(es[n], id) /\ Stands(es, n)
        /\ \A m \in DOMAIN es : m > n => ~Y!About(es[m], id)
        => Says(es[n], id, table[id])

MadeAgain(es, table) ==
    \A id \in Y!Ids, n \in DOMAIN es :
        /\ Y!About(es[n], id) /\ es[n].type = "deleted" /\ Stands(es, n) /\ table[id] # None
        => \E m \in DOMAIN es : m > n /\ Y!About(es[m], id) /\ Makes(es[m])

(* The rows are going to be fetched.                                       *)
Mending(es, rs) ==
    \/ \E n \in DOMAIN es : es[n].type = "restored"
    \/ \E n \in DOMAIN rs : rs[n].op = "fetch" /\ rs[n].stage # "failed"

(* A row x of the server, what is shown of it, and what is said about it:  *)
(* an answer comes alone, and before any event but its own; an event that  *)
(* a row is changed finds it on screen or is behind one that makes it.     *)
Matches(x, view, heard, owed) ==
    /\ Len(view) <= 1
    /\ heard = {} /\ owed = {} => view = Row(x)
    /\ x # None /\ heard # {} => view # <<>> \/ \E e \in heard : Makes(e)
    /\ \A r \in owed :
          /\ r.op = "create" => view = <<>> /\ heard = {} /\ x = r.v
          /\ r.op = "update" => /\ view # <<>> /\ x = r.v
                                /\ \A e \in heard : e.type = "updated" /\ e.v = r.v
          /\ r.op = "remove" => x = None /\ \A e \in heard : e.type = "deleted"

Settled(table, view, es, rs, id) ==
    Matches(table[id], view[id], Heard(es, id), Owes(rs, id)) /\ Alone(rs, id)

(* A fetch that nothing overtook has the server's rows, and is the only    *)
(* answer but for older fetches.                                           *)
Fetched(es, rs, table) ==
    \A n \in DOMAIN rs :
        rs[n].op = "fetch" /\ rs[n].stage = "ok" /\ rs[n].mark # "overtaken" =>
            /\ rs[n].rows = table
            /\ rs[n].mark = "clean" => es = <<>>
            /\ \A m \in DOMAIN rs : m # n /\ rs[m].stage = "ok" =>
                                        rs[m].op = "fetch" /\ rs[m].mark = "overtaken"

RowsInv ==
    /\ RowsShape
    /\ Fetched(events, requests, server)
    /\ importing => Y!UnderWay("import") # {}
    /\ ~crossed => LastWord(events, server) /\ MadeAgain(events, server)
    /\ ~crossed /\ ~Mending(events, requests) =>
           \A id \in Y!Ids : Settled(server, items, events, requests, id)

----------------------------------------------------------------------------
(* Ids.                                                                    *)
LEMMA NextIdIsFree ==
    ASSUME RowsShape
    PROVE  /\ Y!NextId \in Nat \ {0}
           /\ \A id \in Y!Ids : id >= Y!NextId => server[id] = None
<1> DEFINE S == {0} \union {i \in Y!Ids : server[i] # None}
           T == {MaxRow - i : i \in S}
<1>1. MaxRow \in Nat /\ S \subseteq 0 .. MaxRow
  BY RowsAssumption DEF RowsAssumption, Y!Ids
<1>2. T \subseteq Nat /\ T # {}
  BY <1>1
<1>3. PICK t \in T : \A u \in T : t <= u
  BY <1>2, LeastNumber
<1>4. PICK m \in S : t = MaxRow - m
  BY <1>3
<1>5. ASSUME NEW i \in S PROVE m >= i
  <2>1. i \in 0 .. MaxRow /\ m \in 0 .. MaxRow
    BY <1>1
  <2>2. t <= MaxRow - i
    BY <1>3
  <2> QED BY <1>1, <1>4, <2>1, <2>2
<1>10. \A i \in S : i \in Nat
  BY <1>1
<1> HIDE DEF S, T
<1>6. Y!Max(S) \in S /\ \A i \in S : Y!Max(S) >= i
  <2>1. \E x \in S : \A y \in S : x >= y
    BY <1>4, <1>5
  <2> QED BY <2>1 DEF Y!Max
<1>7. Y!NextId = 1 + Y!Max(S)
  BY DEF Y!NextId, S
<1>8. Y!Max(S) \in Nat
  <2> DEFINE x == Y!Max(S)
  <2>1. x \in S
    BY <1>6
  <2> HIDE DEF x
  <2>2. x \in Nat
    BY <1>10, <2>1
  <2> QED BY <2>2 DEF x
<1>9. ASSUME NEW id \in Y!Ids, id >= Y!NextId PROVE server[id] = None
  <2>1. id \in Nat
    BY DEF Y!Ids
  <2>2. id \notin S
    BY <1>6, <1>7, <1>8, <1>9, <2>1
  <2> QED BY <2>2 DEF S
<1> QED BY <1>7, <1>8, <1>9

(* Events.                                                                 *)
LEMMA EventTyped ==
    ASSUME NEW id \in Y!Ids, NEW v \in Values
    PROVE  /\ Y!Event("created", id, v) \in Events
           /\ Y!Event("updated", id, v) \in Events
           /\ Y!Event("deleted", id, v) \in Events /\ Y!Event("deleted", id, 0) \in Events
           /\ Y!Event("connected", 0, 0) \in Events /\ Y!Event("restored", 0, 0) \in Events
           /\ \A b \in Batches : Y!Event("imported", 0, b) \in Events
BY DEF Y!Event, Events

LEMMA AboutOne ==
    ASSUME NEW e \in Events, NEW id \in Y!Ids
    PROVE  /\ e.type \in {"created", "updated", "deleted"} => (Y!About(e, id) <=> e.id = id)
           /\ e.type \in {"connected", "restored"} => ~Y!About(e, id)
           /\ e.type = "imported" => (Y!About(e, id) <=> \E b \in e.v : b[1] = id)
BY RowsAssumption DEF Y!About, Events, Y!Ids, RowsAssumption

(* The requests.  An answer that is told is kept by what leaves it alone.  *)
LEMMA OwesKept ==
    ASSUME NEW rs, NEW rs2, NEW id,
           \A n \in DOMAIN rs : Owed(rs[n], id) => n \in DOMAIN rs2 /\ rs2[n] = rs[n],
           \A n \in DOMAIN rs2 : Owed(rs2[n], id) => n \in DOMAIN rs /\ rs2[n] = rs[n]
    PROVE  Owes(rs2, id) = Owes(rs, id) /\ (Alone(rs, id) => Alone(rs2, id))
<1>1. Owes(rs2, id) \subseteq Owes(rs, id)
  BY DEF Owes
<1>2. Owes(rs, id) \subseteq Owes(rs2, id)
  BY DEF Owes
<1>3. Alone(rs, id) => Alone(rs2, id)
  BY DEF Alone
<1> QED BY <1>1, <1>2, <1>3

LEMMA OwesAdded ==
    ASSUME NEW rs2, NEW id, NEW i \in DOMAIN rs2, Owed(rs2[i], id),
           \A n \in DOMAIN rs2 : n # i => ~Owed(rs2[n], id)
    PROVE  Owes(rs2, id) = {rs2[i]} /\ Alone(rs2, id)
BY DEF Owes, Alone

LEMMA OwesNone ==
    ASSUME NEW rs, NEW id
    PROVE  /\ (\A n \in DOMAIN rs : ~Owed(rs[n], id)) => Owes(rs, id) = {} /\ Alone(rs, id)
           /\ Owes(rs, id) = {} => \A n \in DOMAIN rs : ~Owed(rs[n], id)
BY DEF Owes, Alone

(* The requests without the i-th.                                          *)
LEMMA Joined ==
    ASSUME NEW S, NEW a \in Seq(S), NEW b \in Seq(S)
    PROVE  /\ a \o b \in Seq(S) /\ Len(a \o b) = Len(a) + Len(b)
           /\ \A n \in 1 .. Len(a) : (a \o b)[n] = a[n]
           /\ \A n \in 1 .. Len(b) : (a \o b)[n + Len(a)] = b[n]
OBVIOUS

LEMMA ForgetIndexed ==
    ASSUME NEW i \in DOMAIN requests, requests \in Seq(Asks)
    PROVE  /\ Y!Forget(i) \in Seq(Asks) /\ Len(Y!Forget(i)) = Len(requests) - 1
           /\ \A n \in DOMAIN Y!Forget(i) :
                 \/ n < i /\ n \in DOMAIN requests /\ Y!Forget(i)[n] = requests[n]
                 \/ n >= i /\ n + 1 \in DOMAIN requests /\ Y!Forget(i)[n] = requests[n + 1]
           /\ \A n \in DOMAIN requests : n # i =>
                 \E m \in DOMAIN Y!Forget(i) : Y!Forget(i)[m] = requests[n]
<1> DEFINE N == Len(requests)
           a == SubSeq(requests, 1, i - 1)
           b == SubSeq(requests, i + 1, N)
           f == a \o b
<1>1. N \in Nat /\ i \in 1 .. N /\ DOMAIN requests = 1 .. N
  OBVIOUS
<1>2. /\ a \in Seq(Asks) /\ Len(a) = i - 1
      /\ \A n \in 1 .. i - 1 : a[n] = requests[n]
  BY <1>1
<1>3. /\ b \in Seq(Asks) /\ Len(b) = N - i
      /\ \A n \in 1 .. N - i : b[n] = requests[n + i]
  BY <1>1
<1>4. Y!Forget(i) = f
  BY DEF Y!Forget
<1> HIDE DEF a, b, N
<1>5. /\ f \in Seq(Asks) /\ Len(f) = Len(a) + Len(b)
      /\ \A n \in 1 .. Len(a) : f[n] = a[n]
      /\ \A n \in 1 .. Len(b) : f[n + Len(a)] = b[n]
  <2>1. a \in Seq(Asks) /\ b \in Seq(Asks)
    BY <1>2, <1>3
  <2>2. /\ a \o b \in Seq(Asks) /\ Len(a \o b) = Len(a) + Len(b)
        /\ \A n \in 1 .. Len(a) : (a \o b)[n] = a[n]
        /\ \A n \in 1 .. Len(b) : (a \o b)[n + Len(a)] = b[n]
    BY <2>1, Joined
  <2> QED BY <2>2
<1>6. DOMAIN f = 1 .. Len(f)
  <2> HIDE DEF f
  <2> QED BY <1>5
<1> HIDE DEF f
<1>7. Len(f) = N - 1 /\ DOMAIN f = 1 .. N - 1
  BY <1>1, <1>2, <1>3, <1>5, <1>6
<1>8. \A n \in 1 .. i - 1 : f[n] = requests[n]
  BY <1>2, <1>5
<1>9. ASSUME NEW n \in i .. N - 1 PROVE f[n] = requests[n + 1]
  <2>1. n - (i - 1) \in 1 .. N - i /\ n - (i - 1) + (i - 1) = n /\ n - (i - 1) + i = n + 1
    BY <1>1
  <2>2. f[n - (i - 1) + (i - 1)] = b[n - (i - 1)]
    BY <1>2, <1>3, <1>5, <2>1
  <2> QED BY <1>3, <2>1, <2>2
<1>10. ASSUME NEW n \in 1 .. N - 1
       PROVE  \/ n < i /\ n \in 1 .. N /\ f[n] = requests[n]
              \/ n >= i /\ n + 1 \in 1 .. N /\ f[n] = requests[n + 1]
  BY <1>1, <1>8, <1>9
<1>11. ASSUME NEW n \in 1 .. N, n # i PROVE \E m \in 1 .. N - 1 : f[m] = requests[n]
  <2>1. n < i => n \in 1 .. N - 1 /\ f[n] = requests[n]
    BY <1>1, <1>8
  <2>2. n > i => n - 1 \in i .. N - 1 /\ n - 1 \in 1 .. N - 1 /\ (n - 1) + 1 = n
    BY <1>1
  <2>3. n > i => f[n - 1] = requests[n]
    BY <1>9, <2>2
  <2> QED BY <1>1, <1>11, <2>1, <2>2, <2>3
<1>12. /\ \A n \in DOMAIN f : \/ n < i /\ n \in DOMAIN requests /\ f[n] = requests[n]
                              \/ n >= i /\ n + 1 \in DOMAIN requests /\ f[n] = requests[n + 1]
       /\ \A n \in DOMAIN requests : n # i => \E m \in DOMAIN f : f[m] = requests[n]
  BY <1>1, <1>7, <1>10, <1>11
<1> QED BY <1>4, <1>5, <1>7, <1>12 DEF N

(* A write of an id is no longer owed once it is answered.                 *)
LEMMA OwesForgotten ==
    ASSUME NEW i \in DOMAIN requests, requests \in Seq(Asks), NEW id, Alone(requests, id)
    PROVE  /\ Alone(Y!Forget(i), id)
           /\ ~Owed(requests[i], id) => Owes(Y!Forget(i), id) = Owes(requests, id)
           /\ Owed(requests[i], id) => Owes(requests, id) = {requests[i]} /\ Owes(Y!Forget(i), id) = {}
<1> DEFINE f == Y!Forget(i)
<1>1. /\ \A n \in DOMAIN f : \/ n < i /\ n \in DOMAIN requests /\ f[n] = requests[n]
                             \/ n >= i /\ n + 1 \in DOMAIN requests /\ f[n] = requests[n + 1]
      /\ \A n \in DOMAIN requests : n # i => \E m \in DOMAIN f : f[m] = requests[n]
      /\ f \in Seq(Asks)
  BY ForgetIndexed
<1> HIDE DEF f
<1>2. i \in Nat /\ \A n \in DOMAIN f : n \in Nat
  BY <1>1
<1>3. Alone(f, id)
  BY <1>1, <1>2 DEF Alone
<1>4. \A n \in DOMAIN f : \E m \in DOMAIN requests : m # i /\ f[n] = requests[m]
  BY <1>1, <1>2
<1>5. ~Owed(requests[i], id) => Owes(f, id) = Owes(requests, id)
  <2>1. SUFFICES ASSUME ~Owed(requests[i], id) PROVE Owes(f, id) = Owes(requests, id)
    OBVIOUS
  <2>2. Owes(f, id) \subseteq Owes(requests, id)
    BY <1>4 DEF Owes
  <2>3. ASSUME NEW n \in DOMAIN requests, Owed(requests[n], id) PROVE requests[n] \in Owes(f, id)
    <3>1. PICK m \in DOMAIN f : f[m] = requests[n]
      BY <1>1, <2>1, <2>3
    <3> QED BY <2>3, <3>1 DEF Owes
  <2> QED BY <2>2, <2>3 DEF Owes
<1>6. Owed(requests[i], id) => Owes(requests, id) = {requests[i]} /\ Owes(f, id) = {}
  <2>1. SUFFICES ASSUME Owed(requests[i], id)
                 PROVE  Owes(requests, id) = {requests[i]} /\ Owes(f, id) = {}
    OBVIOUS
  <2>2. \A n \in DOMAIN requests : Owed(requests[n], id) => n = i
    BY <2>1 DEF Alone
  <2> QED BY <1>4, <2>1, <2>2 DEF Owes
<1> QED BY <1>3, <1>5, <1>6 DEF f

(* A write overtakes the fetches that are answered, and no other request.  *)
LEMMA OvertakenOne ==
    ASSUME NEW rs \in Seq(Asks)
    PROVE  /\ Y!Overtaken(rs) \in Seq(Asks) /\ DOMAIN Y!Overtaken(rs) = DOMAIN rs
           /\ \A n \in DOMAIN rs :
                 /\ Y!Overtaken(rs)[n].op = rs[n].op /\ Y!Overtaken(rs)[n].stage = rs[n].stage
                 /\ Y!Overtaken(rs)[n].v = rs[n].v
                 /\ rs[n].op # "fetch" => Y!Overtaken(rs)[n] = rs[n]
                 /\ rs[n].op = "fetch" /\ rs[n].stage = "ok" => Y!Overtaken(rs)[n].mark = "overtaken"
<1> DEFINE o == Y!Overtaken(rs)
<1>1. o = [n \in DOMAIN rs |-> IF rs[n].op = "fetch" /\ rs[n].stage = "ok"
                               THEN [rs[n] EXCEPT !.mark = "overtaken"] ELSE rs[n]]
  BY DEF Y!Overtaken
<1>2. ASSUME NEW r \in Asks PROVE [r EXCEPT !.mark = "overtaken"] \in Asks
  BY DEF Asks
<1>3. DOMAIN rs = 1 .. Len(rs) /\ Len(rs) \in Nat /\ \A n \in 1 .. Len(rs) : rs[n] \in Asks
  OBVIOUS
<1>4. \A n \in DOMAIN rs : o[n] = IF rs[n].op = "fetch" /\ rs[n].stage = "ok"
                                  THEN [rs[n] EXCEPT !.mark = "overtaken"] ELSE rs[n]
  BY <1>1
<1>5. \A n \in DOMAIN rs : o[n] \in Asks
  BY <1>2, <1>3, <1>4
<1>6. DOMAIN o = DOMAIN rs
  BY <1>1
<1>7. o \in Seq(Asks)
  <2>1. o = [n \in 1 .. Len(rs) |-> o[n]]
    BY <1>1, <1>3
  <2> HIDE DEF o
  <2> QED BY <1>3, <1>5, <2>1
<1>8. ASSUME NEW n \in DOMAIN rs
      PROVE  /\ o[n].op = rs[n].op /\ o[n].stage = rs[n].stage /\ o[n].v = rs[n].v
             /\ rs[n].op # "fetch" => o[n] = rs[n]
             /\ rs[n].op = "fetch" /\ rs[n].stage = "ok" => o[n].mark = "overtaken"
  <2>1. rs[n] \in Asks
    BY <1>3
  <2> HIDE DEF o
  <2> QED BY <1>4, <2>1 DEF Asks
<1> QED BY <1>6, <1>7, <1>8

(* What holds once the request r, other than a fetch, is served, or        *)
(* somebody else's write.                                                  *)
Written(rs, rs2) ==
    /\ rs2 \in Seq(Asks) /\ DOMAIN rs2 = DOMAIN rs
    /\ \A n \in DOMAIN rs : rs2[n].op = rs[n].op
    /\ \A es : Mending(es, rs2) <=> Mending(es, rs)
    /\ \A es, table : Fetched(es, rs2, table)

Unowed(rs, rs2, id) == Owes(rs2, id) = Owes(rs, id) /\ (Alone(rs, id) => Alone(rs2, id))

ServedBy(rs, rs2, r) ==
    /\ Written(rs, rs2)
    /\ \A id : ~Owed(r, id) => Unowed(rs, rs2, id)
    /\ \A id : Owed(r, id) /\ Owes(rs, id) = {} => Owes(rs2, id) = {r} /\ Alone(rs2, id)

LEMMA ServedOne ==
    ASSUME NEW rs \in Seq(Asks), NEW i \in DOMAIN rs, NEW r \in Asks,
           rs[i].stage = "sent", r.op = rs[i].op, r.op # "fetch",
           NEW rs2, rs2 = Y!Overtaken([rs EXCEPT ![i] = r])
    PROVE  ServedBy(rs, rs2, r)
<1> DEFINE t == [rs EXCEPT ![i] = r]
<1>1. t \in Seq(Asks) /\ DOMAIN t = DOMAIN rs /\ t[i] = r /\ \A n \in DOMAIN rs : n # i => t[n] = rs[n]
  OBVIOUS
<1>0. rs2 = Y!Overtaken(t)
  OBVIOUS
<1> HIDE DEF t
<1>2. /\ rs2 \in Seq(Asks) /\ DOMAIN rs2 = DOMAIN rs
      /\ \A n \in DOMAIN rs :
                 /\ rs2[n].op = t[n].op /\ rs2[n].stage = t[n].stage
                 /\ t[n].op # "fetch" => rs2[n] = t[n]
                 /\ t[n].op = "fetch" /\ t[n].stage = "ok" => rs2[n].mark = "overtaken"
  <2>1. /\ Y!Overtaken(t) \in Seq(Asks) /\ DOMAIN Y!Overtaken(t) = DOMAIN t
        /\ \A n \in DOMAIN t :
                 /\ Y!Overtaken(t)[n].op = t[n].op /\ Y!Overtaken(t)[n].stage = t[n].stage
                 /\ t[n].op # "fetch" => Y!Overtaken(t)[n] = t[n]
                 /\ t[n].op = "fetch" /\ t[n].stage = "ok" => Y!Overtaken(t)[n].mark = "overtaken"
    BY <1>1, OvertakenOne
  <2> QED BY <1>0, <1>1, <2>1
<1>3. /\ rs2[i] = r
      /\ \A n \in DOMAIN rs : rs2[n].op = rs[n].op
      /\ \A n \in DOMAIN rs : n # i => rs2[n].stage = rs[n].stage
      /\ \A n \in DOMAIN rs : n # i /\ rs[n].op # "fetch" => rs2[n] = rs[n]
  BY <1>1, <1>2
<1>4. ASSUME NEW es PROVE Mending(es, rs2) <=> Mending(es, rs)
  <2>1. \A n \in DOMAIN rs : /\ rs2[n].op = rs[n].op
                             /\ rs2[n].op = "fetch" => rs2[n].stage = rs[n].stage
    BY <1>3
  <2>2. (\E n \in DOMAIN rs2 : rs2[n].op = "fetch" /\ rs2[n].stage # "failed")
        <=> \E n \in DOMAIN rs : rs[n].op = "fetch" /\ rs[n].stage # "failed"
    <3>1. DOMAIN rs2 = DOMAIN rs
      BY <1>2
    <3> QED BY <2>1, <3>1
  <2> QED BY <2>2 DEF Mending
<1>5. ASSUME NEW es, NEW table PROVE Fetched(es, rs2, table)
  <2>1. \A n \in DOMAIN rs : rs2[n].op = "fetch" => n # i /\ t[n].op = "fetch" /\ t[n].stage = rs2[n].stage
    BY <1>1, <1>2, <1>3
  <2>2. \A n \in DOMAIN rs2 : rs2[n].op = "fetch" /\ rs2[n].stage = "ok" => rs2[n].mark = "overtaken"
    <3> TAKE n \in DOMAIN rs2
    <3>1. n \in DOMAIN rs
      BY <1>2
    <3>2. /\ rs2[n].op = "fetch" => n # i /\ t[n].op = "fetch" /\ t[n].stage = rs2[n].stage
          /\ t[n].op = "fetch" /\ t[n].stage = "ok" => rs2[n].mark = "overtaken"
      BY <1>2, <2>1, <3>1
    <3> QED BY <3>2
  <2> QED BY <2>2 DEF Fetched
<1>6. \A id, n : Owed(rs[n], id) /\ n \in DOMAIN rs => n # i /\ rs2[n] = rs[n]
  BY <1>3 DEF Owed
<1>7. \A id, n : Owed(rs2[n], id) /\ n \in DOMAIN rs => (n = i /\ Owed(r, id)) \/ (rs2[n] = rs[n] /\ n # i)
  BY <1>3 DEF Owed
<1>8. ASSUME NEW id, ~Owed(r, id)
      PROVE  Owes(rs2, id) = Owes(rs, id) /\ (Alone(rs, id) => Alone(rs2, id))
  BY <1>2, <1>6, <1>7, <1>8, OwesKept
<1>9. ASSUME NEW id, Owed(r, id), Owes(rs, id) = {} PROVE Owes(rs2, id) = {r} /\ Alone(rs2, id)
  <2>1. \A n \in DOMAIN rs : ~Owed(rs[n], id)
    BY <1>9, OwesNone
  <2>2. \A n \in DOMAIN rs2 : n # i => ~Owed(rs2[n], id)
    BY <1>2, <1>7, <2>1
  <2>3. i \in DOMAIN rs2 /\ Owed(rs2[i], id)
    BY <1>2, <1>3, <1>9
  <2>4. Owes(rs2, id) = {rs2[i]} /\ Alone(rs2, id)
    BY <2>2, <2>3, OwesAdded
  <2> QED BY <1>3, <2>4
<1> QED BY <1>2, <1>3, <1>4, <1>5, <1>8, <1>9 DEF ServedBy, Written, Unowed

(* Somebody else's write.                                                  *)
LEMMA OvertakenAll ==
    ASSUME NEW rs \in Seq(Asks), NEW rs2, rs2 = Y!Overtaken(rs)
    PROVE  Written(rs, rs2) /\ \A id : Unowed(rs, rs2, id)
<1>1. /\ rs2 \in Seq(Asks) /\ DOMAIN rs2 = DOMAIN rs
      /\ \A n \in DOMAIN rs :
                 /\ rs2[n].op = rs[n].op /\ rs2[n].stage = rs[n].stage
                 /\ rs[n].op # "fetch" => rs2[n] = rs[n]
                 /\ rs[n].op = "fetch" /\ rs[n].stage = "ok" => rs2[n].mark = "overtaken"
  BY OvertakenOne
<1>2. ASSUME NEW es PROVE Mending(es, rs2) <=> Mending(es, rs)
  BY <1>1 DEF Mending
<1>3. ASSUME NEW es, NEW table PROVE Fetched(es, rs2, table)
  BY <1>1 DEF Fetched
<1>4. \A id, n : n \in DOMAIN rs /\ Owed(rs[n], id) => rs2[n] = rs[n]
  BY <1>1 DEF Owed
<1>5. \A id, n : n \in DOMAIN rs /\ Owed(rs2[n], id) => rs2[n] = rs[n]
  BY <1>1 DEF Owed
<1>6. ASSUME NEW id PROVE Owes(rs2, id) = Owes(rs, id) /\ (Alone(rs, id) => Alone(rs2, id))
  BY <1>1, <1>4, <1>5, OwesKept
<1> QED BY <1>1, <1>2, <1>3, <1>6 DEF Written, Unowed

(* A request fails, at the server or on its way.                           *)
FailedAt(rs, rs2, i) ==
    /\ rs2 \in Seq(Asks) /\ DOMAIN rs2 = DOMAIN rs
    /\ \A n \in DOMAIN rs : rs2[n].op = rs[n].op
    /\ \A es, table : Fetched(es, rs, table) => Fetched(es, rs2, table)
    /\ rs[i].stage = "sent" /\ rs[i].op # "fetch" =>
          /\ \A es : Mending(es, rs2) <=> Mending(es, rs)
          /\ \A id : Unowed(rs, rs2, id)

LEMMA FailedOne ==
    ASSUME NEW rs \in Seq(Asks), NEW i \in DOMAIN rs,
           NEW rs2, rs2 = [rs EXCEPT ![i].stage = "failed"]
    PROVE  FailedAt(rs, rs2, i)
<1>1. DOMAIN rs = 1 .. Len(rs) /\ Len(rs) \in Nat /\ \A n \in 1 .. Len(rs) : rs[n] \in Asks
  OBVIOUS
<1>2. [rs[i] EXCEPT !.stage = "failed"] \in Asks
  <2>1. PICK r \in Asks : r = rs[i]
    BY <1>1
  <2>2. [r EXCEPT !.stage = "failed"] \in Asks
    BY DEF Asks
  <2> QED BY <2>1, <2>2
<1>3. rs2 \in Seq(Asks) /\ DOMAIN rs2 = DOMAIN rs /\ rs2[i] = [rs[i] EXCEPT !.stage = "failed"]
      /\ \A n \in DOMAIN rs : n # i => rs2[n] = rs[n]
  BY <1>2
<1>4. rs2[i].op = rs[i].op /\ rs2[i].stage = "failed"
  BY <1>1, <1>3 DEF Asks
<1>5. ASSUME NEW es, NEW table, Fetched(es, rs, table) PROVE Fetched(es, rs2, table)
  BY <1>3, <1>4, <1>5 DEF Fetched
<1>6. ASSUME rs[i].stage = "sent", rs[i].op # "fetch", NEW es PROVE Mending(es, rs2) <=> Mending(es, rs)
  BY <1>3, <1>4, <1>6 DEF Mending
<1>7. ASSUME rs[i].stage = "sent", NEW id
      PROVE  Owes(rs2, id) = Owes(rs, id) /\ (Alone(rs, id) => Alone(rs2, id))
  <2>1. \A n \in DOMAIN rs : Owed(rs[n], id) \/ Owed(rs2[n], id) => n # i
    BY <1>4, <1>7 DEF Owed
  <2> QED BY <1>3, <2>1, OwesKept
<1> QED BY <1>3, <1>4, <1>5, <1>6, <1>7 DEF FailedAt, Unowed

(* A request is sent.                                                      *)
SentBy(rs, rs2, r) ==
    /\ rs2 \in Seq(Asks) /\ DOMAIN rs \subseteq DOMAIN rs2
    /\ \A n \in DOMAIN rs : rs2[n] = rs[n]
    /\ \E n \in DOMAIN rs2 : rs2[n] = r /\ \A m \in DOMAIN rs2 : m \in DOMAIN rs \/ m = n
    /\ \A es : Mending(es, rs2) <=> Mending(es, rs) \/ r.op = "fetch"
    /\ \A es, table : Fetched(es, rs, table) => Fetched(es, rs2, table)
    /\ \A id : Unowed(rs, rs2, id)

LEMMA SentOne ==
    ASSUME NEW rs \in Seq(Asks), NEW r \in Asks, r.stage = "sent", NEW rs2, rs2 = Append(rs, r)
    PROVE  SentBy(rs, rs2, r)
<1> DEFINE N == Len(rs)
<1>1. /\ rs2 \in Seq(Asks) /\ DOMAIN rs2 = 1 .. N + 1 /\ DOMAIN rs = 1 .. N
      /\ N \in Nat /\ rs2[N + 1] = r /\ \A n \in DOMAIN rs : rs2[n] = rs[n]
  OBVIOUS
<1> HIDE DEF N
<1>2. \A n \in DOMAIN rs2 : n \in DOMAIN rs \/ n = N + 1
  BY <1>1
<1>3. DOMAIN rs \subseteq DOMAIN rs2 /\ N + 1 \in DOMAIN rs2
  BY <1>1
<1>4. ASSUME NEW es PROVE Mending(es, rs) \/ r.op = "fetch" <=> Mending(es, rs2)
  BY <1>1, <1>2, <1>3 DEF Mending
<1>5. ASSUME NEW es, NEW table, Fetched(es, rs, table) PROVE Fetched(es, rs2, table)
  BY <1>1, <1>2, <1>5 DEF Fetched
<1>6. ASSUME NEW id PROVE Owes(rs2, id) = Owes(rs, id) /\ (Alone(rs, id) => Alone(rs2, id))
  <2>1. ~Owed(rs2[N + 1], id)
    BY <1>1 DEF Owed
  <2>2. /\ \A n \in DOMAIN rs : Owed(rs[n], id) => n \in DOMAIN rs2 /\ rs2[n] = rs[n]
        /\ \A n \in DOMAIN rs2 : Owed(rs2[n], id) => n \in DOMAIN rs /\ rs2[n] = rs[n]
    BY <1>1, <1>2, <1>3, <2>1
  <2> QED BY <2>2, OwesKept
<1> QED BY <1>1, <1>2, <1>3, <1>4, <1>5, <1>6 DEF SentBy, Unowed

(* An event is told.                                                       *)
LEMMA HeardMore ==
    ASSUME NEW es \in Seq(Events), NEW e \in Events, NEW es2, es2 = Append(es, e)
    PROVE  /\ es2 \in Seq(Events)
           /\ \A id : Heard(es2, id) = IF Y!About(e, id) THEN Heard(es, id) \union {e} ELSE Heard(es, id)
           /\ \A rs : Mending(es2, rs) <=> Mending(es, rs) \/ e.type = "restored"
<1> DEFINE N == Len(es)
<1>1. /\ es2 \in Seq(Events) /\ DOMAIN es2 = 1 .. N + 1 /\ DOMAIN es = 1 .. N
      /\ N \in Nat /\ es2[N + 1] = e /\ \A n \in DOMAIN es : es2[n] = es[n]
  OBVIOUS
<1> HIDE DEF N
<1>2. \A n \in DOMAIN es2 : n \in DOMAIN es \/ n = N + 1
  BY <1>1
<1>3. DOMAIN es \subseteq DOMAIN es2 /\ N + 1 \in DOMAIN es2
  BY <1>1
<1>4. ASSUME NEW id
      PROVE  Heard(es2, id) = IF Y!About(e, id) THEN Heard(es, id) \union {e} ELSE Heard(es, id)
  <2>1. Heard(es2, id) \subseteq Heard(es, id) \union {e}
    BY <1>1, <1>2 DEF Heard
  <2>2. Heard(es, id) \subseteq Heard(es2, id)
    BY <1>1, <1>3 DEF Heard
  <2>3. Y!About(e, id) => e \in Heard(es2, id)
    BY <1>1, <1>3 DEF Heard
  <2>4. \A x \in Heard(es2, id) : Y!About(x, id)
    BY DEF Heard
  <2> QED BY <2>1, <2>2, <2>3, <2>4
<1>5. ASSUME NEW rs PROVE Mending(es2, rs) <=> Mending(es, rs) \/ e.type = "restored"
  BY <1>1, <1>2, <1>3 DEF Mending
<1> QED BY <1>1, <1>4, <1>5

(* What a new event must say to keep the last word right.                  *)
Tells(e, table, table2) ==
    \A id \in Y!Ids :
        /\ ~Y!About(e, id) => table2[id] = table[id] \/ e.type = "restored"
        /\ Y!About(e, id) =>
              /\ Says(e, id, table2[id])
              /\ table2[id] # None => Makes(e) \/ (table[id] # None /\ e.type # "deleted")

LEMMA WordMore ==
    ASSUME NEW es \in Seq(Events), NEW e \in Events, NEW es2, es2 = Append(es, e),
           NEW table, NEW table2, LastWord(es, table), MadeAgain(es, table),
           Tells(e, table, table2)
    PROVE  LastWord(es2, table2) /\ MadeAgain(es2, table2)
<1>0. /\ \A id \in Y!Ids : ~Y!About(e, id) => table2[id] = table[id] \/ e.type = "restored"
      /\ \A id \in Y!Ids : Y!About(e, id) => Says(e, id, table2[id])
      /\ \A id \in Y!Ids : Y!About(e, id) /\ table2[id] # None =>
                                Makes(e) \/ (table[id] # None /\ e.type # "deleted")
  BY DEF Tells
<1> DEFINE N == Len(es)
<1>1. /\ DOMAIN es2 = 1 .. N + 1 /\ DOMAIN es = 1 .. N
      /\ N \in Nat /\ es2[N + 1] = e /\ \A n \in DOMAIN es : es2[n] = es[n]
  OBVIOUS
<1> HIDE DEF N
<1>2. \A n \in DOMAIN es2 : n = N + 1 \/ (n \in DOMAIN es /\ n < N + 1)
  BY <1>1
<1>3. DOMAIN es \subseteq DOMAIN es2 /\ N + 1 \in DOMAIN es2
  BY <1>1
<1>4. ASSUME NEW n \in DOMAIN es, Stands(es2, n) PROVE Stands(es, n) /\ e.type # "restored"
  <2>1. n < N + 1
    BY <1>1
  <2> QED BY <1>1, <1>3, <1>4, <2>1 DEF Stands
<1>5. ASSUME NEW id \in Y!Ids, NEW n \in DOMAIN es2,
             Y!About(es2[n], id), Stands(es2, n), \A m \in DOMAIN es2 : m > n => ~Y!About(es2[m], id)
      PROVE  Says(es2[n], id, table2[id])
  <2>1. CASE n = N + 1
    BY <1>0, <1>1, <1>5, <2>1
  <2>2. CASE n \in DOMAIN es /\ n < N + 1
    <3>1. ~Y!About(e, id) /\ e.type # "restored" /\ Stands(es, n) /\ es2[n] = es[n]
      BY <1>1, <1>3, <1>4, <1>5, <2>2
    <3>2. \A m \in DOMAIN es : m > n => ~Y!About(es[m], id)
      BY <1>1, <1>3, <1>5
    <3>3. Says(es[n], id, table[id])
      BY <1>5, <2>2, <3>1, <3>2 DEF LastWord
    <3> QED BY <1>0, <3>1, <3>3
  <2> QED BY <1>2, <2>1, <2>2
<1>6. ASSUME NEW id \in Y!Ids, NEW n \in DOMAIN es2,
             Y!About(es2[n], id), es2[n].type = "deleted", Stands(es2, n), table2[id] # None
      PROVE  \E m \in DOMAIN es2 : m > n /\ Y!About(es2[m], id) /\ Makes(es2[m])
  <2>1. CASE n = N + 1
    BY <1>0, <1>1, <1>6, <2>1 DEF Makes
  <2>2. CASE n \in DOMAIN es /\ n < N + 1
    <3>1. e.type # "restored" /\ Stands(es, n) /\ es2[n] = es[n]
      BY <1>1, <1>4, <1>6, <2>2
    <3>2. CASE table[id] # None
      <4>1. \E m \in DOMAIN es : m > n /\ Y!About(es[m], id) /\ Makes(es[m])
        BY <1>6, <2>2, <3>1, <3>2 DEF MadeAgain
      <4> QED BY <1>1, <1>3, <4>1
    <3>3. CASE table[id] = None
      <4>1. Y!About(e, id) /\ Makes(e)
        BY <1>0, <1>6, <3>1, <3>3
      <4> QED BY <1>1, <1>3, <2>2, <4>1
    <3> QED BY <3>2, <3>3
  <2> QED BY <1>2, <2>1, <2>2
<1> QED BY <1>5, <1>6 DEF LastWord, MadeAgain

(* A row nothing is said about may change.                                 *)
LEMMA WordSame ==
    ASSUME NEW es, NEW table, NEW table2, LastWord(es, table), MadeAgain(es, table),
           \A id \in Y!Ids : table2[id] = table[id] \/ Heard(es, id) = {}
    PROVE  LastWord(es, table2) /\ MadeAgain(es, table2)
<1>1. \A id \in Y!Ids, n \in DOMAIN es : Y!About(es[n], id) => table2[id] = table[id]
  BY DEF Heard
<1> QED BY <1>1 DEF LastWord, MadeAgain

(* The first event is handled: it is the last word on a row, or others are *)
(* behind it.                                                              *)
FirstSays(es, es2, e) ==
    \A rs, table, id : id \in Y!Ids /\ ~Mending(es2, rs) /\ Y!About(e, id) =>
        /\ LastWord(es, table) /\ Heard(es2, id) = {} => Says(e, id, table[id])
        /\ MadeAgain(es, table) /\ e.type = "deleted" /\ table[id] # None =>
              \E b \in Heard(es2, id) : Makes(b)

LEMMA HeardLess ==
    ASSUME NEW es \in Seq(Events), es # <<>>, NEW es2, es2 = Tail(es), NEW e, e = Head(es)
    PROVE  /\ es2 \in Seq(Events) /\ e \in Events
           /\ \A id : Heard(es, id) = IF Y!About(e, id) THEN Heard(es2, id) \union {e} ELSE Heard(es2, id)
           /\ \A rs : Mending(es, rs) <=> Mending(es2, rs) \/ e.type = "restored"
           /\ \A table : LastWord(es, table) => LastWord(es2, table)
           /\ \A table : MadeAgain(es, table) => MadeAgain(es2, table)
           /\ FirstSays(es, es2, e)
<1> DEFINE N == Len(es2)
<1>1. /\ es2 \in Seq(Events) /\ e \in Events /\ DOMAIN es2 = 1 .. N /\ DOMAIN es = 1 .. N + 1
      /\ N \in Nat /\ es[1] = e /\ \A n \in 1 .. N : es2[n] = es[n + 1]
  OBVIOUS
<1> HIDE DEF N
<1>2. \A n \in DOMAIN es2 : n + 1 \in DOMAIN es /\ es2[n] = es[n + 1] /\ n \in Nat /\ n >= 1
  BY <1>1
<1>3. \A n \in DOMAIN es : n = 1 \/ (n - 1 \in DOMAIN es2 /\ n > 1 /\ es[n] = es2[n - 1] /\ n \in Nat)
  <2> TAKE n \in DOMAIN es
  <2>1. n \in 1 .. N + 1
    BY <1>1
  <2>2. n = 1 \/ (n - 1 \in 1 .. N /\ n - 1 + 1 = n /\ n > 1 /\ n \in Nat)
    BY <1>1, <2>1
  <2> QED BY <1>1, <2>2
<1>4. 1 \in DOMAIN es /\ es[1] = e
  BY <1>1
<1>5. ASSUME NEW id
      PROVE  Heard(es, id) = IF Y!About(e, id) THEN Heard(es2, id) \union {e} ELSE Heard(es2, id)
  <2>1. ASSUME NEW n \in DOMAIN es, Y!About(es[n], id) PROVE es[n] \in Heard(es2, id) \union {e}
    <3>1. CASE n = 1
      BY <1>4, <3>1
    <3>2. CASE n - 1 \in DOMAIN es2 /\ es[n] = es2[n - 1]
      BY <2>1, <3>2 DEF Heard
    <3> QED BY <1>3, <3>1, <3>2
  <2>2. Heard(es2, id) \subseteq Heard(es, id)
    BY <1>2 DEF Heard
  <2>3. Y!About(e, id) => e \in Heard(es, id)
    BY <1>4 DEF Heard
  <2>4. \A x \in Heard(es, id) : Y!About(x, id)
    BY DEF Heard
  <2>5. Heard(es, id) \subseteq Heard(es2, id) \union {e}
    BY <2>1 DEF Heard
  <2> QED BY <2>2, <2>3, <2>4, <2>5
<1>6. ASSUME NEW rs PROVE Mending(es, rs) <=> Mending(es2, rs) \/ e.type = "restored"
  <2>1. (\E n \in DOMAIN es : es[n].type = "restored")
        <=> (\E n \in DOMAIN es2 : es2[n].type = "restored") \/ e.type = "restored"
    BY <1>2, <1>3, <1>4
  <2> QED BY <2>1 DEF Mending
<1>7. ASSUME NEW n \in DOMAIN es2, Stands(es2, n) PROVE Stands(es, n + 1)
  <2>1. ASSUME NEW m \in DOMAIN es, m > n + 1 PROVE es[m].type # "restored"
    <3>1. m - 1 \in DOMAIN es2 /\ es[m] = es2[m - 1] /\ m - 1 > n
      BY <1>2, <1>3, <2>1
    <3> QED BY <1>7, <3>1 DEF Stands
  <2> QED BY <2>1 DEF Stands
<1>8. ASSUME NEW table, LastWord(es, table) PROVE LastWord(es2, table)
  <2>1. ASSUME NEW id \in Y!Ids, NEW n \in DOMAIN es2,
               Y!About(es2[n], id), Stands(es2, n), \A m \in DOMAIN es2 : m > n => ~Y!About(es2[m], id)
        PROVE  Says(es2[n], id, table[id])
    <3>1. n + 1 \in DOMAIN es /\ es2[n] = es[n + 1] /\ Stands(es, n + 1)
      BY <1>2, <1>7, <2>1
    <3>2. ASSUME NEW m \in DOMAIN es, m > n + 1 PROVE ~Y!About(es[m], id)
      <4>1. m - 1 \in DOMAIN es2 /\ es[m] = es2[m - 1] /\ m - 1 > n
        BY <1>2, <1>3, <3>2
      <4> QED BY <2>1, <4>1
    <3>3. Says(es[n + 1], id, table[id])
      BY <1>8, <2>1, <3>1, <3>2 DEF LastWord
    <3> QED BY <3>1, <3>3
  <2> QED BY <2>1 DEF LastWord
<1>9. ASSUME NEW table, MadeAgain(es, table) PROVE MadeAgain(es2, table)
  <2>1. ASSUME NEW id \in Y!Ids, NEW n \in DOMAIN es2,
               Y!About(es2[n], id), es2[n].type = "deleted", Stands(es2, n), table[id] # None
        PROVE  \E m \in DOMAIN es2 : m > n /\ Y!About(es2[m], id) /\ Makes(es2[m])
    <3>1. n + 1 \in DOMAIN es /\ es2[n] = es[n + 1] /\ Stands(es, n + 1)
      BY <1>2, <1>7, <2>1
    <3>2. PICK m \in DOMAIN es : m > n + 1 /\ Y!About(es[m], id) /\ Makes(es[m])
      BY <1>9, <2>1, <3>1 DEF MadeAgain
    <3>3. m - 1 \in DOMAIN es2 /\ es[m] = es2[m - 1] /\ m - 1 > n
      BY <1>2, <1>3, <3>2
    <3> QED BY <3>2, <3>3
  <2> QED BY <2>1 DEF MadeAgain
<1>10. ASSUME NEW rs, ~Mending(es2, rs) PROVE Stands(es, 1)
  <2>1. \A m \in DOMAIN es : m > 1 => m - 1 \in DOMAIN es2 /\ es[m] = es2[m - 1]
    BY <1>3
  <2> QED BY <1>10, <2>1 DEF Mending, Stands
<1>11. ASSUME NEW rs, NEW table, NEW id, id \in Y!Ids, ~Mending(es2, rs), Y!About(e, id),
              LastWord(es, table), Heard(es2, id) = {}
       PROVE  Says(e, id, table[id])
  <2>1. \A m \in DOMAIN es2 : ~Y!About(es2[m], id)
    BY <1>11 DEF Heard
  <2>2. \A m \in DOMAIN es : m > 1 => ~Y!About(es[m], id)
    BY <1>3, <2>1
  <2>3. Stands(es, 1)
    BY <1>10, <1>11
  <2>4. Says(es[1], id, table[id])
    BY <1>4, <1>11, <2>2, <2>3 DEF LastWord
  <2> QED BY <1>4, <2>4
<1>12. ASSUME NEW rs, NEW table, NEW id, id \in Y!Ids, ~Mending(es2, rs), Y!About(e, id),
              MadeAgain(es, table), e.type = "deleted", table[id] # None
       PROVE  \E b \in Heard(es2, id) : Makes(b)
  <2>1. Stands(es, 1)
    BY <1>10, <1>12
  <2>2. PICK m \in DOMAIN es : m > 1 /\ Y!About(es[m], id) /\ Makes(es[m])
    BY <1>4, <1>12, <2>1 DEF MadeAgain
  <2>3. m - 1 \in DOMAIN es2 /\ es[m] = es2[m - 1]
    BY <1>3, <2>2
  <2> QED BY <2>2, <2>3 DEF Heard
<1>13. FirstSays(es, es2, e)
  BY <1>11, <1>12 DEF FirstSays
<1> QED BY <1>1, <1>5, <1>6, <1>8, <1>9, <1>13

(* What is on screen.                                                      *)
LEMMA OneLong ==
    ASSUME NEW s \in Seq(Values), Len(s) <= 1, s # <<>>, NEW v \in Values
    PROVE  [n \in DOMAIN s |-> v] = <<v>>
<1>1. Len(s) = 1 /\ DOMAIN s = 1 .. 1
  <2>1. Len(s) \in Nat /\ DOMAIN s = 1 .. Len(s)
    OBVIOUS
  <2>2. Len(s) # 0
    BY EmptySeq
  <2>3. Len(s) = 1
    BY <2>1, <2>2
  <2> QED BY <2>1, <2>3
<1>2. [n \in 1 .. 1 |-> v] = <<v>>
  OBVIOUS
<1> QED BY <1>1, <1>2

LEMMA ShownOne ==
    ASSUME NEW shows \in [Y!Ids -> Seq(Values)], NEW k \in Y!Ids, NEW v \in Values
    PROVE  /\ Y!Upsert(shows, k, v) \in [Y!Ids -> Seq(Values)]
           /\ Y!Mapped(shows, k, v) \in [Y!Ids -> Seq(Values)]
           /\ Y!Without(shows, k) \in [Y!Ids -> Seq(Values)]
           /\ \A id \in Y!Ids : id # k => /\ Y!Upsert(shows, k, v)[id] = shows[id]
                                          /\ Y!Mapped(shows, k, v)[id] = shows[id]
                                          /\ Y!Without(shows, k)[id] = shows[id]
           /\ Len(shows[k]) <= 1 => Y!Upsert(shows, k, v)[k] = <<v>>
           /\ shows[k] = <<>> => Y!Mapped(shows, k, v)[k] = <<>>
           /\ shows[k] # <<>> /\ Len(shows[k]) <= 1 => Y!Mapped(shows, k, v)[k] = <<v>>
           /\ Y!Without(shows, k)[k] = <<>>
<1> DEFINE s == shows[k]
           m == [n \in DOMAIN s |-> v]
<1>1. s \in Seq(Values) /\ <<v>> \in Seq(Values) /\ <<>> \in Seq(Values)
  OBVIOUS
<1>2. m \in Seq(Values)
  <2>1. DOMAIN s = 1 .. Len(s) /\ Len(s) \in Nat
    BY <1>1
  <2> QED BY <2>1
<1>3. s = <<>> => m = <<>>
  <2>1. s = <<>> => DOMAIN s = {}
    OBVIOUS
  <2>2. [n \in {} |-> v] = <<>>
    OBVIOUS
  <2> QED BY <2>1, <2>2
<1>4. s # <<>> /\ Len(s) <= 1 => m = <<v>>
  BY <1>1, OneLong
<1>5. Y!Upsert(shows, k, v) = [shows EXCEPT ![k] = IF s = <<>> THEN <<v>> ELSE m]
  BY DEF Y!Upsert
<1>6. Y!Mapped(shows, k, v) = [shows EXCEPT ![k] = m]
  BY DEF Y!Mapped
<1>7. Y!Without(shows, k) = [shows EXCEPT ![k] = <<>>]
  BY DEF Y!Without
<1>8. s = shows[k]
  OBVIOUS
<1> HIDE DEF s, m
<1>9. \A w \in Seq(Values) : /\ [shows EXCEPT ![k] = w] \in [Y!Ids -> Seq(Values)]
                             /\ [shows EXCEPT ![k] = w][k] = w
                             /\ \A id \in Y!Ids : id # k => [shows EXCEPT ![k] = w][id] = shows[id]
  OBVIOUS
<1>10. (IF s = <<>> THEN <<v>> ELSE m) \in Seq(Values)
  BY <1>1, <1>2
<1> QED BY <1>1, <1>2, <1>3, <1>4, <1>5, <1>6, <1>7, <1>8, <1>9, <1>10

LEMMA ShownMany ==
    ASSUME NEW shows \in [Y!Ids -> Seq(Values)], NEW b \in Batches
    PROVE  /\ Y!UpsertAll(shows, b) \in [Y!Ids -> Seq(Values)]
           /\ \A id \in Y!Ids : (~\E p \in b : p[1] = id) => Y!UpsertAll(shows, b)[id] = shows[id]
           /\ \A id \in Y!Ids : \A v : <<id, v>> \in b /\ Len(shows[id]) <= 1 =>
                                      Y!UpsertAll(shows, b)[id] = <<v>>
<1>1. \A id \in Y!Ids : Y!UpsertAll(shows, b)[id] =
                            IF \E p \in b : p[1] = id
                            THEN Y!Upsert(shows, id, (CHOOSE p \in b : p[1] = id)[2])[id]
                            ELSE shows[id]
  BY DEF Y!UpsertAll
<1>2. ASSUME NEW id \in Y!Ids, NEW p \in b, p[1] = id
      PROVE  /\ (CHOOSE q \in b : q[1] = id) = p /\ p[2] \in Values
             /\ Y!UpsertAll(shows, b)[id] = Y!Upsert(shows, id, p[2])[id]
  <2>1. (CHOOSE q \in b : q[1] = id) = p
    BY <1>2 DEF Batches
  <2>2. p \in Y!Ids \X Values
    BY DEF Batches
  <2> QED BY <1>1, <1>2, <2>1, <2>2
<1>3. ASSUME NEW id \in Y!Ids PROVE Y!UpsertAll(shows, b)[id] \in Seq(Values)
  <2>1. CASE \E p \in b : p[1] = id
    <3>1. PICK p \in b : p[1] = id
      BY <2>1
    <3>2. Y!Upsert(shows, id, p[2]) \in [Y!Ids -> Seq(Values)]
      BY <1>2, <3>1, ShownOne
    <3> QED BY <1>2, <3>1, <3>2
  <2>2. CASE ~\E p \in b : p[1] = id
    BY <1>1, <2>2
  <2> QED BY <2>1, <2>2
<1>4. Y!UpsertAll(shows, b) \in [Y!Ids -> Seq(Values)]
  <2>1. Y!UpsertAll(shows, b) = [id \in Y!Ids |-> Y!UpsertAll(shows, b)[id]]
    BY DEF Y!UpsertAll
  <2> QED BY <1>3, <2>1
<1>5. ASSUME NEW id \in Y!Ids, NEW v, <<id, v>> \in b, Len(shows[id]) <= 1
      PROVE  Y!UpsertAll(shows, b)[id] = <<v>>
  <2>1. v \in Values /\ Y!UpsertAll(shows, b)[id] = Y!Upsert(shows, id, v)[id]
    BY <1>2, <1>5
  <2> QED BY <1>5, <2>1, ShownOne
<1> QED BY <1>1, <1>4, <1>5

(* An event shows the row as it says.                                      *)
LEMMA IngestedRow ==
    ASSUME RowsShape, NEW e \in Events, NEW id \in Y!Ids
    PROVE  /\ Y!Ingested(e) \in [Y!Ids -> Seq(Values)]
           /\ ~Y!About(e, id) => Y!Ingested(e)[id] = items[id]
           /\ Y!About(e, id) /\ Len(items[id]) <= 1 =>
                 /\ e.type = "created" => Y!Ingested(e)[id] = <<e.v>>
                 /\ e.type = "updated" => Y!Ingested(e)[id] = IF items[id] = <<>> THEN <<>> ELSE <<e.v>>
                 /\ e.type = "deleted" => Y!Ingested(e)[id] = <<>>
                 /\ e.type = "imported" => \E v \in Values : <<id, v>> \in e.v /\ Y!Ingested(e)[id] = <<v>>
<1>1. items \in [Y!Ids -> Seq(Values)]
  BY DEF RowsShape
<1>2. CASE e.type = "imported"
  <2>1. e.v \in Batches /\ Y!Ingested(e) = Y!UpsertAll(items, e.v)
    BY <1>2 DEF Events, Y!Ingested
  <2>2. Y!About(e, id) <=> \E p \in e.v : p[1] = id
    BY <1>2, AboutOne
  <2>3. Y!About(e, id) => \E v \in Values : <<id, v>> \in e.v
    BY <2>1, <2>2 DEF Batches
  <2>4. /\ Y!UpsertAll(items, e.v) \in [Y!Ids -> Seq(Values)]
        /\ (~\E p \in e.v : p[1] = id) => Y!UpsertAll(items, e.v)[id] = items[id]
        /\ \A v : <<id, v>> \in e.v /\ Len(items[id]) <= 1 => Y!UpsertAll(items, e.v)[id] = <<v>>
    BY <1>1, <2>1, ShownMany
  <2> DEFINE g == Y!Ingested(e)
  <2>5. g = Y!UpsertAll(items, e.v)
    BY <2>1
  <2> HIDE DEF g
  <2>6. /\ g \in [Y!Ids -> Seq(Values)]
        /\ ~Y!About(e, id) => g[id] = items[id]
        /\ Y!About(e, id) /\ Len(items[id]) <= 1 => \E v \in Values : <<id, v>> \in e.v /\ g[id] = <<v>>
    BY <2>2, <2>3, <2>4, <2>5, Zenon
  <2> QED BY <1>2, <2>6 DEF g
<1>3. CASE e.type \in {"created", "updated", "deleted"}
  <2>1. e.id \in Y!Ids /\ (e.type # "deleted" => e.v \in Values)
    BY <1>3 DEF Events
  <2>2. Y!About(e, id) <=> e.id = id
    BY <1>3, AboutOne
  <2>3. /\ e.type = "created" => Y!Ingested(e) = Y!Upsert(items, e.id, e.v)
        /\ e.type = "updated" => Y!Ingested(e) = Y!Mapped(items, e.id, e.v)
        /\ e.type = "deleted" => Y!Ingested(e) = Y!Without(items, e.id)
    BY <1>3 DEF Y!Ingested, Y!RowMessage
  <2>4. PICK v \in Values : e.type # "deleted" => v = e.v
    BY <2>1, RowsAssumption DEF RowsAssumption
  <2>5. \A k \in Y!Ids :
           /\ Y!Upsert(items, k, v) \in [Y!Ids -> Seq(Values)]
           /\ Y!Mapped(items, k, v) \in [Y!Ids -> Seq(Values)]
           /\ Y!Without(items, k) \in [Y!Ids -> Seq(Values)]
           /\ id # k => /\ Y!Upsert(items, k, v)[id] = items[id]
                        /\ Y!Mapped(items, k, v)[id] = items[id]
                        /\ Y!Without(items, k)[id] = items[id]
           /\ Len(items[k]) <= 1 => Y!Upsert(items, k, v)[k] = <<v>>
           /\ items[k] = <<>> => Y!Mapped(items, k, v)[k] = <<>>
           /\ items[k] # <<>> /\ Len(items[k]) <= 1 => Y!Mapped(items, k, v)[k] = <<v>>
           /\ Y!Without(items, k)[k] = <<>>
    BY <1>1, ShownOne
  <2> DEFINE g == Y!Ingested(e)
  <2>6. /\ e.type = "created" => g = Y!Upsert(items, e.id, v) /\ v = e.v
        /\ e.type = "updated" => g = Y!Mapped(items, e.id, v) /\ v = e.v
        /\ e.type = "deleted" => g = Y!Without(items, e.id)
    BY <2>3, <2>4
  <2> HIDE DEF g
  <2>7. /\ g \in [Y!Ids -> Seq(Values)]
        /\ ~Y!About(e, id) => g[id] = items[id]
    BY <1>3, <2>1, <2>2, <2>5, <2>6
  <2>8. ASSUME Y!About(e, id), Len(items[id]) <= 1
        PROVE  /\ e.type = "created" => g[id] = <<e.v>>
               /\ e.type = "updated" => g[id] = IF items[id] = <<>> THEN <<>> ELSE <<e.v>>
               /\ e.type = "deleted" => g[id] = <<>>
    <3>1. e.id = id
      BY <2>2, <2>8
    <3>2. /\ Y!Upsert(items, id, v)[id] = <<v>> /\ Y!Without(items, id)[id] = <<>>
          /\ items[id] = <<>> => Y!Mapped(items, id, v)[id] = <<>>
          /\ items[id] # <<>> => Y!Mapped(items, id, v)[id] = <<v>>
      BY <2>5, <2>8
    <3>3. e.type = "created" => g[id] = <<e.v>>
      BY <2>6, <3>1, <3>2
    <3>4. e.type = "updated" => g[id] = IF items[id] = <<>> THEN <<>> ELSE <<e.v>>
      BY <2>6, <3>1, <3>2
    <3>5. e.type = "deleted" => g[id] = <<>>
      BY <2>6, <3>1, <3>2
    <3> QED BY <3>3, <3>4, <3>5
  <2> QED BY <1>3, <2>7, <2>8 DEF g
<1>4. CASE e.type \in {"connected", "restored"}
  <2>1. Y!Ingested(e) = items
    BY <1>4 DEF Y!Ingested, Y!RowMessage
  <2> QED BY <1>1, <1>4, <2>1, AboutOne
<1> QED BY <1>2, <1>3, <1>4 DEF Events

LEMMA IngestedMatches ==
    ASSUME NEW e \in Events, NEW id \in Y!Ids, NEW x \in Values \union {None},
           NEW s \in Seq(Values), NEW s2, NEW heard, NEW heard2, NEW owed,
           Y!About(e, id), heard = heard2 \union {e}, Matches(x, s, heard, owed),
           heard2 = {} => Says(e, id, x),
           e.type = "deleted" /\ x # None => \E b \in heard2 : Makes(b),
           e.type = "created" => s2 = <<e.v>>,
           e.type = "updated" => s2 = IF s = <<>> THEN <<>> ELSE <<e.v>>,
           e.type = "deleted" => s2 = <<>>,
           e.type = "imported" => \E v \in Values : <<id, v>> \in e.v /\ s2 = <<v>>
    PROVE  Matches(x, s2, heard2, owed)
<1>1. e.type \in {"created", "updated", "deleted", "imported"}
  BY AboutOne DEF Events
<1>2. e \in heard
  OBVIOUS
<1>3. None \notin Values
  BY RowsAssumption DEF RowsAssumption
<1>4. Len(<<>>) = 0 /\ \A v : Len(<<v>>) = 1 /\ <<v>> # <<>>
  OBVIOUS
<1>5. Len(s2) <= 1
  <2>1. s2 = <<>> \/ \E v : s2 = <<v>>
    <3>1. CASE e.type = "imported"
      BY <3>1
    <3>2. CASE e.type = "updated"
      BY <3>2
    <3> QED BY <1>1, <3>1, <3>2
  <2>2. PICK n \in {0, 1} : n = Len(s2)
    BY <1>4, <2>1
  <2>3. n <= 1
    OBVIOUS
  <2> QED BY <2>2, <2>3
<1>6. \A r \in owed : r.op # "create"
  BY <1>2 DEF Matches
<1>7. ASSUME heard2 = {}, owed = {} PROVE s2 = Row(x)
  <2>1. CASE e.type = "created"
    <3>1. x = e.v /\ e.v \in Values
      BY <1>7, <2>1 DEF Says, Events
    <3> QED BY <1>3, <2>1, <3>1 DEF Row
  <2>2. CASE e.type = "updated"
    <3>1. x = e.v /\ e.v \in Values
      BY <1>7, <2>2 DEF Says, Events
    <3>2. s # <<>>
      BY <1>2, <1>3, <1>7, <2>2, <3>1 DEF Matches, Makes
    <3> QED BY <1>3, <2>2, <3>1, <3>2 DEF Row
  <2>3. CASE e.type = "deleted"
    BY <1>7, <2>3 DEF Says, Row
  <2>4. CASE e.type = "imported"
    <3>1. <<id, x>> \in e.v /\ e.v \in Batches
      BY <1>7, <2>4 DEF Says, Events
    <3>2. PICK v \in Values : <<id, v>> \in e.v /\ s2 = <<v>>
      BY <2>4
    <3>3. <<id, x>> = <<id, v>>
      BY <3>1, <3>2 DEF Batches
    <3>4. x = v
      BY <3>3
    <3> QED BY <1>3, <3>2, <3>4 DEF Row
  <2> QED BY <1>1, <2>1, <2>2, <2>3, <2>4
<1>8. ASSUME x # None, heard2 # {} PROVE s2 # <<>> \/ \E b \in heard2 : Makes(b)
  <2>1. CASE e.type \in {"created", "imported"}
    BY <1>4, <2>1
  <2>2. CASE e.type = "updated"
    <3>1. s # <<>> \/ \E b \in heard : Makes(b)
      BY <1>2, <1>8 DEF Matches
    <3>2. ~Makes(e)
      BY <2>2 DEF Makes
    <3> QED BY <1>4, <2>2, <3>1, <3>2
  <2>3. CASE e.type = "deleted"
    BY <1>8, <2>3
  <2> QED BY <1>1, <2>1, <2>2, <2>3
<1>9. ASSUME NEW r \in owed, r.op = "update"
      PROVE  s2 # <<>> /\ x = r.v /\ \A b \in heard2 : b.type = "updated" /\ b.v = r.v
  <2>1. s # <<>> /\ x = r.v /\ \A b \in heard : b.type = "updated" /\ b.v = r.v
    BY <1>9 DEF Matches
  <2> QED BY <1>2, <1>4, <2>1
<1>10. ASSUME NEW r \in owed, r.op = "remove" PROVE x = None /\ \A b \in heard2 : b.type = "deleted"
  BY <1>10 DEF Matches
<1> QED BY <1>5, <1>6, <1>7, <1>8, <1>9, <1>10 DEF Matches

(* The events of a feed that are added: none of them like a row there is,  *)
(* or like another.                                                        *)
Unlike(rows, f) ==
    /\ f \in Seq(Values)
    /\ \A n \in DOMAIN f, i \in Y!Ids : rows[i] = None \/ Fold[rows[i]] # Fold[f[n]]
    /\ \A m, n \in DOMAIN f : Fold[f[m]] = Fold[f[n]] => m = n

LEMMA FreshRecursion ==
    ASSUME NEW feed \in Seq(Values \union {0}), NEW rows
    PROVE  \E f : /\ Y!FreshEvents(feed, rows) = f[Len(feed)]
                  /\ f[0] = <<>>
                  /\ \A n \in 1 .. Len(feed) :
                        f[n] = IF /\ feed[n] # 0
                                  /\ \A i \in Y!Ids : rows[i] = None \/ Fold[rows[i]] # Fold[feed[n]]
                                  /\ \A k \in 1 .. n - 1 : feed[k] = 0 \/ Fold[feed[k]] # Fold[feed[n]]
                               THEN Append(f[n - 1], feed[n]) ELSE f[n - 1]
<1> DEFINE new(n) == /\ feed[n] # 0
                     /\ \A i \in Y!Ids : rows[i] = None \/ Fold[rows[i]] # Fold[feed[n]]
                     /\ \A k \in 1 .. n - 1 : feed[k] = 0 \/ Fold[feed[k]] # Fold[feed[n]]
           G(f) == [n \in 0 .. Len(feed) |->
                       IF n = 0 THEN <<>> ELSE IF new(n) THEN Append(f[n - 1], feed[n]) ELSE f[n - 1]]
           A == Seq(Values \union {0})
           g == [n \in 1 .. Len(feed) |-> [x \in A |-> IF new(n) THEN Append(x, feed[n]) ELSE x]]
<1>1. Len(feed) \in Nat /\ g \in [1 .. Len(feed) -> [A -> A]] /\ <<>> \in A
  <2>1. \A n \in 1 .. Len(feed) : feed[n] \in Values \union {0}
    OBVIOUS
  <2> HIDE DEF new
  <2> QED BY <2>1
<1>2. PICK h : Solves(h, Len(feed), A, <<>>, g)
  <2> HIDE DEF g, A
  <2> QED BY <1>1, RecursionExists
<1>3. h \in [0 .. Len(feed) -> A] /\ h[0] = <<>> /\ \A n \in 1 .. Len(feed) : h[n] = g[n][h[n - 1]]
  <2> HIDE DEF g, A
  <2> QED BY <1>2 DEF Solves
<1>4. \A n \in 1 .. Len(feed) : n - 1 \in 0 .. Len(feed) /\ h[n - 1] \in A
  <2> HIDE DEF g, A
  <2> QED BY <1>1, <1>3
<1> HIDE DEF new
<1>5. \A n \in 1 .. Len(feed) : h[n] = IF new(n) THEN Append(h[n - 1], feed[n]) ELSE h[n - 1]
  <2> TAKE n \in 1 .. Len(feed)
  <2>1. g[n] = [x \in A |-> IF new(n) THEN Append(x, feed[n]) ELSE x]
    OBVIOUS
  <2> HIDE DEF g
  <2> QED BY <1>3, <1>4, <2>1
<1>6. h = G(h)
  <2> HIDE DEF g, A
  <2>1. \A n \in 0 .. Len(feed) : n = 0 \/ n \in 1 .. Len(feed)
    BY <1>1
  <2>2. \A n \in 0 .. Len(feed) : h[n] = G(h)[n]
    BY <1>3, <1>5, <2>1
  <2>3. DOMAIN h = 0 .. Len(feed) /\ h = [n \in 0 .. Len(feed) |-> h[n]]
    BY <1>3
  <2> QED BY <2>2, <2>3
<1>7. PICK f : f = G(f) /\ f = CHOOSE f1 : f1 = G(f1)
  <2> HIDE DEF G
  <2> QED BY <1>6
<1>8. Y!FreshEvents(feed, rows) = f[Len(feed)]
  BY <1>7 DEF Y!FreshEvents, new
<1>9. \A n \in 0 .. Len(feed) : f[n] = IF n = 0 THEN <<>>
          ELSE IF new(n) THEN Append(f[n - 1], feed[n]) ELSE f[n - 1]
  BY <1>7
<1> HIDE DEF g, G, A
<1>10. f[0] = <<>> /\ \A n \in 1 .. Len(feed) : f[n] = IF new(n) THEN Append(f[n - 1], feed[n]) ELSE f[n - 1]
  BY <1>1, <1>9
<1> QED BY <1>8, <1>10 DEF new

(* One more event that is like none so far.                                *)
LEMMA UnlikeMore ==
    ASSUME NEW rows, NEW f, Unlike(rows, f), NEW v \in Values,
           \A i \in Y!Ids : rows[i] = None \/ Fold[rows[i]] # Fold[v],
           \A n \in DOMAIN f : Fold[f[n]] # Fold[v]
    PROVE  /\ Unlike(rows, Append(f, v))
           /\ \A n \in DOMAIN Append(f, v) : (n \in DOMAIN f /\ Append(f, v)[n] = f[n]) \/ Append(f, v)[n] = v
<1> DEFINE a == Append(f, v)
           N == Len(f)
<1>1. f \in Seq(Values)
  BY DEF Unlike
<1>2. /\ a \in Seq(Values) /\ N \in Nat /\ DOMAIN a = 1 .. N + 1 /\ DOMAIN f = 1 .. N
      /\ a[N + 1] = v /\ \A n \in DOMAIN f : a[n] = f[n]
  BY <1>1
<1> HIDE DEF a, N
<1>3. \A n \in DOMAIN a : n \in DOMAIN f \/ n = N + 1
  BY <1>2
<1>4. \A n \in DOMAIN a, i \in Y!Ids : rows[i] = None \/ Fold[rows[i]] # Fold[a[n]]
  BY <1>2, <1>3 DEF Unlike
<1>5. \A m, n \in DOMAIN a : Fold[a[m]] = Fold[a[n]] => m = n
  BY <1>2, <1>3 DEF Unlike
<1> QED BY <1>2, <1>3, <1>4, <1>5 DEF Unlike, a

LEMMA FreshUnlike ==
    ASSUME NEW feed \in Seq(Values \union {0}), NEW rows
    PROVE  Unlike(rows, Y!FreshEvents(feed, rows))
<1>1. PICK f : /\ Y!FreshEvents(feed, rows) = f[Len(feed)]
               /\ f[0] = <<>>
               /\ \A n \in 1 .. Len(feed) :
                     f[n] = IF /\ feed[n] # 0
                               /\ \A i \in Y!Ids : rows[i] = None \/ Fold[rows[i]] # Fold[feed[n]]
                               /\ \A k \in 1 .. n - 1 : feed[k] = 0 \/ Fold[feed[k]] # Fold[feed[n]]
                            THEN Append(f[n - 1], feed[n]) ELSE f[n - 1]
  BY FreshRecursion
<1>2. Len(feed) \in Nat /\ \A n \in 1 .. Len(feed) : feed[n] \in Values \union {0}
  OBVIOUS
<1>3. 0 \notin Values
  BY RowsAssumption DEF RowsAssumption
<1> DEFINE Seen(n, s) == \A m \in DOMAIN s : \E k \in 1 .. n : feed[k] # 0 /\ Fold[feed[k]] = Fold[s[m]]
           Well == { n \in 0 .. Len(feed) : Unlike(rows, f[n]) /\ Seen(n, f[n]) }
<1>4. 0 \in Well
  <2>1. 0 \in 0 .. Len(feed)
    BY <1>2
  <2>2. f[0] \in Seq(Values) /\ DOMAIN f[0] = {}
    BY <1>1
  <2> QED BY <2>1, <2>2 DEF Unlike
<1>5. ASSUME NEW n \in 0 .. Len(feed), n < Len(feed), n \in Well PROVE n + 1 \in Well
  <2>1. n \in Nat /\ n + 1 \in 1 .. Len(feed) /\ n + 1 \in 0 .. Len(feed) /\ n + 1 - 1 = n
    BY <1>2, <1>5
  <2>2. Unlike(rows, f[n]) /\ Seen(n, f[n])
    BY <1>5
  <2>3. Seen(n + 1, f[n])
    BY <2>1, <2>2
  <2> DEFINE v == feed[n + 1]
  <2>4. CASE /\ v # 0 /\ \A i \in Y!Ids : rows[i] = None \/ Fold[rows[i]] # Fold[v]
             /\ \A k \in 1 .. n : feed[k] = 0 \/ Fold[feed[k]] # Fold[v]
    <3>1. f[n + 1] = Append(f[n], v)
      <4>1. PICK p \in 1 .. Len(feed) : p = n + 1
        BY <2>1
      <4>2. p - 1 = n
        BY <2>1, <4>1
      <4>3. /\ feed[p] # 0
            /\ \A i \in Y!Ids : rows[i] = None \/ Fold[rows[i]] # Fold[feed[p]]
            /\ \A k \in 1 .. p - 1 : feed[k] = 0 \/ Fold[feed[k]] # Fold[feed[p]]
        BY <2>4, <4>1, <4>2
      <4>4. f[p] = Append(f[p - 1], feed[p])
        BY <1>1, <4>3
      <4> QED BY <4>1, <4>2, <4>4
    <3>2. v \in Values
      BY <1>2, <2>1, <2>4
    <3>3. \A m \in DOMAIN f[n] : Fold[f[n][m]] # Fold[v]
      BY <2>2, <2>4
    <3>4. /\ Unlike(rows, f[n + 1])
          /\ \A m \in DOMAIN f[n + 1] : (m \in DOMAIN f[n] /\ f[n + 1][m] = f[n][m]) \/ f[n + 1][m] = v
      <4> HIDE DEF v, Seen
      <4>1. /\ Unlike(rows, Append(f[n], v))
            /\ \A m \in DOMAIN Append(f[n], v) : \/ m \in DOMAIN f[n] /\ Append(f[n], v)[m] = f[n][m]
                                                 \/ Append(f[n], v)[m] = v
        BY <2>2, <2>4, <3>2, <3>3, UnlikeMore
      <4> QED BY <3>1, <4>1
    <3>5. n + 1 \in 1 .. n + 1
      BY <2>1
    <3>6. Seen(n + 1, f[n + 1])
      BY <2>3, <2>4, <3>4, <3>5
    <3> QED BY <2>1, <3>4, <3>6
  <2>5. CASE ~( /\ v # 0 /\ \A i \in Y!Ids : rows[i] = None \/ Fold[rows[i]] # Fold[v]
                /\ \A k \in 1 .. n : feed[k] = 0 \/ Fold[feed[k]] # Fold[v] )
    <3>1. f[n + 1] = f[n]
      BY <1>1, <2>1, <2>5
    <3> QED BY <2>1, <2>2, <2>3, <3>1
  <2> QED BY <2>4, <2>5
<1>6. \A n \in 0 .. Len(feed) : n \in Well
  <2> HIDE DEF Well
  <2> QED BY <1>2, <1>4, <1>5, BoundedInduction
<1>7. Len(feed) \in Well
  <2> HIDE DEF Well
  <2> QED BY <1>2, <1>6
<1> QED BY <1>1, <1>7

(* An import adds its batch, at ids that were free.                        *)
LEMMA ImportedBatch ==
    ASSUME RowsShape, NEW f \in Seq(Values), Y!Imported(f)
    PROVE  /\ server' \in Y!Rows /\ Y!Batch(f) \in Batches
           /\ f = <<>> => server' = server
           /\ \A id \in Y!Ids : (~\E b \in Y!Batch(f) : b[1] = id) => server'[id] = server[id]
           /\ \A id \in Y!Ids : (\E b \in Y!Batch(f) : b[1] = id) =>
                 server[id] = None /\ server'[id] \in Values /\ <<id, server'[id]>> \in Y!Batch(f)
           /\ \A id \in Y!Ids : (\E b \in Y!Batch(f) : b[1] = id) =>
                 \E n \in DOMAIN f : id = Y!NextId + n - 1 /\ server'[id] = f[n]
<1> DEFINE k == Y!NextId
           N == Len(f)
<1>1. k \in Nat \ {0} /\ (\A id \in Y!Ids : id >= k => server[id] = None)
      /\ server \in Y!Rows /\ MaxRow \in Nat
  BY NextIdIsFree, RowsAssumption DEF RowsShape, RowsAssumption
<1>2. /\ k + N <= MaxRow + 1
      /\ server' = [id \in Y!Ids |-> IF id \in k .. k + N - 1 THEN f[id - k + 1] ELSE server[id]]
  BY DEF Y!Imported
<1>3. Y!Batch(f) = {<<k + n - 1, f[n]>> : n \in DOMAIN f}
  BY DEF Y!Batch
<1>4. N \in Nat /\ DOMAIN f = 1 .. N /\ \A n \in 1 .. N : f[n] \in Values
  OBVIOUS
<1> HIDE DEF k
<1>5. f = <<>> => N = 0
  OBVIOUS
<1> HIDE DEF N
<1>6. \A n \in 1 .. N : k + n - 1 \in Y!Ids /\ k + n - 1 \in k .. k + N - 1 /\ (k + n - 1) - k + 1 = n
  BY <1>1, <1>2, <1>4 DEF Y!Ids
<1>7. \A id \in k .. k + N - 1 : id - k + 1 \in 1 .. N /\ k + (id - k + 1) - 1 = id
  BY <1>1, <1>4
<1>8. \A id \in Y!Ids : (\E b \in Y!Batch(f) : b[1] = id) <=> id \in k .. k + N - 1
  <2> TAKE id \in Y!Ids
  <2>1. ASSUME NEW b \in Y!Batch(f), b[1] = id PROVE id \in k .. k + N - 1
    BY <1>3, <1>4, <1>6, <2>1
  <2>2. ASSUME id \in k .. k + N - 1 PROVE \E b \in Y!Batch(f) : b[1] = id
    <3>1. <<k + (id - k + 1) - 1, f[id - k + 1]>> \in Y!Batch(f)
      BY <1>3, <1>4, <1>7, <2>2
    <3> QED BY <1>7, <2>2, <3>1
  <2> QED BY <2>1, <2>2
<1>9. \A id \in Y!Ids : server'[id] = IF id \in k .. k + N - 1 THEN f[id - k + 1] ELSE server[id]
  BY <1>2
<1>10. server' \in Y!Rows
  <2>1. \A id \in Y!Ids : server'[id] \in Values \union {None}
    BY <1>1, <1>4, <1>7, <1>9 DEF Y!Rows
  <2> QED BY <1>2, <2>1 DEF Y!Rows
<1>11. Y!Batch(f) \in Batches
  <2>1. Y!Batch(f) \subseteq Y!Ids \X Values
    BY <1>3, <1>4, <1>6
  <2>2. ASSUME NEW p \in Y!Batch(f), NEW q \in Y!Batch(f), p[1] = q[1] PROVE p = q
    <3>1. PICK m \in 1 .. N : p = <<k + m - 1, f[m]>>
      BY <1>3, <1>4
    <3>2. PICK n \in 1 .. N : q = <<k + n - 1, f[n]>>
      BY <1>3, <1>4
    <3>3. m = n
      BY <1>1, <1>4, <2>2, <3>1, <3>2
    <3> QED BY <3>1, <3>2, <3>3
  <2> QED BY <2>1, <2>2 DEF Batches
<1>12. f = <<>> => server' = server
  <2>1. ASSUME f = <<>> PROVE \A id \in Y!Ids : server'[id] = server[id]
    <3>1. \A id \in Y!Ids : id \notin k .. k + N - 1
      BY <1>1, <1>5, <2>1
    <3> QED BY <1>9, <3>1
  <2> QED BY <1>1, <1>10, <2>1 DEF Y!Rows
<1>13. ASSUME NEW id \in Y!Ids, id \in k .. k + N - 1
       PROVE  /\ server[id] = None /\ server'[id] \in Values /\ <<id, server'[id]>> \in Y!Batch(f)
              /\ \E n \in DOMAIN f : id = k + n - 1 /\ server'[id] = f[n]
  <2>1. id >= k
    BY <1>1, <1>4, <1>13
  <2>2. id - k + 1 \in 1 .. N /\ k + (id - k + 1) - 1 = id
    BY <1>7, <1>13
  <2>3. server'[id] = f[id - k + 1]
    BY <1>9, <1>13
  <2>4. <<k + (id - k + 1) - 1, f[id - k + 1]>> \in Y!Batch(f)
    BY <1>3, <1>4, <2>2
  <2> QED BY <1>1, <1>4, <2>1, <2>2, <2>3, <2>4
<1> QED BY <1>8, <1>9, <1>10, <1>11, <1>12, <1>13 DEF k

(* A row and what is said of it, when something more is said.              *)
LEMMA MatchMore ==
    ASSUME NEW x, NEW x2, NEW s, NEW heard, NEW e, Matches(x, s, heard, {}),
           x2 # None => Makes(e) \/ x # None
    PROVE  Matches(x2, s, heard \union {e}, {})
<1>1. <<>> # Row(x) \/ x = None
  BY DEF Row
<1>2. x2 # None => s # <<>> \/ \E b \in heard \union {e} : Makes(b)
  BY <1>1 DEF Matches
<1> QED BY <1>2 DEF Matches

LEMMA NotCrossing ==
    ASSUME NEW id, NEW mine, ~Y!Crossing(id, mine)
    PROVE  Owes(requests, id) = {} /\ (mine => Heard(events, id) = {})
BY DEF Y!Crossing, Owes, Owed, Heard

(* The parts of the next state that any write leaves right.                *)
LEMMA StillImporting ==
    ASSUME RowsInv, importing' = importing, DOMAIN requests' = DOMAIN requests,
           \A n \in DOMAIN requests : requests'[n].op = requests[n].op
    PROVE  (importing => Y!UnderWay("import") # {})'
BY DEF RowsInv, Y!UnderWay

LEMMA Told ==
    ASSUME NEW r, NEW e \in Events, Y!Told(r, e), events \in Seq(Events)
    PROVE  /\ events' \in Seq(Events)
           /\ r.named => events' = events
           /\ ~r.named => events' = Append(events, e)
BY DEF Y!Told

LEMMA CreateServed ==
    ASSUME RowsInv, NEW i \in DOMAIN requests, Y!ServeCreate(i),
           UNCHANGED <<kind, items, named, form, importing, hasty>>
    PROVE  RowsInv'
<1> DEFINE r == requests[i]
           k == Y!NextId
           r2 == [r EXCEPT !.stage = "ok", !.id = k]
           e == Y!Event("created", k, r.v)
<1>1. /\ r \in Asks /\ r.op = "create" /\ r.stage = "sent" /\ k \in Y!Ids /\ r.v \in Values
      /\ requests \in Seq(Asks) /\ events \in Seq(Events) /\ crossed \in BOOLEAN /\ server \in Y!Rows
      /\ server[k] = None
  <2>1. requests \in Seq(Asks) /\ events \in Seq(Events) /\ crossed \in BOOLEAN /\ server \in Y!Rows
    BY DEF RowsInv, RowsShape
  <2>2. r \in Asks /\ r.op = "create" /\ r.stage = "sent" /\ k <= MaxRow
    BY <2>1 DEF Y!ServeCreate
  <2>3. k \in Nat \ {0} /\ \A id \in Y!Ids : id >= k => server[id] = None
    BY NextIdIsFree DEF RowsInv
  <2>4. k \in Y!Ids /\ k >= k
    <3> HIDE DEF k
    <3> QED BY <2>2, <2>3, RowsAssumption DEF RowsAssumption, Y!Ids
  <2> QED BY <2>1, <2>2, <2>3, <2>4 DEF Asks
<1>2. /\ server' = [server EXCEPT ![k] = r.v]
      /\ requests' = Y!Overtaken([requests EXCEPT ![i] = r2])
      /\ Y!Told(r, e)
      /\ crossed' = (crossed \/ ~r.named \/ Y!Crossing(k, TRUE))
  BY DEF Y!ServeCreate, Y!Added
<1> HIDE DEF k, r
<1>3. r2 \in Asks /\ r2.op = "create" /\ r2.stage = "ok" /\ r2.id = k /\ r2.v = r.v
  BY <1>1 DEF Asks
<1>4. r = requests[i]
  BY DEF r
<1> HIDE DEF r2
<1>5. ServedBy(requests, requests', r2)
  <2>1. /\ requests \in Seq(Asks) /\ r2 \in Asks /\ r2.op # "fetch"
        /\ requests[i].stage = "sent" /\ r2.op = requests[i].op
        /\ requests' = Y!Overtaken([requests EXCEPT ![i] = r2])
    BY <1>1, <1>2, <1>3, <1>4
  <2> QED BY <2>1, ServedOne
<1>15. Written(requests, requests')
  BY <1>5 DEF ServedBy
<1>6. e \in Events
  BY <1>1, EventTyped
<1> HIDE DEF e
<1>7. events' \in Seq(Events) /\ (r.named => events' = events)
  BY <1>1, <1>2, <1>6, Told
<1>8. server' \in Y!Rows /\ server'[k] = r.v /\ \A id \in Y!Ids : id # k => server'[id] = server[id]
  BY <1>1, <1>2 DEF Y!Rows
<1>9. RowsShape'
  <2>1. crossed' \in BOOLEAN
    BY <1>1, <1>2
  <2> QED BY <1>15, <1>7, <1>8, <2>1 DEF RowsInv, RowsShape, Written
<1>10. (importing => Y!UnderWay("import") # {})'
  BY <1>15, StillImporting DEF Written
<1>11. ASSUME ~crossed'
       PROVE  ~crossed /\ events' = events /\ Heard(events, k) = {} /\ Owes(requests, k) = {}
  BY <1>2, <1>7, <1>11, NotCrossing
<1>12. ASSUME ~crossed' PROVE LastWord(events', server') /\ MadeAgain(events', server')
  <2>1. LastWord(events, server) /\ MadeAgain(events, server)
    BY <1>11, <1>12 DEF RowsInv
  <2>2. \A id \in Y!Ids : server'[id] = server[id] \/ Heard(events, id) = {}
    BY <1>8, <1>11, <1>12
  <2> QED BY <1>11, <1>12, <2>1, <2>2, WordSame
<1>13. ASSUME ~crossed', ~Mending(events', requests'), NEW id \in Y!Ids
       PROVE  Settled(server', items', events', requests', id)
  <2>1. ~crossed /\ ~Mending(events, requests) /\ events' = events /\ items' = items
    BY <1>15, <1>11, <1>13 DEF Written
  <2>2. Matches(server[id], items[id], Heard(events, id), Owes(requests, id)) /\ Alone(requests, id)
    BY <2>1 DEF RowsInv, Settled
  <2>3. CASE id # k
    <3>1. ~Owed(r2, id)
      BY <1>3, <2>3 DEF Owed
    <3> QED BY <1>5, <1>8, <2>1, <2>2, <2>3, <3>1 DEF Settled, ServedBy, Unowed
  <2>4. CASE id = k
    <3>1. Owed(r2, k)
      BY <1>3 DEF Owed
    <3>2. Owes(requests', k) = {r2} /\ Alone(requests', k) /\ Heard(events', k) = {}
      BY <1>5, <1>11, <1>13, <2>1, <3>1 DEF ServedBy
    <3>3. Matches(None, items[k], {}, {})
      BY <1>1, <1>11, <1>13, <2>2, <2>4
    <3>4. items[k] = <<>>
      BY <3>3 DEF Matches, Row
    <3>5. Matches(r.v, items[k], {}, {r2})
      BY <1>3, <3>3, <3>4 DEF Matches
    <3> QED BY <1>8, <2>1, <2>4, <3>2, <3>5 DEF Settled
  <2> QED BY <2>3, <2>4
<1> QED BY <1>15, <1>9, <1>10, <1>12, <1>13 DEF RowsInv, Written

LEMMA WrittenKeeps ==
    ASSUME RowsInv, Written(requests, requests'), server' \in Y!Rows, events' \in Seq(Events),
           crossed' \in BOOLEAN, UNCHANGED <<kind, items, named, form, importing, hasty>>,
           ~crossed' => LastWord(events', server') /\ MadeAgain(events', server'),
           ~crossed' /\ ~Mending(events', requests') =>
               \A id \in Y!Ids : Settled(server', items', events', requests', id)
    PROVE  RowsInv'
<1>1. RowsShape'
  BY DEF RowsInv, RowsShape, Written
<1>2. (importing => Y!UnderWay("import") # {})'
  BY StillImporting DEF Written
<1> QED BY <1>1, <1>2 DEF RowsInv, Written

LEMMA ShapeFacts ==
    ASSUME RowsInv
    PROVE  /\ requests \in Seq(Asks) /\ events \in Seq(Events) /\ crossed \in BOOLEAN
           /\ server \in Y!Rows /\ items \in [Y!Ids -> Seq(Values)]
           /\ \A i \in DOMAIN requests : requests[i] \in Asks
BY DEF RowsInv, RowsShape

(* A row is renamed or deleted for this tab.                               *)
LEMMA ChangeServed ==
    ASSUME RowsInv, NEW i \in DOMAIN requests, Y!ServeChange(i), ~Y!Refused(requests[i]),
           UNCHANGED <<kind, items, named, form, importing, hasty>>
    PROVE  RowsInv'
<1> DEFINE r == requests[i]
           k == r.id
           x == IF r.op = "update" THEN r.v ELSE None
           r2 == [r EXCEPT !.stage = "ok"]
           e == Y!Event(IF r.op = "update" THEN "updated" ELSE "deleted", k, r.v)
<1>1. /\ r \in Asks /\ r.op \in {"update", "remove"} /\ r.stage = "sent" /\ k \in Y!Ids
      /\ r.op = "update" => r.v \in Values
      /\ requests \in Seq(Asks) /\ events \in Seq(Events) /\ crossed \in BOOLEAN /\ server \in Y!Rows
      /\ server[k] # None /\ r = requests[i]
  <2>1. /\ requests \in Seq(Asks) /\ events \in Seq(Events) /\ crossed \in BOOLEAN /\ server \in Y!Rows
        /\ r \in Asks
    BY ShapeFacts
  <2>2. r.op \in {"update", "remove"} /\ r.stage = "sent"
    BY DEF Y!ServeChange
  <2>3. server[k] # None
    BY DEF Y!Refused
  <2> QED BY <2>1, <2>2, <2>3 DEF Asks
<1>2. /\ server' = [server EXCEPT ![k] = x]
      /\ requests' = Y!Overtaken([requests EXCEPT ![i] = r2])
      /\ Y!Told(r, e)
      /\ crossed' = (crossed \/ Y!Crossing(k, TRUE))
  BY DEF Y!ServeChange, Y!Answered
<1>3. /\ r2 \in Asks /\ r2.op = r.op /\ r2.stage = "ok" /\ r2.id = k /\ r2.v = r.v
      /\ x \in Values \union {None} /\ (r.op = "remove" => x = None) /\ (r.op = "update" => x = r.v)
  BY <1>1 DEF Asks
<1>4. e \in Events /\ e.id = k /\ e.type \in {"updated", "deleted"} /\ (e.type = "updated" <=> r.op = "update")
      /\ e.v = r.v
  <2>1. r.v \in Values \union {0}
    BY <1>1 DEF Asks
  <2> QED BY <1>1, <2>1 DEF Y!Event, Events
<1> HIDE DEF k, r, x, r2, e
<1>5. ServedBy(requests, requests', r2)
  <2>1. /\ requests \in Seq(Asks) /\ r2 \in Asks /\ r2.op # "fetch"
        /\ requests[i].stage = "sent" /\ r2.op = requests[i].op
        /\ requests' = Y!Overtaken([requests EXCEPT ![i] = r2])
    BY <1>1, <1>2, <1>3
  <2> QED BY <2>1, ServedOne
<1>6. Written(requests, requests')
  BY <1>5 DEF ServedBy
<1>7. events' \in Seq(Events) /\ (events' = events \/ events' = Append(events, e))
  BY <1>1, <1>2, <1>4, Told
<1>8. server' \in Y!Rows /\ server'[k] = x /\ \A id \in Y!Ids : id # k => server'[id] = server[id]
  BY <1>1, <1>2, <1>3 DEF Y!Rows
<1>9. crossed' \in BOOLEAN
  BY <1>1, <1>2
<1>10. ASSUME ~crossed' PROVE ~crossed /\ Heard(events, k) = {} /\ Owes(requests, k) = {}
  BY <1>2, <1>10, NotCrossing
<1>11. \A id \in Y!Ids : Y!About(e, id) <=> id = k
  BY <1>4, AboutOne
<1>12. ASSUME ~crossed' PROVE LastWord(events', server') /\ MadeAgain(events', server')
  <2>1. LastWord(events, server) /\ MadeAgain(events, server) /\ Heard(events, k) = {}
    BY <1>10, <1>12 DEF RowsInv
  <2>2. CASE events' = events
    <3>1. \A id \in Y!Ids : server'[id] = server[id] \/ Heard(events, id) = {}
      BY <1>8, <2>1
    <3> QED BY <2>1, <2>2, <3>1, WordSame
  <2>3. CASE events' = Append(events, e)
    <3>1. Tells(e, server, server')
      BY <1>1, <1>3, <1>4, <1>8, <1>11 DEF Tells, Says
    <3> QED BY <1>1, <1>4, <2>1, <2>3, <3>1, WordMore
  <2> QED BY <1>7, <2>2, <2>3
<1>13. \A id \in Y!Ids : \/ Heard(events', id) = Heard(events, id)
                         \/ id = k /\ Heard(events', id) = Heard(events, id) \union {e}
  <2>1. CASE events' = events
    BY <2>1
  <2>2. CASE events' = Append(events, e)
    <3>1. \A id : Heard(events', id) = IF Y!About(e, id) THEN Heard(events, id) \union {e} ELSE Heard(events, id)
      BY <1>1, <1>4, <2>2, HeardMore
    <3> QED BY <1>11, <3>1
  <2> QED BY <1>7, <2>1, <2>2
<1>14. Mending(events, requests) => Mending(events', requests')
  <2>1. Mending(events, requests) => Mending(events', requests)
    <3>1. events' = Append(events, e) => (Mending(events', requests) <=> Mending(events, requests) \/ e.type = "restored")
      BY <1>1, <1>4, HeardMore
    <3> QED BY <1>7, <3>1
  <2> QED BY <1>6, <2>1 DEF Written
<1>15. ASSUME ~crossed', ~Mending(events', requests'), NEW id \in Y!Ids
       PROVE  Settled(server', items', events', requests', id)
  <2>1. ~crossed /\ ~Mending(events, requests) /\ items' = items
    BY <1>10, <1>14, <1>15
  <2>2. Matches(server[id], items[id], Heard(events, id), Owes(requests, id)) /\ Alone(requests, id)
    BY <2>1 DEF RowsInv, Settled
  <2>3. CASE id # k
    <3>1. ~Owed(r2, id)
      BY <1>3, <2>3 DEF Owed
    <3>2. Unowed(requests, requests', id) /\ Heard(events', id) = Heard(events, id)
      BY <1>5, <1>13, <2>3, <3>1 DEF ServedBy
    <3> QED BY <1>8, <2>1, <2>2, <2>3, <3>2 DEF Settled, Unowed
  <2>4. CASE id = k
    <3>1. Owed(r2, k)
      BY <1>1, <1>3 DEF Owed
    <3>2. /\ Heard(events, k) = {} /\ Owes(requests, k) = {}
          /\ Owes(requests', k) = {r2} /\ Alone(requests', k)
      BY <1>5, <1>10, <1>15, <3>1 DEF ServedBy
    <3>3. Matches(server[k], items[k], {}, {}) /\ Heard(events', k) \subseteq {e}
      BY <1>13, <2>2, <2>4, <3>2
    <3>4. items[k] = <<server[k]>> /\ items[k] # <<>> /\ Len(items[k]) <= 1
      <4>1. items[k] = <<server[k]>> /\ Len(items[k]) <= 1
        BY <1>1, <3>3 DEF Matches, Row
      <4>2. <<server[k]>> # <<>>
        OBVIOUS
      <4> QED BY <4>1, <4>2
    <3>5. Matches(x, items[k], Heard(events', k), {r2})
      <4>1. r.op = "update" => x = r2.v /\ \A b \in Heard(events', k) : b.type = "updated" /\ b.v = r2.v
        BY <1>3, <1>4, <3>3
      <4>2. r.op = "remove" => x = None /\ \A b \in Heard(events', k) : b.type = "deleted"
        BY <1>3, <1>4, <3>3
      <4> QED BY <1>1, <1>3, <3>4, <4>1, <4>2 DEF Matches
    <3> QED BY <1>8, <2>1, <2>4, <3>2, <3>5 DEF Settled
  <2> QED BY <2>3, <2>4
<1> QED BY <1>6, <1>7, <1>8, <1>9, <1>12, <1>15, WrittenKeeps

(* A request is refused.                                                   *)
LEMMA RefusedKeeps ==
    ASSUME RowsInv, NEW i \in DOMAIN requests, requests' = Y!Answered(i, "failed"),
           requests[i].stage = "sent", requests[i].op # "fetch",
           UNCHANGED <<kind, server, items, events, named, form, importing, hasty, crossed>>
    PROVE  RowsInv'
<1>1. requests \in Seq(Asks)
  BY ShapeFacts
<1>2. FailedAt(requests, requests', i)
  <2>1. requests' = [requests EXCEPT ![i].stage = "failed"]
    BY DEF Y!Answered
  <2> QED BY <1>1, <2>1, FailedOne
<1>3. RowsShape'
  BY <1>2 DEF RowsInv, RowsShape, FailedAt
<1>4. (importing => Y!UnderWay("import") # {})'
  BY <1>2, StillImporting DEF FailedAt
<1>5. Fetched(events', requests', server')
  BY <1>2 DEF RowsInv, FailedAt
<1>6. (Mending(events', requests') <=> Mending(events, requests)) /\ \A id : Unowed(requests, requests', id)
  BY <1>2 DEF FailedAt
<1>7. ASSUME ~crossed', ~Mending(events', requests'), NEW id \in Y!Ids
      PROVE  Settled(server', items', events', requests', id)
  <2>1. Settled(server, items, events, requests, id)
    BY <1>6, <1>7 DEF RowsInv
  <2> QED BY <1>6, <2>1 DEF Settled, Unowed
<1> QED BY <1>3, <1>4, <1>5, <1>7 DEF RowsInv

(* One more event about the rows it changes, none of which an answer is    *)
(* about.                                                                  *)
LEMMA ToldMore ==
    ASSUME RowsInv, Written(requests, requests'), \A id \in Y!Ids : Unowed(requests, requests', id),
           NEW e \in Events, events' = Append(events, e), server' \in Y!Rows, crossed' \in BOOLEAN,
           UNCHANGED <<kind, items, named, form, importing, hasty>>,
           Tells(e, server, server'), crossed => crossed',
           ~crossed' => \A id \in Y!Ids : Y!About(e, id) => Owes(requests, id) = {}
    PROVE  RowsInv'
<1>1. events \in Seq(Events)
  BY ShapeFacts
<1>2. /\ events' \in Seq(Events)
      /\ \A id : Heard(events', id) = IF Y!About(e, id) THEN Heard(events, id) \union {e} ELSE Heard(events, id)
      /\ Mending(events', requests) <=> Mending(events, requests) \/ e.type = "restored"
  <2>1. \A id : Heard(events', id) = IF Y!About(e, id) THEN Heard(events, id) \union {e} ELSE Heard(events, id)
    <3>1. \A es \in Seq(Events), b \in Events :
             \A id : Heard(Append(es, b), id) = IF Y!About(b, id) THEN Heard(es, id) \union {b} ELSE Heard(es, id)
      BY HeardMore
    <3> TAKE id
    <3> QED BY <1>1, <3>1
  <2>2. \A rs : Mending(events', rs) <=> Mending(events, rs) \/ e.type = "restored"
    BY <1>1, HeardMore
  <2>3. events' \in Seq(Events)
    BY <1>1, HeardMore
  <2> QED BY <2>1, <2>2, <2>3
<1>3. Mending(events', requests') <=> Mending(events', requests)
  BY DEF Written
<1>4. ASSUME ~crossed' PROVE LastWord(events', server') /\ MadeAgain(events', server')
  <2>1. LastWord(events, server) /\ MadeAgain(events, server)
    BY <1>4 DEF RowsInv
  <2> QED BY <1>1, <2>1, WordMore
<1>5. ASSUME ~crossed', ~Mending(events', requests'), NEW id \in Y!Ids
      PROVE  Settled(server', items', events', requests', id)
  <2>1. ~Mending(events, requests) /\ e.type # "restored" /\ ~crossed
    BY <1>2, <1>3, <1>5
  <2>2. /\ Matches(server[id], items[id], Heard(events, id), Owes(requests, id)) /\ Alone(requests, id)
    BY <2>1 DEF RowsInv, Settled
  <2>3. Owes(requests', id) = Owes(requests, id) /\ Alone(requests', id) /\ items' = items
    BY <2>2 DEF Unowed
  <2>4. CASE Y!About(e, id)
    <3>1. Owes(requests, id) = {} /\ (server'[id] # None => Makes(e) \/ server[id] # None)
      BY <1>5, <2>4 DEF Tells
    <3>2. Matches(server'[id], items[id], Heard(events, id) \union {e}, {})
      <4>1. Matches(server[id], items[id], Heard(events, id), {})
        BY <2>2, <3>1
      <4> QED BY <3>1, <4>1, MatchMore
    <3> QED BY <1>2, <2>3, <2>4, <3>1, <3>2 DEF Settled
  <2>5. CASE ~Y!About(e, id)
    <3>1. server'[id] = server[id]
      BY <2>1, <2>5 DEF Tells
    <3> QED BY <1>2, <2>2, <2>3, <2>5, <3>1 DEF Settled
  <2> QED BY <2>4, <2>5
<1> QED BY <1>2, <1>4, <1>5, WrittenKeeps

(* The event of an import, once its rows are there.                        *)
LEMMA BatchTold ==
    ASSUME RowsShape, NEW f \in Seq(Values), Y!Imported(f), NEW e, e = Y!Event("imported", 0, Y!Batch(f))
    PROVE  /\ e \in Events /\ Tells(e, server, server') /\ server' \in Y!Rows
           /\ \A id \in Y!Ids : Y!About(e, id) => \E b \in Y!Batch(f) : b[1] = id
<1>1. /\ server' \in Y!Rows /\ Y!Batch(f) \in Batches
      /\ \A id \in Y!Ids : (~\E b \in Y!Batch(f) : b[1] = id) => server'[id] = server[id]
      /\ \A id \in Y!Ids : (\E b \in Y!Batch(f) : b[1] = id) =>
            server[id] = None /\ server'[id] \in Values /\ <<id, server'[id]>> \in Y!Batch(f)
  BY ImportedBatch
<1>2. e \in Events /\ e.type = "imported" /\ e.v = Y!Batch(f)
  <2>1. 1 \in Y!Ids /\ 1 \in Values
    BY RowsAssumption DEF RowsAssumption, Y!Ids
  <2> QED BY <1>1, <2>1, EventTyped DEF Y!Event
<1>3. \A id \in Y!Ids : Y!About(e, id) <=> \E b \in Y!Batch(f) : b[1] = id
  BY <1>2, AboutOne
<1>4. Tells(e, server, server')
  BY <1>1, <1>2, <1>3 DEF Tells, Says, Makes
<1> QED BY <1>1, <1>2, <1>3, <1>4

LEMMA FeedFresh ==
    ASSUME NEW feed \in Feeds
    PROVE  Unlike(server, Y!FreshEvents(feed, server)) /\ Y!FreshEvents(feed, server) \in Seq(Values)
BY FreshUnlike, RowsAssumption DEF RowsAssumption, Unlike

LEMMA ImportServed ==
    ASSUME RowsInv, NEW i \in DOMAIN requests, NEW feed \in Feeds, Y!ServeImport(i, feed),
           UNCHANGED <<kind, items, named, form, importing, hasty>>
    PROVE  RowsInv'
<1> DEFINE r == requests[i]
           f == Y!FreshEvents(feed, server)
           r2 == [r EXCEPT !.stage = "ok"]
           e == Y!Event("imported", 0, Y!Batch(f))
<1>1. /\ r \in Asks /\ r.op = "import" /\ r.stage = "sent" /\ r = requests[i] /\ r.id = 0
      /\ requests \in Seq(Asks) /\ events \in Seq(Events) /\ crossed \in BOOLEAN
  <2>1. r.op = "import" /\ r.stage = "sent"
    BY DEF Y!ServeImport
  <2> QED BY <2>1, ShapeFacts DEF Asks
<1>2. /\ Y!Imported(f)
      /\ requests' = Y!Overtaken([requests EXCEPT ![i] = r2])
      /\ IF f = <<>> THEN UNCHANGED events ELSE Y!Told(r, e)
      /\ crossed' = (crossed \/ (f # <<>> /\ r.named) \/ \E b \in Y!Batch(f) : Y!Crossing(b[1], FALSE))
  BY DEF Y!ServeImport, Y!Answered
<1>3. r2 \in Asks /\ r2.op = "import" /\ r2.stage = "ok" /\ r2.id = 0
  BY <1>1 DEF Asks
<1>4. f \in Seq(Values)
  BY FeedFresh
<1>5. RowsShape
  BY DEF RowsInv
<1> HIDE DEF f, r, r2
<1>6. e \in Events /\ Tells(e, server, server') /\ server' \in Y!Rows
      /\ (\A id \in Y!Ids : Y!About(e, id) => \E b \in Y!Batch(f) : b[1] = id)
      /\ (f = <<>> => server' = server)
  BY <1>2, <1>4, <1>5, BatchTold, ImportedBatch
<1> HIDE DEF e
<1>7. ServedBy(requests, requests', r2)
  <2>1. /\ requests \in Seq(Asks) /\ r2 \in Asks /\ r2.op # "fetch"
        /\ requests[i].stage = "sent" /\ r2.op = requests[i].op
        /\ requests' = Y!Overtaken([requests EXCEPT ![i] = r2])
    BY <1>1, <1>2, <1>3
  <2> QED BY <2>1, ServedOne
<1>8. Written(requests, requests') /\ \A id \in Y!Ids : Unowed(requests, requests', id)
  <2>1. \A id \in Y!Ids : ~Owed(r2, id)
    BY <1>3 DEF Owed, Y!Ids
  <2> QED BY <1>7, <2>1 DEF ServedBy
<1>9. crossed' \in BOOLEAN /\ (crossed => crossed')
  BY <1>1, <1>2
<1>10. CASE f = <<>> \/ events' = events
  <2>1. events' = events /\ (~crossed' => ~crossed /\ server' = server)
    <3>1. f = <<>> => events' = events /\ server' = server
      BY <1>2, <1>6
    <3>2. f # <<>> => Y!Told(r, e)
      BY <1>2
    <3>3. f # <<>> /\ ~r.named => events' # events
      <4>1. f # <<>> /\ ~r.named => events' = Append(events, e)
        BY <1>1, <1>6, <3>2, Told
      <4>2. Append(events, e) # events
        <5>1. Len(Append(events, e)) = Len(events) + 1 /\ Len(events) \in Nat
          BY <1>1, <1>6
        <5> QED BY <5>1
      <4> QED BY <4>1, <4>2
    <3>4. f # <<>> /\ r.named => crossed'
      BY <1>2
    <3> QED BY <1>9, <1>10, <3>1, <3>3, <3>4
  <2>2. ASSUME ~crossed' PROVE LastWord(events', server') /\ MadeAgain(events', server')
    BY <2>1, <2>2 DEF RowsInv
  <2>3. ASSUME ~crossed', ~Mending(events', requests'), NEW id \in Y!Ids
        PROVE  Settled(server', items', events', requests', id)
    <3>1. ~crossed /\ ~Mending(events, requests) /\ server' = server /\ items' = items
      BY <1>8, <2>1, <2>3 DEF Written
    <3>2. Settled(server, items, events, requests, id)
      BY <3>1 DEF RowsInv
    <3> QED BY <1>8, <2>1, <3>1, <3>2 DEF Settled, Unowed
  <2>4. events' \in Seq(Events)
    BY <1>1, <2>1
  <2> QED BY <1>6, <1>8, <1>9, <2>2, <2>3, <2>4, WrittenKeeps
<1>11. CASE f # <<>> /\ events' # events
  <2>1. events' = Append(events, e)
    <3>1. Y!Told(r, e)
      BY <1>2, <1>11
    <3> QED BY <1>11, <3>1 DEF Y!Told
  <2>2. ASSUME ~crossed', NEW id \in Y!Ids, Y!About(e, id) PROVE Owes(requests, id) = {}
    <3>1. PICK b \in Y!Batch(f) : b[1] = id
      BY <1>6, <2>2
    <3>2. ~Y!Crossing(id, FALSE)
      BY <1>2, <2>2, <3>1
    <3> QED BY <3>2, NotCrossing
  <2> QED BY <1>6, <1>8, <1>9, <2>1, <2>2, ToldMore
<1> QED BY <1>10, <1>11

(* The rows are answered as they are.                                      *)
LEMMA FetchServed ==
    ASSUME RowsInv, NEW i \in DOMAIN requests, Y!ServeFetch(i),
           UNCHANGED <<kind, items, named, form, importing, hasty>>
    PROVE  RowsInv'
<1> DEFINE r == requests[i]
           m == IF \E n \in DOMAIN requests : requests[n].stage = "ok" THEN "overtaken"
                ELSE IF events = <<>> THEN "clean" ELSE "fine"
           r2 == [r EXCEPT !.stage = "ok", !.rows = server, !.mark = m]
<1>1. /\ r \in Asks /\ r.op = "fetch" /\ r.stage = "sent" /\ r = requests[i]
      /\ requests \in Seq(Asks) /\ events \in Seq(Events) /\ server \in Y!Rows
  <2>1. r.op = "fetch" /\ r.stage = "sent"
    BY DEF Y!ServeFetch
  <2> QED BY <2>1, ShapeFacts DEF Asks
<1>2. requests' = [requests EXCEPT ![i] = r2] /\ UNCHANGED <<server, events, crossed>>
  BY DEF Y!ServeFetch
<1>3. m \in {"clean", "fine", "overtaken"} /\ (m = "clean" => events = <<>>)
      /\ (m # "overtaken" => \A n \in DOMAIN requests : requests[n].stage # "ok")
  OBVIOUS
<1> HIDE DEF m
<1>4. r2 \in Asks /\ r2.op = "fetch" /\ r2.stage = "ok" /\ r2.rows = server /\ r2.mark = m
  BY <1>1, <1>3 DEF Asks
<1> HIDE DEF r2, r
<1>5. requests' \in Seq(Asks) /\ DOMAIN requests' = DOMAIN requests /\ requests'[i] = r2
      /\ \A n \in DOMAIN requests : n # i => requests'[n] = requests[n]
  BY <1>1, <1>2, <1>4
<1>6. \A n \in DOMAIN requests : requests'[n].op = requests[n].op
  BY <1>1, <1>4, <1>5
<1>7. RowsShape'
  BY <1>2, <1>5 DEF RowsInv, RowsShape
<1>8. (importing => Y!UnderWay("import") # {})'
  BY <1>5, <1>6, StillImporting
<1>9. Fetched(events', requests', server')
  <2>1. Fetched(events, requests, server)
    BY DEF RowsInv
  <2>2. ASSUME NEW n \in DOMAIN requests', requests'[n].op = "fetch", requests'[n].stage = "ok",
               requests'[n].mark # "overtaken"
        PROVE  /\ requests'[n].rows = server
               /\ requests'[n].mark = "clean" => events = <<>>
               /\ \A k \in DOMAIN requests' : k # n /\ requests'[k].stage = "ok" =>
                                        requests'[k].op = "fetch" /\ requests'[k].mark = "overtaken"
    <3>1. CASE n = i
      BY <1>3, <1>4, <1>5, <2>2, <3>1
    <3>2. CASE n # i
      <4>1. requests'[n] = requests[n] /\ n \in DOMAIN requests
        BY <1>5, <3>2
      <4>2. m = "overtaken"
        BY <1>3, <2>2, <4>1
      <4>3. /\ requests[n].rows = server
            /\ requests[n].mark = "clean" => events = <<>>
            /\ \A k \in DOMAIN requests : k # n /\ requests[k].stage = "ok" =>
                                        requests[k].op = "fetch" /\ requests[k].mark = "overtaken"
        BY <2>1, <2>2, <4>1 DEF Fetched
      <4> QED BY <1>4, <1>5, <4>1, <4>2, <4>3
    <3> QED BY <3>1, <3>2
  <2> QED BY <1>2, <2>2 DEF Fetched
<1>10. Mending(events', requests')
  BY <1>4, <1>5 DEF Mending
<1>11. ~crossed' => LastWord(events', server') /\ MadeAgain(events', server')
  BY <1>2 DEF RowsInv
<1> QED BY <1>7, <1>8, <1>9, <1>10, <1>11 DEF RowsInv

LEMMA RowsServed ==
    ASSUME RowsInv, NEW i \in DOMAIN requests, Y!Serve(i)
    PROVE  RowsInv'
<1>1. UNCHANGED <<kind, items, named, form, error, importing, hasty>>
  BY DEF Y!Serve, Y!settings
<1>2. CASE Y!ServeCreate(i)
  BY <1>1, <1>2, CreateServed
<1>3. CASE Y!ServeChange(i)
  <2>1. CASE Y!Refused(requests[i])
    <3>1. /\ requests' = Y!Answered(i, "failed") /\ UNCHANGED <<server, events, crossed>>
          /\ requests[i].stage = "sent" /\ requests[i].op # "fetch"
      BY <1>3, <2>1 DEF Y!ServeChange
    <3> QED BY <1>1, <3>1, RefusedKeeps
  <2> QED BY <1>1, <1>3, <2>1, ChangeServed
<1>4. CASE Y!ServeFetch(i)
  BY <1>1, <1>4, FetchServed
<1>5. CASE Y!RefuseImport(i)
  <2>1. /\ requests' = Y!Answered(i, "failed") /\ UNCHANGED <<server, events, crossed>>
        /\ requests[i].stage = "sent" /\ requests[i].op # "fetch"
    BY <1>5 DEF Y!RefuseImport
  <2> QED BY <1>1, <2>1, RefusedKeeps
<1>6. ASSUME NEW feed \in Feeds, Y!ServeImport(i, feed) PROVE RowsInv'
  BY <1>1, <1>6, ImportServed
<1> QED BY <1>2, <1>3, <1>4, <1>5, <1>6 DEF Y!Serve

----------------------------------------------------------------------------
(* Somebody else writes.                                                   *)
LEMMA OtherWrites ==
    ASSUME RowsInv, requests' = Y!Overtaken(requests)
    PROVE  Written(requests, requests') /\ \A id \in Y!Ids : Unowed(requests, requests', id)
BY ShapeFacts, OvertakenAll

LEMMA OthersCreate ==
    ASSUME RowsInv, NEW v \in Theirs, Y!OtherCreates(v)
    PROVE  RowsInv'
<1> DEFINE k == Y!NextId
           e == Y!Event("created", k, v)
<1>1. v \in Values
  BY RowsAssumption DEF RowsAssumption
<1>2. k \in Y!Ids /\ server[k] = None
  <2>1. k \in Nat \ {0} /\ \A id \in Y!Ids : id >= k => server[id] = None
    BY NextIdIsFree DEF RowsInv
  <2>2. k <= MaxRow
    BY DEF Y!OtherCreates
  <2>3. k \in Y!Ids /\ k >= k
    <3> HIDE DEF k
    <3> QED BY <2>1, <2>2, RowsAssumption DEF RowsAssumption, Y!Ids
  <2> QED BY <2>1, <2>3
<1>3. /\ server' = [server EXCEPT ![k] = v] /\ events' = Append(events, e)
      /\ requests' = Y!Overtaken(requests) /\ crossed' = (crossed \/ Y!Crossing(k, FALSE))
      /\ UNCHANGED <<kind, items, named, form, importing, hasty>>
  BY DEF Y!OtherCreates, Y!Other, Y!Added, Y!settings
<1>4. e \in Events /\ e.type = "created" /\ e.id = k /\ e.v = v
  <2> HIDE DEF k
  <2> QED BY <1>1, <1>2, EventTyped DEF Y!Event
<1> HIDE DEF k, e
<1>5. server' \in Y!Rows /\ server'[k] = v /\ \A id \in Y!Ids : id # k => server'[id] = server[id]
  BY <1>1, <1>2, <1>3, ShapeFacts DEF Y!Rows
<1>6. \A id \in Y!Ids : Y!About(e, id) <=> id = k
  BY <1>4, AboutOne
<1>7. Tells(e, server, server')
  BY <1>4, <1>5, <1>6 DEF Tells, Says, Makes
<1>8. ~crossed' => \A id \in Y!Ids : Y!About(e, id) => Owes(requests, id) = {}
  BY <1>3, <1>6, NotCrossing
<1>9. crossed' \in BOOLEAN /\ (crossed => crossed')
  BY <1>3, ShapeFacts
<1> QED BY <1>3, <1>4, <1>5, <1>7, <1>8, <1>9, OtherWrites, ToldMore

LEMMA OthersChange ==
    ASSUME RowsInv, NEW k \in Y!Ids, NEW v \in Theirs \union {None}, Y!OtherChanges(k, v)
    PROVE  RowsInv'
<1> DEFINE e == IF v = None THEN Y!Event("deleted", k, 0) ELSE Y!Event("updated", k, v)
<1>1. v \in Values \union {None} /\ None \notin Values
  BY RowsAssumption DEF RowsAssumption
<1>2. /\ server' = [server EXCEPT ![k] = v] /\ events' = Append(events, e) /\ server[k] # None
      /\ requests' = Y!Overtaken(requests) /\ crossed' = (crossed \/ Y!Crossing(k, FALSE))
      /\ UNCHANGED <<kind, items, named, form, importing, hasty>>
  BY DEF Y!OtherChanges, Y!Other, Y!settings
<1>3. e \in Events /\ e.type = (IF v = None THEN "deleted" ELSE "updated") /\ e.id = k
      /\ (v # None => e.v = v)
  <2>1. CASE v = None
    <3>1. 1 \in Values
      BY RowsAssumption DEF RowsAssumption
    <3> QED BY <2>1, <3>1, EventTyped DEF Y!Event
  <2>2. CASE v # None
    <3>1. v \in Values
      BY <1>1, <2>2
    <3> QED BY <2>2, <3>1, EventTyped DEF Y!Event
  <2> QED BY <2>1, <2>2
<1> HIDE DEF e
<1>4. server' \in Y!Rows /\ server'[k] = v /\ \A id \in Y!Ids : id # k => server'[id] = server[id]
  BY <1>1, <1>2, ShapeFacts DEF Y!Rows
<1>5. \A id \in Y!Ids : Y!About(e, id) <=> id = k
  BY <1>3, AboutOne
<1>6. Tells(e, server, server')
  BY <1>2, <1>3, <1>4, <1>5 DEF Tells, Says
<1>7. ~crossed' => \A id \in Y!Ids : Y!About(e, id) => Owes(requests, id) = {}
  BY <1>2, <1>5, NotCrossing
<1>8. crossed' \in BOOLEAN /\ (crossed => crossed')
  BY <1>2, ShapeFacts
<1> QED BY <1>2, <1>3, <1>4, <1>6, <1>7, <1>8, OtherWrites, ToldMore

LEMMA OthersImport ==
    ASSUME RowsInv, NEW feed \in Feeds, Y!OtherImports(feed)
    PROVE  RowsInv'
<1> DEFINE f == Y!FreshEvents(feed, server)
           e == Y!Event("imported", 0, Y!Batch(f))
<1>1. /\ Y!Imported(f) /\ events' = Append(events, e)
      /\ requests' = Y!Overtaken(requests)
      /\ crossed' = (crossed \/ \E b \in Y!Batch(f) : Y!Crossing(b[1], FALSE))
      /\ UNCHANGED <<kind, items, named, form, importing, hasty>>
  BY DEF Y!OtherImports, Y!Other, Y!settings
<1>2. f \in Seq(Values)
  BY FeedFresh
<1>3. RowsShape
  BY DEF RowsInv
<1> HIDE DEF f
<1>4. e \in Events /\ Tells(e, server, server') /\ server' \in Y!Rows
      /\ (\A id \in Y!Ids : Y!About(e, id) => \E b \in Y!Batch(f) : b[1] = id)
  BY <1>1, <1>2, <1>3, BatchTold
<1> HIDE DEF e
<1>5. ASSUME ~crossed', NEW id \in Y!Ids, Y!About(e, id) PROVE Owes(requests, id) = {}
  <2>1. PICK b \in Y!Batch(f) : b[1] = id
    BY <1>4, <1>5
  <2>2. ~Y!Crossing(id, FALSE)
    BY <1>1, <1>5, <2>1
  <2> QED BY <2>2, NotCrossing
<1>6. crossed' \in BOOLEAN /\ (crossed => crossed')
  BY <1>1, ShapeFacts
<1> QED BY <1>1, <1>4, <1>5, <1>6, OtherWrites, ToldMore

(* A backup is put back: everything will be fetched.                       *)
LEMMA BackupRestored ==
    ASSUME RowsInv, Y!Restored
    PROVE  RowsInv'
<1> DEFINE e == Y!Event("restored", 0, 0)
<1>1. /\ server' = [i \in Y!Ids |-> IF i = 1 THEN 3 ELSE None] /\ events' = Append(events, e)
      /\ requests' = Y!Overtaken(requests)
      /\ crossed' = (crossed \/ \E n \in DOMAIN requests : requests[n].stage = "ok")
      /\ UNCHANGED <<kind, items, named, form, importing, hasty>>
  BY DEF Y!Restored, Y!Other, Y!settings
<1>2. 1 \in Y!Ids /\ 1 \in Values /\ 3 \in Values
  BY RowsAssumption DEF RowsAssumption, Y!Ids
<1>3. e \in Events /\ e.type = "restored"
  BY <1>2, EventTyped DEF Y!Event
<1> HIDE DEF e
<1>4. server' \in Y!Rows
  BY <1>1, <1>2 DEF Y!Rows
<1>5. \A id \in Y!Ids : ~Y!About(e, id)
  BY <1>3, AboutOne
<1>6. Tells(e, server, server')
  BY <1>3, <1>5 DEF Tells
<1>7. crossed' \in BOOLEAN /\ (crossed => crossed')
  BY <1>1, ShapeFacts
<1> QED BY <1>1, <1>3, <1>4, <1>5, <1>6, <1>7, OtherWrites, ToldMore

----------------------------------------------------------------------------
(* The tab.  An event is handled.                                          *)
LEMMA AskTyped ==
    ASSUME RowsInv, NEW v \in Values, NEW id \in Y!Ids
    PROVE  /\ Y!Request("fetch", 0, 0) \in Asks /\ Y!Request("import", 0, 0) \in Asks
           /\ Y!Request("create", 0, v) \in Asks /\ Y!Request("update", id, v) \in Asks
           /\ Y!Request("remove", id, 0) \in Asks
BY DEF Y!Request, Asks, RowsInv, RowsShape

LEMMA EventHandled ==
    ASSUME RowsInv, Y!OnServerMessage
    PROVE  RowsInv'
<1> DEFINE e == Head(events)
           q == Y!Request("fetch", 0, 0)
<1>1. /\ events # <<>> /\ events' = Tail(events) /\ items' = Y!Ingested(e)
      /\ named' = (named \/ e.type = "connected")
      /\ requests' = IF e.type = "restored" THEN Append(requests, q) ELSE requests
      /\ UNCHANGED <<kind, server, form, importing, hasty, crossed>>
  BY DEF Y!OnServerMessage, Y!settings
<1>2. /\ requests \in Seq(Asks) /\ events \in Seq(Events) /\ items \in [Y!Ids -> Seq(Values)]
      /\ server \in Y!Rows /\ RowsShape
  BY ShapeFacts DEF RowsInv
<1>3. q \in Asks /\ q.op = "fetch" /\ q.stage = "sent"
  <2>1. 1 \in Values /\ 1 \in Y!Ids
    BY RowsAssumption DEF RowsAssumption, Y!Ids
  <2> QED BY <2>1, AskTyped DEF Y!Request
<1> HIDE DEF q, e
<1>4. e = Head(events)
  BY DEF e
<1>5. events' \in Seq(Events) /\ e \in Events
  BY <1>1, <1>2, <1>4, HeardLess
<1>6. \A id : Heard(events, id) = IF Y!About(e, id) THEN Heard(events', id) \union {e} ELSE Heard(events', id)
  BY <1>1, <1>2, <1>4, HeardLess
<1>7. \A rs : Mending(events, rs) <=> Mending(events', rs) \/ e.type = "restored"
  BY <1>1, <1>2, <1>4, HeardLess
<1>8. \A table : /\ LastWord(events, table) => LastWord(events', table)
                 /\ MadeAgain(events, table) => MadeAgain(events', table)
  BY <1>1, <1>2, <1>4, HeardLess
<1>9. FirstSays(events, events', e)
  BY <1>1, <1>2, <1>4, HeardLess
<1>10. e.type = "restored" => SentBy(requests, requests', q)
  BY <1>1, <1>2, <1>3, SentOne
<1>11. items' \in [Y!Ids -> Seq(Values)]
  <2>1. 1 \in Y!Ids
    BY RowsAssumption DEF RowsAssumption, Y!Ids
  <2> QED BY <1>1, <1>2, <1>5, <2>1, IngestedRow
<1>12. RowsShape'
  <2>1. requests' \in Seq(Asks)
    BY <1>1, <1>2, <1>10 DEF SentBy
  <2>2. named' \in BOOLEAN
    BY <1>1, <1>2 DEF RowsShape
  <2> QED BY <1>1, <1>2, <1>5, <1>11, <2>1, <2>2 DEF RowsShape
<1>13. (importing => Y!UnderWay("import") # {})'
  <2>1. importing => \E n \in DOMAIN requests : requests[n].op = "import"
    BY DEF RowsInv, Y!UnderWay
  <2>2. importing => \E n \in DOMAIN requests' : requests'[n].op = "import"
    BY <1>1, <1>10, <2>1 DEF SentBy
  <2> QED BY <1>1, <2>2 DEF Y!UnderWay
<1>14. Fetched(events', requests', server')
  <2>1. Fetched(events, requests, server)
    BY DEF RowsInv
  <2>2. Fetched(events', requests, server)
    BY <1>1, <2>1 DEF Fetched
  <2> QED BY <1>1, <1>10, <2>2 DEF SentBy
<1>15. ASSUME ~crossed' PROVE LastWord(events', server') /\ MadeAgain(events', server')
  BY <1>1, <1>8, <1>15 DEF RowsInv
<1>16. ASSUME ~crossed', ~Mending(events', requests'), NEW id \in Y!Ids
       PROVE  Settled(server', items', events', requests', id)
  <2>1. e.type # "restored" /\ requests' = requests
    BY <1>1, <1>3, <1>10, <1>16 DEF SentBy
  <2>2. ~crossed /\ ~Mending(events, requests) /\ ~Mending(events', requests) /\ server' = server
    BY <1>1, <1>7, <1>16, <2>1
  <2>3. /\ Matches(server[id], items[id], Heard(events, id), Owes(requests, id)) /\ Alone(requests, id)
    BY <2>2 DEF RowsInv, Settled
  <2>4. CASE ~Y!About(e, id)
    <3>1. items'[id] = items[id] /\ Heard(events', id) = Heard(events, id)
      BY <1>1, <1>2, <1>5, <1>6, <2>4, IngestedRow
    <3> QED BY <2>1, <2>2, <2>3, <3>1 DEF Settled
  <2>5. CASE Y!About(e, id)
    <3>1. Len(items[id]) <= 1
      BY <2>3 DEF Matches
    <3>2. /\ e.type = "created" => items'[id] = <<e.v>>
          /\ e.type = "updated" => items'[id] = IF items[id] = <<>> THEN <<>> ELSE <<e.v>>
          /\ e.type = "deleted" => items'[id] = <<>>
          /\ e.type = "imported" => \E v \in Values : <<id, v>> \in e.v /\ items'[id] = <<v>>
      BY <1>1, <1>2, <1>5, <2>5, <3>1, IngestedRow
    <3>3. Heard(events, id) = Heard(events', id) \union {e}
      BY <1>6, <2>5
    <3>4. LastWord(events, server) /\ MadeAgain(events, server)
      BY <2>2 DEF RowsInv
    <3>5. /\ Heard(events', id) = {} => Says(e, id, server[id])
          /\ e.type = "deleted" /\ server[id] # None => \E b \in Heard(events', id) : Makes(b)
      BY <1>9, <2>2, <2>5, <3>4 DEF FirstSays
    <3>6. server[id] \in Values \union {None} /\ items[id] \in Seq(Values)
      BY <1>2 DEF Y!Rows
    <3>7. Matches(server[id], items'[id], Heard(events', id), Owes(requests, id))
      BY <1>5, <2>3, <2>5, <3>2, <3>3, <3>5, <3>6, IngestedMatches
    <3> QED BY <2>1, <2>2, <2>3, <3>7 DEF Settled
  <2> QED BY <2>4, <2>5
<1> QED BY <1>12, <1>13, <1>14, <1>15, <1>16 DEF RowsInv

(* An answer arrives.                                                      *)
LEMMA AnsweredRow ==
    ASSUME RowsShape, NEW r \in Asks, r.stage # "sent"
    PROVE  /\ Y!Shown(r) \in [Y!Ids -> Seq(Values)]
           /\ r.stage = "failed" \/ r.op = "import" => Y!Shown(r) = items
           /\ r.stage = "ok" /\ r.op = "fetch" => \A id \in Y!Ids : Y!Shown(r)[id] = Row(r.rows[id])
           /\ \A id \in Y!Ids : r.op # "fetch" /\ ~Owed(r, id) => Y!Shown(r)[id] = items[id]
           /\ \A id \in Y!Ids : Owed(r, id) =>
                 /\ r.op \in {"create", "update", "remove"}
                 /\ r.op = "create" /\ items[id] = <<>> => Y!Shown(r)[id] = <<r.v>>
                 /\ r.op = "update" /\ items[id] # <<>> /\ Len(items[id]) <= 1 => Y!Shown(r)[id] = <<r.v>>
                 /\ r.op = "remove" => Y!Shown(r)[id] = <<>>
<1>1. items \in [Y!Ids -> Seq(Values)] /\ r.op \in {"fetch", "create", "update", "remove", "import"}
  BY DEF RowsShape, Asks
<1>2. CASE r.stage = "failed"
  <2>1. Y!Shown(r) = items
    BY <1>2 DEF Y!Shown
  <2>2. \A id : ~Owed(r, id)
    BY <1>2 DEF Owed
  <2> QED BY <1>1, <1>2, <2>1, <2>2
<1>3. CASE r.stage = "ok" /\ r.op = "fetch"
  <2>1. r.rows \in Y!Rows
    BY <1>3 DEF Asks
  <2>2. Y!Shown(r) = [i \in Y!Ids |-> Row(r.rows[i])]
    BY <1>3 DEF Y!Shown, Row
  <2>3. \A i \in Y!Ids : Row(r.rows[i]) \in Seq(Values)
    BY <2>1 DEF Row, Y!Rows
  <2>4. \A id : ~Owed(r, id)
    BY <1>3 DEF Owed
  <2> QED BY <1>3, <2>2, <2>3, <2>4
<1>4. CASE r.stage = "ok" /\ r.op = "import"
  <2>1. Y!Shown(r) = items
    BY <1>4 DEF Y!Shown
  <2>2. \A id \in Y!Ids : ~Owed(r, id)
    <3>1. r.id = 0
      BY <1>4 DEF Asks
    <3>2. 0 \notin Y!Ids
      BY RowsAssumption DEF RowsAssumption, Y!Ids
    <3> QED BY <3>1, <3>2 DEF Owed
  <2> QED BY <1>1, <1>4, <2>1, <2>2
<1>5. CASE r.stage = "ok" /\ r.op = "create"
  <2>1. r.id \in Y!Ids /\ r.v \in Values
    BY <1>5 DEF Asks
  <2>2. Y!Shown(r) = [items EXCEPT ![r.id] = Append(items[r.id], r.v)]
    BY <1>5 DEF Y!Shown
  <2>3. Append(items[r.id], r.v) \in Seq(Values) /\ (items[r.id] = <<>> => Append(items[r.id], r.v) = <<r.v>>)
    <3>1. \A s \in Seq(Values), v \in Values : Append(s, v) \in Seq(Values)
      OBVIOUS
    <3>2. \A v \in Values : Append(<<>>, v) = <<v>>
      OBVIOUS
    <3>3. items[r.id] \in Seq(Values)
      BY <1>1, <2>1
    <3> QED BY <2>1, <3>1, <3>2, <3>3
  <2>4. \A id : Owed(r, id) <=> r.id = id
    BY <1>5 DEF Owed
  <2> HIDE DEF Row
  <2>5. Y!Shown(r) \in [Y!Ids -> Seq(Values)]
    BY <1>1, <2>1, <2>2, <2>3
  <2>6. /\ \A id \in Y!Ids : id # r.id => Y!Shown(r)[id] = items[id]
        /\ Y!Shown(r)[r.id] = Append(items[r.id], r.v)
    BY <1>1, <2>1, <2>2
  <2> QED BY <1>5, <2>3, <2>4, <2>5, <2>6
<1>6. CASE r.stage = "ok" /\ r.op = "update"
  <2>1. r.id \in Y!Ids /\ r.v \in Values
    BY <1>6 DEF Asks
  <2>2. Y!Shown(r) = Y!Mapped(items, r.id, r.v)
    BY <1>6 DEF Y!Shown
  <2>3. /\ Y!Mapped(items, r.id, r.v) \in [Y!Ids -> Seq(Values)]
        /\ \A id \in Y!Ids : id # r.id => Y!Mapped(items, r.id, r.v)[id] = items[id]
        /\ items[r.id] # <<>> /\ Len(items[r.id]) <= 1 => Y!Mapped(items, r.id, r.v)[r.id] = <<r.v>>
    BY <1>1, <2>1, ShownOne
  <2>4. \A id : Owed(r, id) <=> r.id = id
    BY <1>6 DEF Owed
  <2> QED BY <1>6, <2>2, <2>3, <2>4
<1>7. CASE r.stage = "ok" /\ r.op = "remove"
  <2>1. r.id \in Y!Ids
    BY <1>7 DEF Asks
  <2>2. Y!Shown(r) = Y!Without(items, r.id)
    BY <1>7 DEF Y!Shown
  <2>3. PICK v \in Values : TRUE
    BY RowsAssumption DEF RowsAssumption
  <2>4. /\ Y!Without(items, r.id) \in [Y!Ids -> Seq(Values)]
        /\ \A id \in Y!Ids : id # r.id => Y!Without(items, r.id)[id] = items[id]
        /\ Y!Without(items, r.id)[r.id] = <<>>
    BY <1>1, <2>1, <2>3, ShownOne
  <2>5. \A id : Owed(r, id) <=> r.id = id
    BY <1>7 DEF Owed
  <2> QED BY <1>7, <2>2, <2>4, <2>5
<1> QED BY <1>1, <1>2, <1>3, <1>4, <1>5, <1>6, <1>7 DEF Asks

(* The answer to a write shows the row as it is.                           *)
LEMMA AnsweredMatches ==
    ASSUME NEW x, NEW s, NEW s2, NEW heard, NEW r \in Asks, Matches(x, s, heard, {r}),
           r.op \in {"create", "update", "remove"}, r.stage = "ok",
           r.op = "create" /\ s = <<>> => s2 = <<r.v>>,
           r.op = "update" /\ s # <<>> /\ Len(s) <= 1 => s2 = <<r.v>>,
           r.op = "remove" => s2 = <<>>
    PROVE  Matches(x, s2, heard, {})
<1>1. r.op # "remove" => r.v \in Values /\ r.v # None
  BY RowsAssumption DEF RowsAssumption, Asks
<1>2. s2 = Row(x)
  BY <1>1 DEF Matches, Row
<1>3. x # None => s2 # <<>>
  BY <1>2 DEF Row
<1>4. Len(s2) <= 1
  <2>1. Len(<<>>) = 0 /\ Len(<<x>>) = 1
    OBVIOUS
  <2>2. PICK n \in {0, 1} : n = Len(s2)
    BY <1>2, <2>1 DEF Row
  <2>3. n <= 1
    OBVIOUS
  <2> QED BY <2>2, <2>3
<1> QED BY <1>2, <1>3, <1>4 DEF Matches

(* The fetches that are left.                                              *)
LEMMA FetchedLess ==
    ASSUME requests \in Seq(Asks), NEW i \in DOMAIN requests,
           Fetched(events, requests, server)
    PROVE  Fetched(events, Y!Forget(i), server)
<1> DEFINE f == Y!Forget(i)
<1>1. /\ \A n \in DOMAIN f : \/ n < i /\ n \in DOMAIN requests /\ f[n] = requests[n]
                             \/ n >= i /\ n + 1 \in DOMAIN requests /\ f[n] = requests[n + 1]
      /\ f \in Seq(Asks)
  BY ForgetIndexed
<1> HIDE DEF f
<1>2. i \in Nat /\ \A n \in DOMAIN f : n \in Nat
  BY <1>1
<1>3. \A n, m \in DOMAIN f : m # n => \E a, b \in DOMAIN requests : a # b /\ f[n] = requests[a] /\ f[m] = requests[b]
  BY <1>1, <1>2
<1>4. \A n \in DOMAIN f : \E a \in DOMAIN requests : f[n] = requests[a]
  BY <1>1
<1>5. ASSUME NEW n \in DOMAIN f, f[n].op = "fetch", f[n].stage = "ok", f[n].mark # "overtaken"
      PROVE  /\ f[n].rows = server
             /\ f[n].mark = "clean" => events = <<>>
             /\ \A m \in DOMAIN f : m # n /\ f[m].stage = "ok" => f[m].op = "fetch" /\ f[m].mark = "overtaken"
  <2>1. f[n].rows = server /\ (f[n].mark = "clean" => events = <<>>)
    BY <1>4, <1>5 DEF Fetched
  <2>2. ASSUME NEW m \in DOMAIN f, m # n, f[m].stage = "ok" PROVE f[m].op = "fetch" /\ f[m].mark = "overtaken"
    <3>1. PICK a \in DOMAIN requests, b \in DOMAIN requests : a # b /\ f[n] = requests[a] /\ f[m] = requests[b]
      BY <1>3, <2>2
    <3> QED BY <1>5, <2>2, <3>1 DEF Fetched
  <2> QED BY <2>1, <2>2
<1>6. Fetched(events, f, server)
  BY <1>5 DEF Fetched
<1> QED BY <1>6 DEF f

LEMMA AnswerHandled ==
    ASSUME RowsInv, NEW i \in DOMAIN requests, Y!Answer(i)
    PROVE  RowsInv'
<1> DEFINE r == requests[i]
<1>1. /\ r.stage # "sent" /\ requests' = Y!Forget(i) /\ items' = Y!Shown(r)
      /\ form' = Y!FormAfter(r) /\ importing' = (importing /\ r.op # "import")
      /\ crossed' = IF r.op # "fetch" \/ r.stage = "failed" THEN crossed
                    ELSE r.mark = "overtaken" \/ (crossed /\ r.mark = "fine")
      /\ UNCHANGED <<kind, server, events, named, hasty>>
  BY DEF Y!Answer
<1>2. /\ requests \in Seq(Asks) /\ r \in Asks /\ r = requests[i] /\ RowsShape
      /\ server \in Y!Rows
  BY ShapeFacts DEF RowsInv
<1> HIDE DEF r
<1>3. /\ requests' \in Seq(Asks)
      /\ \A n \in DOMAIN requests' : \E m \in DOMAIN requests : requests'[n] = requests[m]
      /\ \A n \in DOMAIN requests : n # i => \E m \in DOMAIN requests' : requests'[m] = requests[n]
  BY <1>1, <1>2, ForgetIndexed
<1>4. /\ items' \in [Y!Ids -> Seq(Values)]
      /\ r.stage = "ok" /\ r.op = "fetch" => \A id \in Y!Ids : items'[id] = Row(r.rows[id])
  BY <1>1, <1>2, AnsweredRow
<1>5. RowsShape'
  <2>1. form' \in Values \union {0} /\ importing' \in BOOLEAN /\ crossed' \in BOOLEAN
    BY <1>1, <1>2 DEF RowsShape, Y!FormAfter
  <2> QED BY <1>1, <1>2, <1>3, <1>4, <2>1 DEF RowsShape
<1>6. (importing => Y!UnderWay("import") # {})'
  <2>1. importing' => \E n \in DOMAIN requests : n # i /\ requests[n].op = "import"
    BY <1>1, <1>2 DEF RowsInv, Y!UnderWay
  <2>2. importing' => \E n \in DOMAIN requests' : requests'[n].op = "import"
    BY <1>3, <2>1
  <2> QED BY <2>2 DEF Y!UnderWay
<1>7. Fetched(events', requests', server')
  <2>1. Fetched(events, requests, server)
    BY DEF RowsInv
  <2> QED BY <1>1, <1>2, <2>1, FetchedLess
<1>8. CASE r.op # "fetch" \/ r.stage = "failed"
  <2>1. crossed' = crossed
    BY <1>1, <1>8
  <2>2. ASSUME ~crossed' PROVE LastWord(events', server') /\ MadeAgain(events', server')
    BY <1>1, <2>1, <2>2 DEF RowsInv
  <2>3. Mending(events, requests) => Mending(events', requests')
    <3>1. \A n \in DOMAIN requests : requests[n].op = "fetch" /\ requests[n].stage # "failed" => n # i
      BY <1>2, <1>8
    <3> QED BY <1>1, <1>3, <3>1 DEF Mending
  <2>4. ASSUME ~crossed', ~Mending(events', requests'), NEW id \in Y!Ids
        PROVE  Settled(server', items', events', requests', id)
    <3>1. ~crossed /\ ~Mending(events, requests)
      BY <2>1, <2>3, <2>4
    <3>2. /\ Matches(server[id], items[id], Heard(events, id), Owes(requests, id)) /\ Alone(requests, id)
      BY <3>1 DEF RowsInv, Settled
    <3>3. CASE ~Owed(r, id)
      <4>1. items'[id] = items[id]
        <5>1. r.op # "fetch" => Y!Shown(r)[id] = items[id]
          BY <1>1, <1>2, <3>3, AnsweredRow
        <5>2. r.stage = "failed" => Y!Shown(r) = items
          BY <1>1, <1>2, AnsweredRow
        <5> QED BY <1>1, <1>8, <5>1, <5>2
      <4>2. Owes(requests', id) = Owes(requests, id) /\ Alone(requests', id)
        BY <1>1, <1>2, <3>2, <3>3, OwesForgotten
      <4> QED BY <1>1, <3>2, <4>1, <4>2 DEF Settled
    <3>4. CASE Owed(r, id)
      <4>1. Owes(requests, id) = {r} /\ Owes(requests', id) = {} /\ Alone(requests', id)
        BY <1>1, <1>2, <3>2, <3>4, OwesForgotten
      <4>2. /\ r.op \in {"create", "update", "remove"}
            /\ r.op = "create" /\ items[id] = <<>> => items'[id] = <<r.v>>
            /\ r.op = "update" /\ items[id] # <<>> /\ Len(items[id]) <= 1 => items'[id] = <<r.v>>
            /\ r.op = "remove" => items'[id] = <<>>
        BY <1>1, <1>2, <3>4, AnsweredRow
      <4>3. r.stage = "ok"
        BY <3>4 DEF Owed
      <4>4. Matches(server[id], items[id], Heard(events, id), {r})
        BY <3>2, <4>1
      <4>5. Matches(server[id], items'[id], Heard(events, id), {})
        BY <1>2, <4>2, <4>3, <4>4, AnsweredMatches
      <4> QED BY <1>1, <4>1, <4>5 DEF Settled
    <3> QED BY <3>3, <3>4
  <2> QED BY <1>5, <1>6, <1>7, <2>2, <2>4 DEF RowsInv
<1>9. CASE r.op = "fetch" /\ r.stage = "ok"
  <2>1. crossed' = (r.mark = "overtaken" \/ (crossed /\ r.mark = "fine"))
    BY <1>1, <1>9
  <2>2. ASSUME ~crossed'
        PROVE  /\ r.rows = server
               /\ \A n \in DOMAIN requests : n # i /\ requests[n].stage = "ok" => requests[n].op = "fetch"
               /\ events = <<>> \/ ~crossed
    <3>1. Fetched(events, requests, server) /\ r.mark # "overtaken"
      BY <2>1, <2>2 DEF RowsInv
    <3>2. r.mark = "clean" \/ r.mark = "fine"
      BY <1>2, <1>9, <3>1 DEF Asks
    <3> QED BY <1>2, <1>9, <2>1, <2>2, <3>1, <3>2 DEF Fetched
  <2>3. ASSUME ~crossed' PROVE LastWord(events', server') /\ MadeAgain(events', server')
    <3>1. CASE events = <<>>
      BY <1>1, <3>1 DEF LastWord, MadeAgain
    <3>2. CASE ~crossed
      BY <1>1, <3>2 DEF RowsInv
    <3> QED BY <2>2, <2>3, <3>1, <3>2
  <2>4. ASSUME ~crossed', NEW id \in Y!Ids PROVE Settled(server', items', events', requests', id)
    <3>1. \A n \in DOMAIN requests : ~Owed(requests[n], id)
      BY <1>2, <1>9, <2>2, <2>4 DEF Owed
    <3>2. \A n \in DOMAIN requests' : ~Owed(requests'[n], id)
      BY <1>3, <3>1
    <3>3. Owes(requests', id) = {} /\ Alone(requests', id)
      BY <3>2, OwesNone
    <3>4. items'[id] = Row(server[id])
      BY <1>4, <1>9, <2>2, <2>4
    <3>5. Len(Row(server[id])) <= 1
      <4>1. Row(server[id]) \in {<<>>, <<server[id]>>}
        BY DEF Row
      <4>2. Len(<<>>) = 0 /\ Len(<<server[id]>>) = 1
        OBVIOUS
      <4>3. PICK n \in {0, 1} : n = Len(Row(server[id]))
        BY <4>1, <4>2
      <4>4. n <= 1
        OBVIOUS
      <4> QED BY <4>3, <4>4
    <3>6. server[id] # None => Row(server[id]) # <<>>
      BY DEF Row
    <3>7. Matches(server[id], items'[id], Heard(events, id), {})
      BY <3>4, <3>5, <3>6 DEF Matches
    <3> QED BY <1>1, <3>3, <3>7 DEF Settled
  <2> QED BY <1>5, <1>6, <1>7, <2>3, <2>4 DEF RowsInv
<1> QED BY <1>1, <1>2, <1>8, <1>9 DEF Asks

(* A request that does not arrive, or whose answer does not.               *)
LEMMA RequestLost ==
    ASSUME RowsInv, NEW i \in DOMAIN requests, Y!Lose(i)
    PROVE  RowsInv'
<1>1. /\ requests' = [requests EXCEPT ![i].stage = "failed"] /\ crossed' = TRUE
      /\ hasty' = (hasty \/ (requests[i].op = "create" /\ requests[i].stage = "ok"))
      /\ UNCHANGED <<kind, server, items, events, named, form, importing>>
  BY DEF Y!Lose, Y!Answered
<1>2. requests \in Seq(Asks) /\ RowsShape
  BY ShapeFacts DEF RowsInv
<1>3. FailedAt(requests, requests', i)
  BY <1>1, <1>2, FailedOne
<1>4. RowsShape'
  BY <1>1, <1>2, <1>3 DEF RowsShape, FailedAt
<1>5. Fetched(events', requests', server')
  <2>1. Fetched(events, requests, server)
    BY DEF RowsInv
  <2> QED BY <1>1, <1>3, <2>1 DEF FailedAt
<1>6. (importing => Y!UnderWay("import") # {})'
  BY <1>1, <1>3, StillImporting DEF FailedAt
<1> QED BY <1>1, <1>4, <1>5, <1>6 DEF RowsInv

(* The user asks for something.                                            *)
LEMMA AskSent ==
    ASSUME RowsInv, NEW r \in Asks, r.stage = "sent", r.op # "fetch", requests' = Append(requests, r),
           importing' = importing \/ (r.op = "import" /\ importing' = TRUE),
           form' \in Values \union {0}, hasty' \in BOOLEAN,
           UNCHANGED <<kind, server, items, events, named, crossed>>
    PROVE  RowsInv'
<1>1. requests \in Seq(Asks) /\ RowsShape
  BY ShapeFacts DEF RowsInv
<1>2. SentBy(requests, requests', r)
  BY <1>1, SentOne
<1>3. RowsShape'
  <2>1. importing' \in BOOLEAN
    BY <1>1 DEF RowsShape
  <2> QED BY <1>1, <1>2, <2>1 DEF RowsShape, SentBy
<1>4. Fetched(events', requests', server')
  <2>1. Fetched(events, requests, server)
    BY DEF RowsInv
  <2> QED BY <1>2, <2>1 DEF SentBy
<1>5. (importing => Y!UnderWay("import") # {})'
  <2>1. importing => \E n \in DOMAIN requests : requests[n].op = "import"
    BY DEF RowsInv, Y!UnderWay
  <2>2. importing' => \E n \in DOMAIN requests' : requests'[n].op = "import"
    BY <1>2, <2>1 DEF SentBy
  <2> QED BY <2>2 DEF Y!UnderWay
<1>6. ASSUME ~crossed' PROVE LastWord(events', server') /\ MadeAgain(events', server')
  BY <1>6 DEF RowsInv
<1>7. ASSUME ~crossed', ~Mending(events', requests'), NEW id \in Y!Ids
      PROVE  Settled(server', items', events', requests', id)
  <2>1. ~crossed /\ ~Mending(events, requests)
    BY <1>2, <1>7 DEF SentBy
  <2>2. Settled(server, items, events, requests, id)
    BY <2>1 DEF RowsInv
  <2>3. Unowed(requests, requests', id)
    BY <1>2 DEF SentBy
  <2> QED BY <2>2, <2>3 DEF Settled, Unowed
<1> QED BY <1>3, <1>4, <1>5, <1>6, <1>7 DEF RowsInv

LEMMA UserActs ==
    ASSUME RowsInv,
           \/ \E v \in Mine \union {0} : Y!Type(v)
           \/ Y!AddHoliday \/ Y!RunHolidayImport
           \/ \E v \in Mine : Y!Create(v)
           \/ \E id \in Y!Ids : Y!Remove(id) \/ \E v \in Mine : Y!Update(id, v)
    PROVE  RowsInv'
<1>1. RowsShape /\ Mine \subseteq Values /\ 1 \in Values /\ 1 \in Y!Ids
  BY RowsAssumption DEF RowsInv, RowsAssumption, Y!Ids
<1>2. form \in Values \union {0} /\ hasty \in BOOLEAN /\ importing \in BOOLEAN
  BY <1>1 DEF RowsShape
<1>3. ASSUME NEW v \in Mine \union {0}, Y!Type(v) PROVE RowsInv'
  <2>1. /\ form' = v /\ hasty' \in BOOLEAN
        /\ UNCHANGED <<kind, server, items, events, requests, named, importing, crossed>>
    BY <1>2, <1>3 DEF Y!Type
  <2>2. RowsShape'
    BY <1>1, <2>1 DEF RowsShape
  <2> QED BY <2>1, <2>2 DEF RowsInv, Y!UnderWay
<1>4. CASE Y!AddHoliday
  <2> DEFINE r == Y!Request("create", 0, form)
  <2>1. /\ form # 0 /\ requests' = Append(requests, r)
        /\ UNCHANGED <<kind, server, items, events, named, form, importing, crossed>>
        /\ hasty' \in BOOLEAN
    BY <1>2, <1>4 DEF Y!AddHoliday, Y!Ask
  <2>2. r \in Asks /\ r.stage = "sent" /\ r.op = "create"
    BY <1>1, <1>2, <2>1, AskTyped DEF Y!Request
  <2> HIDE DEF r
  <2> QED BY <1>2, <2>1, <2>2, AskSent
<1>5. CASE Y!RunHolidayImport
  <2> DEFINE r == Y!Request("import", 0, 0)
  <2>1. /\ requests' = Append(requests, r) /\ importing' = TRUE
        /\ UNCHANGED <<kind, server, items, events, named, form, hasty, crossed>>
    BY <1>5 DEF Y!RunHolidayImport, Y!Ask
  <2>2. r \in Asks /\ r.stage = "sent" /\ r.op = "import"
    BY <1>1, AskTyped DEF Y!Request
  <2> HIDE DEF r
  <2> QED BY <1>2, <2>1, <2>2, AskSent
<1>6. ASSUME NEW r \in Asks, r.stage = "sent", r.op # "fetch", Y!Ask(r),
             UNCHANGED <<kind, server, items, events, named, crossed>>, UNCHANGED Y!settings
      PROVE  RowsInv'
  <2>1. requests' = Append(requests, r) /\ UNCHANGED <<form, importing, hasty>>
    BY <1>6 DEF Y!Ask, Y!settings
  <2> QED BY <1>2, <1>6, <2>1, AskSent
<1>7. ASSUME NEW v \in Mine, Y!Create(v) PROVE RowsInv'
  <2> DEFINE r == Y!Request("create", 0, v)
  <2>1. Y!Ask(r) /\ UNCHANGED <<kind, server, items, events, named, crossed>> /\ UNCHANGED Y!settings
    BY <1>7 DEF Y!Create
  <2>2. r \in Asks /\ r.stage = "sent" /\ r.op # "fetch"
    BY <1>1, AskTyped DEF Y!Request
  <2> HIDE DEF r
  <2> QED BY <1>6, <2>1, <2>2
<1>8. ASSUME NEW id \in Y!Ids, Y!Remove(id) PROVE RowsInv'
  <2> DEFINE r == Y!Request("remove", id, 0)
  <2>1. Y!Ask(r) /\ UNCHANGED <<kind, server, items, events, named, crossed>> /\ UNCHANGED Y!settings
    BY <1>8 DEF Y!Remove
  <2>2. r \in Asks /\ r.stage = "sent" /\ r.op # "fetch"
    BY <1>1, AskTyped DEF Y!Request
  <2> HIDE DEF r
  <2> QED BY <1>6, <2>1, <2>2
<1>9. ASSUME NEW id \in Y!Ids, NEW v \in Mine, Y!Update(id, v) PROVE RowsInv'
  <2> DEFINE r == Y!Request("update", id, v)
  <2>1. Y!Ask(r) /\ UNCHANGED <<kind, server, items, events, named, crossed>> /\ UNCHANGED Y!settings
    BY <1>9 DEF Y!Update
  <2>2. r \in Asks /\ r.stage = "sent" /\ r.op # "fetch"
    BY <1>1, AskTyped DEF Y!Request
  <2> HIDE DEF r
  <2> QED BY <1>6, <2>1, <2>2
<1> QED BY <1>3, <1>4, <1>5, <1>7, <1>8, <1>9

LEMMA RowsStart == Y!Init => RowsInv
<1> SUFFICES ASSUME Y!Init PROVE RowsInv
  OBVIOUS
<1> DEFINE r == [op |-> "fetch", id |-> 0, v |-> 0, named |-> FALSE, stage |-> "sent",
                 rows |-> <<>>, mark |-> ""]
           e == Y!Event("connected", 0, 0)
<1>1. /\ kind \in Stores /\ server = [i \in Y!Ids |-> IF i = 1 THEN 1 ELSE None]
      /\ items = [i \in Y!Ids |-> <<>>] /\ events = <<e>> /\ requests = <<r>>
      /\ named = FALSE /\ form = 0 /\ importing = FALSE /\ hasty = FALSE /\ crossed = FALSE
  BY DEF Y!Init
<1>2. 1 \in Values /\ 1 \in Y!Ids
  BY RowsAssumption DEF RowsAssumption, Y!Ids
<1>3. e \in Events /\ e.type = "connected"
  BY <1>2, EventTyped DEF Y!Event
<1>4. r \in Asks /\ r.op = "fetch" /\ r.stage = "sent"
  BY DEF Asks
<1> HIDE DEF r, e
<1>5. RowsShape
  <2>1. requests \in Seq(Asks)
    BY <1>1, <1>4
  <2>2. events \in Seq(Events)
    BY <1>1, <1>3
  <2>3. items \in [Y!Ids -> Seq(Values)]
    <3>1. <<>> \in Seq(Values)
      OBVIOUS
    <3> QED BY <1>1, <3>1
  <2>4. server \in Y!Rows
    BY <1>1, <1>2 DEF Y!Rows
  <2> QED BY <1>1, <2>1, <2>2, <2>3, <2>4 DEF RowsShape
<1>6. DOMAIN requests = {1} /\ requests[1] = r /\ DOMAIN events = {1} /\ events[1] = e
  BY <1>1
<1>7. Fetched(events, requests, server)
  BY <1>4, <1>6 DEF Fetched
<1>8. Mending(events, requests)
  BY <1>4, <1>6 DEF Mending
<1>9. \A id \in Y!Ids, n \in DOMAIN events : ~Y!About(events[n], id)
  BY <1>3, <1>6, AboutOne
<1>10. LastWord(events, server) /\ MadeAgain(events, server)
  BY <1>9 DEF LastWord, MadeAgain
<1> QED BY <1>1, <1>5, <1>7, <1>8, <1>10 DEF RowsInv

LEMMA RowsKept ==
    RowsInv /\ [Y!Next]_Y!vars => RowsInv'
<1> SUFFICES ASSUME RowsInv, [Y!Next]_Y!vars PROVE RowsInv'
  OBVIOUS
<1>1. CASE UNCHANGED Y!vars
  BY <1>1 DEF Y!vars, RowsInv, RowsShape, Y!UnderWay
<1>2. CASE Y!Next
  <2>1. CASE \/ \E v \in Mine \union {0} : Y!Type(v)
             \/ Y!AddHoliday \/ Y!RunHolidayImport
             \/ \E v \in Mine : Y!Create(v)
             \/ \E id \in Y!Ids : Y!Remove(id) \/ \E v \in Mine : Y!Update(id, v)
    BY <2>1, UserActs
  <2>2. CASE Y!OnServerMessage
    BY <2>2, EventHandled
  <2>3. CASE \/ Y!Restored \/ \E v \in Theirs : Y!OtherCreates(v)
             \/ \E id \in Y!Ids, v \in Theirs \union {None} : Y!OtherChanges(id, v)
             \/ \E feed \in Feeds : Y!OtherImports(feed)
    BY <2>3, BackupRestored, OthersCreate, OthersChange, OthersImport
  <2>4. CASE \E i \in DOMAIN requests : Y!Serve(i) \/ Y!Answer(i) \/ Y!Lose(i)
    BY <2>4, RowsServed, AnswerHandled, RequestLost
  <2> QED BY <1>2, <2>1, <2>2, <2>3, <2>4 DEF Y!Next
<1> QED BY <1>1, <1>2

LEMMA RowsShown == RowsInv => Y!QuietShowsServer
<1> SUFFICES ASSUME RowsInv, events = <<>>, requests = <<>>, ~crossed
             PROVE  /\ items = [i \in Y!Ids |-> IF server[i] = None THEN <<>> ELSE <<server[i]>>]
                    /\ ~importing
  BY DEF Y!QuietShowsServer
<1>1. DOMAIN events = {} /\ DOMAIN requests = {}
  OBVIOUS
<1>2. ~Mending(events, requests)
  BY <1>1 DEF Mending
<1>3. ASSUME NEW id \in Y!Ids PROVE items[id] = Row(server[id])
  <2>1. Heard(events, id) = {} /\ Owes(requests, id) = {}
    BY <1>1 DEF Heard, Owes
  <2>2. Settled(server, items, events, requests, id)
    BY <1>2 DEF RowsInv
  <2> QED BY <2>1, <2>2 DEF Settled, Matches
<1>4. items \in [Y!Ids -> Seq(Values)]
  BY ShapeFacts
<1>5. items = [i \in Y!Ids |-> items[i]]
  BY <1>4
<1>6. [i \in Y!Ids |-> items[i]] = [i \in Y!Ids |-> IF server[i] = None THEN <<>> ELSE <<server[i]>>]
  BY <1>3 DEF Row
<1>7. ~importing
  BY <1>1 DEF RowsInv, Y!UnderWay
<1> QED BY <1>5, <1>6, <1>7

----------------------------------------------------------------------------
(* The entry of a holiday.                                                 *)

(* Only holidays are typed in; they are not renamed; and while nothing is  *)
(* typed over an entry, the one request of a row is for what is in the     *)
(* form.                                                                   *)
Creates(r) == r.op = "create"

Entries ==
    /\ kind = "tab" => form = 0
    /\ kind = "holiday" => \A n \in DOMAIN requests : requests[n].op # "update"
    /\ kind = "holiday" /\ ~hasty => \A m, n \in DOMAIN requests :
          /\ Creates(requests[n]) => requests[n].v = form
          /\ Creates(requests[m]) /\ Creates(requests[n]) => m = n

(* Requests that have only gone on.                                        *)
Same(rs, rs2) ==
    DOMAIN rs2 = DOMAIN rs /\ \A n \in DOMAIN rs : rs2[n].op = rs[n].op /\ rs2[n].v = rs[n].v

LEMMA EntriesSame ==
    ASSUME Entries, kind' = kind, form' = form, hasty => hasty', Same(requests, requests')
    PROVE  Entries'
BY DEF Entries, Same, Creates

LEMMA SameOne ==
    ASSUME NEW rs \in Seq(Asks), NEW i \in DOMAIN rs, NEW s \in {"sent", "ok", "failed"}
    PROVE  Same(rs, [rs EXCEPT ![i].stage = s])
<1> DEFINE t == [rs EXCEPT ![i].stage = s]
<1>1. rs[i] \in Asks
  OBVIOUS
<1>2. [rs[i] EXCEPT !.stage = s].op = rs[i].op /\ [rs[i] EXCEPT !.stage = s].v = rs[i].v
  BY <1>1 DEF Asks
<1>3. DOMAIN t = DOMAIN rs /\ t[i] = [rs[i] EXCEPT !.stage = s] /\ \A n \in DOMAIN rs : n # i => t[n] = rs[n]
  OBVIOUS
<1> HIDE DEF t
<1>4. Same(rs, t)
  BY <1>2, <1>3 DEF Same
<1> QED BY <1>4 DEF t

LEMMA SameAll ==
    ASSUME NEW rs, NEW t \in Seq(Asks), Same(rs, t)
    PROVE  Same(rs, Y!Overtaken(t))
BY OvertakenOne DEF Same

LEMMA SameServed ==
    ASSUME RowsInv, NEW i \in DOMAIN requests, Y!Serve(i)
    PROVE  Same(requests, requests')
<1> DEFINE r == requests[i]
<1>1. requests \in Seq(Asks) /\ r \in Asks /\ server \in Y!Rows
  BY ShapeFacts
<1>2. ASSUME NEW s \in {"ok", "failed"}
      PROVE  /\ Y!Answered(i, s) = [requests EXCEPT ![i].stage = s]
             /\ Same(requests, Y!Answered(i, s))
  BY <1>1, SameOne DEF Y!Answered
<1>3. CASE requests' = Y!Answered(i, "failed")
  BY <1>2, <1>3
<1>4. ASSUME NEW c \in Asks, c.op = r.op, c.v = r.v, requests' = Y!Overtaken([requests EXCEPT ![i] = c])
      PROVE  Same(requests, requests')
  <2> DEFINE t == [requests EXCEPT ![i] = c]
  <2>1. t \in Seq(Asks) /\ DOMAIN t = DOMAIN requests /\ t[i] = c
        /\ \A n \in DOMAIN requests : n # i => t[n] = requests[n]
    BY <1>1, <1>4
  <2>2. requests' = Y!Overtaken(t)
    BY <1>4
  <2> HIDE DEF t
  <2>3. Same(requests, t)
    BY <1>4, <2>1 DEF Same
  <2> QED BY <2>1, <2>2, <2>3, SameAll
<1>5. CASE Y!ServeCreate(i)
  <2> DEFINE k == Y!NextId
             c == [r EXCEPT !.stage = "ok", !.id = k]
  <2>1. requests' = Y!Overtaken([requests EXCEPT ![i].stage = "ok", ![i].id = k]) /\ k <= MaxRow
        /\ r.op = "create"
    BY <1>5 DEF Y!ServeCreate
  <2>2. k \in Y!Ids
    BY <2>1, NextIdIsFree DEF RowsInv, Y!Ids
  <2> HIDE DEF k
  <2>3. c \in Asks /\ c.op = r.op /\ c.v = r.v
    BY <1>1, <2>1, <2>2 DEF Asks
  <2>4. [requests EXCEPT ![i].stage = "ok", ![i].id = k] = [requests EXCEPT ![i] = c]
    BY <1>1
  <2> HIDE DEF c, r
  <2> QED BY <1>4, <2>1, <2>3, <2>4
<1>6. ASSUME r.op \in {"update", "remove", "import"}, requests' = Y!Overtaken(Y!Answered(i, "ok"))
      PROVE  Same(requests, requests')
  <2> DEFINE c == [r EXCEPT !.stage = "ok"]
  <2>1. c \in Asks /\ c.op = r.op /\ c.v = r.v
    BY <1>1, <1>6 DEF Asks
  <2>2. Y!Answered(i, "ok") = [requests EXCEPT ![i] = c]
    BY <1>1 DEF Y!Answered
  <2> HIDE DEF c, r
  <2> QED BY <1>4, <1>6, <2>1, <2>2
<1>7. CASE Y!ServeChange(i)
  BY <1>3, <1>6, <1>7 DEF Y!ServeChange
<1>8. CASE Y!RefuseImport(i)
  BY <1>3, <1>8 DEF Y!RefuseImport
<1>9. ASSUME NEW feed \in Feeds, Y!ServeImport(i, feed) PROVE Same(requests, requests')
  BY <1>6, <1>9 DEF Y!ServeImport
<1>10. CASE Y!ServeFetch(i)
  <2>1. PICK m : requests' = [requests EXCEPT ![i] = [r EXCEPT !.stage = "ok", !.rows = server, !.mark = m]]
    <3>1. requests' = [requests EXCEPT ![i].stage = "ok", ![i].rows = server,
                     ![i].mark = IF \E n \in DOMAIN requests : requests[n].stage = "ok"
                                 THEN "overtaken"
                                 ELSE IF events = <<>> THEN "clean" ELSE "fine"]
      BY <1>10 DEF Y!ServeFetch
    <3> QED BY <1>1, <3>1
  <2> DEFINE c == [r EXCEPT !.stage = "ok", !.rows = server, !.mark = m]
  <2>2. c.op = r.op /\ c.v = r.v
    BY <1>1 DEF Asks
  <2>3. DOMAIN requests' = DOMAIN requests /\ requests'[i] = c
        /\ \A n \in DOMAIN requests : n # i => requests'[n] = requests[n]
    BY <2>1
  <2> HIDE DEF c
  <2> QED BY <2>2, <2>3 DEF Same
<1> QED BY <1>5, <1>7, <1>8, <1>9, <1>10 DEF Y!Serve

(* Nothing but an answer and the user's typing touches the form.           *)
LEMMA EntriesKept ==
    RowsInv /\ Entries /\ [Y!Next]_Y!vars => Entries'
<1> SUFFICES ASSUME RowsInv, Entries, [Y!Next]_Y!vars PROVE Entries'
  OBVIOUS
<1>1. requests \in Seq(Asks) /\ kind \in {"holiday", "tab"} /\ (kind \in Stores)
  BY ShapeFacts, RowsAssumption DEF RowsInv, RowsShape, RowsAssumption
<1>2. \A rs : Same(rs, rs)
  BY DEF Same
<1>3. CASE UNCHANGED Y!vars
  BY <1>2, <1>3, EntriesSame DEF Y!vars
<1>4. ASSUME NEW v \in Mine \union {0}, Y!Type(v) PROVE Entries'
  <2>1. /\ kind = "holiday" /\ kind' = kind /\ form' = v /\ requests' = requests
        /\ hasty' = (hasty \/ Y!UnderWay("create") # {})
    BY <1>4 DEF Y!Type
  <2>2. ~hasty' => \A n \in DOMAIN requests : ~Creates(requests[n])
    BY <2>1 DEF Y!UnderWay, Creates
  <2> QED BY <2>1, <2>2 DEF Entries
<1>5. ASSUME NEW r, requests' = Append(requests, r), kind' = kind, form' = form, hasty => hasty',
             kind = "holiday" => r.op # "update",
             kind = "holiday" /\ Creates(r) /\ ~hasty' => r.v = form /\ Y!UnderWay("create") = {}
      PROVE  Entries'
  <2> DEFINE N == Len(requests)
  <2>1. /\ N \in Nat /\ DOMAIN requests' = 1 .. N + 1 /\ requests'[N + 1] = r
        /\ DOMAIN requests = 1 .. N /\ \A n \in 1 .. N : requests'[n] = requests[n]
    BY <1>1, <1>5
  <2> HIDE DEF N
  <2>2. \A n \in DOMAIN requests' : n = N + 1 \/ (n \in DOMAIN requests /\ n # N + 1)
    BY <2>1
  <2>3. Y!UnderWay("create") = {} => \A n \in DOMAIN requests : ~Creates(requests[n])
    BY DEF Y!UnderWay, Creates
  <2>4. kind' = "holiday" => \A n \in DOMAIN requests' : requests'[n].op # "update"
    BY <1>5, <2>1, <2>2 DEF Entries
  <2>5. ASSUME kind' = "holiday", ~hasty', NEW m \in DOMAIN requests', NEW n \in DOMAIN requests'
        PROVE  /\ Creates(requests'[n]) => requests'[n].v = form'
               /\ Creates(requests'[m]) /\ Creates(requests'[n]) => m = n
    BY <1>5, <2>1, <2>2, <2>3, <2>5 DEF Entries
  <2>6. kind' = "tab" => form' = 0
    BY <1>5 DEF Entries
  <2> QED BY <2>4, <2>5, <2>6 DEF Entries
<1>6. CASE Y!AddHoliday
  <2>1. /\ requests' = Append(requests, Y!Request("create", 0, form)) /\ kind' = kind /\ form' = form
        /\ hasty' = (hasty \/ Y!UnderWay("create") # {})
    BY <1>6 DEF Y!AddHoliday, Y!Ask
  <2>2. Y!Request("create", 0, form).op = "create" /\ Y!Request("create", 0, form).v = form
    BY DEF Y!Request
  <2> QED BY <1>5, <2>1, <2>2
<1>7. CASE Y!RunHolidayImport
  <2>1. /\ requests' = Append(requests, Y!Request("import", 0, 0)) /\ kind' = kind /\ form' = form
        /\ hasty' = hasty
    BY <1>7 DEF Y!RunHolidayImport, Y!Ask
  <2>2. Y!Request("import", 0, 0).op = "import"
    BY DEF Y!Request
  <2> QED BY <1>5, <2>1, <2>2 DEF Creates
<1>8. ASSUME NEW v \in Mine, Y!Create(v) PROVE Entries'
  <2>1. /\ requests' = Append(requests, Y!Request("create", 0, v)) /\ kind' = kind /\ form' = form
        /\ hasty' = hasty /\ kind = "tab"
    BY <1>8 DEF Y!Create, Y!Ask, Y!settings
  <2> QED BY <1>5, <2>1
<1>9. ASSUME NEW id \in Y!Ids, Y!Remove(id) PROVE Entries'
  <2>1. /\ requests' = Append(requests, Y!Request("remove", id, 0)) /\ kind' = kind /\ form' = form
        /\ hasty' = hasty
    BY <1>9 DEF Y!Remove, Y!Ask, Y!settings
  <2>2. Y!Request("remove", id, 0).op = "remove"
    BY DEF Y!Request
  <2> QED BY <1>5, <2>1, <2>2 DEF Creates
<1>10. ASSUME NEW id \in Y!Ids, NEW v \in Mine, Y!Update(id, v) PROVE Entries'
  <2>1. /\ requests' = Append(requests, Y!Request("update", id, v)) /\ kind' = kind /\ form' = form
        /\ hasty' = hasty /\ kind = "tab"
    BY <1>10 DEF Y!Update, Y!Ask, Y!settings
  <2> QED BY <1>5, <2>1
<1>11. CASE Y!OnServerMessage
  <2>1. /\ kind' = kind /\ form' = form /\ hasty' = hasty
        /\ requests' = requests \/ requests' = Append(requests, Y!Request("fetch", 0, 0))
    BY <1>11 DEF Y!OnServerMessage, Y!settings
  <2>2. Y!Request("fetch", 0, 0).op = "fetch"
    BY DEF Y!Request
  <2>3. CASE requests' = requests
    BY <1>2, <2>1, <2>3, EntriesSame
  <2>4. CASE requests' = Append(requests, Y!Request("fetch", 0, 0))
    BY <1>5, <2>1, <2>2, <2>4 DEF Creates
  <2> QED BY <2>1, <2>3, <2>4
<1>12. CASE \/ Y!Restored \/ \E v \in Theirs : Y!OtherCreates(v)
            \/ \E id \in Y!Ids, v \in Theirs \union {None} : Y!OtherChanges(id, v)
            \/ \E feed \in Feeds : Y!OtherImports(feed)
  <2>1. kind' = kind /\ form' = form /\ hasty' = hasty /\ requests' = Y!Overtaken(requests)
    BY <1>12 DEF Y!Restored, Y!OtherCreates, Y!OtherChanges, Y!OtherImports, Y!Other, Y!settings
  <2>2. Same(requests, requests')
    BY <1>1, <1>2, <2>1, SameAll
  <2> QED BY <2>1, <2>2, EntriesSame
<1>13. ASSUME NEW i \in DOMAIN requests, Y!Serve(i) PROVE Entries'
  <2>1. kind' = kind /\ form' = form /\ hasty' = hasty
    BY <1>13 DEF Y!Serve, Y!settings
  <2> QED BY <1>13, <2>1, SameServed, EntriesSame
<1>14. ASSUME NEW i \in DOMAIN requests, Y!Lose(i) PROVE Entries'
  <2>1. /\ kind' = kind /\ form' = form /\ (hasty => hasty')
        /\ requests' = [requests EXCEPT ![i].stage = "failed"]
    BY <1>14 DEF Y!Lose, Y!Answered
  <2>2. Same(requests, requests')
    BY <1>1, <2>1, SameOne
  <2> QED BY <2>1, <2>2, EntriesSame
<1>15. ASSUME NEW i \in DOMAIN requests, Y!Answer(i) PROVE Entries'
  <2> DEFINE r == requests[i]
             f == Y!Forget(i)
  <2>1. /\ kind' = kind /\ hasty' = hasty /\ requests' = f /\ form' = Y!FormAfter(r)
    BY <1>15 DEF Y!Answer
  <2>2. /\ f \in Seq(Asks)
        /\ \A n \in DOMAIN f : \/ n < i /\ n \in DOMAIN requests /\ f[n] = requests[n]
                               \/ n >= i /\ n + 1 \in DOMAIN requests /\ f[n] = requests[n + 1]
    BY <1>1, ForgetIndexed
  <2> HIDE DEF f
  <2>3. i \in Nat /\ \A n \in DOMAIN f : n \in Nat
    BY <1>1, <2>2
  <2>4. /\ \A n \in DOMAIN f : \E a \in DOMAIN requests : a # i /\ f[n] = requests[a]
        /\ \A m, n \in DOMAIN f : m # n => \E a, b \in DOMAIN requests : a # b /\ f[m] = requests[a] /\ f[n] = requests[b]
    BY <2>2, <2>3
  <2>5. kind = "tab" => form' = 0
    BY <2>1 DEF Entries, Y!FormAfter
  <2>6. kind = "holiday" => \A n \in DOMAIN f : f[n].op # "update"
    BY <2>4 DEF Entries
  <2>7. ASSUME kind = "holiday", ~hasty, NEW m \in DOMAIN f, NEW n \in DOMAIN f
        PROVE  /\ Creates(f[n]) => f[n].v = form'
               /\ Creates(f[m]) /\ Creates(f[n]) => m = n
    <3>1. Creates(f[m]) /\ Creates(f[n]) => m = n
      BY <2>4, <2>7 DEF Entries
    <3>2. ASSUME Creates(f[n]) PROVE f[n].v = form'
      <4>1. PICK a \in DOMAIN requests : a # i /\ f[n] = requests[a]
        BY <2>4
      <4>2. ~Creates(requests[i]) /\ f[n].v = form
        BY <2>7, <3>2, <4>1 DEF Entries
      <4> QED BY <2>1, <4>2 DEF Creates, Y!FormAfter
    <3> QED BY <3>1, <3>2
  <2> QED BY <2>1, <2>5, <2>6, <2>7 DEF Entries
<1> QED BY <1>3, <1>4, <1>6, <1>7, <1>8, <1>9, <1>10, <1>11, <1>12, <1>13, <1>14, <1>15 DEF Y!Next

(* An entry leaves the form with the answer that its row is made.          *)
LEMMA EntryKept ==
    RowsInv /\ Entries /\ [Y!Next]_Y!vars => Y!EntryStep
<1> SUFFICES ASSUME Entries, RowsInv, [Y!Next]_Y!vars, form' = 0, form # 0, ~hasty, requests' # requests
             PROVE  \E i \in DOMAIN requests :
                       requests[i].op = "create" /\ requests[i].v = form /\ requests[i].stage = "ok"
  BY DEF Y!EntryStep
<1>1. kind = "holiday"
  BY RowsAssumption DEF Entries, RowsInv, RowsShape, RowsAssumption
<1>2. ASSUME NEW i \in DOMAIN requests, Y!Answer(i)
      PROVE  requests[i].op = "create" /\ requests[i].v = form /\ requests[i].stage = "ok"
  <2>1. form' = Y!FormAfter(requests[i])
    BY <1>2 DEF Y!Answer
  <2>2. requests[i].op = "create" /\ requests[i].stage = "ok"
    BY <2>1 DEF Y!FormAfter
  <2> QED BY <1>1, <2>2 DEF Entries, Creates
<1>3. ~UNCHANGED Y!vars /\ Y!Next
  BY DEF Y!vars
<1>4. \A v : ~Y!Type(v)
  BY DEF Y!Type
<1>5. ~(Y!AddHoliday \/ Y!RunHolidayImport \/ Y!OnServerMessage \/ Y!Restored)
  BY DEF Y!AddHoliday, Y!RunHolidayImport, Y!OnServerMessage, Y!Restored, Y!Other, Y!settings
<1>6. \A v, id, feed : ~(\/ Y!Create(v) \/ Y!OtherCreates(v) \/ Y!Remove(id) \/ Y!Update(id, v)
                         \/ Y!OtherChanges(id, v) \/ Y!OtherImports(feed))
  BY DEF Y!Create, Y!OtherCreates, Y!Remove, Y!Update, Y!OtherChanges, Y!OtherImports, Y!Other, Y!settings
<1>7. \A i : ~Y!Serve(i) /\ ~Y!Lose(i)
  BY DEF Y!Serve, Y!Lose, Y!settings
<1> QED BY <1>2, <1>3, <1>4, <1>5, <1>6, <1>7 DEF Y!Next

----------------------------------------------------------------------------
(* Imports.                                                                *)

(* The rows that are duplicates of each other.                             *)
Alike(table, f) == {i \in Y!Ids : table[i] # None /\ Fold[table[i]] = f}

ByHand ==
    /\ byHand \in [{Fold[v] : v \in Values} -> Nat]
    /\ kind = "holiday" => \A f \in DOMAIN byHand : Cardinality(Alike(server, f)) <= 1 + byHand[f]

LEMMA AlikeSize ==
    ASSUME NEW table, NEW table2, NEW f, NEW k
    PROVE  /\ Cardinality(Alike(table, f)) \in Nat
           /\ Alike(table2, f) \subseteq Alike(table, f) =>
                 Cardinality(Alike(table2, f)) <= Cardinality(Alike(table, f))
           /\ Alike(table2, f) \subseteq Alike(table, f) \union {k} =>
                 Cardinality(Alike(table2, f)) <= Cardinality(Alike(table, f)) + 1
           /\ Alike(table, f) \subseteq {k} => Cardinality(Alike(table, f)) <= 1
<1>1. IsFiniteSet(Y!Ids)
  BY FS_Interval, RowsAssumption DEF RowsAssumption, Y!Ids
<1> DEFINE S == Alike(table, f)
           T == Alike(table2, f)
<1>2. IsFiniteSet(S) /\ IsFiniteSet(T)
  <2>1. S \in SUBSET Y!Ids /\ T \in SUBSET Y!Ids
    BY DEF Alike
  <2> QED BY <1>1, <2>1, FS_Subset
<1> HIDE DEF S, T
<1>3. Cardinality(S) \in Nat /\ Cardinality(T) \in Nat
  BY <1>2, FS_CardinalityType
<1>4. ASSUME T \subseteq S PROVE Cardinality(T) <= Cardinality(S)
  BY <1>2, <1>4, FS_Subset
<1>5. ASSUME T \subseteq S \union {k} PROVE Cardinality(T) <= Cardinality(S) + 1
  <2> DEFINE U == S \union {k}
  <2>1. IsFiniteSet(U) /\ Cardinality(U) = IF k \in S THEN Cardinality(S) ELSE Cardinality(S) + 1
    BY <1>2, FS_AddElement
  <2>2. T \in SUBSET U
    BY <1>5
  <2> HIDE DEF U
  <2>3. Cardinality(T) <= Cardinality(U)
    BY <2>1, <2>2, FS_Subset
  <2> QED BY <1>3, <2>1, <2>3
<1>6. ASSUME S \subseteq {k} PROVE Cardinality(S) <= 1
  <2>1. IsFiniteSet({k}) /\ Cardinality({k}) = 1
    BY FS_Singleton
  <2> QED BY <1>6, <2>1, FS_Subset
<1>7. /\ Cardinality(S) \in Nat
      /\ T \subseteq S => Cardinality(T) <= Cardinality(S)
      /\ T \subseteq S \union {k} => Cardinality(T) <= Cardinality(S) + 1
      /\ S \subseteq {k} => Cardinality(S) <= 1
  BY <1>3, <1>4, <1>5, <1>6
<1> QED BY <1>7 DEF S, T

(* Nothing is added.                                                       *)
LEMMA ByHandLess ==
    ASSUME ByHand, byHand' = byHand, kind' = kind,
           kind = "holiday" => \A i \in Y!Ids : server'[i] = server[i] \/ server'[i] = None
    PROVE  ByHand'
<1>1. ASSUME kind = "holiday", NEW f \in DOMAIN byHand
      PROVE  Cardinality(Alike(server', f)) <= 1 + byHand[f]
  <2>1. Alike(server', f) \subseteq Alike(server, f)
    BY <1>1 DEF Alike
  <2>2. /\ Cardinality(Alike(server, f)) \in Nat /\ Cardinality(Alike(server', f)) \in Nat
        /\ Cardinality(Alike(server', f)) <= Cardinality(Alike(server, f))
    BY <2>1, AlikeSize
  <2>3. Cardinality(Alike(server, f)) <= 1 + byHand[f] /\ byHand[f] \in Nat
    BY <1>1 DEF ByHand
  <2> QED BY <2>2, <2>3
<1>2. (\A f \in DOMAIN byHand : Cardinality(Alike(server, f)) <= 1 + byHand[f])'
      <=> \A f \in DOMAIN byHand : Cardinality(Alike(server', f)) <= 1 + byHand[f]
  BY DEF Alike
<1> QED BY <1>1, <1>2 DEF ByHand

(* A row is added by hand.                                                 *)
LEMMA ByHandMore ==
    ASSUME ByHand, RowsShape, NEW k \in Y!Ids, NEW v \in Values, kind' = kind,
           server' = [server EXCEPT ![k] = v], byHand' = [byHand EXCEPT ![Fold[v]] = @ + 1]
    PROVE  ByHand'
<1>1. /\ byHand \in [{Fold[w] : w \in Values} -> Nat] /\ Fold[v] \in DOMAIN byHand
      /\ server \in Y!Rows
  BY DEF ByHand, RowsShape
<1>2. /\ byHand' \in [{Fold[w] : w \in Values} -> Nat] /\ DOMAIN byHand' = DOMAIN byHand
      /\ byHand'[Fold[v]] = byHand[Fold[v]] + 1
      /\ \A f \in DOMAIN byHand : f # Fold[v] => byHand'[f] = byHand[f]
  BY <1>1
<1>3. /\ server'[k] = v /\ \A i \in Y!Ids : i # k => server'[i] = server[i]
  BY <1>1 DEF Y!Rows
<1>4. ASSUME kind = "holiday", NEW f \in DOMAIN byHand
      PROVE  Cardinality(Alike(server', f)) <= 1 + byHand'[f]
  <2>1. /\ Alike(server', f) \subseteq Alike(server, f) \union {k}
        /\ f # Fold[v] => Alike(server', f) \subseteq Alike(server, f)
    BY <1>3 DEF Alike
  <2>2. /\ Cardinality(Alike(server, f)) \in Nat /\ Cardinality(Alike(server', f)) \in Nat
        /\ Cardinality(Alike(server', f)) <= Cardinality(Alike(server, f)) + 1
        /\ f # Fold[v] => Cardinality(Alike(server', f)) <= Cardinality(Alike(server, f))
    BY <2>1, AlikeSize
  <2>3. Cardinality(Alike(server, f)) <= 1 + byHand[f] /\ byHand[f] \in Nat
    BY <1>1, <1>4 DEF ByHand
  <2> QED BY <1>2, <2>2, <2>3
<1>5. (\A f \in DOMAIN byHand : Cardinality(Alike(server, f)) <= 1 + byHand[f])'
      <=> \A f \in DOMAIN byHand' : Cardinality(Alike(server', f)) <= 1 + byHand'[f]
  BY DEF Alike
<1> QED BY <1>2, <1>4, <1>5 DEF ByHand

(* A feed is imported.                                                     *)
LEMMA ByHandImported ==
    ASSUME ByHand, RowsShape, kind' = kind, NEW feed \in Feeds,
           Y!Imported(Y!FreshEvents(feed, server))
    PROVE  ByHand'
<1> DEFINE f == Y!FreshEvents(feed, server)
<1>0. feed \in Seq(Values \union {0})
  BY RowsAssumption DEF RowsAssumption
<1>1. Unlike(server, f)
  BY <1>0, FreshUnlike
<1>2. Y!Imported(f)
  OBVIOUS
<1>3. byHand' = byHand
  BY DEF Y!Imported
<1> HIDE DEF f
<1>4. f \in Seq(Values)
  BY <1>1 DEF Unlike
<1>5. /\ \A id \in Y!Ids : (~\E b \in Y!Batch(f) : b[1] = id) => server'[id] = server[id]
      /\ \A id \in Y!Ids : (\E b \in Y!Batch(f) : b[1] = id) =>
                 \E n \in DOMAIN f : id = Y!NextId + n - 1 /\ server'[id] = f[n]
  BY <1>2, <1>4, ImportedBatch
<1>6. \A id \in Y!Ids : server'[id] = server[id]
                        \/ \E n \in DOMAIN f : id = Y!NextId + n - 1 /\ server'[id] = f[n]
  BY <1>5
<1>7. ASSUME kind = "holiday", NEW g \in DOMAIN byHand
      PROVE  Cardinality(Alike(server', g)) <= 1 + byHand[g]
  <2>1. Cardinality(Alike(server, g)) <= 1 + byHand[g] /\ byHand[g] \in Nat
    BY <1>7 DEF ByHand
  <2>2. CASE \E n \in DOMAIN f : Fold[f[n]] = g
    <3>1. PICK n \in DOMAIN f : Fold[f[n]] = g
      BY <2>2
    <3>2. Alike(server, g) = {}
      BY <1>1, <3>1 DEF Alike, Unlike
    <3>3. \A id \in Alike(server', g) : id = Y!NextId + n - 1
      <4> TAKE id \in Alike(server', g)
      <4>1. id \in Y!Ids /\ server'[id] # None /\ Fold[server'[id]] = g /\ id \notin Alike(server, g)
        BY <3>2 DEF Alike
      <4>2. server'[id] # server[id]
        BY <4>1 DEF Alike
      <4>3. PICK m \in DOMAIN f : id = Y!NextId + m - 1 /\ server'[id] = f[m]
        BY <1>6, <4>1, <4>2
      <4>4. m = n
        BY <1>1, <3>1, <4>1, <4>3 DEF Unlike
      <4> QED BY <4>3, <4>4
    <3>4. Cardinality(Alike(server', g)) <= 1 /\ Cardinality(Alike(server', g)) \in Nat
      BY <3>3, AlikeSize
    <3> QED BY <2>1, <3>4
  <2>3. CASE ~\E n \in DOMAIN f : Fold[f[n]] = g
    <3>1. Alike(server', g) \subseteq Alike(server, g)
      BY <1>6, <2>3 DEF Alike
    <3>2. /\ Cardinality(Alike(server, g)) \in Nat /\ Cardinality(Alike(server', g)) \in Nat
          /\ Cardinality(Alike(server', g)) <= Cardinality(Alike(server, g))
      BY <3>1, AlikeSize
    <3> QED BY <2>1, <3>2
  <2> QED BY <2>2, <2>3
<1>8. (\A g \in DOMAIN byHand : Cardinality(Alike(server, g)) <= 1 + byHand[g])'
      <=> \A g \in DOMAIN byHand' : Cardinality(Alike(server', g)) <= 1 + byHand'[g]
  BY DEF Alike
<1> QED BY <1>3, <1>7, <1>8 DEF ByHand

LEMMA ByHandKept ==
    RowsInv /\ Entries /\ ByHand /\ [Y!Next]_Y!vars => ByHand'
<1> SUFFICES ASSUME RowsInv, Entries, ByHand, [Y!Next]_Y!vars PROVE ByHand'
  OBVIOUS
<1>1. RowsShape /\ server \in Y!Rows /\ kind \in {"holiday", "tab"}
  BY ShapeFacts, RowsAssumption DEF RowsInv, RowsShape, RowsAssumption
<1>2. ASSUME server' = server, byHand' = byHand, kind' = kind PROVE ByHand'
  BY <1>2, ByHandLess
<1>3. CASE UNCHANGED Y!vars
  BY <1>2, <1>3 DEF Y!vars
<1>4. ASSUME NEW v, NEW id, Y!Type(v) \/ Y!Create(v) \/ Y!Remove(id) \/ Y!Update(id, v) PROVE ByHand'
  BY <1>2, <1>4 DEF Y!Type, Y!Create, Y!Remove, Y!Update
<1>5. CASE Y!AddHoliday \/ Y!RunHolidayImport \/ Y!OnServerMessage
  BY <1>2, <1>5 DEF Y!AddHoliday, Y!RunHolidayImport, Y!OnServerMessage
<1>6. ASSUME NEW i \in DOMAIN requests, Y!Answer(i) \/ Y!Lose(i) PROVE ByHand'
  BY <1>2, <1>6 DEF Y!Answer, Y!Lose
<1>7. ASSUME NEW v \in Theirs, Y!OtherCreates(v) PROVE ByHand'
  <2>1. /\ Y!NextId <= MaxRow /\ server' = [server EXCEPT ![Y!NextId] = v]
        /\ byHand' = [byHand EXCEPT ![Fold[v]] = @ + 1] /\ kind' = kind
    BY <1>7 DEF Y!OtherCreates, Y!Added, Y!Other
  <2>2. Y!NextId \in Y!Ids /\ v \in Values
    BY <1>1, <2>1, NextIdIsFree, RowsAssumption DEF RowsAssumption, Y!Ids
  <2> QED BY <1>1, <2>1, <2>2, ByHandMore
<1>8. ASSUME NEW id \in Y!Ids, NEW v \in Theirs \union {None}, Y!OtherChanges(id, v) PROVE ByHand'
  <2>1. /\ server' = [server EXCEPT ![id] = v] /\ byHand' = byHand /\ kind' = kind
        /\ v # None => kind = "tab"
    BY <1>8 DEF Y!OtherChanges, Y!Other
  <2>2. kind = "holiday" => \A i \in Y!Ids : server'[i] = server[i] \/ server'[i] = None
    BY <1>1, <2>1 DEF Y!Rows
  <2> QED BY <2>1, <2>2, ByHandLess
<1>9. ASSUME NEW feed \in Feeds, Y!OtherImports(feed) PROVE ByHand'
  <2>1. Y!Imported(Y!FreshEvents(feed, server)) /\ kind' = kind
    BY <1>9 DEF Y!OtherImports, Y!Other
  <2> QED BY <1>1, <2>1, ByHandImported
<1>10. CASE Y!Restored
  <2>1. /\ server' = [i \in Y!Ids |-> IF i = 1 THEN 3 ELSE None] /\ kind' = kind
        /\ byHand' = [f \in DOMAIN byHand |-> IF f = Fold[3] THEN byHand[f] + 1 ELSE byHand[f]]
    BY <1>10 DEF Y!Restored, Y!Other
  <2>2. /\ byHand' \in [{Fold[v] : v \in Values} -> Nat] /\ DOMAIN byHand' = DOMAIN byHand
        /\ \A f \in DOMAIN byHand : byHand'[f] \in Nat
    BY <2>1 DEF ByHand
  <2>3. ASSUME NEW f \in DOMAIN byHand PROVE Cardinality(Alike(server', f)) <= 1 + byHand'[f]
    <3>1. Alike(server', f) \subseteq {1}
      BY <2>1 DEF Alike
    <3>2. Cardinality(Alike(server', f)) <= 1 /\ Cardinality(Alike(server', f)) \in Nat
      BY <3>1, AlikeSize
    <3> QED BY <2>2, <3>2
  <2>4. (\A f \in DOMAIN byHand : Cardinality(Alike(server, f)) <= 1 + byHand[f])'
        <=> \A f \in DOMAIN byHand' : Cardinality(Alike(server', f)) <= 1 + byHand'[f]
    BY DEF Alike
  <2> QED BY <2>2, <2>3, <2>4 DEF ByHand
<1>11. ASSUME NEW i \in DOMAIN requests, Y!Serve(i) PROVE ByHand'
  <2>1. kind' = kind
    BY <1>11 DEF Y!Serve
  <2>2. CASE Y!ServeCreate(i)
    <3>1. /\ Y!NextId <= MaxRow /\ server' = [server EXCEPT ![Y!NextId] = requests[i].v]
          /\ byHand' = [byHand EXCEPT ![Fold[requests[i].v]] = @ + 1] /\ requests[i].op = "create"
      BY <2>2 DEF Y!ServeCreate, Y!Added
    <3>2. Y!NextId \in Y!Ids
      BY <1>1, <3>1, NextIdIsFree DEF Y!Ids
    <3>3. requests[i].v \in Values
      <4>1. requests[i] \in Asks
        BY ShapeFacts
      <4> QED BY <3>1, <4>1 DEF Asks
    <3> QED BY <1>1, <2>1, <3>1, <3>2, <3>3, ByHandMore
  <2>3. CASE Y!ServeChange(i)
    <3>1. /\ byHand' = byHand /\ requests[i].op \in {"update", "remove"}
          /\ \/ server' = server
             \/ server' = [server EXCEPT ![requests[i].id] = IF requests[i].op = "update" THEN requests[i].v ELSE None]
      BY <2>3 DEF Y!ServeChange
    <3>2. kind = "holiday" => requests[i].op # "update"
      BY DEF Entries
    <3>3. kind = "holiday" => server' = server \/ server' = [server EXCEPT ![requests[i].id] = None]
      BY <3>1, <3>2
    <3>4. kind = "holiday" => \A j \in Y!Ids : server'[j] = server[j] \/ server'[j] = None
      BY <1>1, <3>3 DEF Y!Rows
    <3> QED BY <2>1, <3>1, <3>4, ByHandLess
  <2>4. CASE Y!ServeFetch(i) \/ Y!RefuseImport(i)
    BY <1>2, <2>1, <2>4 DEF Y!ServeFetch, Y!RefuseImport
  <2>5. ASSUME NEW feed \in Feeds, Y!ServeImport(i, feed) PROVE ByHand'
    <3>1. Y!Imported(Y!FreshEvents(feed, server))
      BY <2>5 DEF Y!ServeImport
    <3> QED BY <1>1, <2>1, <3>1, ByHandImported
  <2> QED BY <1>11, <2>2, <2>3, <2>4, <2>5 DEF Y!Serve
<1> QED BY <1>3, <1>4, <1>5, <1>6, <1>7, <1>8, <1>9, <1>10, <1>11 DEF Y!Next

LEMMA RowsStartWell == Y!Init => RowsInv /\ Entries /\ ByHand
<1> SUFFICES ASSUME Y!Init PROVE RowsInv /\ Entries /\ ByHand
  OBVIOUS
<1>1. /\ server = [i \in Y!Ids |-> IF i = 1 THEN 1 ELSE None] /\ form = 0
      /\ byHand = [f \in {Fold[v] : v \in Values} |-> IF f = Fold[1] THEN 1 ELSE 0]
      /\ requests = <<[op |-> "fetch", id |-> 0, v |-> 0, named |-> FALSE, stage |-> "sent",
                       rows |-> <<>>, mark |-> ""]>>
  BY DEF Y!Init
<1>2. DOMAIN requests = {1} /\ requests[1].op = "fetch"
  <2> DEFINE r == [op |-> "fetch", id |-> 0, v |-> 0, named |-> FALSE, stage |-> "sent",
                   rows |-> <<>>, mark |-> ""]
  <2>1. requests = <<r>> /\ r.op = "fetch"
    BY <1>1
  <2> HIDE DEF r
  <2> QED BY <2>1
<1>3. Entries
  BY <1>1, <1>2 DEF Entries, Creates
<1>4. \A f \in DOMAIN byHand : Cardinality(Alike(server, f)) <= 1 + byHand[f]
  <2> TAKE f \in DOMAIN byHand
  <2>1. Alike(server, f) \subseteq {1} /\ byHand[f] \in Nat
    BY <1>1 DEF Alike
  <2>2. Cardinality(Alike(server, f)) <= 1 /\ Cardinality(Alike(server, f)) \in Nat
    BY <2>1, AlikeSize
  <2> QED BY <2>1, <2>2
<1>5. byHand \in [{Fold[v] : v \in Values} -> Nat]
  BY <1>1
<1> QED BY <1>3, <1>4, <1>5, RowsStart DEF ByHand

LEMMA Idempotent == ByHand => Y!ImportIdempotent
<1> SUFFICES ASSUME ByHand, kind = "holiday", NEW f \in DOMAIN byHand
             PROVE  Y!Cardinality({i \in Y!Ids : server[i] # None /\ Fold[server[i]] = f}) <= 1 + byHand[f]
  BY DEF Y!ImportIdempotent
<1>0. \A S : Y!Cardinality(S) = Cardinality(S)
  BY DEF Y!Cardinality, Cardinality
<1>1. {i \in Y!Ids : server[i] # None /\ Fold[server[i]] = f} = Alike(server, f)
  BY DEF Alike
<1>2. Cardinality(Alike(server, f)) <= 1 + byHand[f]
  BY DEF ByHand
<1> QED BY <1>0, <1>1, <1>2

(* Imports, one tab's, another's or the same feed's again, add no row the  *)
(* calendar has; with nothing on its way the tab shows what the server     *)
(* holds (entityStore.svelte.ts:106-127, HolidayService.ts:59-94), for     *)
(* any feeds, contents and numbers of rows, writes and losses.             *)
THEOREM RowsAgree ==
    Y!Spec => [](Y!QuietShowsServer /\ Y!ImportIdempotent) /\ [][Y!EntryStep]_Y!vars
<1> DEFINE Inv == RowsInv /\ Entries /\ ByHand
<1>1. Y!Init => Inv
  BY RowsStartWell
<1>2. Inv /\ [Y!Next]_Y!vars => Inv'
  BY RowsKept, EntriesKept, ByHandKept
<1>3. Inv => Y!QuietShowsServer /\ Y!ImportIdempotent
  BY RowsShown, Idempotent
<1>4. Inv /\ [Y!Next]_Y!vars => [Y!EntryStep]_Y!vars
  BY EntryKept
<1> HIDE DEF Inv
<1> QED BY <1>1, <1>2, <1>3, <1>4, PTL DEF Y!Spec

----------------------------------------------------------------------------
(* The import form.                                                        *)

Headers     == UNION {Columns[f] : f \in Files}
Stages    == {"sent", "done", "refused", "refetch"}
Restores == [format: Formats, source: Files]
Imports  == [format: Formats, source: Files, asked: Restores \union {None},
              mapping: SUBSET Headers, mine: BOOLEAN, stage: Stages]

FormShape ==
    /\ format \in Formats /\ source \in Files \union {None} /\ reading \subseteq Files
    /\ header \in Files \union {None} /\ mapping \subseteq Headers
    /\ asked \in Restores \union {None}
    /\ sent \subseteq Imports

(* The question that is open is about the format that is shown, a          *)
(* restoring one, whatever file has been read under it.                    *)
QuestionHolds == asked # None => asked.format = format /\ format \in Restoring

FormInv == FormShape /\ QuestionHolds /\ I!MappingFits /\ I!RestoreAgreed

(* A mapping that is sent, and the agreement a restore was sent with, are  *)
(* of the request; its stage is not.                                       *)
Fits(s)   == s.mapping \subseteq Columns[s.source]
Agreed(s) == s.format \in Restoring => s.asked = [format |-> s.format, source |-> s.source]

LEMMA StageKeeps ==
    ASSUME NEW s \in Imports, NEW t \in Stages
    PROVE  /\ [s EXCEPT !.stage = t] \in Imports
           /\ Fits(s) => Fits([s EXCEPT !.stage = t])
           /\ Agreed(s) => Agreed([s EXCEPT !.stage = t])
BY DEF Imports, Fits, Agreed

LEMMA OwnerKeeps ==
    ASSUME NEW s \in Imports
    PROVE  /\ [s EXCEPT !.mine = FALSE] \in Imports
           /\ [s EXCEPT !.mine = FALSE].stage = s.stage
           /\ Fits(s) => Fits([s EXCEPT !.mine = FALSE])
           /\ Agreed(s) => Agreed([s EXCEPT !.mine = FALSE])
BY DEF Imports, Fits, Agreed

LEMMA FormInit == I!Init => FormInv
BY ImportAssumption DEF ImportAssumption, I!Init, FormInv, FormShape, QuestionHolds, I!MappingFits, I!RestoreAgreed

(* What the requests must satisfy is kept when none is added.              *)
LEMMA ImportsKept ==
    ASSUME FormInv, sent' \subseteq Imports, \A s \in sent' : Fits(s) /\ Agreed(s),
           format' \in Formats, source' \in Files \union {None}, reading' \subseteq Files,
           header' \in Files \union {None}, mapping' \subseteq Headers,
           asked' \in Restores \union {None},
           asked' # None => asked'.format = format' /\ format' \in Restoring,
           format' = "csv" /\ source' # None => header' = source' /\ mapping' \subseteq Columns[header']
    PROVE  FormInv'
BY DEF FormInv, FormShape, QuestionHolds, I!MappingFits, I!RestoreAgreed, Fits, Agreed

(* The requests after an action on the form.                               *)
LEMMA OldImports == FormInv => \A s \in sent : s \in Imports /\ Fits(s) /\ Agreed(s)
BY DEF FormInv, FormShape, I!MappingFits, I!RestoreAgreed, Fits, Agreed

LEMMA FormSteps ==
    ASSUME FormInv,
           \/ \E f \in Formats : I!HandleImportFormatChange(f)
           \/ \E f \in Files \union {None} : I!HandleImportFile(f)
           \/ \E f \in Files : I!FileRead(f)
           \/ \E c \in Headers : I!SetCsvMappingField(c)
    PROVE  FormInv'
<1>. USE OldImports DEF FormInv, FormShape
<1>1. ASSUME NEW f \in Formats, I!HandleImportFormatChange(f) PROVE FormInv'
  BY <1>1, ImportsKept DEF I!HandleImportFormatChange, I!Act, I!ResetImportState, I!SourceOnReset, I!world
<1>2. ASSUME NEW f \in Files \union {None}, I!HandleImportFile(f) PROVE FormInv'
  BY <1>2, ImportsKept DEF I!HandleImportFile, I!Act, I!ResetImportState, I!SourceOnReset, I!world
<1>3. ASSUME NEW f \in Files, I!FileRead(f) PROVE FormInv'
  <2>1. /\ format' = format /\ asked' = asked /\ sent' = sent /\ source' = f
        /\ reading' = reading \ {f}
    BY <1>3 DEF I!FileRead, I!world
  <2>2. CASE format = "csv"
    <3>1. header' = f /\ mapping' \subseteq Columns[f]
      BY <1>3, <2>2 DEF I!FileRead
    <3>2. mapping' \subseteq Headers
      BY <3>1 DEF Headers
    <3>. QED
      BY <2>1, <2>2, <3>1, <3>2, ImportsKept DEF QuestionHolds
  <2>3. CASE format # "csv"
    BY <1>3, <2>1, <2>3, ImportsKept DEF I!FileRead, QuestionHolds
  <2>. QED
    BY <2>2, <2>3
<1>4. ASSUME NEW c \in Headers, I!SetCsvMappingField(c) PROVE FormInv'
  <2>1. /\ mapping' = mapping \union {c} /\ c \in Columns[header]
        /\ UNCHANGED <<format, source, header, reading, sent>> /\ asked = None /\ asked' = asked
    BY <1>4 DEF I!SetCsvMappingField, I!Act, I!world
  <2>. QED
    BY <2>1, ImportsKept DEF I!MappingFits
<1>. QED
  BY <1>1, <1>2, <1>3, <1>4

(* A request that is sent fits its document, and if it restores it is the  *)
(* one that was agreed to.                                                 *)
LEMMA ImportFits ==
    ASSUME FormInv, NEW confirmed \in Files,
           \/ confirmed = source /\ asked = None /\ format \notin Restoring
           \/ asked # None /\ confirmed = asked.source
    PROVE  I!Request(confirmed) \in Imports /\ Fits(I!Request(confirmed)) /\ Agreed(I!Request(confirmed))
<1>. DEFINE r == I!Request(confirmed)
<1>1. /\ r.format = format /\ r.source = confirmed /\ r.asked = asked
      /\ r.mapping = IF format = "csv" THEN mapping ELSE {}
  BY DEF I!Request, I!SourceSent
<1>2. r \in Imports
  BY DEF I!Request, I!SourceSent, Imports, Stages, FormInv, FormShape
<1>3. Fits(r)
  <2>1. CASE format = "csv"
    <3>1. confirmed = source /\ source # None
      BY <2>1, ImportAssumption DEF ImportAssumption, FormInv, QuestionHolds, FormShape
    <3>. QED
      BY <1>1, <2>1, <3>1 DEF Fits, FormInv, I!MappingFits
  <2>. QED
    BY <1>1, <2>1 DEF Fits
<1>4. Agreed(r)
  <2>1. CASE asked # None
    <3>1. asked \in Restores /\ asked.format = format
      BY <2>1 DEF FormInv, FormShape, QuestionHolds
    <3>2. asked = [format |-> format, source |-> asked.source]
      BY <3>1 DEF Restores
    <3>. QED
      BY <1>1, <2>1, <3>2 DEF Agreed
  <2>. QED
    BY <1>1, <2>1 DEF Agreed
<1>. QED
  BY <1>2, <1>3, <1>4

LEMMA RunSteps ==
    ASSUME FormInv,
           I!RunImport \/ (\E ok \in BOOLEAN : I!ResolveConfirm(ok)) \/ I!Reopen
    PROVE  FormInv'
<1>. USE OldImports DEF FormInv, FormShape
<1>1. CASE I!RunImport
  <2>1. /\ UNCHANGED <<format, source, header, mapping, reading>> /\ asked = None /\ source \in Files
    BY <1>1 DEF I!RunImport, I!Act
  <2>2. CASE I!Asks(format)
    <3>1. asked' = [format |-> format, source |-> source] /\ sent' = sent
      BY <1>1, <2>2 DEF I!RunImport, I!world
    <3>2. asked' \in Restores /\ asked'.format = format
      BY <2>1, <3>1 DEF Restores
    <3>. QED
      BY <2>1, <2>2, <3>1, <3>2, ImportsKept DEF I!Asks, I!MappingFits
  <2>3. CASE ~I!Asks(format)
    <3>1. asked' = asked /\ sent' = sent \union {I!Request(source)}
      BY <1>1, <2>3 DEF I!RunImport, I!Send
    <3>2. I!Request(source) \in Imports /\ Fits(I!Request(source)) /\ Agreed(I!Request(source))
      BY <2>1, <2>3, ImportFits DEF I!Asks
    <3>. QED
      BY <2>1, <3>1, <3>2, ImportsKept DEF I!MappingFits
  <2>. QED
    BY <2>2, <2>3
<1>2. ASSUME NEW ok \in BOOLEAN, I!ResolveConfirm(ok) PROVE FormInv'
  <2>1. /\ UNCHANGED <<format, source, header, mapping, reading>> /\ asked # None /\ asked' = None
    BY <1>2 DEF I!ResolveConfirm, I!form
  <2>2. asked.source \in Files
    BY <2>1 DEF Restores
  <2>3. CASE ok
    <3>1. sent' = sent \union {I!Request(asked.source)}
      BY <1>2, <2>3 DEF I!ResolveConfirm, I!Send
    <3>2. LET r == I!Request(asked.source) IN r \in Imports /\ Fits(r) /\ Agreed(r)
      BY <2>1, <2>2, ImportFits
    <3>. QED
      BY <2>1, <3>1, <3>2, ImportsKept DEF I!MappingFits
  <2>4. CASE ~ok
    BY <1>2, <2>1, <2>4, ImportsKept DEF I!ResolveConfirm, I!world, I!MappingFits
  <2>. QED
    BY <2>3, <2>4
<1>3. CASE I!Reopen
  <2>1. \A s \in sent' : s \in Imports /\ Fits(s) /\ Agreed(s)
    BY <1>3, OwnerKeeps DEF I!Reopen
  <2>2. /\ format' = "todoist-csv" /\ source' = None /\ header' = None /\ mapping' = {}
        /\ reading' = {} /\ asked = None /\ asked' = None
    BY <1>3 DEF I!Reopen, I!ResetImportState, I!SourceOnReset, I!Act
  <2>. QED
    BY <2>1, <2>2, ImportAssumption, ImportsKept DEF ImportAssumption
<1>. QED
  BY <1>1, <1>2, <1>3

LEMMA AnswerSteps ==
    ASSUME FormInv,
           \/ \E s \in sent : I!Serve(s) \/ I!Failed(s) \/ I!Answered(s)
           \/ I!OnTagRenamed \/ I!FetchServed \/ \E ok \in BOOLEAN : I!FetchOver(ok)
    PROVE  FormInv'
<1>. USE OldImports DEF FormInv, FormShape
<1>1. UNCHANGED <<format, source, header, mapping, reading, asked>>
  BY DEF I!Serve, I!Failed, I!Answered, I!OnTagRenamed, I!FetchServed, I!FetchOver, I!form
<1>2. \A s \in sent' : s \in Imports /\ Fits(s) /\ Agreed(s)
  <2>1. ASSUME NEW s \in sent, NEW t \in Stages, I!At(s, t)
        PROVE  \A r \in sent' : r \in Imports /\ Fits(r) /\ Agreed(r)
    BY <2>1, StageKeeps DEF I!At
  <2>2. ASSUME NEW s \in sent, I!Serve(s) \/ I!Failed(s) \/ I!Answered(s)
        PROVE  sent' \subseteq sent \/ \E t \in Stages : I!At(s, t)
    BY <2>2 DEF I!Serve, I!Failed, I!Answered, Stages
  <2>3. ASSUME I!OnTagRenamed \/ I!FetchServed \/ \E ok \in BOOLEAN : I!FetchOver(ok)
        PROVE  sent' \subseteq sent
    BY <2>3 DEF I!OnTagRenamed, I!FetchServed, I!FetchOver
  <2>. QED
    BY <2>1, <2>2, <2>3
<1>. QED
  BY <1>1, <1>2, ImportsKept DEF QuestionHolds, I!MappingFits

LEMMA FormNext ==
    FormInv /\ [I!Next]_I!vars => FormInv'
<1>. SUFFICES ASSUME FormInv, [I!Next]_I!vars PROVE FormInv'
  OBVIOUS
<1>1. CASE UNCHANGED I!vars
  BY <1>1 DEF I!vars, FormInv, FormShape, QuestionHolds, I!MappingFits, I!RestoreAgreed
<1>2. CASE I!Next
  BY <1>2, FormSteps, RunSteps, AnswerSteps DEF I!Next, Headers
<1>. QED
  BY <1>1, <1>2

(* No mapping is ever applied to another file than the one whose header it *)
(* was made for (SettingsModal.svelte:543-559), however files are read.    *)
THEOREM MappingsFit ==
    I!Spec => []I!MappingFits
<1>1. I!Init => FormInv
  BY FormInit
<1>2. FormInv /\ [I!Next]_I!vars => FormInv'
  BY FormNext
<1>3. FormInv => I!MappingFits
  BY DEF FormInv
<1>. QED
  BY <1>1, <1>2, <1>3, PTL DEF I!Spec

(* Nothing replaces the user's data but the document whose replacing was   *)
(* agreed to (SettingsModal.svelte:585-601).                               *)
THEOREM RestoresAgreed ==
    I!Spec => []I!RestoreAgreed
<1>1. I!Init => FormInv
  BY FormInit
<1>2. FormInv /\ [I!Next]_I!vars => FormInv'
  BY FormNext
<1>3. FormInv => I!RestoreAgreed
  BY DEF FormInv
<1>. QED
  BY <1>1, <1>2, <1>3, PTL DEF I!Spec

----------------------------------------------------------------------------
(* What is shown.                                                          *)
Versions == fetch \in Nat \union {None, I!Begun} /\ server \in Nat /\ shown \in Nat

Taken == \E s \in sent : s.stage = "done"

(* What is not shown yet is on its way; a fetch older than the server's    *)
(* data has an answer of an import to come.                                *)
OnItsWay ==
    /\ ~gap /\ shown # server => Taken \/ fetch = I!Begun \/ fetch = server
    /\ ~gap /\ fetch \notin {None, I!Begun, server} => Taken

SeenInv == sent \subseteq Imports /\ Versions /\ OnItsWay

LEMMA SeenNext ==
    FormInv /\ SeenInv /\ [I!Next]_I!vars => FormInv' /\ SeenInv'
<1>. SUFFICES ASSUME FormInv, SeenInv, [I!Next]_I!vars PROVE FormInv' /\ SeenInv'
  OBVIOUS
<1>1. FormInv'
  BY FormNext
<1>2. sent' \subseteq Imports
  BY <1>1 DEF FormInv, FormShape
<1>. USE DEF SeenInv, Versions, OnItsWay, Taken, I!Begun
<1>. SUFFICES Versions' /\ OnItsWay'
  BY <1>1, <1>2
<1>3. ASSUME sent \subseteq sent', UNCHANGED <<server, shown, fetch, gap>>
      PROVE  Versions' /\ OnItsWay'
  BY <1>3
<1>4. ASSUME NEW f, I!HandleImportFormatChange(f) \/ I!HandleImportFile(f) \/ I!FileRead(f) \/ I!SetCsvMappingField(f)
      PROVE  Versions' /\ OnItsWay'
  BY <1>3, <1>4 DEF I!HandleImportFormatChange, I!HandleImportFile, I!FileRead, I!SetCsvMappingField, I!world
<1>5. CASE I!RunImport \/ \E ok \in BOOLEAN : I!ResolveConfirm(ok)
  BY <1>3, <1>5 DEF I!RunImport, I!ResolveConfirm, I!Send, I!world
<1>6. CASE I!Reopen
  <2>1. UNCHANGED <<server, shown, fetch, gap>> /\ sent' = {[s EXCEPT !.mine = FALSE] : s \in sent}
    BY <1>6 DEF I!Reopen
  <2>2. Taken => Taken'
    BY <2>1, OwnerKeeps
  <2>. QED
    BY <2>1, <2>2
<1>7. ASSUME NEW s \in sent, I!Serve(s) PROVE Versions' /\ OnItsWay'
  <2>1. UNCHANGED <<shown, fetch, gap>> /\ s.stage = "sent" /\ s \in Imports
    BY <1>7 DEF I!Serve
  <2>2. CASE I!At(s, "done") /\ server' = server + 1
    <3>1. [s EXCEPT !.stage = "done"].stage = "done" /\ [s EXCEPT !.stage = "done"] \in sent'
      BY <2>1, <2>2 DEF I!At, Imports
    <3>2. Taken'
      BY <3>1
    <3>3. Versions'
      BY <2>1, <2>2
    <3>. QED
      BY <2>1, <3>2, <3>3
  <2>3. CASE I!At(s, "refused") /\ server' = server
    <3>1. Taken => Taken'
      BY <2>1, <2>3 DEF I!At
    <3>. QED
      BY <2>1, <2>3, <3>1
  <2>. QED
    BY <1>7, <2>2, <2>3 DEF I!Serve
<1>8. ASSUME NEW s \in sent, I!Failed(s) PROVE Versions' /\ OnItsWay'
  BY <1>8 DEF I!Failed
<1>9. ASSUME NEW s \in sent, I!Answered(s) PROVE Versions' /\ OnItsWay'
  BY <1>9, ImportAssumption DEF I!Answered, I!Refetches, ImportAssumption
<1>10. CASE I!OnTagRenamed \/ I!FetchServed
  BY <1>10, ImportAssumption DEF I!OnTagRenamed, I!FetchServed, ImportAssumption
<1>11. ASSUME NEW ok \in BOOLEAN, I!FetchOver(ok) PROVE Versions' /\ OnItsWay'
  <2>1. sent' = {s \in sent : s.stage # "refetch"} /\ server' = server /\ fetch' = None /\ fetch # None
    BY <1>11 DEF I!FetchOver
  <2>2. Taken => Taken'
    BY <2>1
  <2>3. CASE ok
    <3>1. shown' = fetch /\ gap' = gap /\ fetch # I!Begun
      BY <1>11, <2>3 DEF I!FetchOver
    <3>2. fetch \in Nat /\ (gap \/ fetch = server \/ Taken)
      BY <2>1, <3>1
    <3>3. Versions'
      BY <2>1, <3>1, <3>2
    <3>4. OnItsWay'
      BY <2>1, <2>2, <3>1, <3>2
    <3>. QED
      BY <3>3, <3>4
  <2>4. CASE ~ok
    BY <1>11, <2>1, <2>4 DEF I!FetchOver
  <2>. QED
    BY <2>3, <2>4
<1>12. CASE UNCHANGED I!vars
  BY <1>3, <1>12 DEF I!vars
<1>. QED
  BY <1>4, <1>5, <1>6, <1>7, <1>8, <1>9, <1>10, <1>11, <1>12 DEF I!Next

LEMMA SeenInit == I!Init => SeenInv
BY DEF I!Init, SeenInv, Versions, OnItsWay, Taken

LEMMA Seen == SeenInv => I!ImportSeen
BY ImportAssumption DEF SeenInv, Versions, OnItsWay, Taken, I!ImportSeen, I!Begun, ImportAssumption

(* Unless an answer is lost, what was imported is on screen once all is    *)
(* quiet, also when the settings were closed over it                       *)
(* (SettingsModal.svelte:602-605).                                         *)
THEOREM ImportsSeen ==
    I!Spec => []I!ImportSeen
<1>1. I!Init => FormInv /\ SeenInv
  BY FormInit, SeenInit
<1>2. FormInv /\ SeenInv /\ [I!Next]_I!vars => FormInv' /\ SeenInv'
  BY SeenNext
<1>3. FormInv /\ SeenInv => I!ImportSeen
  BY Seen
<1>. QED
  BY <1>1, <1>2, <1>3, PTL DEF I!Spec

----------------------------------------------------------------------------
(* The note of a day.                                                      *)
NoteOf(v) == IF v = 0 THEN None ELSE v
NoteValues   == (Texts \ {0}) \union {None}
Saves     == { r \in [op: {"upsert", "remove"}, value: Texts, stage: {"sent", "ok", "failed"}] :
                 r.op = "remove" <=> r.value = 0 }

NoteShape ==
    /\ server \in NoteValues /\ store \in NoteValues /\ events \in Seq(NoteValues)
    /\ text \in Texts /\ lines \in Texts /\ truth \in Texts /\ requests \in Seq(Saves)
    /\ \A b \in {mounted, dirty, creating, timer, caret, crossed} : b \in BOOLEAN
    /\ caret \/ timer => mounted

(* The field: clean it shows the store's note, in use it has the last word *)
(* and no event is on the way.                                             *)
FieldAgrees ==
    /\ events # <<>> => ~M!Busy
    /\ mounted => lines = text
    /\ mounted /\ ~dirty => text = M!Notes(store)
    /\ mounted /\ M!Busy => text = truth

(* With nothing under way the server has the last word, unless it is still *)
(* being typed, and what the tab will show once the events are through.    *)
NoteAgrees ==
    requests = <<>> =>
        /\ server = IF events = <<>> THEN store ELSE events[Len(events)]
        /\ ~timer => server = NoteOf(truth)

(* A save under way is alone; it has the text unless more was typed, and   *)
(* is taken.                                                               *)
SaveAgrees ==
    requests # <<>> =>
        LET r == requests[1]
        IN  /\ mounted /\ Len(requests) = 1 /\ r.stage # "failed"
            /\ ~timer \/ ~dirty => r.value = text
            /\ ~dirty => r.op = "upsert"
            /\ r.stage = "sent" => server = store /\ (r.op = "remove" => store # None)
            /\ r.stage = "ok" => server = NoteOf(r.value)

NotesInv == NoteShape /\ (~crossed => FieldAgrees /\ NoteAgrees /\ SaveAgrees)

(* One of a sequence is taken out.                                         *)
LEMMA TakenOut ==
    ASSUME NEW S, NEW s \in Seq(S), NEW i \in DOMAIN s
    PROVE  LET t == SubSeq(s, 1, i - 1) \o SubSeq(s, i + 1, Len(s))
           IN  /\ t \in Seq(S) /\ Len(t) = Len(s) - 1
               /\ Len(s) = 1 => t = <<>>
               /\ \A n \in DOMAIN t : \E m \in DOMAIN s : t[n] = s[m]
<1> DEFINE a == SubSeq(s, 1, i - 1)
           b == SubSeq(s, i + 1, Len(s))
           t == a \o b
<1>1. Len(s) \in Nat /\ i \in 1 .. Len(s) /\ DOMAIN s = 1 .. Len(s)
  OBVIOUS
<1>2. a \in Seq(S) /\ Len(a) = i - 1 /\ \A n \in 1 .. i - 1 : a[n] = s[n]
  BY <1>1
<1>3. b \in Seq(S) /\ Len(b) = Len(s) - i /\ \A n \in 1 .. Len(s) - i : b[n] = s[n + i]
  BY <1>1
<1> HIDE DEF a, b
<1>4. t \in Seq(S) /\ Len(t) = Len(s) - 1
  <2>1. t \in Seq(S) /\ Len(t) = Len(a) + Len(b)
    BY <1>2, <1>3, Joined
  <2> QED BY <1>1, <1>2, <1>3, <2>1
<1>5. Len(s) = 1 => t = <<>>
  <2> HIDE DEF t
  <2> QED BY <1>4
<1>6. ASSUME NEW n \in DOMAIN t PROVE \E m \in DOMAIN s : t[n] = s[m]
  <2>1. n \in 1 .. Len(s) - 1
    <3> HIDE DEF t
    <3> QED BY <1>1, <1>4
  <2>2. CASE n <= i - 1
    <3>1. t[n] = a[n] /\ n \in 1 .. i - 1
      BY <1>1, <1>2, <1>3, <2>1, <2>2
    <3> QED BY <1>1, <1>2, <3>1
  <2>3. CASE n > i - 1
    <3>1. t[n] = b[n - (i - 1)] /\ n - (i - 1) \in 1 .. Len(s) - i
      BY <1>1, <1>2, <1>3, <2>1, <2>3
    <3>2. (n - (i - 1)) + i \in 1 .. Len(s)
      BY <1>1, <2>1, <2>3
    <3> QED BY <1>1, <1>3, <3>1, <3>2
  <2> QED BY <1>1, <2>1, <2>2, <2>3
<1> QED BY <1>4, <1>5, <1>6 DEF a, b

(* What is behind the first ends with the same last.                       *)
LEMMA Behind ==
    ASSUME NEW S, NEW s \in Seq(S), s # <<>>
    PROVE  /\ Head(s) \in S /\ Tail(s) \in Seq(S)
           /\ Tail(s) = <<>> => Head(s) = s[Len(s)]
           /\ Tail(s) # <<>> => Tail(s)[Len(Tail(s))] = s[Len(s)]
<1> DEFINE t == Tail(s)
<1>1. /\ Head(s) = s[1] /\ Head(s) \in S /\ t \in Seq(S) /\ Len(s) \in Nat /\ Len(s) # 0
      /\ Len(t) = Len(s) - 1 /\ \A n \in 1 .. Len(t) : t[n] = s[n + 1]
  BY HeadTailProperties, EmptySeq
<1> HIDE DEF t
<1>2. t = <<>> => Len(t) = 0
  OBVIOUS
<1>3. t # <<>> => Len(t) # 0
  BY <1>1
<1>4. t = <<>> => Len(s) = 1
  BY <1>1, <1>2
<1>5. t # <<>> => Len(t) \in 1 .. Len(t) /\ Len(t) + 1 = Len(s)
  BY <1>1, <1>3
<1> QED BY <1>1, <1>4, <1>5 DEF t

LEMMA NotesStart == M!Init => NotesInv
<1> USE TextsAssumption DEF TextsAssumption, NoteValues, M!Notes, NoteOf
<1> SUFFICES ASSUME M!Init PROVE NotesInv
  OBVIOUS
<1>1. NoteShape
  <2>1. server \in NoteValues /\ store = server
    BY DEF M!Init
  <2>2. text = M!Notes(server) /\ text \in Texts /\ lines = text /\ truth = text
    BY <2>1 DEF M!Init
  <2>3. events \in Seq(NoteValues) /\ requests \in Seq(Saves)
    BY DEF M!Init
  <2>4. \A b \in {mounted, dirty, creating, timer, caret, crossed} : b \in BOOLEAN
    BY DEF M!Init
  <2>5. ~caret /\ ~timer
    BY DEF M!Init
  <2> HIDE DEF NoteValues, M!Notes
  <2> QED BY <2>1, <2>2, <2>3, <2>4, <2>5 DEF NoteShape
<1>2. FieldAgrees
  BY DEF M!Init, FieldAgrees
<1>3. NoteAgrees
  BY DEF M!Init, NoteAgrees
<1>4. SaveAgrees
  BY DEF M!Init, SaveAgrees
<1> QED BY <1>1, <1>2, <1>3, <1>4 DEF NotesInv

(* What is left to show for an action that leaves all as it was but ...    *)
LEMMA NotesStill ==
    ASSUME NotesInv, UNCHANGED M!vars
    PROVE  NotesInv'
BY DEF NotesInv, M!vars, NoteShape, FieldAgrees, NoteAgrees, SaveAgrees, M!Busy

(* The field is used.                                                      *)
LEMMA FieldUsed ==
    ASSUME NotesInv, M!StartEditing \/ (\E v \in Texts : M!Input(v)) \/ M!Blur
    PROVE  NotesInv'
<1> USE TextsAssumption DEF TextsAssumption, NotesInv, NoteShape, NoteValues, NoteOf, M!Notes
<1>1. CASE M!StartEditing
  <2>1. NoteShape'
    BY <1>1 DEF M!StartEditing, M!ShowEditor
  <2>2. ASSUME ~crossed' PROVE FieldAgrees' /\ NoteAgrees' /\ SaveAgrees'
    <3>1. /\ ~crossed /\ mounted /\ ~caret /\ caret' /\ events = <<>> /\ ~M!Stale
          /\ UNCHANGED <<server, events, store, mounted, text, dirty, timer, lines, requests, truth>>
      BY <1>1, <2>2 DEF M!StartEditing
    <3>2. NoteAgrees' /\ SaveAgrees'
      BY <3>1 DEF NoteAgrees, SaveAgrees
    <3>3. text = truth
      <4>1. CASE timer \/ requests # <<>>
        BY <3>1, <4>1 DEF FieldAgrees, M!Busy
      <4>2. CASE ~timer /\ requests = <<>>
        <5>1. text = M!Notes(store)
          BY <3>1, <4>2 DEF M!Stale, FieldAgrees
        <5>2. store = NoteOf(truth)
          BY <3>1, <4>2 DEF NoteAgrees
        <5> QED BY <5>1, <5>2
      <4> QED BY <4>1, <4>2
    <3>4. FieldAgrees'
      BY <3>1, <3>3 DEF FieldAgrees, M!Busy
    <3> QED BY <3>2, <3>4
  <2> QED BY <2>1, <2>2
<1>2. ASSUME NEW v \in Texts, M!Input(v) PROVE NotesInv'
  <2>1. NoteShape'
    BY <1>2 DEF M!Input, M!HandleChange
  <2>2. ASSUME ~crossed' PROVE FieldAgrees' /\ NoteAgrees' /\ SaveAgrees'
    BY <1>2, <2>2 DEF M!Input, M!HandleChange, FieldAgrees, NoteAgrees, SaveAgrees, M!Busy
  <2> QED BY <2>1, <2>2
<1>3. CASE M!Blur
  <2>1. NoteShape'
    BY <1>3 DEF M!Blur, M!HandleChange
  <2>2. ASSUME ~crossed' PROVE FieldAgrees' /\ NoteAgrees' /\ SaveAgrees'
    BY <1>3, <2>2 DEF M!Blur, M!HandleChange, FieldAgrees, NoteAgrees, SaveAgrees, M!Busy
  <2> QED BY <2>1, <2>2
<1> QED BY <1>1, <1>2, <1>3

(* The debounce fires.                                                     *)
LEMMA NoteCommitted ==
    ASSUME NotesInv, M!Commit
    PROVE  NotesInv'
<1> USE TextsAssumption DEF TextsAssumption, NotesInv, NoteShape, NoteValues, NoteOf, M!Notes
<1>1. requests' = requests \o M!CommitOp /\ M!CommitOp \in Seq(Saves)
  <2>1. text # 0 => [op |-> "upsert", value |-> text, stage |-> "sent"] \in Saves
    BY DEF Saves
  <2>2. [op |-> "remove", value |-> 0, stage |-> "sent"] \in Saves
    BY DEF Saves
  <2> QED BY <2>1, <2>2 DEF M!Commit, M!CommitOp
<1>2. requests' \in Seq(Saves)
  BY <1>1
<1>3. NoteShape'
  BY <1>2 DEF M!Commit, M!Adopted
<1>4. ASSUME ~crossed' PROVE FieldAgrees' /\ NoteAgrees' /\ SaveAgrees'
  <2>1. /\ ~crossed /\ requests = <<>> /\ timer /\ mounted /\ events = <<>>
        /\ UNCHANGED <<server, events, store, mounted, text, dirty, truth, edits>>
        /\ timer' = FALSE /\ lines' = text /\ text = truth /\ server = store
    BY <1>4 DEF M!Commit, M!Adopted, FieldAgrees, NoteAgrees, M!Busy
  <2>2. requests' = M!CommitOp
    BY <1>1, <2>1
  <2>3. FieldAgrees'
    BY <1>4, <2>1 DEF FieldAgrees, M!Busy
  <2>4. CASE text # 0
    <3>1. requests' = << [op |-> "upsert", value |-> text, stage |-> "sent"] >>
      BY <2>2, <2>4 DEF M!CommitOp
    <3> QED BY <2>1, <2>3, <3>1 DEF NoteAgrees, SaveAgrees
  <2>5. CASE text = 0 /\ store # None
    <3>1. requests' = << [op |-> "remove", value |-> 0, stage |-> "sent"] >>
      BY <2>2, <2>5 DEF M!CommitOp
    <3>2. dirty
      BY <1>4, <2>1, <2>5 DEF FieldAgrees
    <3> QED BY <2>1, <2>3, <2>5, <3>1, <3>2 DEF NoteAgrees, SaveAgrees
  <2>6. CASE text = 0 /\ store = None
    <3>1. requests' = <<>>
      BY <2>2, <2>6 DEF M!CommitOp
    <3> QED BY <2>1, <2>3, <2>6, <3>1 DEF NoteAgrees, SaveAgrees
  <2> QED BY <2>4, <2>5, <2>6
<1> QED BY <1>3, <1>4

(* A save is taken by the server.                                          *)
LEMMA NoteServed ==
    ASSUME NotesInv, NEW i \in DOMAIN requests, M!Serve(i)
    PROVE  NotesInv'
<1> USE TextsAssumption DEF TextsAssumption, NotesInv, NoteShape, NoteValues, NoteOf, M!Notes
<1> DEFINE r == requests[i]
           q == IF r.op = "remove" /\ server = None THEN "failed" ELSE "ok"
<1>1. i \in 1 .. Len(requests) /\ r \in Saves /\ r.stage = "sent"
  BY DEF M!Serve
<1>2. /\ requests' = [requests EXCEPT ![i].stage = q]
      /\ server' = (IF r.op = "upsert" THEN r.value ELSE None)
      /\ UNCHANGED <<events, store, mounted, creating, timer, caret, text, dirty, lines, truth, crossed>>
  BY DEF M!Serve, M!page
<1>3. [r EXCEPT !.stage = q] \in Saves
  BY <1>1 DEF Saves
<1>4. requests' \in Seq(Saves) /\ Len(requests') = Len(requests) /\ requests'[i] = [r EXCEPT !.stage = q]
  BY <1>1, <1>2, <1>3
<1>5. server' \in NoteValues
  BY <1>1, <1>2 DEF Saves
<1>6. NoteShape'
  BY <1>2, <1>4, <1>5
<1>7. ASSUME ~crossed' PROVE FieldAgrees' /\ NoteAgrees' /\ SaveAgrees'
  <2>1. requests # <<>> /\ requests' # <<>> /\ i = 1
    BY <1>1, <1>2, <1>4, <1>7 DEF SaveAgrees
  <2>2. FieldAgrees'
    BY <1>2, <1>7, <2>1 DEF FieldAgrees, M!Busy
  <2>3. NoteAgrees'
    BY <2>1 DEF NoteAgrees
  <2>4. server = store /\ (r.op = "remove" => store # None) /\ q = "ok"
    BY <1>1, <1>2, <1>7, <2>1 DEF SaveAgrees
  <2>5. requests'[1].stage = "ok" /\ requests'[1].value = r.value /\ requests'[1].op = r.op
    BY <1>1, <1>4, <2>1, <2>4 DEF Saves
  <2>6. server' = NoteOf(r.value)
    BY <1>1, <1>2 DEF Saves
  <2>7. SaveAgrees'
    BY <1>2, <1>4, <1>7, <2>1, <2>5, <2>6 DEF SaveAgrees
  <2> QED BY <2>2, <2>3, <2>7
<1> QED BY <1>6, <1>7

(* It is answered, or lost.                                                *)
LEMMA NoteAnswered ==
    ASSUME NotesInv, NEW i \in DOMAIN requests, M!Answer(i)
    PROVE  NotesInv'
<1> USE TextsAssumption DEF TextsAssumption, NotesInv, NoteShape, NoteValues, NoteOf, M!Notes
<1> DEFINE r == requests[i]
           note == IF r.stage = "failed" THEN store ELSE IF r.op = "upsert" THEN r.value ELSE None
<1>1. i \in 1 .. Len(requests) /\ r \in Saves
  OBVIOUS
<1>2. requests' \in Seq(Saves) /\ Len(requests') = Len(requests) - 1
  BY TakenOut DEF M!Answer, M!Forget
<1>3. /\ store' = note /\ dirty' = M!CleanAfter(r)
      /\ ~mounted => UNCHANGED <<text, lines, caret>>
      /\ mounted => /\ text' = M!Seeded(note, text, dirty')
                    /\ caret' = (caret /\ (note # None \/ text' # 0 \/ creating))
                    /\ lines' = M!Adopted(text', lines, caret')
      /\ UNCHANGED <<server, events, mounted, creating, timer, truth, crossed>>
  BY DEF M!Answer, M!Shows
<1>4. note \in NoteValues /\ dirty' \in BOOLEAN
  BY <1>1, <1>3 DEF Saves, M!CleanAfter
<1>5. NoteShape'
  BY <1>2, <1>3, <1>4 DEF M!Seeded, M!Adopted
<1>6. ASSUME ~crossed' PROVE FieldAgrees' /\ NoteAgrees' /\ SaveAgrees'
  <2>1. /\ requests # <<>> /\ i = 1 /\ mounted /\ r.stage = "ok" /\ requests' = <<>>
        /\ events = <<>> /\ lines = text /\ text = truth
    BY <1>1, <1>2, <1>3, <1>6 DEF SaveAgrees, FieldAgrees, M!Answer, M!Busy, Saves
  <2>2. store' = NoteOf(r.value) /\ server' = NoteOf(r.value)
    BY <1>1, <1>3, <1>6, <2>1 DEF SaveAgrees, Saves
  <2>3. text' = text
    <3>1. CASE dirty'
      BY <1>3, <2>1, <3>1 DEF M!Seeded
    <3>2. CASE ~dirty'
      <4>1. r.op = "upsert" /\ r.value = text
        BY <1>1, <1>3, <1>6, <2>1, <3>2 DEF M!CleanAfter, SaveAgrees
      <4> QED BY <1>1, <1>3, <2>1, <3>2, <4>1 DEF M!Seeded, Saves
    <3> QED BY <1>4, <3>1, <3>2
  <2>4. lines' = text'
    BY <1>3, <2>1, <2>3 DEF M!Adopted
  <2>5. FieldAgrees'
    BY <1>3, <2>1, <2>3, <2>4 DEF FieldAgrees, M!Seeded, M!Busy
  <2>6. ~timer => r.value = text
    BY <1>6, <1>3, <2>1 DEF SaveAgrees
  <2>7. NoteAgrees' /\ SaveAgrees'
    BY <1>3, <2>1, <2>2, <2>6 DEF NoteAgrees, SaveAgrees
  <2> QED BY <2>5, <2>7
<1> QED BY <1>5, <1>6

LEMMA NoteLost ==
    ASSUME NotesInv, NEW i \in DOMAIN requests, M!Lose(i)
    PROVE  NotesInv'
<1>1. requests' \in Seq(Saves)
  BY TakenOut DEF M!Lose, M!Forget, NotesInv, NoteShape
<1> QED BY <1>1 DEF M!Lose, M!page, NotesInv, NoteShape

(* Another tab writes; the event comes.                                    *)
LEMMA OthersNote ==
    ASSUME NotesInv, (\E v \in NoteValues : M!OtherWrites(v)) \/ M!OnServerMessage
    PROVE  NotesInv'
<1> USE TextsAssumption DEF TextsAssumption, NotesInv, NoteShape, NoteValues, NoteOf, M!Notes
<1>1. ASSUME NEW v \in NoteValues, M!OtherWrites(v) PROVE NotesInv'
  <2>1. /\ server' = v /\ events' = Append(events, v) /\ truth' = M!Notes(v)
        /\ crossed' = (crossed \/ M!Busy)
        /\ UNCHANGED <<store, mounted, creating, timer, caret, text, dirty, lines, requests>>
    BY <1>1 DEF M!OtherWrites, M!page
  <2>2. events' \in Seq(NoteValues) /\ events' # <<>> /\ events'[Len(events')] = v
    BY <2>1
  <2>3. NoteShape'
    BY <2>1, <2>2 DEF M!Busy
  <2>4. ASSUME ~crossed' PROVE FieldAgrees' /\ NoteAgrees' /\ SaveAgrees'
    BY <2>1, <2>2, <2>4 DEF FieldAgrees, NoteAgrees, SaveAgrees, M!Busy
  <2> QED BY <2>3, <2>4
<1>2. CASE M!OnServerMessage
  <2> DEFINE note == Head(events)
  <2>1. /\ events # <<>> /\ events' = Tail(events) /\ store' = note /\ dirty' = dirty
        /\ ~mounted => UNCHANGED <<text, lines, caret>>
        /\ mounted => /\ text' = M!Seeded(note, text, dirty)
                      /\ caret' = (caret /\ (note # None \/ text' # 0 \/ creating))
                      /\ lines' = M!Adopted(text', lines, caret')
        /\ UNCHANGED <<server, mounted, creating, timer, requests, truth, crossed>>
    BY <1>2 DEF M!OnServerMessage, M!Shows
  <2>2. /\ note \in NoteValues /\ events' \in Seq(NoteValues)
        /\ events' = <<>> => note = events[Len(events)]
        /\ events' # <<>> => events'[Len(events')] = events[Len(events)]
    BY <2>1, Behind
  <2>3. NoteShape'
    BY <2>1, <2>2 DEF M!Seeded, M!Adopted
  <2>4. ASSUME ~crossed' PROVE FieldAgrees' /\ NoteAgrees' /\ SaveAgrees'
    <3>1. ~timer /\ ~caret /\ requests = <<>>
      BY <2>1, <2>4 DEF FieldAgrees, M!Busy
    <3>2. FieldAgrees'
      BY <2>1, <2>4, <3>1 DEF FieldAgrees, M!Seeded, M!Adopted, M!Busy
    <3>3. NoteAgrees' /\ SaveAgrees'
      BY <2>1, <2>2, <2>4, <3>1 DEF NoteAgrees, SaveAgrees
    <3> QED BY <3>2, <3>3
  <2> QED BY <2>3, <2>4
<1> QED BY <1>1, <1>2

(* The day leaves the screen and comes back.                               *)
LEMMA DayGone ==
    ASSUME NotesInv, M!Unmount \/ M!Mount
    PROVE  NotesInv'
<1> USE TextsAssumption DEF TextsAssumption, NotesInv, NoteShape, NoteValues, NoteOf, M!Notes
<1>1. CASE M!Unmount
  <2>1. NoteShape'
    BY <1>1 DEF M!Unmount
  <2>2. ASSUME ~crossed' PROVE FieldAgrees' /\ NoteAgrees' /\ SaveAgrees'
    BY <1>1, <2>2 DEF M!Unmount, FieldAgrees, NoteAgrees, SaveAgrees, M!Busy
  <2> QED BY <2>1, <2>2
<1>2. CASE M!Mount
  <2>1. NoteShape'
    BY <1>2 DEF M!Mount
  <2>2. ASSUME ~crossed' PROVE FieldAgrees' /\ NoteAgrees' /\ SaveAgrees'
    BY <1>2, <2>2 DEF M!Mount, FieldAgrees, NoteAgrees, SaveAgrees, M!Busy
  <2> QED BY <2>1, <2>2
<1> QED BY <1>1, <1>2

LEMMA NotesKept ==
    NotesInv /\ [M!Next]_M!vars => NotesInv'
BY NotesStill, FieldUsed, NoteCommitted, NoteServed, NoteAnswered, NoteLost, OthersNote, DayGone
   DEF M!Next, NoteValues

LEMMA NotesHeld == NotesInv => M!TypingStays /\ M!LastWordKept
BY TextsAssumption DEF TextsAssumption, NotesInv, NoteShape, NoteValues, FieldAgrees, NoteAgrees, NoteOf,
   M!TypingStays, M!LastWordKept, M!Quiet, M!Notes, M!Busy

(* What is typed in a day's note is not taken back before it is saved, and *)
(* once all is quiet the last word anyone had is the note, on the server   *)
(* and in a clean field (DayNoteField.svelte), for any texts and numbers   *)
(* of edits, other tabs' writes and losses.                                *)
THEOREM LastWords ==
    M!Spec => [](M!TypingStays /\ M!LastWordKept)
<1>1. M!Init => NotesInv
  BY NotesStart
<1>2. NotesInv /\ [M!Next]_M!vars => NotesInv'
  BY NotesKept
<1>3. NotesInv => M!TypingStays /\ M!LastWordKept
  BY NotesHeld
<1>. QED
  BY <1>1, <1>2, <1>3, PTL DEF M!Spec

----------------------------------------------------------------------------
(* The editors of a task.                                                  *)
TheTask == [E!Fields -> Texts]
Inputs  == [{"text", "date", "tags"} -> Texts]
Updates == [patch: E!Patches, undo: TheTask, from: {"row", "detail", "notes", "late"},
            stage: {"sent", "ok", "failed"}, row: TheTask]

EditorsShape ==
    /\ server \in TheTask /\ store \in TheTask /\ form \in TheTask /\ truth \in TheTask
    /\ events \in Seq(TheTask) /\ requests \in Seq(Updates)
    /\ editor \in {"none", "text", "date", "tags"} /\ input \in Inputs
    /\ modal \in {"none", "detail", "notes"} /\ touched \subseteq E!Fields /\ timer \in BOOLEAN
    /\ draft \in Texts \union {None} /\ typed \in Texts \union {None}
    /\ typedNote \in Texts \union {None} /\ noteLines \in Texts \union {None}
    /\ late \in Seq(Texts) /\ (timer => draft # None)

(* What is written, or may be, are fields that were entered: the fields of *)
(* the form that were not show what the tab has.                           *)
OnlyTouched ==
    /\ \A n \in DOMAIN requests : DOMAIN requests[n].patch \subseteq touched
    /\ editor # "none" => modal = "none"
    /\ editor \in {"date", "tags"} => editor \in touched
    /\ editor = "text" /\ "text" \notin touched => input["text"] = store["text"]
    /\ modal = "detail" => \A f \in E!Fields \ touched : form[f] = store[f]
    /\ draft # None \/ late # <<>> \/ noteLines # None => "notes" \in touched
    /\ E!NoBystanderWrites

(* What is typed is what the editor, the draft and the lines that are being *)
(* edited, or the input have.                                              *)
Typed ==
    /\ editor \in {"date", "tags"} => seeded = editor
    /\ editor \in {"date", "tags"} /\ typed # None => input[editor] = typed
    /\ typedNote # None => draft = typedNote /\ noteLines \in {None, typedNote}

Adds == [value: Texts, stage: {"sent", "ok", "failed"}]

AddsKept ==
    /\ adds \in Seq(Adds) /\ addText \in Texts
    /\ \A n \in DOMAIN adds : adds[n].stage = "ok" => adds[n].value \in created
    /\ \A v \in submitted \ created : addText = v /\ \A n \in DOMAIN adds : adds[n].value = v

EditorsInv == EditorsShape /\ OnlyTouched /\ Typed /\ AddsKept

LEMMA WithTyped ==
    ASSUME NEW t \in TheTask, NEW p \in E!Patches
    PROVE  /\ E!With(t, p) \in TheTask /\ DOMAIN p \subseteq E!Fields
           /\ \A f \in E!Fields \ DOMAIN p : E!With(t, p)[f] = t[f]
<1>1. PICK fs \in SUBSET E!Fields : p \in [fs -> Texts]
  BY DEF E!Patches
<1> QED BY <1>1 DEF E!With, TheTask

LEMMA OneTyped ==
    ASSUME NEW f \in E!Fields, NEW v \in Texts
    PROVE  E!One(f, v) \in E!Patches /\ DOMAIN E!One(f, v) = {f}
<1>1. E!One(f, v) \in [{f} -> Texts] /\ {f} \in SUBSET E!Fields
  BY DEF E!One
<1> QED BY <1>1 DEF E!Patches, E!One

(* A change of the tab's tasks: the row's text and the form follow it, and *)
(* a date or tags being edited do not.                                     *)
LEMMA ShownAll ==
    ASSUME EditorsInv, NEW t \in TheTask, NEW m, E!Shows(t, m)
    PROVE  /\ modal' = m /\ noteLines' \in {noteLines, None}
           /\ store' = t /\ store' \in TheTask /\ input' \in Inputs /\ form' \in TheTask
           /\ editor = "text" => input'["text"] = store'["text"]
           /\ editor \in {"date", "tags"} => input'[editor] = input[editor]
           /\ modal = "detail" => form' = store'
<1> USE DEF EditorsInv, EditorsShape, Typed, TheTask, Inputs, E!Fields
<1>1. /\ store' = t /\ form' = (IF modal = "detail" THEN t ELSE form)
      /\ modal' = m /\ noteLines' \in {noteLines, None} /\ DOMAIN input = {"text", "date", "tags"}
  BY DEF E!Shows
<1>2. input' = [f \in {"text", "date", "tags"} |->
                   IF f = editor /\ (f = "text" \/ seeded # f) THEN t[f] ELSE input[f]]
  BY <1>1 DEF E!Shows, E!Seed
<1>3. input' \in Inputs
  BY <1>2
<1>4. editor = "text" => input'["text"] = t["text"]
  BY <1>2
<1>5. editor \in {"date", "tags"} => input'[editor] = input[editor]
  BY <1>2
<1> QED BY <1>1, <1>3, <1>4, <1>5

(* What the tasks' changes leave to show of the rest.                      *)
LEMMA EditorsFollow ==
    ASSUME EditorsInv, NEW t \in TheTask, NEW m \in {modal, "none"}, E!Shows(t, m),
           UNCHANGED <<server, editor, seeded, typed, touched, truth, adds, created, submitted, addText>>,
           events' \in Seq(TheTask), requests' \in Seq(Updates),
           draft' \in {draft, None}, timer' \in BOOLEAN, timer' => timer /\ draft' # None,
           late' \in Seq(Texts), late' # <<>> => "notes" \in touched,
           typedNote' \in {typedNote, None}, typedNote' # None => draft' = draft,
           \A n \in DOMAIN requests' : DOMAIN requests'[n].patch \subseteq touched
    PROVE  EditorsInv'
<1>1. /\ modal' = m /\ noteLines' \in {noteLines, None}
      /\ store' = t /\ store' \in TheTask /\ input' \in Inputs /\ form' \in TheTask
      /\ editor = "text" => input'["text"] = store'["text"]
      /\ editor \in {"date", "tags"} => input'[editor] = input[editor]
      /\ modal = "detail" => form' = store'
  BY ShownAll
<1>2. EditorsShape'
  BY <1>1 DEF EditorsInv, EditorsShape
<1>3. OnlyTouched'
  BY <1>1 DEF EditorsInv, EditorsShape, OnlyTouched, E!NoBystanderWrites
<1>4. Typed'
  BY <1>1 DEF EditorsInv, EditorsShape, Typed
<1>5. AddsKept'
  BY DEF EditorsInv, AddsKept
<1> QED BY <1>2, <1>3, <1>4, <1>5 DEF EditorsInv

(* An update that is sent.                                                 *)
LEMMA UpdateSent ==
    ASSUME EditorsInv, NEW p \in E!Patches, DOMAIN p \subseteq touched,
           NEW from \in {"row", "detail", "notes", "late"},
           requests' = Append(requests, [patch |-> p, undo |-> store, from |-> from,
                                         stage |-> "sent", row |-> server])
    PROVE  /\ requests' \in Seq(Updates)
           /\ \A n \in DOMAIN requests' : DOMAIN requests'[n].patch \subseteq touched
<1> DEFINE r == [patch |-> p, undo |-> store, from |-> from, stage |-> "sent", row |-> server]
<1>1. r \in Updates /\ r.patch = p /\ requests \in Seq(Updates)
  BY DEF EditorsInv, EditorsShape, Updates
<1> HIDE DEF r
<1>2. requests' = Append(requests, r)
  BY DEF r
<1>3. ASSUME NEW n \in DOMAIN requests' PROVE DOMAIN requests'[n].patch \subseteq touched
  <2>1. (n \in DOMAIN requests /\ requests'[n] = requests[n]) \/ requests'[n] = r
    BY <1>1, <1>2
  <2> QED BY <1>1, <2>1 DEF EditorsInv, OnlyTouched
<1> QED BY <1>1, <1>2, <1>3

(* The requests without one.                                               *)
LEMMA UpdateAnswered ==
    ASSUME EditorsInv, NEW i \in DOMAIN requests, requests' = E!RemoveAt(requests, i)
    PROVE  /\ requests' \in Seq(Updates)
           /\ \A n \in DOMAIN requests' : DOMAIN requests'[n].patch \subseteq touched
<1>1. requests \in Seq(Updates) /\ \A n \in DOMAIN requests : DOMAIN requests[n].patch \subseteq touched
  BY DEF EditorsInv, EditorsShape, OnlyTouched
<1>2. requests' = SubSeq(requests, 1, i - 1) \o SubSeq(requests, i + 1, Len(requests))
  BY DEF E!RemoveAt
<1>3. /\ requests' \in Seq(Updates)
      /\ \A n \in DOMAIN requests' : \E m \in DOMAIN requests : requests'[n] = requests[m]
  <2> DEFINE t == SubSeq(requests, 1, i - 1) \o SubSeq(requests, i + 1, Len(requests))
  <2>1. t \in Seq(Updates) /\ \A n \in DOMAIN t : \E m \in DOMAIN requests : t[n] = requests[m]
    BY <1>1, TakenOut
  <2>2. requests' = t
    BY <1>2
  <2> HIDE DEF t
  <2> QED BY <2>1, <2>2
<1>4. ASSUME NEW n \in DOMAIN requests' PROVE DOMAIN requests'[n].patch \subseteq touched
  <2>1. PICK m \in DOMAIN requests : requests'[n] = requests[m]
    BY <1>3
  <2> QED BY <1>1, <2>1
<1> QED BY <1>3, <1>4

LEMMA EditorsStart == E!Init => EditorsInv
<1> USE TextsAssumption DEF TextsAssumption
<1> SUFFICES ASSUME E!Init PROVE EditorsInv
  OBVIOUS
<1>1. server \in TheTask /\ store = server /\ form = server /\ truth = server
  BY DEF E!Init, TheTask
<1>2. EditorsShape
  <2>1. input \in Inputs
    BY DEF E!Init, Inputs
  <2>2. events \in Seq(TheTask) /\ requests \in Seq(Updates) /\ late \in Seq(Texts)
    BY DEF E!Init
  <2>3. /\ editor = "none" /\ modal = "none" /\ touched = {} /\ timer = FALSE
        /\ draft = None /\ typed = None /\ typedNote = None /\ noteLines = None
    BY DEF E!Init
  <2> QED BY <1>1, <2>1, <2>2, <2>3 DEF EditorsShape
<1>3. OnlyTouched
  BY <1>1 DEF E!Init, OnlyTouched, E!NoBystanderWrites
<1>4. Typed
  BY DEF E!Init, Typed
<1>5. AddsKept
  BY DEF E!Init, AddsKept
<1> QED BY <1>2, <1>3, <1>4, <1>5 DEF EditorsInv

LEMMA EditorsStill ==
    ASSUME EditorsInv, UNCHANGED E!vars
    PROVE  EditorsInv'
BY DEF EditorsInv, E!vars, E!task, E!row, E!modals, E!adding, E!ghosts, E!counts, EditorsShape,
   OnlyTouched, E!NoBystanderWrites, Typed, AddsKept

(* The server takes an update, which is of touched fields only.            *)
LEMMA UpdateServed ==
    ASSUME EditorsInv, NEW i \in DOMAIN requests, E!Serve(i)
    PROVE  EditorsInv'
<1> DEFINE p == requests[i].patch
           ok == ~("text" \in DOMAIN p /\ p["text"] = 0)
           r  == [requests[i] EXCEPT !.stage = IF ok THEN "ok" ELSE "failed", !.row = server']
<1>1. /\ server' = IF ok THEN E!With(server, p) ELSE server
      /\ requests' = [requests EXCEPT ![i] = r]
      /\ UNCHANGED <<store, events, editor, input, seeded, typed, modal, form, noteLines, draft, timer, late,
                     typedNote, addText, adds, created, submitted, touched, truth>>
  BY DEF E!Serve, E!row, E!modals, E!adding, E!ghosts
<1>2. requests \in Seq(Updates) /\ requests[i] \in Updates /\ server \in TheTask
      /\ p \in E!Patches /\ DOMAIN p \subseteq touched
  <2>1. requests \in Seq(Updates) /\ requests[i] \in Updates /\ server \in TheTask
    BY DEF EditorsInv, EditorsShape
  <2>2. DOMAIN p \subseteq touched
    BY DEF EditorsInv, OnlyTouched
  <2>3. p \in E!Patches
    BY <2>1 DEF Updates
  <2> QED BY <2>1, <2>2, <2>3
<1>3. server' \in TheTask /\ \A f \in E!Fields \ touched : server'[f] = server[f]
  BY <1>1, <1>2, WithTyped
<1>4. r \in Updates /\ r.patch = p
  BY <1>2, <1>3 DEF Updates
<1> HIDE DEF r, ok
<1>5. requests' \in Seq(Updates)
  BY <1>1, <1>2, <1>4
<1>6. ASSUME NEW n \in DOMAIN requests' PROVE DOMAIN requests'[n].patch \subseteq touched
  <2>1. n \in DOMAIN requests /\ requests'[n] \in {requests[n], r}
    BY <1>1, <1>2, <1>6
  <2> QED BY <1>2, <1>4, <2>1 DEF EditorsInv, OnlyTouched
<1>7. EditorsShape'
  BY <1>1, <1>3, <1>5 DEF EditorsInv, EditorsShape
<1>8. OnlyTouched'
  BY <1>1, <1>3, <1>6 DEF EditorsInv, OnlyTouched, E!NoBystanderWrites
<1> QED BY <1>1, <1>7, <1>8 DEF EditorsInv, Typed, AddsKept

(* An answer is shown, also that of a save of the form, which closes what  *)
(* is open: only the draft that was saved is retired.                      *)
LEMMA UpdateShown ==
    ASSUME EditorsInv, NEW i \in DOMAIN requests, E!Answer(i)
    PROVE  EditorsInv'
<1> DEFINE r == requests[i]
           t == IF r.stage = "ok" THEN r.row ELSE r.undo
           m == IF r.from = "detail" THEN "none" ELSE modal
<1>1. r \in Updates /\ t \in TheTask
  <2>1. r \in Updates
    BY DEF EditorsInv, EditorsShape
  <2> QED BY <2>1 DEF Updates
<1>2. /\ requests' = E!RemoveAt(requests, i) /\ E!Shows(t, m)
      /\ UNCHANGED <<server, events, editor, seeded, typed, adds, created, submitted, addText, touched, truth>>
      /\ draft' = (IF E!Retired(r) \/ modal' # "notes" THEN None ELSE draft)
      /\ timer' = (timer /\ draft' # None)
      /\ late'  = (IF timer /\ modal = "notes" /\ modal' # "notes" THEN Append(late, draft) ELSE late)
      /\ typedNote' = (IF modal' = "notes" /\ ~(r.stage = "ok" /\ r.from = "notes"
                                             /\ r.patch["notes"] = typedNote)
                       THEN typedNote ELSE None)
  BY DEF E!Answer, E!adding, E!ghosts
<1> HIDE DEF t
<1>3. late' \in Seq(Texts) /\ (late' # <<>> => "notes" \in touched)
  BY <1>2 DEF EditorsInv, EditorsShape, OnlyTouched
<1>4. typedNote' # None => draft' = draft
  <2>1. ASSUME typedNote' # None PROVE draft' = draft
    <3>1. /\ typedNote # None /\ modal' = "notes"
          /\ ~(r.stage = "ok" /\ r.from = "notes" /\ r.patch["notes"] = typedNote)
      BY <1>2, <2>1
    <3>2. typedNote = draft
      BY <3>1 DEF EditorsInv, Typed
    <3>3. ~E!Retired(r)
      BY <3>1, <3>2 DEF E!Retired
    <3> QED BY <1>2, <3>1, <3>3
  <2> QED BY <2>1
<1>5. events' \in Seq(TheTask) /\ timer' \in BOOLEAN /\ (timer' => timer /\ draft' # None)
  BY <1>2 DEF EditorsInv, EditorsShape
<1>6. /\ m \in {modal, "none"} /\ draft' \in {draft, None} /\ typedNote' \in {typedNote, None}
  BY <1>2
<1>7. /\ requests' \in Seq(Updates)
      /\ \A n \in DOMAIN requests' : DOMAIN requests'[n].patch \subseteq touched
  BY <1>2, UpdateAnswered
<1> QED
  <2> HIDE DEF r, m
  <2> QED BY <1>1, <1>2, <1>3, <1>4, <1>5, <1>6, <1>7, EditorsFollow

LEMMA UpdateLost ==
    ASSUME EditorsInv, NEW i \in DOMAIN requests, E!Lose(i)
    PROVE  EditorsInv'
<1> DEFINE r == [requests[i] EXCEPT !.stage = "failed"]
<1>1. /\ requests' = [requests EXCEPT ![i] = r]
      /\ UNCHANGED <<server, store, events, editor, input, seeded, typed, modal, form, noteLines, draft, timer, late,
                     typedNote, addText, adds, created, submitted, touched, truth>>
  BY DEF E!Lose, E!row, E!modals, E!adding, E!ghosts
<1>2. requests \in Seq(Updates) /\ requests[i] \in Updates
  BY DEF EditorsInv, EditorsShape
<1>3. r \in Updates /\ r.patch = requests[i].patch
  BY <1>2 DEF Updates
<1> HIDE DEF r
<1>4. requests' \in Seq(Updates)
  BY <1>1, <1>2, <1>3
<1>5. ASSUME NEW n \in DOMAIN requests' PROVE DOMAIN requests'[n].patch \subseteq touched
  <2>1. n \in DOMAIN requests /\ requests'[n] \in {requests[n], r}
    BY <1>1, <1>2, <1>5
  <2> QED BY <1>3, <2>1 DEF EditorsInv, OnlyTouched
<1>6. EditorsShape'
  BY <1>1, <1>4 DEF EditorsInv, EditorsShape
<1>7. OnlyTouched'
  BY <1>1, <1>5 DEF EditorsInv, OnlyTouched, E!NoBystanderWrites
<1> QED BY <1>1, <1>6, <1>7 DEF EditorsInv, Typed, AddsKept

(* Another tab writes the task; the event comes.                           *)
LEMMA OthersTask ==
    ASSUME EditorsInv, (\E f \in Foreign, v \in Texts : E!OtherWrites(f, v)) \/ E!OnServerMessage
    PROVE  EditorsInv'
<1>1. ASSUME NEW f \in Foreign, NEW v \in Texts, E!OtherWrites(f, v) PROVE EditorsInv'
  <2>1. /\ server' = [server EXCEPT ![f] = v] /\ truth' = [truth EXCEPT ![f] = v]
        /\ events' = Append(events, server')
        /\ UNCHANGED <<store, requests, editor, input, seeded, typed, modal, form, noteLines, draft, timer, late,
                       typedNote, addText, adds, created, submitted, touched>>
    BY <1>1 DEF E!OtherWrites, E!row, E!modals, E!adding
  <2>2. server \in TheTask /\ truth \in TheTask /\ f \in E!Fields
    BY TextsAssumption DEF TextsAssumption, EditorsInv, EditorsShape
  <2>3. server' \in TheTask /\ truth' \in TheTask
    BY <2>1, <2>2 DEF TheTask
  <2>4. EditorsShape'
    BY <2>1, <2>3 DEF EditorsInv, EditorsShape
  <2>5. E!NoBystanderWrites'
    BY <2>1, <2>2 DEF EditorsInv, OnlyTouched, E!NoBystanderWrites, TheTask
  <2>6. OnlyTouched'
    BY <2>1, <2>5 DEF EditorsInv, OnlyTouched
  <2> QED BY <2>1, <2>4, <2>6 DEF EditorsInv, Typed, AddsKept
<1>2. CASE E!OnServerMessage
  <2>1. /\ events # <<>> /\ events' = Tail(events) /\ E!Shows(Head(events), modal)
        /\ UNCHANGED <<server, requests, editor, seeded, typed, draft, timer, late, typedNote,
                       adds, created, submitted, addText, touched, truth>>
    BY <1>2 DEF E!OnServerMessage, E!adding, E!ghosts
  <2>2. Head(events) \in TheTask /\ events' \in Seq(TheTask)
    BY <2>1, Behind DEF EditorsInv, EditorsShape
  <2>3. /\ requests' \in Seq(Updates) /\ late' \in Seq(Texts) /\ timer' \in BOOLEAN
        /\ timer' => timer /\ draft' # None
        /\ late' # <<>> => "notes" \in touched
        /\ \A n \in DOMAIN requests' : DOMAIN requests'[n].patch \subseteq touched
    BY <2>1 DEF EditorsInv, EditorsShape, OnlyTouched
  <2>4. /\ modal \in {modal, "none"} /\ draft' \in {draft, None} /\ typedNote' \in {typedNote, None}
        /\ typedNote' # None => draft' = draft
    BY <2>1
  <2> QED BY <2>1, <2>2, <2>3, <2>4, EditorsFollow
<1> QED BY <1>1, <1>2

(* The row's editors: opened, typed in, committed and cancelled.           *)
LEMMA EditorOpened ==
    ASSUME EditorsInv, (\E ed \in {"text", "date", "tags"} : E!Open(ed)) \/ (\E v \in Texts : E!Type(v))
    PROVE  EditorsInv'
<1> USE DEF EditorsInv
<1>1. ASSUME NEW ed \in {"text", "date", "tags"}, E!Open(ed) PROVE EditorsInv'
  <2>1. /\ modal = "none" /\ editor = "none" /\ editor' = ed /\ seeded' = E!SeededAfter(ed)
        /\ input' = E!Seed(input, ed, seeded, store) /\ typed' = None
        /\ touched' = (IF ed = "text" THEN touched ELSE touched \union {ed})
        /\ UNCHANGED <<server, store, events, requests, modal, form, noteLines, draft, timer, late, typedNote,
                       addText, adds, created, submitted, truth>>
    BY <1>1 DEF E!Open, E!task, E!modals, E!adding
  <2>2. input' = [f \in {"text", "date", "tags"} |->
                     IF f = ed /\ (f = "text" \/ seeded # f) THEN store[f] ELSE input[f]]
    BY <2>1 DEF E!Seed, EditorsShape, Inputs
  <2>3. input' \in Inputs
    BY <2>2 DEF EditorsShape, Inputs, TheTask, E!Fields
  <2>4. ed = "text" => input'["text"] = store["text"]
    BY <2>2
  <2>5. EditorsShape'
    BY <2>1, <2>3 DEF EditorsShape, E!Fields
  <2>6. touched \subseteq touched' /\ (ed \in {"date", "tags"} => ed \in touched')
    BY <2>1
  <2>7. OnlyTouched'
    BY <2>1, <2>4, <2>6 DEF OnlyTouched, E!NoBystanderWrites
  <2>8. Typed'
    BY <2>1 DEF Typed, E!SeededAfter
  <2> QED BY <2>1, <2>5, <2>7, <2>8 DEF AddsKept
<1>2. ASSUME NEW v \in Texts, E!Type(v) PROVE EditorsInv'
  <2>1. /\ editor # "none" /\ input' = [input EXCEPT ![editor] = v] /\ typed' = v
        /\ touched' = touched \union {editor}
        /\ UNCHANGED <<server, store, events, requests, editor, seeded, modal, form, noteLines, draft, timer, late,
                       typedNote, addText, adds, created, submitted, truth>>
    BY <1>2 DEF E!Type, E!task, E!modals, E!adding
  <2>2. input' \in Inputs /\ input'[editor] = v
    BY <2>1 DEF EditorsShape, Inputs
  <2>3. EditorsShape'
    BY <2>1, <2>2 DEF EditorsShape, E!Fields
  <2>4. touched \subseteq touched' /\ editor \in touched'
    BY <2>1
  <2>5. OnlyTouched'
    BY <2>1, <2>4 DEF OnlyTouched, E!NoBystanderWrites
  <2>6. Typed'
    BY <2>1, <2>2 DEF Typed
  <2> QED BY <2>1, <2>3, <2>5, <2>6 DEF AddsKept
<1> QED BY <1>1, <1>2

LEMMA EditorClosed ==
    ASSUME EditorsInv, (\E reads \in {"date", "someday", "nothing"} : E!CommitEdit(reads)) \/ E!CancelEdit
    PROVE  EditorsInv'
<1> USE DEF EditorsInv
<1>1. ASSUME NEW reads \in {"date", "someday", "nothing"}, E!CommitEdit(reads) PROVE EditorsInv'
  <2> DEFINE v == input[editor]
             w == E!Said(reads, v)
             none == v = store[editor] \/ (editor # "tags" /\ v = 0) \/ (editor = "date" /\ reads = "nothing")
  <2>1. /\ editor # "none" /\ editor' = "none" /\ modal = "none"
        /\ UNCHANGED <<seeded, typed, modal, noteLines, draft, timer, late, typedNote, addText, adds, created,
                       submitted, touched, truth, server, events, form, input>>
    BY <1>1 DEF E!CommitEdit, E!Close, E!task, E!note, E!adding, E!ghosts, OnlyTouched
  <2>2. editor \in {"text", "date", "tags"} /\ editor \in E!Fields /\ v \in Texts /\ w \in Texts
    BY <2>1, TextsAssumption DEF EditorsShape, Inputs, E!Fields, E!Said, TextsAssumption
  <2>3. CASE none
    <3>1. UNCHANGED <<store, requests>>
      BY <1>1, <2>3 DEF E!CommitEdit, E!task
    <3>2. EditorsShape'
      BY <2>1, <3>1 DEF EditorsShape
    <3>3. OnlyTouched'
      BY <2>1, <3>1 DEF OnlyTouched, E!NoBystanderWrites
    <3> QED BY <2>1, <3>2, <3>3 DEF Typed, AddsKept
  <2>4. CASE ~none
    <3>1. /\ requests' = Append(requests, [patch |-> E!One(editor, w), undo |-> store, from |-> "row",
                                           stage |-> "sent", row |-> server])
          /\ store' = [store EXCEPT ![editor] = w]
      BY <1>1, <2>4 DEF E!CommitEdit
    <3>2. editor \in touched
      BY <2>2, <2>4 DEF OnlyTouched
    <3>3. E!One(editor, w) \in E!Patches /\ DOMAIN E!One(editor, w) \subseteq touched
      BY <2>2, <3>2, OneTyped
    <3>4. /\ requests' \in Seq(Updates)
          /\ \A n \in DOMAIN requests' : DOMAIN requests'[n].patch \subseteq touched
      BY <3>1, <3>3, UpdateSent
    <3>5. store' \in TheTask
      BY <2>2, <3>1 DEF EditorsShape, TheTask
    <3>6. EditorsShape'
      BY <2>1, <3>4, <3>5 DEF EditorsShape
    <3>7. OnlyTouched'
      BY <2>1, <3>4 DEF OnlyTouched, E!NoBystanderWrites
    <3> QED BY <2>1, <3>6, <3>7 DEF Typed, AddsKept
  <2> QED BY <2>3, <2>4
<1>2. CASE E!CancelEdit
  <2>1. /\ editor' = "none"
        /\ input' = (IF editor = "text" THEN [input EXCEPT !["text"] = store["text"]] ELSE input)
        /\ UNCHANGED <<server, store, events, requests, seeded, typed, modal, form, noteLines, draft, timer, late,
                       typedNote, addText, adds, created, submitted, touched, truth>>
    BY <1>2 DEF E!CancelEdit, E!Close, E!task, E!modals, E!adding, E!ghosts
  <2>2. input' \in Inputs
    BY <2>1 DEF EditorsShape, Inputs, TheTask, E!Fields
  <2>3. EditorsShape'
    BY <2>1, <2>2 DEF EditorsShape
  <2>4. OnlyTouched'
    BY <2>1 DEF OnlyTouched, E!NoBystanderWrites
  <2> QED BY <2>1, <2>3, <2>4 DEF Typed, AddsKept
<1> QED BY <1>1, <1>2

(* The detail form.                                                        *)
LEMMA FormUsed ==
    ASSUME EditorsInv, E!OpenDetail \/ (\E f \in E!Fields, v \in Texts : E!Fill(f, v)) \/ E!Save
    PROVE  EditorsInv'
<1> USE DEF EditorsInv
<1>1. CASE E!OpenDetail
  <2>1. /\ editor = "none" /\ modal' = "detail" /\ form' = store
        /\ UNCHANGED <<server, store, events, requests, editor, input, seeded, typed, noteLines, draft, timer, late,
                       typedNote, addText, adds, created, submitted, touched, truth>>
    BY <1>1 DEF E!OpenDetail, E!task, E!row, E!note, E!adding, E!ghosts
  <2>2. EditorsShape'
    BY <2>1 DEF EditorsShape
  <2>3. OnlyTouched'
    BY <2>1 DEF OnlyTouched, E!NoBystanderWrites
  <2> QED BY <2>1, <2>2, <2>3 DEF Typed, AddsKept
<1>2. ASSUME NEW f \in E!Fields, NEW v \in Texts, E!Fill(f, v) PROVE EditorsInv'
  <2>1. /\ modal = "detail" /\ form' = [form EXCEPT ![f] = v] /\ touched' = touched \union {f}
        /\ UNCHANGED <<server, store, events, requests, editor, input, seeded, typed, modal, noteLines, draft,
                       timer, late, typedNote, addText, adds, created, submitted, truth>>
    BY <1>2 DEF E!Fill, E!task, E!row, E!note, E!adding
  <2>2. form' \in TheTask /\ \A g \in E!Fields \ touched' : form'[g] = form[g]
    BY <2>1 DEF EditorsShape, TheTask
  <2>3. EditorsShape'
    BY <2>1, <2>2 DEF EditorsShape
  <2>4. OnlyTouched'
    BY <2>1, <2>2 DEF OnlyTouched, E!NoBystanderWrites
  <2> QED BY <2>1, <2>3, <2>4 DEF Typed, AddsKept
<1>3. CASE E!Save
  <2>1. /\ modal = "detail"
        /\ UNCHANGED <<server, events, editor, seeded, typed, draft, timer, late, typedNote, addText, adds,
                       created, submitted, touched, truth>>
    BY <1>3 DEF E!Save, E!task, E!adding, E!ghosts
  <2>2. CASE DOMAIN E!Saved = {}
    <3>1. modal' = "none" /\ UNCHANGED <<store, requests, form, input, noteLines>>
      BY <1>3, <2>2 DEF E!Save, E!task
    <3>2. EditorsShape'
      BY <2>1, <3>1 DEF EditorsShape
    <3>3. OnlyTouched'
      BY <2>1, <3>1 DEF OnlyTouched, E!NoBystanderWrites
    <3> QED BY <2>1, <3>1, <3>2, <3>3 DEF Typed, AddsKept
  <2>3. CASE DOMAIN E!Saved # {}
    <3>1. E!Update(E!Saved, "detail")
      BY <1>3, <2>3 DEF E!Save
    <3>2. DOMAIN E!Saved \subseteq touched /\ E!Saved \in E!Patches
      <4>1. DOMAIN E!Saved = { g \in E!Fields : form[g] # store[g] }
        BY DEF E!Saved
      <4>2. E!Saved \in [DOMAIN E!Saved -> Texts]
        BY DEF E!Saved, EditorsShape, TheTask
      <4>3. DOMAIN E!Saved \in SUBSET E!Fields
        BY <4>1
      <4> QED BY <2>1, <4>1, <4>2, <4>3 DEF OnlyTouched, E!Patches
    <3>3. /\ requests' \in Seq(Updates)
          /\ \A n \in DOMAIN requests' : DOMAIN requests'[n].patch \subseteq touched
      BY <3>1, <3>2, UpdateSent DEF E!Update
    <3>4. E!With(store, E!Saved) \in TheTask /\ E!Shows(E!With(store, E!Saved), modal)
      BY <3>1, <3>2, WithTyped DEF E!Update, EditorsShape
    <3>5. /\ late' \in Seq(Texts) /\ timer' \in BOOLEAN /\ events' \in Seq(TheTask)
          /\ timer' => timer /\ draft' # None
          /\ late' # <<>> => "notes" \in touched
      BY <2>1 DEF EditorsShape, OnlyTouched
    <3>6. /\ modal \in {modal, "none"} /\ draft' \in {draft, None} /\ typedNote' \in {typedNote, None}
          /\ typedNote' # None => draft' = draft
      BY <2>1, <3>1
    <3> HIDE DEF EditorsInv
    <3> QED BY <2>1, <3>3, <3>4, <3>5, <3>6, EditorsFollow
  <2> QED BY <2>2, <2>3
<1> QED BY <1>1, <1>2, <1>3

(* The notes modal: the caret in the note, the drafts and their timers.    *)
LEMMA NotesOpened ==
    ASSUME EditorsInv, E!OpenNotes
    PROVE  EditorsInv'
<1> USE DEF EditorsInv
<1> DEFINE R(n) == [requests[n] EXCEPT !.from = IF @ = "notes" THEN "late" ELSE @]
<1>1. /\ editor = "none" /\ modal' = "notes" /\ requests' = [n \in DOMAIN requests |-> R(n)]
      /\ UNCHANGED <<server, store, events, editor, input, seeded, typed, form, noteLines, draft, timer,
                     late, typedNote, addText, adds, created, submitted, touched, truth>>
  BY DEF E!OpenNotes, E!row, E!note, E!adding, E!ghosts
<1>2. requests \in Seq(Updates)
  BY DEF EditorsShape
<1>3. ASSUME NEW n \in DOMAIN requests PROVE R(n) \in Updates /\ R(n).patch = requests[n].patch
  <2> DEFINE r == requests[n]
             w == IF r.from = "notes" THEN "late" ELSE r.from
  <2>1. r \in Updates
    BY <1>2
  <2>2. w \in {"row", "detail", "notes", "late"}
    BY <2>1 DEF Updates
  <2>3. R(n) = [r EXCEPT !.from = w]
    OBVIOUS
  <2> HIDE DEF r, w, R
  <2>4. [r EXCEPT !.from = w] \in Updates /\ [r EXCEPT !.from = w].patch = r.patch
    BY <2>1, <2>2 DEF Updates
  <2> QED BY <2>3, <2>4 DEF r
<1> HIDE DEF R
<1>4. requests' \in Seq(Updates) /\ DOMAIN requests' = DOMAIN requests
  BY <1>1, <1>2, <1>3
<1>5. \A n \in DOMAIN requests' : DOMAIN requests'[n].patch \subseteq touched
  BY <1>1, <1>3, <1>4 DEF OnlyTouched
<1>6. EditorsShape'
  BY <1>1, <1>4 DEF EditorsShape
<1>7. OnlyTouched'
  BY <1>1, <1>5 DEF OnlyTouched, E!NoBystanderWrites
<1> QED BY <1>1, <1>6, <1>7 DEF Typed, AddsKept

LEMMA DraftMade ==
    ASSUME EditorsInv,
           E!StartNoteEdit \/ (\E v \in Texts : E!NoteInput(v)) \/ E!BlurNote \/ E!CloseModal
    PROVE  EditorsInv'
<1> USE DEF EditorsInv
<1>1. CASE E!StartNoteEdit
  <2>1. /\ noteLines' = E!Shown /\ touched' = touched \union {"notes"}
        /\ UNCHANGED <<server, store, events, requests, editor, input, seeded, typed, modal, form, draft,
                       timer, late, typedNote, addText, adds, created, submitted, truth>>
    BY <1>1 DEF E!StartNoteEdit, E!task, E!row, E!adding
  <2>2. E!Shown \in Texts /\ (typedNote # None => E!Shown = typedNote)
    BY DEF EditorsShape, Typed, E!Shown, TheTask, E!Fields
  <2>3. EditorsShape'
    BY <2>1, <2>2 DEF EditorsShape, E!Fields
  <2>4. touched \subseteq touched' /\ "notes" \in touched'
    BY <2>1
  <2>5. OnlyTouched'
    BY <2>1, <2>4 DEF OnlyTouched, E!NoBystanderWrites
  <2> QED BY <2>1, <2>2, <2>3, <2>5 DEF Typed, AddsKept
<1>2. ASSUME NEW v \in Texts, E!NoteInput(v) PROVE EditorsInv'
  <2>1. /\ noteLines # None /\ noteLines' = v /\ draft' = v /\ timer' = TRUE /\ typedNote' = v
        /\ UNCHANGED <<server, store, events, requests, editor, input, seeded, typed, modal, form, late,
                       addText, adds, created, submitted, touched, truth>>
    BY <1>2 DEF E!NoteInput, E!HandleTaskNoteChange, E!task, E!row, E!adding, E!ghosts
  <2>2. EditorsShape'
    BY <2>1, TextsAssumption DEF EditorsShape, TextsAssumption
  <2>3. OnlyTouched'
    BY <2>1 DEF OnlyTouched, E!NoBystanderWrites
  <2> QED BY <2>1, <2>2, <2>3 DEF Typed, AddsKept
<1>3. CASE E!BlurNote
  <2>1. /\ noteLines # None /\ noteLines' = None /\ draft' = noteLines /\ timer' = TRUE
        /\ UNCHANGED <<server, store, events, requests, editor, input, seeded, typed, modal, form, late,
                       typedNote, addText, adds, created, submitted, touched, truth>>
    BY <1>3 DEF E!BlurNote, E!HandleTaskNoteChange, E!task, E!row, E!adding, E!ghosts
  <2>2. EditorsShape'
    BY <2>1 DEF EditorsShape
  <2>3. OnlyTouched'
    BY <2>1 DEF OnlyTouched, E!NoBystanderWrites
  <2>4. Typed'
    BY <2>1 DEF Typed
  <2> QED BY <2>1, <2>2, <2>3, <2>4 DEF AddsKept
<1>4. CASE E!CloseModal
  <2>1. /\ modal' = "none" /\ draft' = None /\ timer' = FALSE /\ typedNote' = None
        /\ late' = (IF timer THEN Append(late, draft) ELSE late)
        /\ UNCHANGED <<server, store, events, requests, editor, input, seeded, typed, form, noteLines,
                       addText, adds, created, submitted, touched, truth>>
    BY <1>4 DEF E!CloseModal, E!task, E!row, E!adding, E!ghosts
  <2>2. late' \in Seq(Texts) /\ (late' # <<>> => "notes" \in touched)
    BY <2>1 DEF EditorsShape, OnlyTouched
  <2>3. EditorsShape'
    BY <2>1, <2>2 DEF EditorsShape
  <2>4. OnlyTouched'
    BY <2>1, <2>2 DEF OnlyTouched, E!NoBystanderWrites
  <2> QED BY <2>1, <2>3, <2>4 DEF Typed, AddsKept
<1> QED BY <1>1, <1>2, <1>3, <1>4

LEMMA DraftSaved ==
    ASSUME EditorsInv, E!CommitTaskNote \/ E!CommitLate
    PROVE  EditorsInv'
<1>1. PICK v \in Texts, from \in {"notes", "late"} :
          /\ E!Update(E!One("notes", v), from) /\ "notes" \in touched
          /\ timer' \in BOOLEAN /\ (timer' => timer) /\ late' \in Seq(Texts)
          /\ UNCHANGED <<server, events, editor, seeded, typed, draft, typedNote, addText, adds,
                         created, submitted, touched, truth>>
  <2>1. CASE E!CommitTaskNote
    <3>1. draft \in Texts /\ "notes" \in touched /\ late \in Seq(Texts)
      BY <2>1 DEF E!CommitTaskNote, EditorsInv, EditorsShape, OnlyTouched
    <3> QED BY <2>1, <3>1 DEF E!CommitTaskNote, E!adding, E!ghosts
  <2>2. CASE E!CommitLate
    <3>1. Head(late) \in Texts /\ Tail(late) \in Seq(Texts) /\ "notes" \in touched /\ timer \in BOOLEAN
      BY <2>2, Behind DEF E!CommitLate, EditorsInv, EditorsShape, OnlyTouched
    <3> QED BY <2>2, <3>1 DEF E!CommitLate, E!adding, E!ghosts
  <2> QED BY <2>1, <2>2
<1> DEFINE p == E!One("notes", v)
<1>2. p \in E!Patches /\ DOMAIN p \subseteq touched
  BY <1>1, OneTyped DEF E!Fields
<1> HIDE DEF p
<1>3. /\ requests' \in Seq(Updates)
      /\ \A n \in DOMAIN requests' : DOMAIN requests'[n].patch \subseteq touched
  BY <1>1, <1>2, UpdateSent DEF E!Update, p
<1>4. E!With(store, p) \in TheTask /\ E!Shows(E!With(store, p), modal)
  BY <1>1, <1>2, WithTyped DEF E!Update, EditorsInv, EditorsShape, p
<1>5. /\ events' \in Seq(TheTask) /\ (timer' => timer /\ draft' # None)
      /\ modal \in {modal, "none"} /\ draft' \in {draft, None} /\ typedNote' \in {typedNote, None}
      /\ (typedNote' # None => draft' = draft)
  BY <1>1 DEF EditorsInv, EditorsShape
<1> QED BY <1>1, <1>3, <1>4, <1>5, EditorsFollow

(* The input that adds a task.                                             *)
LEMMA AddsSame ==
    ASSUME EditorsInv, AddsKept',
           UNCHANGED <<server, store, events, requests, editor, input, seeded, typed, modal, form, noteLines,
                       draft, timer, late, typedNote, touched, truth>>
    PROVE  EditorsInv'
<1>1. EditorsShape'
  BY DEF EditorsInv, EditorsShape
<1>2. OnlyTouched'
  BY DEF EditorsInv, OnlyTouched, E!NoBystanderWrites
<1> QED BY <1>1, <1>2 DEF EditorsInv, Typed

LEMMA Added ==
    ASSUME EditorsInv,
           \/ (\E v \in Texts : E!TypeAdd(v)) \/ E!HandleSubmit
           \/ \E i \in DOMAIN adds : E!ServeAdd(i) \/ E!LoseAdd(i) \/ E!AnswerAdd(i)
    PROVE  EditorsInv'
<1>1. UNCHANGED <<server, store, events, requests, editor, input, seeded, typed, modal, form, noteLines,
                  draft, timer, late, typedNote, touched, truth>>
  BY DEF E!TypeAdd, E!HandleSubmit, E!ServeAdd, E!LoseAdd, E!AnswerAdd, E!task, E!row, E!modals, E!ghosts
<1>2. AddsKept
  BY DEF EditorsInv
<1>3. ASSUME NEW v \in Texts, E!TypeAdd(v) PROVE AddsKept'
  BY <1>2, <1>3 DEF AddsKept, E!TypeAdd, E!task
<1>4. ASSUME E!HandleSubmit PROVE AddsKept'
  <2> DEFINE r == [value |-> addText, stage |-> "sent"]
  <2>1. /\ adds' = Append(adds, r) /\ addText' = addText /\ created' = created
        /\ submitted' = (IF adds = <<>> THEN submitted \union {addText} ELSE submitted)
    BY <1>4 DEF E!HandleSubmit, E!SubmittedText
  <2>2. addText \in Texts
    BY <1>2 DEF AddsKept
  <2>3. adds' \in Seq(Adds) /\ r.value = addText /\ r.stage = "sent"
    BY <1>2, <2>1, <2>2 DEF AddsKept, Adds
  <2> HIDE DEF r
  <2>4. \A n \in DOMAIN adds' : (n \in DOMAIN adds /\ adds'[n] = adds[n]) \/ adds'[n] = r
    BY <1>2, <2>1 DEF AddsKept
  <2>5. adds = <<>> => \A n \in DOMAIN adds' : adds'[n] = r
    BY <2>1, <2>4
  <2> QED BY <1>2, <2>1, <2>3, <2>4, <2>5 DEF AddsKept
<1>5. ASSUME NEW i \in DOMAIN adds, E!ServeAdd(i) PROVE AddsKept'
  <2> DEFINE r == [adds[i] EXCEPT !.stage = "ok"]
  <2>1. /\ adds' = [adds EXCEPT ![i] = r] /\ created' = created \union {adds[i].value}
        /\ addText' = addText /\ submitted' = submitted
    BY <1>5 DEF E!ServeAdd
  <2>2. adds \in Seq(Adds) /\ adds[i] \in Adds
    BY <1>2 DEF AddsKept
  <2>3. r \in Adds /\ r.value = adds[i].value
    BY <2>2 DEF Adds
  <2> HIDE DEF r
  <2>4. /\ adds' \in Seq(Adds)
        /\ \A n \in DOMAIN adds' : n \in DOMAIN adds /\ (adds'[n] = adds[n] \/ adds'[n] = r)
    BY <2>1, <2>2, <2>3
  <2> QED BY <1>2, <2>1, <2>3, <2>4 DEF AddsKept
<1>6. ASSUME NEW i \in DOMAIN adds, E!LoseAdd(i) PROVE AddsKept'
  <2> DEFINE r == [adds[i] EXCEPT !.stage = "failed"]
  <2>1. adds' = [adds EXCEPT ![i] = r] /\ UNCHANGED <<created, addText, submitted>>
    BY <1>6 DEF E!LoseAdd
  <2>2. adds \in Seq(Adds) /\ adds[i] \in Adds
    BY <1>2 DEF AddsKept
  <2>3. r \in Adds /\ r.value = adds[i].value /\ r.stage = "failed"
    BY <2>2 DEF Adds
  <2> HIDE DEF r
  <2>4. /\ adds' \in Seq(Adds)
        /\ \A n \in DOMAIN adds' : n \in DOMAIN adds /\ (adds'[n] = adds[n] \/ adds'[n] = r)
    BY <2>1, <2>2, <2>3
  <2> QED BY <1>2, <2>1, <2>3, <2>4 DEF AddsKept
<1>7. ASSUME NEW i \in DOMAIN adds, E!AnswerAdd(i) PROVE AddsKept'
  <2>1. /\ adds' = SubSeq(adds, 1, i - 1) \o SubSeq(adds, i + 1, Len(adds))
        /\ addText' = (IF adds[i].stage = "ok" THEN 0 ELSE addText) /\ UNCHANGED <<created, submitted>>
    BY <1>7 DEF E!AnswerAdd, E!RemoveAt
  <2>2. adds \in Seq(Adds) /\ addText' \in Texts
    BY <1>2, <2>1, TextsAssumption DEF AddsKept, TextsAssumption
  <2>3. adds' \in Seq(Adds) /\ \A n \in DOMAIN adds' : \E m \in DOMAIN adds : adds'[n] = adds[m]
    BY <2>1, <2>2, TakenOut
  <2>4. \A n \in DOMAIN adds' : adds'[n].stage = "ok" => adds'[n].value \in created
    BY <1>2, <2>3 DEF AddsKept
  <2>5. ASSUME NEW v \in submitted \ created PROVE addText' = v /\ \A n \in DOMAIN adds' : adds'[n].value = v
    <3>1. addText = v /\ adds[i].stage # "ok"
      BY <1>2, <2>5 DEF AddsKept
    <3>2. \A n \in DOMAIN adds' : adds'[n].value = v
      BY <1>2, <2>3, <2>5 DEF AddsKept
    <3> QED BY <2>1, <3>1, <3>2
  <2> QED BY <2>1, <2>2, <2>3, <2>4, <2>5 DEF AddsKept
<1>8. AddsKept'
  BY <1>3, <1>4, <1>5, <1>6, <1>7
<1> QED BY <1>1, <1>8, AddsSame

LEMMA EditorsKept ==
    EditorsInv /\ [E!Next]_E!vars => EditorsInv'
BY EditorsStill, UpdateServed, UpdateShown, UpdateLost, OthersTask, EditorOpened, EditorClosed, FormUsed,
   NotesOpened, DraftMade, DraftSaved, Added DEF E!Next

LEMMA EditorsHold == EditorsInv => E!TypingIsKept /\ E!NoBystanderWrites
BY DEF EditorsInv, OnlyTouched, Typed, AddsKept, E!TypingIsKept, E!Shown

(* What is typed in an editor of a task, its notes or the input that adds  *)
(* one stays until it is saved, and no write carries a field whose editor  *)
(* its user did not enter, however stale the copies it is edited in        *)
(* (TaskRow, TaskDetailModal, NotesModal, InlineAddTask), for any texts,   *)
(* fields the others write, and numbers of edits and requests.             *)
THEOREM FieldsLeftAlone ==
    E!Spec => [](E!TypingIsKept /\ E!NoBystanderWrites)
<1>1. E!Init => EditorsInv
  BY EditorsStart
<1>2. EditorsInv /\ [E!Next]_E!vars => EditorsInv'
  BY EditorsKept
<1>3. EditorsInv => E!TypingIsKept /\ E!NoBystanderWrites
  BY EditorsHold
<1>. QED
  BY <1>1, <1>2, <1>3, PTL DEF E!Spec

----------------------------------------------------------------------------
(* Once all is quiet the tab shows the server's rows, an import adds       *)
(* nothing twice, fits its file and replaces what was agreed to, and an    *)
(* entry stays in the form until its row is made: for any rows, feeds,     *)
(* files, formats and numbers of steps.                                    *)
THEOREM RowsAndImportsHold == RowsSpec => RowsAndImports
<1> DEFINE InvY == part = "rows" => RowsInv /\ Entries /\ ByHand
           InvI == part = "import" => FormInv /\ SeenInv
           Inv  == InvY /\ InvI
<1>1. RowsInit => Inv
  <2>1. part = "rows" /\ Y!Init => Inv
    BY RowsStartWell
  <2>2. part = "import" /\ I!Init => Inv
    BY FormInit, SeenInit
  <2> QED BY <2>1, <2>2 DEF RowsInit
<1>2. Inv /\ [RowsNext]_rowsVars => Inv'
  <2> SUFFICES ASSUME Inv, [RowsNext]_rowsVars PROVE Inv'
    OBVIOUS
  <2>1. part' = part
    BY DEF RowsNext, rowsVars
  <2>2. part = "rows" => [Y!Next]_Y!vars
    BY DEF RowsNext, rowsVars, rowsOnly, shared, Y!vars
  <2>3. part = "import" => [I!Next]_I!vars
    BY DEF RowsNext, rowsVars, importOnly, I!vars
  <2>4. InvY'
    BY <2>1, <2>2, RowsKept, EntriesKept, ByHandKept
  <2>5. InvI'
    BY <2>1, <2>3, SeenNext
  <2> QED BY <2>1, <2>4, <2>5
<1>3. Inv => (part = "rows" => Y!QuietShowsServer /\ Y!ImportIdempotent)
  BY RowsShown, Idempotent
<1>4. Inv => (part = "import" => I!ImportSeen /\ I!RestoreAgreed /\ I!MappingFits)
  BY Seen DEF FormInv
<1>5. Inv /\ [RowsNext]_rowsVars => [part = "rows" => Y!EntryStep]_rowsVars
  <2>1. part = "rows" /\ RowsNext => [Y!Next]_Y!vars
    BY DEF RowsNext
  <2> QED BY <2>1, EntryKept
<1> HIDE DEF Inv
<1> QED BY <1>1, <1>2, <1>3, <1>4, <1>5, PTL DEF RowsSpec, RowsAndImports

(* In the notes of days and the editors of a task what is typed stays, the *)
(* last word of all becomes the day's note, and no field of a task is      *)
(* written whose editor was not entered (DayNoteField.svelte:33, TaskRow,  *)
(* NotesModal, InlineAddTask).                                             *)
THEOREM TypingKept == RowsSpec => []TypingIsKept
<1> DEFINE InvN == part = "notes" => NotesInv
           InvE == part = "editors" => EditorsInv
           Inv  == InvN /\ InvE
<1>1. RowsInit => Inv
  <2>1. part = "notes" /\ M!Init => Inv
    BY NotesStart
  <2>2. part = "editors" /\ E!Init => Inv
    BY EditorsStart
  <2> QED BY <2>1, <2>2 DEF RowsInit
<1>2. Inv /\ [RowsNext]_rowsVars => Inv'
  <2> SUFFICES ASSUME Inv, [RowsNext]_rowsVars PROVE Inv'
    OBVIOUS
  <2>1. part' = part
    BY DEF RowsNext, rowsVars
  <2>2. part = "notes" => [M!Next]_M!vars
    BY DEF RowsNext, rowsVars, notesOnly, shared, textOnly, M!vars
  <2>3. part = "editors" => [E!Next]_E!vars
    BY DEF RowsNext, rowsVars, editorsOnly, shared, textOnly, E!vars, E!task, E!row, E!modals, E!adding,
       E!ghosts, E!counts
  <2>4. InvN'
    BY <2>1, <2>2, NotesKept
  <2>5. InvE'
    BY <2>1, <2>3, EditorsKept
  <2> QED BY <2>4, <2>5
<1>3. Inv => TypingIsKept
  BY NotesHeld, EditorsHold DEF TypingIsKept
<1> HIDE DEF Inv
<1> QED BY <1>1, <1>2, <1>3, PTL DEF RowsSpec
=============================================================================
