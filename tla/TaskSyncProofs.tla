--------------------------- MODULE TaskSyncProofs ---------------------------
(***************************************************************************)
(* Proofs about the tabs and the server, for any number of tabs, tasks,    *)
(* edits, failures, tag operations and broken connections, and every       *)
(* family of tasks.                                                        *)
(*                                                                         *)
(* That a watching tab follows the table needs three invariants.  TypeInv  *)
(* keeps enough ids for the connections still to come.  IdsApart keeps a   *)
(* tab's filter from taking the event of another for its own: the id of a  *)
(* live connection is in no other tab's hands.  Watching is the tab's own  *)
(* story: until the first edit it loads, from then on what it shows once   *)
(* the wire is read is the table, since each route publishes exactly what  *)
(* it writes and the wire keeps the order.                                 *)
(*                                                                         *)
(* That tabs which all edit agree with the table needs one, EditInv: they  *)
(* load, or they edit.  While they edit, a row that nothing is asked for   *)
(* is late by one message at most in every store, and a row that a request *)
(* is under way for is shown by its author as the request has it and by    *)
(* the others as it was, or with the one message that tells of it.         *)
(*                                                                         *)
(* That undo and redo keep their promises needs UndoInv.  A task is in one *)
(* place at most (Single): shown, in a request to delete it, or in the     *)
(* hands of a toast or an entry of the history that may still bring it     *)
(* back.  And unless requests about it overtook one another and one was    *)
(* lost, the tab and the trash tell the same of it (RowAgrees).            *)
(*                                                                         *)
(* Of the keys KeysInv says that a first key which waits is the keystroke  *)
(* right before, and Registry what bindings there can be; the matcher is   *)
(* looked through for each (FeedIs, BoundFires).                           *)
(***************************************************************************)
EXTENDS MCSync, RecursionLemmas, FiniteSetTheorems, SequenceTheorems

----------------------------------------------------------------------------
(* The rows of a store, and what a list of messages makes of them.         *)

(* A row of s with the id t, if any, has an index: the one Find takes.     *)
LEMMA FindRow ==
    ASSUME NEW s \in Seq(Rows), NEW t, Has(s, t)
    PROVE  Find(s, t) \in Rows /\ Find(s, t).id = t
<1> DEFINE I == { i \in 1 .. Len(s) : s[i].id = t }
<1>1. I \subseteq Nat /\ I # {} /\ DOMAIN s = 1 .. Len(s)
  BY DEF Has
<1>2. PICK i \in I : \A j \in I : i <= j
  <2> HIDE DEF I
  <2> QED BY <1>1, LeastNumber
<1>3. i \in DOMAIN s /\ s[i].id = t
  BY <1>1, <1>2
<1>4. \A j \in 1 .. i - 1 : s[j].id # t
  BY <1>2
<1>5. \E k \in DOMAIN s : s[k].id = t /\ \A j \in 1 .. k - 1 : s[j].id # t
  BY <1>3, <1>4
<1>6. PICK k \in DOMAIN s : Find(s, t) = s[k] /\ s[k].id = t
  BY <1>5 DEF Find
<1>7. s[k] \in Rows
  BY <1>1
<1> QED BY <1>6, <1>7

(* What a store holds is rows.                                             *)
LEMMA RowsOfStore ==
    ASSUME NEW s \in Seq(Rows)
    PROVE  \A r \in Rowset(s) : r \in Rows /\ r.id \in Tasks /\ r.val \in Values
<1>1. \A i \in DOMAIN s : s[i] \in Rows
  OBVIOUS
<1>2. \A r \in Rows : r.id \in Tasks /\ r.val \in Values
  BY DEF Rows
<1> QED BY <1>1, <1>2 DEF Rowset

(* Replacing a row moves none.                                             *)
LEMMA ReplacedRows ==
    ASSUME NEW s \in Seq(Rows), NEW r \in Rows
    PROVE  /\ Replaced(s, r) \in Seq(Rows)
           /\ DOMAIN Replaced(s, r) = DOMAIN s
           /\ \A i \in DOMAIN s : Replaced(s, r)[i] = IF s[i].id = r.id THEN r ELSE s[i]
BY DEF Replaced

(* A row that joins is there once, if no other had its id.                 *)
LEMMA AppendedRows ==
    ASSUME NEW s \in Seq(Rows), NEW r \in Rows
    PROVE  /\ Append(s, r) \in Seq(Rows)
           /\ Rowset(Append(s, r)) = Rowset(s) \union {r}
           /\ Distinct(s) /\ ~Has(s, r.id) => Distinct(Append(s, r))
<1> DEFINE more == Append(s, r)
<1>1. /\ more \in Seq(Rows) /\ DOMAIN more = 1 .. Len(s) + 1 /\ more[Len(s) + 1] = r
      /\ DOMAIN s = 1 .. Len(s) /\ Len(s) \in Nat
      /\ \A i \in DOMAIN s : more[i] = s[i]
  OBVIOUS
<1> HIDE DEF more
<1>2. Rowset(more) = Rowset(s) \union {r}
  BY <1>1 DEF Rowset
<1>3. ASSUME Distinct(s), ~Has(s, r.id) PROVE Distinct(more)
  BY <1>1, <1>3 DEF Distinct, Has
<1> QED BY <1>1, <1>2, <1>3 DEF more


(* The recursion of Without.                                               *)
LEMMA WithoutRecursion ==
    ASSUME NEW s \in Seq(Rows), NEW t
    PROVE  \E f : /\ Without(s, t) = f[Len(s)]
                  /\ f[0] = <<>>
                  /\ \A i \in 1 .. Len(s) :
                        f[i] = IF s[i].id = t THEN f[i - 1] ELSE Append(f[i - 1], s[i])
<1> DEFINE G(f) == [i \in 0 .. Len(s) |->
                       IF i = 0 THEN <<>>
                       ELSE IF s[i].id = t THEN f[i - 1] ELSE Append(f[i - 1], s[i])]
           A == Seq(Rows)
           g == [i \in 1 .. Len(s) |-> [x \in A |->
                      IF s[i].id = t THEN x ELSE Append(x, s[i])]]
<1>1. Len(s) \in Nat /\ g \in [1 .. Len(s) -> [A -> A]] /\ <<>> \in A
  OBVIOUS
<1>2. PICK h : Solves(h, Len(s), A, <<>>, g)
  <2> HIDE DEF g, A
  <2> QED BY <1>1, RecursionExists
<1>3. h \in [0 .. Len(s) -> A] /\ h[0] = <<>> /\ \A i \in 1 .. Len(s) : h[i] = g[i][h[i - 1]]
  <2> HIDE DEF g, A
  <2> QED BY <1>2 DEF Solves
<1>4. \A i \in 1 .. Len(s) : i - 1 \in 0 .. Len(s) /\ h[i - 1] \in A
  BY <1>1, <1>3
<1>5. \A i \in 1 .. Len(s) : h[i] = IF s[i].id = t THEN h[i - 1] ELSE Append(h[i - 1], s[i])
  <2> TAKE i \in 1 .. Len(s)
  <2>1. g[i] = [x \in A |-> IF s[i].id = t THEN x ELSE Append(x, s[i])]
    OBVIOUS
  <2> HIDE DEF g
  <2> QED BY <1>3, <1>4, <2>1
<1>6. h = G(h)
  <2> HIDE DEF g, A
  <2>1. \A i \in 0 .. Len(s) : i = 0 \/ i \in 1 .. Len(s)
    BY <1>1
  <2>2. \A i \in 0 .. Len(s) : h[i] = G(h)[i]
    BY <1>3, <1>5, <2>1
  <2>3. DOMAIN h = 0 .. Len(s) /\ h = [i \in 0 .. Len(s) |-> h[i]]
    BY <1>3
  <2> QED BY <2>2, <2>3
<1>7. PICK f : f = G(f) /\ f = CHOOSE f1 : f1 = G(f1)
  <2> HIDE DEF G
  <2> QED BY <1>6
<1>8. Without(s, t) = f[Len(s)]
  BY <1>7 DEF Without
<1>9. \A i \in 0 .. Len(s) : f[i] = IF i = 0 THEN <<>>
          ELSE IF s[i].id = t THEN f[i - 1] ELSE Append(f[i - 1], s[i])
  BY <1>7
<1> HIDE DEF g, G, A
<1>10. /\ f[0] = <<>>
       /\ \A i \in 1 .. Len(s) : f[i] = IF s[i].id = t THEN f[i - 1] ELSE Append(f[i - 1], s[i])
  BY <1>1, <1>9
<1> QED BY <1>8, <1>10

(* Without drops the rows of one id and keeps the others in their order.   *)
LEMMA WithoutRows ==
    ASSUME NEW s \in Seq(Rows), NEW t
    PROVE  /\ Without(s, t) \in Seq(Rows)
           /\ Rowset(Without(s, t)) = { r \in Rowset(s) : r.id # t }
           /\ Distinct(s) => Distinct(Without(s, t))
<1>1. PICK f : /\ Without(s, t) = f[Len(s)]
               /\ f[0] = <<>>
               /\ \A i \in 1 .. Len(s) :
                     f[i] = IF s[i].id = t THEN f[i - 1] ELSE Append(f[i - 1], s[i])
  BY WithoutRecursion, SMTT(30)
<1>2. Len(s) \in Nat /\ DOMAIN s = 1 .. Len(s) /\ \A i \in 1 .. Len(s) : s[i] \in Rows
  OBVIOUS
<1> DEFINE Before(i) == { s[j] : j \in { k \in 1 .. i : s[k].id # t } }
           S == { i \in 0 .. Len(s) : /\ f[i] \in Seq(Rows)
                                      /\ Rowset(f[i]) = Before(i)
                                      /\ Distinct(s) => Distinct(f[i]) }
<1>3. 0 \in S
  <2>1. Rowset(<<>>) = {} /\ Distinct(<<>>) /\ <<>> \in Seq(Rows)
    BY DEF Rowset, Distinct
  <2>2. Before(0) = {} /\ 0 \in 0 .. Len(s)
    BY <1>2
  <2> HIDE DEF Before
  <2> QED BY <1>1, <2>1, <2>2
<1>4. ASSUME NEW n \in 0 .. Len(s), n < Len(s), n \in S PROVE n + 1 \in S
  <2>1. /\ n + 1 \in 1 .. Len(s) /\ n + 1 - 1 = n /\ f[n] \in Seq(Rows) /\ s[n + 1] \in Rows
        /\ Rowset(f[n]) = Before(n) /\ (Distinct(s) => Distinct(f[n]))
    BY <1>2, <1>4
  <2>4. f[n + 1] = IF s[n + 1].id = t THEN f[n] ELSE Append(f[n], s[n + 1])
    <3> HIDE DEF S, Before
    <3> QED BY <1>1, <2>1
  <2>2. CASE s[n + 1].id = t
    <3>1. f[n + 1] = f[n]
      BY <2>4, <2>2
    <3>2. Before(n + 1) = Before(n)
      BY <1>2, <2>1, <2>2
    <3> QED BY <2>1, <3>1, <3>2
  <2>3. CASE s[n + 1].id # t
    <3>1. f[n + 1] = Append(f[n], s[n + 1])
      BY <2>4, <2>3
    <3>2. Before(n + 1) = Before(n) \union {s[n + 1]}
      BY <1>2, <2>1, <2>3
    <3>3. ASSUME Distinct(s) PROVE ~Has(f[n], s[n + 1].id)
      <4>1. \A j \in 1 .. n : s[j].id # s[n + 1].id
        BY <1>2, <2>1, <3>3 DEF Distinct
      <4>2. \A r \in Rowset(f[n]) : r.id # s[n + 1].id
        BY <2>1, <4>1
      <4> QED BY <4>2 DEF Has, Rowset
    <3>4. f[n + 1] \in Seq(Rows) /\ Rowset(f[n + 1]) = Before(n + 1)
      BY <2>1, <3>1, <3>2, AppendedRows
    <3>5. Distinct(s) => Distinct(f[n + 1])
      BY <2>1, <3>1, <3>3, AppendedRows
    <3> QED BY <2>1, <3>4, <3>5
  <2> QED BY <2>2, <2>3
<1>5. \A n \in 0 .. Len(s) : n \in S
  <2> HIDE DEF S
  <2> QED BY <1>2, <1>3, <1>4, BoundedInduction
<1>6. Len(s) \in S
  <2> HIDE DEF S
  <2> QED BY <1>2, <1>5
<1>7. Before(Len(s)) = { r \in Rowset(s) : r.id # t }
  BY <1>2 DEF Rowset
<1> QED BY <1>1, <1>6, <1>7

----------------------------------------------------------------------------
(* What a message tells of a row is a row.                                 *)
Telling == {"created", "updated", "deleted", "restored"}
News    == { m \in Messages : m.kind \in Telling => m.row \in Rows }

(* A store that reads a message still holds rows.                          *)
LEMMA AppliedRows ==
    ASSUME NEW s \in Seq(Rows), NEW m \in News
    PROVE  Applied(s, m) \in Seq(Rows)
<1>1. m.kind \in Telling \union {"ack", "retagged"}
  BY DEF News, Messages, Telling
<1>2. CASE m.kind \in {"created", "restored"}
  <2>1. m.row \in Rows
    BY <1>2 DEF News, Telling
  <2> QED BY <1>2, <2>1, ReplacedRows, AppendedRows DEF Applied, Upserted
<1>3. CASE m.kind = "updated"
  <2>1. m.row \in Rows
    BY <1>3 DEF News, Telling
  <2> QED BY <1>3, <2>1, ReplacedRows DEF Applied
<1>4. CASE m.kind = "deleted"
  BY <1>4, WithoutRows DEF Applied
<1>5. CASE m.kind \in {"ack", "retagged"}
  BY <1>5 DEF Applied
<1> QED BY <1>1, <1>2, <1>3, <1>4, <1>5 DEF Telling

(* The recursion of Read: f is the store after each message.               *)
ReadAlong(f, s, w) ==
    /\ Read(s, w) = f[Len(w)]
    /\ f \in [0 .. Len(w) -> Seq(Rows)]
    /\ f[0] = s
    /\ \A i \in 1 .. Len(w) : f[i] = Applied(f[i - 1], w[i])

(* Such a function there is.                                               *)
LEMMA ReadRecursion ==
    ASSUME NEW s \in Seq(Rows), NEW w \in Seq(News)
    PROVE  \E f : ReadAlong(f, s, w)
<1> DEFINE G(f) == [i \in 0 .. Len(w) |-> IF i = 0 THEN s ELSE Applied(f[i - 1], w[i])]
           A == Seq(Rows)
           g == [i \in 1 .. Len(w) |-> [x \in A |-> Applied(x, w[i])]]
<1>1. Len(w) \in Nat /\ g \in [1 .. Len(w) -> [A -> A]] /\ s \in A
  <2>1. Len(w) \in Nat /\ \A i \in 1 .. Len(w) : w[i] \in News
    OBVIOUS
  <2>2. \A x \in A, i \in 1 .. Len(w) : Applied(x, w[i]) \in A
    BY <2>1, AppliedRows
  <2> HIDE DEF A
  <2> QED BY <2>1, <2>2 DEF A
<1>2. PICK h : Solves(h, Len(w), A, s, g)
  <2> HIDE DEF g, A
  <2> QED BY <1>1, RecursionExists
<1>3. h \in [0 .. Len(w) -> A] /\ h[0] = s /\ \A i \in 1 .. Len(w) : h[i] = g[i][h[i - 1]]
  <2> HIDE DEF g, A
  <2> QED BY <1>2 DEF Solves
<1>4. \A i \in 1 .. Len(w) : i - 1 \in 0 .. Len(w) /\ h[i - 1] \in A
  <2> HIDE DEF A, g
  <2> QED BY <1>1, <1>3
<1>5. \A i \in 1 .. Len(w) : h[i] = Applied(h[i - 1], w[i])
  <2> TAKE i \in 1 .. Len(w)
  <2>1. g[i] = [x \in A |-> Applied(x, w[i])]
    OBVIOUS
  <2> HIDE DEF g
  <2> QED BY <1>3, <1>4, <2>1
<1>6. h = G(h)
  <2> HIDE DEF g, A
  <2>1. \A i \in 0 .. Len(w) : i = 0 \/ i \in 1 .. Len(w)
    BY <1>1
  <2>2. \A i \in 0 .. Len(w) : h[i] = G(h)[i]
    BY <1>3, <1>5, <2>1
  <2>3. DOMAIN h = 0 .. Len(w) /\ h = [i \in 0 .. Len(w) |-> h[i]]
    BY <1>3
  <2> QED BY <2>2, <2>3
<1>7. PICK f : f = G(f) /\ f = CHOOSE f1 : f1 = G(f1)
  <2> HIDE DEF G
  <2> QED BY <1>6
<1>8. Read(s, w) = f[Len(w)]
  BY <1>7 DEF Read
<1>9. DOMAIN f = 0 .. Len(w) /\ \A i \in 0 .. Len(w) : f[i] = IF i = 0 THEN s ELSE Applied(f[i - 1], w[i])
  BY <1>7
<1> HIDE DEF g, G
<1>10. f[0] = s /\ \A i \in 1 .. Len(w) : f[i] = Applied(f[i - 1], w[i])
  BY <1>1, <1>9
<1> DEFINE S == { i \in 0 .. Len(w) : f[i] \in Seq(Rows) }
<1>11. 0 \in S
  BY <1>1, <1>10
<1>12. ASSUME NEW n \in 0 .. Len(w), n < Len(w), n \in S PROVE n + 1 \in S
  <2>1. n + 1 \in 1 .. Len(w) /\ n + 1 - 1 = n /\ w[n + 1] \in News /\ f[n] \in Seq(Rows)
    BY <1>12
  <2>2. f[n + 1] = Applied(f[n], w[n + 1])
    BY <1>10, <2>1
  <2>3. f[n + 1] \in Seq(Rows)
    BY <2>1, <2>2, AppliedRows
  <2> QED BY <2>1, <2>3
<1>13. \A n \in 0 .. Len(w) : n \in S
  <2> HIDE DEF S
  <2> QED BY <1>1, <1>11, <1>12, BoundedInduction
<1>14. f \in [0 .. Len(w) -> Seq(Rows)]
  <2>1. \A n \in 0 .. Len(w) : f[n] \in Seq(Rows)
    BY <1>13
  <2>2. f = [n \in 0 .. Len(w) |-> f[n]]
    BY <1>7 DEF G
  <2> HIDE DEF S
  <2> QED BY <2>1, <2>2
<1> QED BY <1>8, <1>10, <1>14 DEF ReadAlong

(* A message that joins the wire is read last.                             *)
LEMMA ReadAppend ==
    ASSUME NEW s \in Seq(Rows), NEW w \in Seq(News), NEW m \in News
    PROVE  Read(s, w) \in Seq(Rows) /\ Read(s, Append(w, m)) = Applied(Read(s, w), m)
<1> DEFINE v == Append(w, m)
<1>1. /\ v \in Seq(News) /\ Len(w) \in Nat /\ Len(v) = Len(w) + 1 /\ v[Len(v)] = m
      /\ \A i \in 1 .. Len(w) : v[i] = w[i]
  OBVIOUS
<1> HIDE DEF v
<1>2. PICK f : ReadAlong(f, s, w)
  BY ReadRecursion
<1>3. PICK h : ReadAlong(h, s, v)
  BY <1>1, ReadRecursion
<1> DEFINE S == { i \in 0 .. Len(w) : h[i] = f[i] }
<1>4. 0 \in S
  BY <1>1, <1>2, <1>3 DEF ReadAlong
<1>5. ASSUME NEW n \in 0 .. Len(w), n < Len(w), n \in S PROVE n + 1 \in S
  <2>1. n + 1 \in 1 .. Len(w) /\ n + 1 \in 1 .. Len(v) /\ n + 1 - 1 = n /\ h[n] = f[n]
    BY <1>1, <1>5 DEF ReadAlong
  <2>2. h[n + 1] = Applied(h[n], v[n + 1]) /\ f[n + 1] = Applied(f[n], w[n + 1])
    BY <1>2, <1>3, <2>1 DEF ReadAlong
  <2> QED BY <1>1, <2>1, <2>2
<1>6. \A n \in 0 .. Len(w) : n \in S
  <2> HIDE DEF S
  <2> QED BY <1>1, <1>4, <1>5, BoundedInduction DEF ReadAlong
<1>7. h[Len(w)] = f[Len(w)] /\ f[Len(w)] \in Seq(Rows)
  BY <1>1, <1>2, <1>6 DEF ReadAlong
<1>8. Len(v) \in 1 .. Len(v) /\ Len(v) - 1 = Len(w)
  BY <1>1
<1>9. h[Len(v)] = Applied(h[Len(w)], m)
  BY <1>1, <1>3, <1>8 DEF ReadAlong
<1> QED BY <1>2, <1>3, <1>7, <1>9 DEF v, ReadAlong

(* Whether a message is read now or later makes no difference.             *)
LEMMA ReadHead ==
    ASSUME NEW s \in Seq(Rows), NEW w \in Seq(News), w # <<>>
    PROVE  Read(Applied(s, Head(w)), Tail(w)) = Read(s, w)
<1> DEFINE v == Tail(w)
           one == Applied(s, Head(w))
<1>1. /\ v \in Seq(News) /\ Len(w) \in Nat \ {0} /\ Len(v) = Len(w) - 1 /\ Head(w) = w[1] /\ Head(w) \in News
      /\ \A i \in 1 .. Len(v) : v[i] = w[i + 1]
  OBVIOUS
<1>2. one \in Seq(Rows)
  BY <1>1, AppliedRows
<1>3. PICK f : ReadAlong(f, s, w)
  BY ReadRecursion
<1>4. f[1] = one
  <2>1. 1 \in 1 .. Len(w) /\ 1 - 1 = 0
    BY <1>1
  <2> QED BY <1>1, <1>3, <2>1 DEF ReadAlong
<1> HIDE DEF v, one
<1>5. PICK h : ReadAlong(h, one, v)
  BY <1>1, <1>2, ReadRecursion
<1> DEFINE S == { i \in 0 .. Len(v) : h[i] = f[i + 1] }
<1>6. 0 \in S
  BY <1>1, <1>4, <1>5 DEF ReadAlong
<1>7. ASSUME NEW n \in 0 .. Len(v), n < Len(v), n \in S PROVE n + 1 \in S
  <2>1. /\ n + 1 \in 1 .. Len(v) /\ n + 2 \in 1 .. Len(w) /\ n + 1 - 1 = n /\ n + 2 - 1 = n + 1
        /\ n + 1 + 1 = n + 2 /\ n + 1 \in 0 .. Len(v) /\ h[n] = f[n + 1]
    BY <1>1, <1>7
  <2>2. h[n + 1] = Applied(h[n], v[n + 1]) /\ f[n + 2] = Applied(f[n + 1], w[n + 2])
    BY <1>3, <1>5, <2>1 DEF ReadAlong
  <2>3. v[n + 1] = w[n + 2]
    BY <1>1, <2>1
  <2> QED BY <2>1, <2>2, <2>3
<1>8. \A n \in 0 .. Len(v) : n \in S
  <2> HIDE DEF S
  <2>1. Len(v) \in Nat
    BY <1>1
  <2> QED BY <2>1, <1>6, <1>7, BoundedInduction
<1>9. h[Len(v)] = f[Len(w)]
  <2>1. Len(v) \in 0 .. Len(v) /\ Len(v) + 1 = Len(w)
    BY <1>1
  <2> QED BY <1>8, <2>1
<1> QED BY <1>3, <1>5, <1>9 DEF v, one, ReadAlong

----------------------------------------------------------------------------
Tables == [Tasks -> [state: States, val: Values]]

(* Only the row t changes, and the contents of a parent at most.           *)
Elsewhere(tab, new, t) ==
    \A u \in Tasks \ {t} : /\ new[u].state = tab[u].state
                           /\ u \notin Parents => new[u].val = tab[u].val

(* Who agreed with the table agrees once the news are read: of a row that  *)
(* is shown ...                                                            *)
LEMMA AgreesOnShown ==
    ASSUME NEW s \in Seq(Rows), NEW tab \in Tables, NEW new \in Tables, NEW m \in News,
           Agrees(s, tab), m.kind \in {"created", "restored"},
           tab[m.row.id].state # "live", new[m.row.id] = [state |-> "live", val |-> m.row.val],
           Elsewhere(tab, new, m.row.id)
    PROVE  Agrees(Applied(s, m), new)
<1> DEFINE r == m.row
<1>1. r \in Rows /\ r.id \in Tasks
  BY DEF News, Telling, Rows
<1>2. ~Has(s, r.id)
  BY <1>1 DEF Agrees, Has, Rowset, Live
<1>3. Applied(s, m) = Append(s, r)
  BY <1>2 DEF Applied, Upserted
<1>4. Distinct(Append(s, r)) /\ Rowset(Append(s, r)) = Rowset(s) \union {r}
  BY <1>1, <1>2, AppendedRows DEF Agrees
<1>5. Live(new) = Live(tab) \union {r.id}
  BY <1>1 DEF Live, Elsewhere
<1>6. \A x \in Rowset(s) : x.id \in Tasks /\ x.id # r.id
  BY <1>2, RowsOfStore DEF Has, Rowset
<1> QED BY <1>1, <1>3, <1>4, <1>5, <1>6 DEF Agrees, Elsewhere

(* ... of new contents ...                                                 *)
LEMMA AgreesOnUpdated ==
    ASSUME NEW s \in Seq(Rows), NEW tab \in Tables, NEW new \in Tables, NEW m \in News,
           Agrees(s, tab), m.kind = "updated",
           tab[m.row.id].state = "live", new[m.row.id].state = "live",
           m.row.id \notin Parents => new[m.row.id].val = m.row.val,
           Elsewhere(tab, new, m.row.id)
    PROVE  Agrees(Applied(s, m), new)
<1> DEFINE r == m.row
           q == Replaced(s, r)
<1>1. r \in Rows /\ r.id \in Tasks
  BY DEF News, Telling, Rows
<1>2. Applied(s, m) = q
  BY DEF Applied
<1>3. q \in Seq(Rows) /\ DOMAIN q = DOMAIN s
      /\ \A i \in DOMAIN s : q[i] = IF s[i].id = r.id THEN r ELSE s[i]
  BY <1>1, ReplacedRows
<1> HIDE DEF q
<1>4. \A i \in DOMAIN s : q[i].id = s[i].id
  BY <1>3
<1>5. Distinct(q)
  BY <1>3, <1>4 DEF Distinct, Agrees
<1>6. { x.id : x \in Rowset(q) } = { x.id : x \in Rowset(s) }
  BY <1>3, <1>4 DEF Rowset
<1>7. Live(new) = Live(tab)
  BY <1>1 DEF Live, Elsewhere
<1>8. ASSUME NEW i \in DOMAIN s, q[i].id \notin Parents PROVE q[i].val = new[q[i].id].val
  <2>0. s[i] \in Rowset(s)
    BY DEF Rowset
  <2>1. s[i].id \in Tasks /\ (s[i].id \notin Parents => s[i].val = tab[s[i].id].val)
    BY <2>0, RowsOfStore DEF Agrees
  <2> QED BY <1>3, <1>4, <1>8, <2>1 DEF Elsewhere
<1>9. \A x \in Rowset(q) : x.id \notin Parents => x.val = new[x.id].val
  BY <1>3, <1>8 DEF Rowset
<1> QED BY <1>2, <1>5, <1>6, <1>7, <1>9 DEF Agrees

(* ... and of a row that is gone.                                          *)
LEMMA AgreesOnDeleted ==
    ASSUME NEW s \in Seq(Rows), NEW tab \in Tables, NEW new \in Tables, NEW m \in News,
           Agrees(s, tab), m.kind = "deleted", new[m.row.id].state # "live",
           Elsewhere(tab, new, m.row.id)
    PROVE  Agrees(Applied(s, m), new)
<1> DEFINE t == m.row.id
           q == Without(s, t)
<1>1. t \in Tasks
  BY DEF News, Telling, Rows
<1>2. Applied(s, m) = q
  BY DEF Applied
<1>3. Distinct(q) /\ Rowset(q) = { r \in Rowset(s) : r.id # t }
  BY WithoutRows DEF Agrees
<1>4. Live(new) = Live(tab) \ {t}
  BY <1>1 DEF Live, Elsewhere
<1>5. \A r \in Rowset(s) : r.id \in Tasks
  BY RowsOfStore
<1> HIDE DEF q
<1>6. { r.id : r \in Rowset(q) } = Live(new)
  BY <1>3, <1>4 DEF Agrees
<1>7. \A r \in Rowset(q) : r.id \notin Parents => r.val = new[r.id].val
  BY <1>3, <1>5 DEF Agrees, Elsewhere
<1> QED BY <1>2, <1>3, <1>6, <1>7 DEF Agrees

(* News without a row changes nothing.                                     *)
LEMMA AppliedSilent ==
    ASSUME NEW s, NEW m \in News, m.kind \in {"ack", "retagged"}
    PROVE  Applied(s, m) = s
BY DEF Applied

(* What GET /api/tasks answers is each row that is there, once ...         *)
LEMMA LiveRowsEach ==
    ASSUME NEW tab \in Tables
    PROVE  /\ LiveRows(tab) \in Seq(Rows) /\ Distinct(LiveRows(tab))
           /\ Rowset(LiveRows(tab)) = { Row(t, tab[t].val) : t \in Live(tab) }
<1> DEFINE Next1(x, t) == IF tab[t].state = "live" THEN Append(x, Row(t, tab[t].val)) ELSE x
           G(f) == [t \in 0 .. MaxTask |->
                       IF t = 0 THEN <<>>
                       ELSE IF tab[t].state = "live" THEN Append(f[t - 1], Row(t, tab[t].val))
                       ELSE f[t - 1]]
           A == Seq(Rows)
           g == [t \in 1 .. MaxTask |-> [x \in A |-> Next1(x, t)]]
<1>1. MaxTask \in Nat /\ Tasks = 1 .. MaxTask /\ <<>> \in A
  BY SyncAssumption DEF Tasks
<1>2. \A t \in Tasks : Row(t, tab[t].val) \in Rows
  BY DEF Tables, Row, Rows
<1>3. g \in [1 .. MaxTask -> [A -> A]]
  <2>1. \A x \in A, t \in Tasks : Next1(x, t) \in A
    BY <1>2
  <2> HIDE DEF A, Next1
  <2> QED BY <1>1, <2>1
<1>4. PICK h : Solves(h, MaxTask, A, <<>>, g)
  <2> HIDE DEF g, A
  <2> QED BY <1>1, <1>3, RecursionExists
<1>5. /\ h \in [0 .. MaxTask -> A] /\ h[0] = <<>>
      /\ \A t \in 1 .. MaxTask : h[t] = g[t][h[t - 1]] /\ h[t - 1] \in A
  <2> HIDE DEF g, A
  <2> QED BY <1>1, <1>4 DEF Solves
<1>6. \A t \in 1 .. MaxTask : h[t] = Next1(h[t - 1], t)
  <2> TAKE t \in 1 .. MaxTask
  <2>1. g[t] = [x \in A |-> Next1(x, t)]
    OBVIOUS
  <2> HIDE DEF g, Next1
  <2> QED BY <1>5, <2>1
<1>7. h = G(h)
  <2> HIDE DEF g, A
  <2>1. \A t \in 0 .. MaxTask : t = 0 \/ t \in 1 .. MaxTask
    BY <1>1
  <2>2. \A t \in 0 .. MaxTask : h[t] = G(h)[t]
    BY <1>5, <1>6, <2>1
  <2>3. DOMAIN h = 0 .. MaxTask /\ h = [t \in 0 .. MaxTask |-> h[t]]
    BY <1>5
  <2> QED BY <2>2, <2>3
<1>8. PICK f : f = G(f) /\ f = CHOOSE f1 : f1 = G(f1)
  <2> HIDE DEF G
  <2> QED BY <1>7
<1>9. LiveRows(tab) = f[MaxTask]
  BY <1>8 DEF LiveRows
<1>10. \A t \in 0 .. MaxTask : f[t] = IF t = 0 THEN <<>> ELSE Next1(f[t - 1], t)
  BY <1>8
<1> HIDE DEF g, G, A
<1> DEFINE S == { n \in 0 .. MaxTask :
                    /\ f[n] \in Seq(Rows) /\ Distinct(f[n])
                    /\ Rowset(f[n]) = { Row(t, tab[t].val) : t \in { u \in Live(tab) : u <= n } } }
<1>11. 0 \in S
  <2>0. 0 \in 0 .. MaxTask
    BY <1>1
  <2>1. f[0] = <<>> /\ 0 \in 0 .. MaxTask
    BY <1>10, <2>0
  <2>2. Rowset(<<>>) = {} /\ Distinct(<<>>) /\ <<>> \in Seq(Rows)
    BY DEF Rowset, Distinct
  <2>3. { u \in Live(tab) : u <= 0 } = {}
    BY <1>1 DEF Live
  <2> QED BY <2>1, <2>2, <2>3
<1>12. ASSUME NEW n \in 0 .. MaxTask, n < MaxTask, n \in S PROVE n + 1 \in S
  <2> DEFINE t == n + 1
             Upto(k) == { Row(u, tab[u].val) : u \in { u \in Live(tab) : u <= k } }
  <2>1. t \in Tasks /\ t \in 0 .. MaxTask /\ t # 0 /\ t - 1 = n /\ n \in Nat
    BY <1>1, <1>12
  <2>2. f[n] \in Seq(Rows) /\ Distinct(f[n]) /\ Rowset(f[n]) = Upto(n)
    BY <1>12
  <2>3. f[t] = Next1(f[n], t)
    <3> HIDE DEF Next1, S
    <3> QED BY <1>10, <2>1
  <2>4. CASE tab[t].state = "live"
    <3>1. f[t] = Append(f[n], Row(t, tab[t].val))
      BY <2>3, <2>4
    <3>2. { u \in Live(tab) : u <= t } = { u \in Live(tab) : u <= n } \union {t}
      BY <1>1, <2>1, <2>4 DEF Live
    <3>3. Upto(t) = Upto(n) \union {Row(t, tab[t].val)}
      BY <3>2
    <3>4. ~Has(f[n], t)
      <4>1. \A r \in Upto(n) : r.id <= n
        BY DEF Row
      <4>2. \A i \in DOMAIN f[n] : f[n][i] \in Rowset(f[n])
        BY DEF Rowset
      <4> HIDE DEF Upto
      <4>3. \A i \in DOMAIN f[n] : f[n][i].id <= n
        BY <2>2, <4>1, <4>2
      <4> QED BY <2>1, <4>3 DEF Has
    <3>5. Row(t, tab[t].val) \in Rows /\ Row(t, tab[t].val).id = t
      BY <1>2, <2>1 DEF Row
    <3>6. f[t] \in Seq(Rows) /\ Distinct(f[t]) /\ Rowset(f[t]) = Upto(n) \union {Row(t, tab[t].val)}
      BY <2>2, <3>1, <3>4, <3>5, AppendedRows
    <3> QED BY <2>1, <3>3, <3>6
  <2>5. CASE tab[t].state # "live"
    <3>1. { u \in Live(tab) : u <= t } = { u \in Live(tab) : u <= n }
      BY <1>1, <2>1, <2>5 DEF Live
    <3>2. f[t] = f[n]
      BY <2>3, <2>5
    <3> QED BY <2>1, <2>2, <3>1, <3>2
  <2> QED BY <2>4, <2>5
<1>13. \A n \in 0 .. MaxTask : n \in S
  <2> HIDE DEF S
  <2> QED BY <1>1, <1>11, <1>12, BoundedInduction
<1>14. MaxTask \in S
  <2> HIDE DEF S
  <2> QED BY <1>1, <1>13
<1>15. { u \in Live(tab) : u <= MaxTask } = Live(tab)
  BY <1>1 DEF Live
<1>16. Rowset(LiveRows(tab)) = { Row(t, tab[t].val) : t \in Live(tab) }
  BY <1>9, <1>14, <1>15
<1>17. LiveRows(tab) \in Seq(Rows) /\ Distinct(LiveRows(tab))
  BY <1>9, <1>14
<1> QED BY <1>16, <1>17

(* ... so it agrees with the table.                                        *)
LEMMA LiveRowsAgree ==
    ASSUME NEW tab \in Tables
    PROVE  LiveRows(tab) \in Seq(Rows) /\ Agrees(LiveRows(tab), tab)
<1> DEFINE L == LiveRows(tab)
<1>1. /\ L \in Seq(Rows) /\ Distinct(L)
      /\ Rowset(L) = { Row(t, tab[t].val) : t \in Live(tab) }
  BY LiveRowsEach
<1> HIDE DEF L
<1>2. \A r \in Rowset(L) : r.id \in Live(tab) /\ r.val = tab[r.id].val
  BY <1>1 DEF Row
<1>3. \A u \in Live(tab) : \E r \in Rowset(L) : r.id = u
  <2> TAKE u \in Live(tab)
  <2>1. Row(u, tab[u].val) \in Rowset(L) /\ Row(u, tab[u].val).id = u
    BY <1>1 DEF Row
  <2> QED BY <2>1
<1>4. { r.id : r \in Rowset(L) } = Live(tab)
  BY <1>2, <1>3
<1> QED BY <1>1, <1>2, <1>4 DEF Agrees, L

----------------------------------------------------------------------------
(* The invariant, and what a route does to requests, table and wire.       *)

(* What a request holds at each stage.                                     *)
ReqsFit ==
    \A r \in reqs :
        /\ r.by \in Writers
        /\ r.kind # "create" \/ r.stage = "ok" => r.row \in Rows
        /\ r.kind = "delete" => r.prev \in Rows

Closed == { c \in Clients : conn[c] = 0 }

(* The type invariant, made inductive: a message about a row has one, and  *)
(* every client id but those of the broken connections is in use.          *)
TypeInv ==
    /\ TypeOK /\ ReqsFit
    /\ wire \in [Clients -> Seq(News)]
    /\ \A c \in Clients : conn[c] # 0 => open[c]
    /\ ids + Cardinality(Closed) = Cardinality(Clients) + cuts

(* A live connection's id is known to its own tab only.                    *)
IdsApart ==
    /\ \A c \in Clients : conn[c] <= ids /\ me[c] <= ids /\ header[c] <= ids
    /\ \A r \in reqs : r.origin <= ids
    /\ \A c, d \in Clients : c # d /\ conn[c] # 0 =>
          conn[d] # conn[c] /\ me[d] # conn[c] /\ header[d] # conn[c]
    /\ \A r \in reqs, c \in Clients : c # r.by /\ conn[c] # 0 => r.origin # conn[c]
    /\ \A c \in Clients : \A i \in DOMAIN wire[c] :
          conn[c] # 0 /\ (wire[c][i].kind = "ack" <=> wire[c][i].origin = conn[c])

Early == writes = 0 /\ retags = 0

(* A watching tab before the first edit ...                                *)
Loading(c) ==
    /\ Len(wire[c]) <= 1
    /\ \A i \in DOMAIN wire[c] : wire[c][i].kind = "ack"
    /\ fetch[c].stage = "ok" => Agrees(fetch[c].rows, table)
    /\ fetch[c].stage = "none" => Agrees(store[c], table)

(* ... and from then on, as long as nothing makes it fetch again.          *)
Following(c) ==
    /\ me[c] # 0
    /\ retags = 0 =>
          /\ fetch[c].stage = "none"
          /\ \A i \in DOMAIN wire[c] : wire[c][i].kind # "retagged"
          /\ Agrees(Read(store[c], wire[c]), table)

Watching(c) ==
    /\ open[c] => conn[c] # 0
    /\ me[c] \in {0, conn[c]}
    /\ Early => Loading(c)
    /\ ~Early => Following(c)

WatchInv ==
    /\ IdsApart
    /\ Early => reqs = {}
    /\ \A c \in Watchers : Watching(c)

----------------------------------------------------------------------------
(* What serving a request does, whichever route it takes: the request      *)
(* changes its stage, and the table changes by what one message tells.     *)
Told(m) ==
    \A s \in Seq(Rows) : Agrees(s, table) => Agrees(Applied(s, m), table')

Answered(r) ==
    \E q \in Requests :
        /\ reqs' = (reqs \ {r}) \union {q}
        /\ q.by = r.by /\ q.origin = r.origin /\ q.kind = r.kind /\ q.prev = r.prev
        /\ q.kind # "create" \/ q.stage = "ok" => q.row \in Rows

Published(r) ==
    \E m \in News :
        /\ m.kind \in Telling /\ m.origin = r.origin
        /\ wire' = Broadcast(m.kind, m.row, m.origin)
        /\ Told(m)

(* A row, by its id and its contents.                                      *)
LEMMA RowTyped ==
    ASSUME NEW t \in Tasks, NEW v \in Values
    PROVE  Row(t, v) \in Rows /\ Row(t, v).id = t /\ Row(t, v).val = v
BY DEF Row, Rows

(* A request that is turned away changes its stage only.                   *)
LEMMA RefuseAnswers ==
    ASSUME TypeInv, NEW r \in reqs, Refuse(r)
    PROVE  Answered(r)
<1> DEFINE q == [r EXCEPT !.stage = "failed"]
<1>1. r \in Requests
  BY DEF TypeInv, TypeOK
<1>2. /\ q \in Requests /\ q.by = r.by /\ q.origin = r.origin /\ q.kind = r.kind
      /\ q.prev = r.prev /\ q.row = r.row /\ q.stage = "failed"
  BY <1>1 DEF Requests
<1>3. reqs' = (reqs \ {r}) \union {q}
  BY DEF Refuse
<1>4. q.kind # "create" \/ q.stage = "ok" => q.row \in Rows
  BY <1>2 DEF TypeInv, ReqsFit
<1> HIDE DEF q
<1> QED BY <1>2, <1>3, <1>4 DEF Answered

(* One that is written is answered with the row and published once.        *)
LEMMA WriteAnswers ==
    ASSUME TypeInv, NEW r \in reqs, NEW tab, NEW kind \in Telling, NEW row \in Rows,
           Write(r, tab, kind, row)
    PROVE  /\ Answered(r)
           /\ table' = tab
           /\ \E m \in News : /\ m.kind = kind /\ m.row = row /\ m.origin = r.origin
                              /\ wire' = Broadcast(m.kind, m.row, m.origin)
<1> DEFINE q == [r EXCEPT !.stage = "ok", !.row = row]
           m == [kind |-> kind, row |-> row, origin |-> r.origin]
<1>1. r \in Requests
  BY DEF TypeInv, TypeOK
<1>2. /\ q \in Requests /\ q.by = r.by /\ q.origin = r.origin /\ q.kind = r.kind
      /\ q.prev = r.prev /\ q.row = row /\ q.stage = "ok"
  BY <1>1 DEF Requests
<1>3. reqs' = (reqs \ {r}) \union {q}
  BY DEF Write, Answer
<1>4. m \in News /\ m.kind = kind /\ m.row = row /\ m.origin = r.origin
  BY <1>1 DEF News, Messages, Requests, Telling
<1>5. wire' = Broadcast(m.kind, m.row, m.origin) /\ table' = tab
  BY DEF Write
<1> HIDE DEF q, m
<1>6. Answered(r)
  BY <1>2, <1>3 DEF Answered
<1> QED BY <1>4, <1>5, <1>6

(* POST: the row that was not there is told as created.                    *)
LEMMA PostTaskEffect ==
    ASSUME TypeInv, NEW r \in reqs, PostTask(r)
    PROVE  Answered(r) /\ table' \in Tables /\ Published(r)
<1> DEFINE t == CHOOSE i \in Tasks : /\ table[i].state = "none"
                                     /\ \A j \in 1 .. i - 1 : table[j].state # "none"
           v == r.row.val
           new == [table EXCEPT ![t] = [state |-> "live", val |-> v]]
<1>1. table \in Tables /\ v \in Values
  BY DEF TypeInv, TypeOK, Tables, Requests, Rows
<1>2. t \in Tasks /\ table[t].state = "none"
  <2> DEFINE I == { i \in Tasks : table[i].state = "none" }
  <2>1. I \subseteq Nat /\ I # {} /\ Tasks = 1 .. MaxTask
    BY DEF PostTask, Tasks
  <2>2. PICK i \in I : \A j \in I : i <= j
    <3> HIDE DEF I
    <3> QED BY <2>1, LeastNumber
  <2>3. \A j \in 1 .. i - 1 : table[j].state # "none"
    BY <2>1, <2>2, SyncAssumption
  <2>4. \E k \in Tasks : table[k].state = "none" /\ \A j \in 1 .. k - 1 : table[j].state # "none"
    BY <2>2, <2>3
  <2> QED BY <2>4
<1>3. Write(r, new, "created", Row(t, v))
  BY DEF PostTask
<1> HIDE DEF t, v
<1>4. Row(t, v) \in Rows /\ Row(t, v).id = t /\ Row(t, v).val = v
  BY <1>1, <1>2, RowTyped
<1>5. new \in Tables /\ new[t] = [state |-> "live", val |-> v] /\ Elsewhere(table, new, t)
  BY <1>1, <1>2 DEF Tables, States, Elsewhere
<1> HIDE DEF new
<1>6. /\ Answered(r) /\ table' = new
      /\ \E m \in News : /\ m.kind = "created" /\ m.row = Row(t, v) /\ m.origin = r.origin
                         /\ wire' = Broadcast(m.kind, m.row, m.origin)
  BY <1>3, <1>4, WriteAnswers DEF Telling
<1>7. PICK m \in News : /\ m.kind = "created" /\ m.row = Row(t, v) /\ m.origin = r.origin
                        /\ wire' = Broadcast(m.kind, m.row, m.origin)
  BY <1>6
<1>8. Told(m)
  <2> SUFFICES ASSUME NEW s \in Seq(Rows), Agrees(s, table) PROVE Agrees(Applied(s, m), new)
    BY <1>6 DEF Told
  <2> QED BY <1>1, <1>2, <1>4, <1>5, <1>7, AgreesOnShown
<1> QED BY <1>5, <1>6, <1>7, <1>8 DEF Published, Telling

(* PUT: the parent's row may change too, its contents only.                *)
LEMMA PutTaskEffect ==
    ASSUME TypeInv, NEW r \in reqs, PutTask(r)
    PROVE  Answered(r) /\ table' \in Tables /\ (UNCHANGED <<table, wire>> \/ Published(r))
<1> DEFINE t == r.row.id
           v == r.row.val
           tab == [table EXCEPT ![t].val = v]
           new == RolledUp(tab, t, v)
<1>1. r.row \in Rows /\ r.kind = "update" /\ table \in Tables
  BY DEF TypeInv, TypeOK, ReqsFit, PutTask, Tables
<1>2. t \in Tasks /\ v \in Values
  BY <1>1 DEF Rows
<1>3. CASE table[t].state # "live"
  <2>1. Refuse(r) /\ UNCHANGED <<table, wire>>
    BY <1>3 DEF PutTask, Unwritten
  <2> QED BY <1>1, <2>1, RefuseAnswers
<1>4. CASE table[t].state = "live"
  <2>1. Write(r, new, "updated", r.row)
    BY <1>4 DEF PutTask
  <2> HIDE DEF t, v
  <2>2. tab \in Tables /\ tab[t].state = "live" /\ tab[t].val = v /\ Elsewhere(table, tab, t)
    BY <1>1, <1>2, <1>4 DEF Tables, Elsewhere
  <2>3. new = tab \/ (Parent[t] \in Tasks /\ new = [tab EXCEPT ![Parent[t]].val = 1])
    BY <1>2, ParentAssumption DEF RolledUp
  <2> HIDE DEF tab, new
  <2>4. /\ new \in Tables /\ Elsewhere(table, new, t) /\ new[t].state = "live"
        /\ t \notin Parents => new[t].val = v
    <3>1. CASE new = tab
      BY <2>2, <3>1
    <3>2. CASE Parent[t] \in Tasks /\ new = [tab EXCEPT ![Parent[t]].val = 1]
      <4>1. Parent[t] \in Parents
        BY <1>2 DEF Parents
      <4>2. new \in Tables
        BY <2>2, <3>2 DEF Tables, Values
      <4>3. \A u \in Tasks : new[u].state = tab[u].state /\ (u \notin Parents => new[u] = tab[u])
        BY <2>2, <3>2, <4>1 DEF Tables
      <4> QED BY <1>2, <2>2, <4>2, <4>3 DEF Elsewhere
    <3> QED BY <2>3, <3>1, <3>2
  <2>5. /\ Answered(r) /\ table' = new
        /\ \E m \in News : /\ m.kind = "updated" /\ m.row = r.row /\ m.origin = r.origin
                           /\ wire' = Broadcast(m.kind, m.row, m.origin)
    BY <1>1, <2>1, WriteAnswers DEF Telling
  <2>6. PICK m \in News : /\ m.kind = "updated" /\ m.row = r.row /\ m.origin = r.origin
                          /\ wire' = Broadcast(m.kind, m.row, m.origin)
    BY <2>5
  <2>7. Told(m)
    <3> SUFFICES ASSUME NEW s \in Seq(Rows), Agrees(s, table) PROVE Agrees(Applied(s, m), new)
      BY <2>5 DEF Told
    <3> QED BY <1>1, <1>2, <1>4, <2>4, <2>6, AgreesOnUpdated DEF t, v
  <2> QED BY <2>4, <2>5, <2>6, <2>7 DEF Published, Telling
<1> QED BY <1>3, <1>4

(* DELETE: what was shown is told as deleted.                              *)
LEMMA DeleteTaskEffect ==
    ASSUME TypeInv, NEW r \in reqs, DeleteTask(r)
    PROVE  Answered(r) /\ table' \in Tables /\ (UNCHANGED <<table, wire>> \/ Published(r))
<1> DEFINE t == r.row.id
           new == [table EXCEPT ![t].state = "trash"]
<1>1. r.row \in Rows /\ r.kind = "delete" /\ table \in Tables
  BY DEF TypeInv, TypeOK, ReqsFit, DeleteTask, Tables
<1>2. t \in Tasks
  BY <1>1 DEF Rows
<1>3. CASE table[t].state # "live"
  <2>1. Refuse(r) /\ UNCHANGED <<table, wire>>
    BY <1>3 DEF DeleteTask, Unwritten
  <2> QED BY <1>1, <2>1, RefuseAnswers
<1>4. CASE table[t].state = "live"
  <2>1. Write(r, new, "deleted", r.row)
    BY <1>4 DEF DeleteTask
  <2> HIDE DEF t
  <2>2. new \in Tables /\ Elsewhere(table, new, t) /\ new[t].state # "live"
    BY <1>1, <1>2 DEF Tables, States, Elsewhere
  <2> HIDE DEF new
  <2>3. /\ Answered(r) /\ table' = new
        /\ \E m \in News : /\ m.kind = "deleted" /\ m.row = r.row /\ m.origin = r.origin
                           /\ wire' = Broadcast(m.kind, m.row, m.origin)
    BY <1>1, <2>1, WriteAnswers DEF Telling
  <2>4. PICK m \in News : /\ m.kind = "deleted" /\ m.row = r.row /\ m.origin = r.origin
                          /\ wire' = Broadcast(m.kind, m.row, m.origin)
    BY <2>3
  <2>5. Told(m)
    <3> SUFFICES ASSUME NEW s \in Seq(Rows), Agrees(s, table) PROVE Agrees(Applied(s, m), new)
      BY <2>3 DEF Told
    <3> QED BY <1>1, <2>2, <2>4, AgreesOnDeleted DEF t
  <2> QED BY <2>2, <2>3, <2>4, <2>5 DEF Published, Telling
<1> QED BY <1>3, <1>4

(* Restoring: what was in the trash is told with its contents.             *)
LEMMA RestoreTaskEffect ==
    ASSUME TypeInv, NEW r \in reqs, RestoreTask(r)
    PROVE  Answered(r) /\ table' \in Tables /\ (UNCHANGED <<table, wire>> \/ Published(r))
<1> DEFINE t == r.row.id
           v == table[t].val
           new == [table EXCEPT ![t].state = "live"]
<1>1. r.row \in Rows /\ table \in Tables
  BY DEF TypeInv, TypeOK, ReqsFit, RestoreTask, Tables
<1>2. t \in Tasks /\ v \in Values
  BY <1>1 DEF Rows, Tables
<1>3. CASE table[t].state # "trash"
  <2>1. Refuse(r) /\ UNCHANGED <<table, wire>>
    BY <1>3 DEF RestoreTask, Unwritten
  <2> QED BY <1>1, <2>1, RefuseAnswers
<1>4. CASE table[t].state = "trash"
  <2>1. Write(r, new, "restored", Row(t, v))
    BY <1>4 DEF RestoreTask
  <2> HIDE DEF t
  <2>2. new \in Tables /\ Elsewhere(table, new, t) /\ new[t] = [state |-> "live", val |-> v]
    BY <1>1, <1>2 DEF Tables, States, Elsewhere
  <2>3. Row(t, v) \in Rows /\ Row(t, v).id = t /\ Row(t, v).val = v
    BY <1>2, RowTyped
  <2> HIDE DEF new, v
  <2>4. /\ Answered(r) /\ table' = new
        /\ \E m \in News : /\ m.kind = "restored" /\ m.row = Row(t, v) /\ m.origin = r.origin
                           /\ wire' = Broadcast(m.kind, m.row, m.origin)
    BY <2>1, <2>3, WriteAnswers DEF Telling
  <2>5. PICK m \in News : /\ m.kind = "restored" /\ m.row = Row(t, v) /\ m.origin = r.origin
                          /\ wire' = Broadcast(m.kind, m.row, m.origin)
    BY <2>4
  <2>6. Told(m)
    <3> SUFFICES ASSUME NEW s \in Seq(Rows), Agrees(s, table) PROVE Agrees(Applied(s, m), new)
      BY <2>4 DEF Told
    <3> QED BY <1>1, <1>2, <1>4, <2>2, <2>3, <2>5, AgreesOnShown
  <2> QED BY <2>2, <2>4, <2>5, <2>6 DEF Published, Telling
<1> QED BY <1>3, <1>4

(* Whichever route it is.                                                  *)
LEMMA ServeEffect ==
    ASSUME TypeInv, NEW r \in reqs, Serve(r)
    PROVE  Answered(r) /\ table' \in Tables /\ (UNCHANGED <<table, wire>> \/ Published(r))
BY PostTaskEffect, PutTaskEffect, DeleteTaskEffect, RestoreTaskEffect DEF Serve

----------------------------------------------------------------------------
(* Types.                                                                  *)

(* The wires carry news after a broadcast too.                             *)
LEMMA BroadcastNews ==
    ASSUME wire \in [Clients -> Seq(News)], NEW m \in News
    PROVE  Broadcast(m.kind, m.row, m.origin) \in [Clients -> Seq(News)]
<1>1. m = [kind |-> m.kind, row |-> m.row, origin |-> m.origin]
  BY DEF News, Messages
<1> QED BY <1>1 DEF Broadcast

(* The tabs can be counted.                                                *)
LEMMA ClosedFinite ==
    IsFiniteSet(Closed) /\ Cardinality(Closed) \in Nat /\ Cardinality(Clients) \in Nat
BY TabsAssumption, FS_Subset, FS_CardinalityType DEF Closed

(* A tab that connects finds an id that is within the bound.               *)
LEMMA FreshId ==
    ASSUME TypeInv, NEW c \in Clients, ~open[c]
    PROVE  c \in Closed /\ ids + 1 \in ConnIds
<1>1. c \in Closed
  BY DEF TypeInv, Closed
<1>2. Cardinality(Closed) # 0
  BY <1>1, ClosedFinite, FS_EmptySet
<1> DEFINE k == Cardinality(Closed)
           n == Cardinality(Clients)
<1>3. k \in Nat \ {0} /\ n \in Nat /\ MaxCuts \in Nat
  BY <1>2, ClosedFinite, SyncAssumption
<1>4. ids + k = n + cuts /\ ids \in 0 .. n + MaxCuts /\ cuts \in 0 .. MaxCuts
  BY DEF TypeInv, TypeOK, ConnIds
<1> HIDE DEF k, n
<1>5. ids + 1 \in 0 .. n + MaxCuts
  BY <1>3, <1>4
<1> QED BY <1>1, <1>5 DEF ConnIds, n

(* The type invariant holds at the start ...                               *)
LEMMA TypeInit == Init => TypeInv
<1> SUFFICES ASSUME Init PROVE TypeInv
  OBVIOUS
<1>1. 0 \in ConnIds
  BY ClosedFinite, SyncAssumption DEF ConnIds
<1>2. Closed = Clients
  BY DEF Closed, Init
<1>3. TypeOK
  BY <1>1, SyncAssumption DEF Init, TypeOK, States, Values
<1>4. /\ ReqsFit /\ wire \in [Clients -> Seq(News)]
      /\ \A c \in Clients : conn[c] # 0 => open[c]
  BY DEF Init, ReqsFit
<1>5. ids + Cardinality(Closed) = Cardinality(Clients) + cuts
  BY <1>2, ClosedFinite DEF Init
<1> QED BY <1>3, <1>4, <1>5 DEF TypeInv

(* The connection count where no connection comes or goes.                 *)
LEMMA SocketsKept ==
    ASSUME TypeInv, UNCHANGED <<conn, open, ids, cuts>>
    PROVE  /\ \A c \in Clients : conn'[c] # 0 => open'[c]
           /\ ids' + Cardinality(Closed') = Cardinality(Clients) + cuts'
<1>1. Closed' = Closed
  BY DEF Closed
<1> QED BY <1>1 DEF TypeInv

(* ... and each action keeps it.  Connecting uses up one closed tab.       *)
LEMMA TypeConnect ==
    ASSUME TypeInv, NEW c \in Clients, Connect(c)
    PROVE  TypeInv'
<1>1. c \in Closed /\ ids + 1 \in ConnIds /\ ids \in Nat
  BY FreshId DEF Connect, TypeInv, TypeOK, ConnIds
<1> DEFINE m == [kind |-> "ack", row |-> NoRow, origin |-> ids + 1]
<1>2. m \in News
  BY <1>1 DEF News, Messages, Telling
<1>3. wire' \in [Clients -> Seq(News)]
  BY <1>2 DEF Connect, TypeInv
<1>4. wire' \in [Clients -> Seq(Messages)]
  BY <1>2 DEF Connect, TypeInv, TypeOK, News
<1>5. TypeOK'
  BY <1>1, <1>4 DEF Connect, TypeInv, TypeOK
<1>6. Closed' = Closed \ {c}
  BY <1>1 DEF Connect, Closed, TypeInv, TypeOK
<1>7. Cardinality(Closed') = Cardinality(Closed) - 1
  BY <1>1, <1>6, ClosedFinite, FS_RemoveElement
<1>8. ids' + Cardinality(Closed') = Cardinality(Clients) + cuts'
  BY <1>1, <1>7, ClosedFinite DEF Connect, TypeInv, TypeOK, ConnIds
<1>9. \A d \in Clients : conn'[d] # 0 => open'[d]
  BY DEF Connect, TypeInv, TypeOK
<1> QED BY <1>3, <1>5, <1>8, <1>9 DEF TypeInv, ReqsFit, Connect

(* A cut closes a tab and counts.                                          *)
LEMMA TypeCut ==
    ASSUME TypeInv, NEW c \in Clients, Cut(c)
    PROVE  TypeInv'
<1>0. 0 \in ConnIds
  BY ClosedFinite, SyncAssumption DEF ConnIds
<1>1. 0 \in ConnIds /\ cuts' \in 0 .. MaxCuts /\ cuts \in Nat
  BY <1>0, SyncAssumption DEF Cut, TypeInv, TypeOK
<1>2. TypeOK'
  BY <1>1 DEF Cut, TypeInv, TypeOK, client
<1>3. Closed' = Closed \union {c} /\ c \notin Closed
  BY DEF Cut, Closed, TypeInv, TypeOK
<1>4. Cardinality(Closed') = Cardinality(Closed) + 1
  BY <1>3, ClosedFinite, FS_AddElement
<1>5. ids' + Cardinality(Closed') = Cardinality(Clients) + cuts'
  <2>1. ids \in Nat /\ ids' = ids /\ cuts' = cuts + 1 /\ ids + Cardinality(Closed) = Cardinality(Clients) + cuts
    BY ClosedFinite, SyncAssumption DEF Cut, TypeInv, TypeOK, ConnIds
  <2> QED BY <1>1, <1>4, <2>1, ClosedFinite
<1>6. \A d \in Clients : conn'[d] # 0 => open'[d]
  BY DEF Cut, TypeInv, TypeOK, client
<1>7. wire' \in [Clients -> Seq(News)]
  BY DEF Cut, TypeInv
<1> QED BY <1>2, <1>5, <1>6, <1>7 DEF TypeInv, ReqsFit, Cut

(* Noticing it changes neither.                                            *)
LEMMA TypeNoticeClose ==
    ASSUME TypeInv, NEW c \in Clients, NoticeClose(c)
    PROVE  TypeInv'
<1>1. 0 \in ConnIds
  BY ClosedFinite, SyncAssumption DEF ConnIds
<1>2. TypeOK'
  BY <1>1 DEF NoticeClose, TypeInv, TypeOK, server, counts
<1>3. Closed' = Closed
  BY DEF NoticeClose, Closed, server
<1>4. \A d \in Clients : conn'[d] # 0 => open'[d]
  BY DEF NoticeClose, TypeInv, TypeOK, server
<1> QED BY <1>2, <1>3, <1>4 DEF TypeInv, ReqsFit, NoticeClose, counts

(* Reading a message.                                                      *)
LEMMA TypeDeliver ==
    ASSUME TypeInv, NEW c \in Clients, Deliver(c)
    PROVE  TypeInv'
<1> DEFINE m == Head(wire[c])
<1>1. m \in News /\ m \in Messages /\ Tail(wire[c]) \in Seq(News) /\ Tail(wire[c]) \in Seq(Messages)
  BY DEF Deliver, TypeInv, TypeOK
<1>2. m.origin \in ConnIds
  BY <1>1 DEF Messages
<1>3. wire' \in [Clients -> Seq(News)] /\ wire' \in [Clients -> Seq(Messages)]
  BY <1>1 DEF Deliver, TypeInv, TypeOK
<1> HIDE DEF m
<1>4. Applied(store[c], m) \in Seq(Rows)
  BY <1>1, AppliedRows DEF TypeInv, TypeOK
<1>5. /\ me' \in [Clients -> ConnIds] /\ header' \in [Clients -> ConnIds]
      /\ store' \in [Clients -> Seq(Rows)]
  BY <1>2, <1>4 DEF Deliver, TypeInv, TypeOK, m
<1>6. FetchAll(fetch[c]) \in [stage: {"none", "sent", "ok"}, rows: Seq(Rows)]
  BY DEF FetchAll, TypeInv, TypeOK
<1>7. fetch' \in [Clients -> [stage: {"none", "sent", "ok"}, rows: Seq(Rows)]]
  BY <1>6 DEF Deliver, TypeInv, TypeOK
<1>8. TypeOK'
  BY <1>3, <1>5, <1>7 DEF TypeInv, TypeOK, Deliver, server, counts
<1> QED BY <1>3, <1>8, SocketsKept DEF TypeInv, ReqsFit, Deliver, server, counts

(* Fetching all rows.                                                      *)
LEMMA TypeFetch ==
    ASSUME TypeInv, NEW c \in Clients, ServeFetch(c) \/ FetchArrives(c) \/ FetchFails(c)
    PROVE  TypeInv'
<1>1. table \in Tables
  BY DEF TypeInv, TypeOK, Tables
<1>2. LiveRows(table) \in Seq(Rows)
  BY <1>1, LiveRowsAgree
<1>3. CASE ServeFetch(c)
  <2>1. TypeOK'
    BY <1>2, <1>3 DEF ServeFetch, TypeInv, TypeOK, server, client, counts
  <2> QED BY <1>3, <2>1, SocketsKept DEF ServeFetch, TypeInv, ReqsFit, server, client, counts
<1>4. CASE FetchArrives(c)
  <2>1. TypeOK'
    BY <1>4 DEF FetchArrives, TypeInv, TypeOK, server, counts
  <2> QED BY <1>4, <2>1, SocketsKept DEF FetchArrives, TypeInv, ReqsFit, server, counts
<1>5. CASE FetchFails(c)
  <2>1. faults' \in 0 .. MaxFaults
    BY <1>5, SyncAssumption DEF FetchFails, TypeInv, TypeOK
  <2>2. TypeOK'
    BY <1>5, <2>1 DEF FetchFails, TypeInv, TypeOK, server, client
  <2> QED BY <1>5, <2>2, SocketsKept DEF FetchFails, TypeInv, ReqsFit, server, client
<1> QED BY <1>3, <1>4, <1>5

(* A request as the store sends it.                                        *)
LEMMA TypeSend ==
    ASSUME TypeInv, NEW c \in Writers, NEW kind, NEW row, NEW prev,
           writes < MaxWrites, Send(c, kind, row, prev),
           kind \in {"create", "update", "delete", "restore", "untrash"},
           kind # "create" => row \in Rows,
           kind = "create" => row \in [id: {0}, val: Values],
           prev \in Rows \union {NoRow}, kind = "delete" => prev \in Rows,
           store' \in [Clients -> Seq(Rows)], undo' \in [Clients -> SUBSET Rows]
    PROVE  TypeInv'
<1> DEFINE q == [n |-> writes + 1, by |-> c, kind |-> kind, stage |-> "sent",
                 origin |-> header[c], row |-> row, prev |-> prev]
<1>1. c \in Clients /\ writes + 1 \in 1 .. MaxWrites /\ writes' \in 0 .. MaxWrites /\ header[c] \in ConnIds
  BY TabsAssumption, SyncAssumption DEF TypeInv, TypeOK, Send
<1>2. q \in Requests
  BY <1>1 DEF Requests
<1>3. reqs' = reqs \union {q}
  BY DEF Send
<1>4. /\ q.by = c /\ q.kind = kind /\ q.stage = "sent" /\ q.row = row /\ q.prev = prev
  OBVIOUS
<1> HIDE DEF q
<1>5. TypeOK'
  BY <1>1, <1>2, <1>3 DEF TypeInv, TypeOK, Send
<1>6. ReqsFit'
  BY <1>3, <1>4 DEF TypeInv, ReqsFit
<1> QED BY <1>5, <1>6, SocketsKept DEF TypeInv, Send

(* Whatever the user does is such a request.                               *)
LEMMA TypeEdit ==
    ASSUME TypeInv, NEW c \in Writers,
           \/ \E v \in Values : Create(c, v) \/ \E t \in Tasks : Update(c, t, v)
           \/ \E t \in Tasks : Remove(c, t) \/ RestoreFromTrash(c, t)
           \/ \E row \in undo[c] : Undo(c, row)
    PROVE  TypeInv'
<1>1. /\ c \in Clients /\ store \in [Clients -> Seq(Rows)] /\ store[c] \in Seq(Rows)
      /\ undo \in [Clients -> SUBSET Rows] /\ table \in Tables
  BY TabsAssumption DEF TypeInv, TypeOK, Tables
<1>2. ASSUME NEW v \in Values, Create(c, v) PROVE TypeInv'
  <2>1. Send(c, "create", [id |-> 0, val |-> v], NoRow) /\ writes < MaxWrites /\ UNCHANGED <<store, undo>>
    BY <1>2 DEF Create, MayEdit
  <2> QED BY <1>1, <2>1, TypeSend
<1>3. ASSUME NEW v \in Values, NEW t \in Tasks, Update(c, t, v) PROVE TypeInv'
  <2> DEFINE prev == IF Has(store[c], t) THEN Find(store[c], t) ELSE NoRow
  <2>1. Send(c, "update", Row(t, v), prev) /\ writes < MaxWrites /\ UNCHANGED undo
    BY <1>3 DEF Update, MayEdit
  <2>2. Row(t, v) \in Rows
    BY RowTyped
  <2>3. prev \in Rows \union {NoRow}
    BY <1>1, FindRow
  <2>4. Replaced(store[c], Row(t, v)) \in Seq(Rows)
    BY <1>1, <2>2, ReplacedRows
  <2>5. store' \in [Clients -> Seq(Rows)]
    BY <1>1, <1>3, <2>4 DEF Update
  <2> HIDE DEF prev
  <2> QED BY <1>1, <2>1, <2>2, <2>3, <2>5, TypeSend
<1>4. ASSUME NEW t \in Tasks, Remove(c, t) PROVE TypeInv'
  <2> DEFINE row == Find(store[c], t)
  <2>1. Send(c, "delete", row, row) /\ writes < MaxWrites /\ UNCHANGED undo
    BY <1>4 DEF Remove, MayEdit
  <2>2. row \in Rows
    BY <1>1, <1>4, FindRow DEF Remove
  <2>3. Without(store[c], t) \in Seq(Rows)
    BY <1>1, WithoutRows
  <2>4. store' \in [Clients -> Seq(Rows)]
    BY <1>1, <1>4, <2>3 DEF Remove
  <2> HIDE DEF row
  <2> QED BY <1>1, <2>1, <2>2, <2>4, TypeSend
<1>5. ASSUME NEW t \in Tasks, RestoreFromTrash(c, t) PROVE TypeInv'
  <2>1. Row(t, table[t].val) \in Rows
    BY <1>1, RowTyped DEF Tables
  <2>2. /\ Send(c, "untrash", Row(t, table[t].val), NoRow) /\ writes < MaxWrites
        /\ UNCHANGED <<store, undo>>
    BY <1>5 DEF RestoreFromTrash, MayEdit
  <2> QED BY <1>1, <2>1, <2>2, TypeSend
<1>6. ASSUME NEW row \in undo[c], Undo(c, row) PROVE TypeInv'
  <2>1. row \in Rows
    BY <1>1
  <2>2. Send(c, "restore", row, NoRow) /\ writes < MaxWrites
    BY <1>6 DEF Undo, MayEdit
  <2>3. store' \in [Clients -> Seq(Rows)] /\ undo' \in [Clients -> SUBSET Rows]
    BY <1>1, <1>6, <2>1 DEF Undo
  <2> QED BY <2>1, <2>2, <2>3, TypeSend
<1> QED BY <1>2, <1>3, <1>4, <1>5, <1>6

(* A route.                                                                *)
LEMMA TypeServe ==
    ASSUME TypeInv, NEW r \in reqs, Serve(r)
    PROVE  TypeInv'
<1>1. Answered(r) /\ table' \in Tables /\ (UNCHANGED <<table, wire>> \/ Published(r))
  BY ServeEffect
<1>2. UNCHANGED <<conn, fetch, client, counts>>
  BY DEF Serve
<1>3. wire' \in [Clients -> Seq(News)]
  <2>1. CASE UNCHANGED wire
    BY <2>1 DEF TypeInv
  <2>2. CASE Published(r)
    <3>1. PICK m \in News : wire' = Broadcast(m.kind, m.row, m.origin)
      BY <2>2 DEF Published
    <3> QED BY <3>1, BroadcastNews DEF TypeInv
  <2> QED BY <1>1, <2>1, <2>2
<1>4. \A w \in Seq(News) : w \in Seq(Messages)
  BY DEF News
<1>5. wire' \in [Clients -> Seq(Messages)]
  BY <1>3, <1>4
<1>6. PICK q \in Requests :
          /\ reqs' = (reqs \ {r}) \union {q}
          /\ q.by = r.by /\ q.kind = r.kind /\ q.prev = r.prev
          /\ q.kind # "create" \/ q.stage = "ok" => q.row \in Rows
  BY <1>1 DEF Answered
<1>7. reqs' \subseteq Requests
  BY <1>6 DEF TypeInv, TypeOK
<1>8. TypeOK'
  BY <1>1, <1>2, <1>5, <1>7 DEF TypeInv, TypeOK, Tables, client, counts
<1>9. ReqsFit'
  BY <1>6 DEF TypeInv, ReqsFit
<1> QED BY <1>2, <1>3, <1>8, <1>9, SocketsKept DEF TypeInv, client, counts

(* A failure.                                                              *)
LEMMA TypeFail ==
    ASSUME TypeInv, NEW r \in reqs, Fail(r)
    PROVE  TypeInv'
<1>1. Refuse(r) /\ UNCHANGED <<server, wire, fetch, client, ids, writes, retags, cuts>>
  BY DEF Fail
<1>2. Answered(r)
  BY <1>1, RefuseAnswers
<1>3. PICK q \in Requests :
          /\ reqs' = (reqs \ {r}) \union {q}
          /\ q.by = r.by /\ q.kind = r.kind /\ q.prev = r.prev
          /\ q.kind # "create" \/ q.stage = "ok" => q.row \in Rows
  BY <1>2 DEF Answered
<1>4. reqs' \subseteq Requests /\ faults' \in 0 .. MaxFaults
  BY <1>3, SyncAssumption DEF Fail, TypeInv, TypeOK
<1>5. TypeOK'
  BY <1>1, <1>4 DEF TypeInv, TypeOK, server, client
<1>6. ReqsFit'
  BY <1>3 DEF TypeInv, ReqsFit
<1> QED BY <1>1, <1>5, <1>6, SocketsKept DEF TypeInv, server, client

(* An answer.                                                              *)
LEMMA TypeArrive ==
    ASSUME TypeInv, NEW r \in reqs, Arrive(r)
    PROVE  TypeInv'
<1>1. /\ r \in Requests /\ r.by \in Clients /\ store[r.by] \in Seq(Rows)
      /\ r.kind \in {"create", "update", "delete", "restore", "untrash"}
      /\ r.prev \in Rows \union {NoRow} /\ (r.kind = "delete" => r.prev \in Rows)
  BY DEF TypeInv, TypeOK, ReqsFit, Requests
<1> DEFINE s == store[r.by]
<1>2. ASSUME r.stage = "ok" PROVE Confirmed(s, r) \in Seq(Rows)
  <2>1. r.row \in Rows
    BY <1>2 DEF TypeInv, ReqsFit
  <2> QED BY <1>1, <2>1, AppendedRows, ReplacedRows DEF Confirmed
<1>3. RolledBack(s, r) \in Seq(Rows)
  <2>1. CASE r.kind = "update" /\ r.prev # NoRow
    BY <1>1, <2>1, ReplacedRows DEF RolledBack
  <2>2. CASE r.kind = "delete"
    BY <1>1, <2>2, AppendedRows DEF RolledBack
  <2>3. CASE r.kind = "restore"
    BY <1>1, <2>3, WithoutRows DEF RolledBack
  <2>4. CASE r.kind \in {"create", "untrash"} \/ (r.kind = "update" /\ r.prev = NoRow)
    BY <1>1, <2>4 DEF RolledBack
  <2> QED BY <1>1, <2>1, <2>2, <2>3, <2>4
<1>4. store' \in [Clients -> Seq(Rows)]
  BY <1>1, <1>2, <1>3 DEF Arrive, TypeInv, TypeOK
<1>5. undo' \in [Clients -> SUBSET Rows]
  BY <1>1 DEF Arrive, TypeInv, TypeOK
<1>6. reqs' \subseteq reqs /\ UNCHANGED <<server, wire, fetch, open, me, header, counts>>
  BY DEF Arrive
<1>7. TypeOK'
  BY <1>4, <1>5, <1>6 DEF TypeInv, TypeOK, server, counts
<1>8. ReqsFit'
  BY <1>6 DEF TypeInv, ReqsFit
<1> QED BY <1>6, <1>7, <1>8, SocketsKept DEF TypeInv, server, counts

(* A tag operation.                                                        *)
LEMMA TypeRetag ==
    ASSUME TypeInv, NEW v \in Values, Retag(v)
    PROVE  TypeInv'
<1> DEFINE m == [kind |-> "retagged", row |-> NoRow, origin |-> 0]
<1>1. m \in News /\ m.kind = "retagged" /\ m.row = NoRow /\ m.origin = 0
  BY ClosedFinite, SyncAssumption DEF News, Messages, Telling, ConnIds
<1>2. wire' = Broadcast(m.kind, m.row, m.origin)
  BY DEF Retag
<1> HIDE DEF m
<1>3. wire' \in [Clients -> Seq(News)]
  BY <1>1, <1>2, BroadcastNews DEF TypeInv
<1>4. \A w \in Seq(News) : w \in Seq(Messages)
  BY DEF News
<1>5. table' \in Tables
  BY DEF Retag, TypeInv, TypeOK, Tables
<1>6. retags' \in 0 .. MaxRetags
  BY SyncAssumption DEF Retag, TypeInv, TypeOK
<1>7. TypeOK'
  BY <1>3, <1>4, <1>5, <1>6 DEF TypeInv, TypeOK, Tables, Retag, client
<1> QED BY <1>3, <1>7, SocketsKept DEF TypeInv, ReqsFit, Retag, client

(* Every step keeps the types.                                             *)
LEMMA TypeStep == TypeInv /\ [Next]_vars => TypeInv'
<1> SUFFICES ASSUME TypeInv, [Next]_vars PROVE TypeInv'
  OBVIOUS
<1>1. ASSUME NEW c \in Clients,
             Connect(c) \/ NoticeClose(c) \/ Deliver(c) \/ ServeFetch(c) \/ FetchArrives(c)
      PROVE  TypeInv'
  BY <1>1, TypeConnect, TypeNoticeClose, TypeDeliver, TypeFetch
<1>2. ASSUME NEW c \in Writers, Cut(c) \/ FetchFails(c) PROVE TypeInv'
  BY <1>2, TypeCut, TypeFetch, TabsAssumption
<1>3. ASSUME NEW c \in Writers,
             \/ \E v \in Values : Create(c, v) \/ \E t \in Tasks : Update(c, t, v)
             \/ \E t \in Tasks : Remove(c, t) \/ RestoreFromTrash(c, t)
             \/ \E row \in undo[c] : Undo(c, row)
      PROVE  TypeInv'
  BY <1>3, TypeEdit
<1>4. ASSUME NEW v \in Values, Retag(v) PROVE TypeInv'
  BY <1>4, TypeRetag
<1>5. ASSUME NEW r \in reqs, Serve(r) \/ Fail(r) \/ Arrive(r) PROVE TypeInv'
  BY <1>5, TypeServe, TypeFail, TypeArrive
<1>6. CASE UNCHANGED vars
  <2>1. UNCHANGED <<table, conn, wire, reqs, fetch, store, open, me, header, undo, ids, writes, retags, faults, cuts>>
    BY <1>6 DEF vars, client, counts
  <2>2. TypeOK' /\ ReqsFit'
    BY <2>1 DEF TypeInv, TypeOK, ReqsFit
  <2> QED BY <2>1, <2>2, SocketsKept DEF TypeInv
<1> QED BY <1>1, <1>2, <1>3, <1>4, <1>5, <1>6 DEF Next

----------------------------------------------------------------------------
(* Client ids.                                                             *)

(* The connections, with the types a proof about them needs.               *)
LEMMA IdTypes ==
    ASSUME TypeInv
    PROVE  /\ ids \in Nat /\ writes \in Nat /\ retags \in Nat
           /\ \A c \in Clients : conn[c] \in Nat /\ me[c] \in Nat /\ header[c] \in Nat
           /\ \A r \in reqs : r.origin \in Nat /\ r.by \in Clients /\ r.by \in Writers
           /\ conn \in [Clients -> ConnIds] /\ me \in [Clients -> ConnIds] /\ header \in [Clients -> ConnIds]
           /\ wire \in [Clients -> Seq(News)]
<1>1. ConnIds \subseteq Nat
  BY ClosedFinite, SyncAssumption DEF ConnIds
<1>2. /\ conn \in [Clients -> ConnIds] /\ me \in [Clients -> ConnIds] /\ header \in [Clients -> ConnIds]
      /\ wire \in [Clients -> Seq(News)] /\ ids \in ConnIds
  BY DEF TypeInv, TypeOK
<1>3. \A r \in reqs : r.origin \in Nat /\ r.by \in Clients /\ r.by \in Writers
  BY <1>1 DEF TypeInv, TypeOK, Requests, ReqsFit
<1>4. writes \in Nat /\ retags \in Nat
  BY SyncAssumption DEF TypeInv, TypeOK
<1>5. \A c \in Clients : conn[c] \in Nat /\ me[c] \in Nat /\ header[c] \in Nat
  BY <1>1, <1>2
<1> QED BY <1>1, <1>2, <1>3, <1>4, <1>5

(* What is not an acknowledgement goes to those it does not come from.     *)
LEMMA BroadcastApart ==
    ASSUME TypeInv, IdsApart, NEW m \in News, m.kind # "ack",
           wire' = Broadcast(m.kind, m.row, m.origin), conn' = conn
    PROVE  \A c \in Clients : \A i \in DOMAIN wire'[c] :
              conn'[c] # 0 /\ (wire'[c][i].kind = "ack" <=> wire'[c][i].origin = conn'[c])
<1> SUFFICES ASSUME NEW c \in Clients, NEW i \in DOMAIN wire'[c]
             PROVE  conn[c] # 0 /\ (wire'[c][i].kind = "ack" <=> wire'[c][i].origin = conn[c])
  OBVIOUS
<1>1. wire[c] \in Seq(News) /\ m = [kind |-> m.kind, row |-> m.row, origin |-> m.origin]
  BY DEF TypeInv, News, Messages
<1>2. wire'[c] = IF conn[c] # 0 /\ conn[c] # m.origin THEN Append(wire[c], m) ELSE wire[c]
  BY <1>1 DEF Broadcast
<1>3. CASE conn[c] # 0 /\ conn[c] # m.origin
  <2>1. \/ i \in DOMAIN wire[c] /\ wire'[c][i] = wire[c][i]
        \/ wire'[c][i] = m
    BY <1>1, <1>2, <1>3
  <2> QED BY <1>3, <2>1 DEF IdsApart
<1>4. CASE ~(conn[c] # 0 /\ conn[c] # m.origin)
  BY <1>2, <1>4 DEF IdsApart
<1> QED BY <1>3, <1>4

(* A new connection has an id nobody has seen.                             *)
LEMMA IdsConnect ==
    ASSUME TypeInv, IdsApart, NEW c \in Clients, Connect(c)
    PROVE  IdsApart'
<1>1. ids \in Nat /\ ids' = ids + 1 /\ UNCHANGED <<me, header, reqs>>
  BY IdTypes DEF Connect
<1>2. /\ conn'[c] = ids + 1 /\ \A d \in Clients \ {c} : conn'[d] = conn[d]
      /\ wire'[c] = <<[kind |-> "ack", row |-> NoRow, origin |-> ids + 1]>>
      /\ \A d \in Clients \ {c} : wire'[d] = wire[d]
  BY IdTypes DEF Connect
<1>3. \A d \in Clients : /\ conn[d] \in Nat /\ me[d] \in Nat /\ header[d] \in Nat
                         /\ conn[d] <= ids /\ me[d] <= ids /\ header[d] <= ids
  BY IdTypes DEF IdsApart
<1>4. \A r \in reqs : r.origin \in Nat /\ r.origin <= ids
  BY IdTypes DEF IdsApart
<1>5. \A d \in Clients : conn'[d] <= ids' /\ me'[d] <= ids' /\ header'[d] <= ids'
  BY <1>1, <1>2, <1>3
<1>6. \A r \in reqs' : r.origin <= ids'
  BY <1>1, <1>4
<1>7. ASSUME NEW d \in Clients, NEW e \in Clients, d # e, conn'[d] # 0
      PROVE  conn'[e] # conn'[d] /\ me'[e] # conn'[d] /\ header'[e] # conn'[d]
  <2>1. CASE d = c
    BY <1>1, <1>2, <1>3, <1>7, <2>1
  <2>2. CASE d # c
    <3>1. conn'[d] = conn[d] /\ conn[d] # 0
      BY <1>2, <1>7, <2>2
    <3>2. conn[e] # conn[d] /\ me[e] # conn[d] /\ header[e] # conn[d]
      BY <1>7, <3>1 DEF IdsApart
    <3>3. conn'[e] = conn[e] \/ conn'[e] = ids + 1
      BY <1>2
    <3> QED BY <1>1, <1>3, <3>1, <3>2, <3>3
  <2> QED BY <2>1, <2>2
<1>8. ASSUME NEW r \in reqs', NEW d \in Clients, d # r.by, conn'[d] # 0
      PROVE  r.origin # conn'[d]
  <2>1. CASE d = c
    BY <1>1, <1>2, <1>4, <2>1
  <2>2. CASE d # c
    <3>1. conn'[d] = conn[d]
      BY <1>2, <2>2
    <3> QED BY <1>1, <1>8, <3>1 DEF IdsApart
  <2> QED BY <2>1, <2>2
<1>9. \A d \in Clients : \A i \in DOMAIN wire'[d] :
          conn'[d] # 0 /\ (wire'[d][i].kind = "ack" <=> wire'[d][i].origin = conn'[d])
  BY <1>1, <1>2 DEF IdsApart
<1> QED BY <1>5, <1>6, <1>7, <1>8, <1>9 DEF IdsApart

(* A cut, and noticing it, forget ids only.                                *)
LEMMA IdsCut ==
    ASSUME TypeInv, IdsApart, NEW c \in Clients, Cut(c) \/ NoticeClose(c)
    PROVE  IdsApart'
<1>1. /\ ids' = ids /\ UNCHANGED <<me, reqs>>
      /\ \A d \in Clients : conn'[d] \in {0, conn[d]} /\ header'[d] \in {0, header[d]}
      /\ \A d \in Clients : wire'[d] = <<>> \/ (wire'[d] = wire[d] /\ conn'[d] = conn[d])
  BY IdTypes DEF Cut, NoticeClose, server, client, counts
<1>2. ids \in Nat
  BY IdTypes
<1>3. \A d \in Clients : conn'[d] <= ids' /\ me'[d] <= ids' /\ header'[d] <= ids'
  BY <1>1, <1>2 DEF IdsApart
<1>4. \A r \in reqs' : r.origin <= ids'
  BY <1>1 DEF IdsApart
<1>5. \A d, e \in Clients : d # e /\ conn'[d] # 0 =>
          conn'[e] # conn'[d] /\ me'[e] # conn'[d] /\ header'[e] # conn'[d]
  BY <1>1 DEF IdsApart
<1>6. \A r \in reqs', d \in Clients : d # r.by /\ conn'[d] # 0 => r.origin # conn'[d]
  BY <1>1 DEF IdsApart
<1>7. \A d \in Clients : \A i \in DOMAIN wire'[d] :
          conn'[d] # 0 /\ (wire'[d][i].kind = "ack" <=> wire'[d][i].origin = conn'[d])
  <2> TAKE d \in Clients
  <2>1. CASE wire'[d] = <<>>
    BY <2>1
  <2>2. CASE wire'[d] = wire[d] /\ conn'[d] = conn[d]
    BY <2>2 DEF IdsApart
  <2> QED BY <1>1, <2>1, <2>2
<1> QED BY <1>3, <1>4, <1>5, <1>6, <1>7 DEF IdsApart

(* A greeting tells a tab its own id, other messages tell it none.         *)
LEMMA IdsDeliver ==
    ASSUME TypeInv, IdsApart, NEW c \in Clients, Deliver(c)
    PROVE  IdsApart'
<1> DEFINE m == Head(wire[c])
<1>1. wire[c] \in Seq(News) /\ wire[c] # <<>> /\ m = wire[c][1] /\ 1 \in DOMAIN wire[c]
  BY DEF TypeInv, Deliver
<1>2. conn[c] # 0 /\ (m.kind = "ack" <=> m.origin = conn[c])
  BY <1>1 DEF IdsApart
<1>3. UNCHANGED <<conn, ids, reqs>>
  BY DEF Deliver, server, counts
<1>4. \A d \in Clients : /\ me'[d] = me[d] \/ (d = c /\ me'[d] = conn[c])
                         /\ header'[d] = header[d] \/ (d = c /\ header'[d] = conn[c])
  BY <1>2, IdTypes DEF Deliver
<1>5. \A d \in Clients : \A i \in DOMAIN wire'[d] : \E j \in DOMAIN wire[d] : wire'[d][i] = wire[d][j]
  <2>1. wire' = [wire EXCEPT ![c] = Tail(@)]
    BY DEF Deliver
  <2>2. \A i \in DOMAIN Tail(wire[c]) : i + 1 \in DOMAIN wire[c] /\ Tail(wire[c])[i] = wire[c][i + 1]
    BY <1>1
  <2> QED BY <2>1, <2>2, IdTypes
<1>6. \A d \in Clients : \A i \in DOMAIN wire'[d] :
          conn'[d] # 0 /\ (wire'[d][i].kind = "ack" <=> wire'[d][i].origin = conn'[d])
  BY <1>3, <1>5 DEF IdsApart
<1>7. \A d \in Clients : conn'[d] <= ids' /\ me'[d] <= ids' /\ header'[d] <= ids'
  BY <1>3, <1>4 DEF IdsApart
<1>8. \A d, e \in Clients : d # e /\ conn'[d] # 0 =>
          conn'[e] # conn'[d] /\ me'[e] # conn'[d] /\ header'[e] # conn'[d]
  BY <1>2, <1>3, <1>4 DEF IdsApart
<1> QED BY <1>3, <1>6, <1>7, <1>8 DEF IdsApart

(* A request carries its own tab's id.                                     *)
LEMMA IdsSend ==
    ASSUME TypeInv, IdsApart, NEW c \in Writers, NEW kind, NEW row, NEW prev, Send(c, kind, row, prev)
    PROVE  IdsApart'
<1> DEFINE q == [n |-> writes + 1, by |-> c, kind |-> kind, stage |-> "sent",
                 origin |-> header[c], row |-> row, prev |-> prev]
<1>1. reqs' = reqs \union {q} /\ UNCHANGED <<conn, wire, me, header, ids>>
  BY DEF Send
<1>2. q.by = c /\ q.origin = header[c] /\ c \in Clients
  BY TabsAssumption
<1> HIDE DEF q
<1> QED BY <1>1, <1>2 DEF IdsApart

(* What a route publishes carries the request's id.                        *)
LEMMA IdsServe ==
    ASSUME TypeInv, IdsApart, NEW r \in reqs, Serve(r)
    PROVE  IdsApart'
<1>1. Answered(r) /\ (UNCHANGED wire \/ Published(r))
  BY ServeEffect
<1>2. UNCHANGED <<conn, me, header, ids>>
  BY DEF Serve, client, counts
<1>3. PICK q : reqs' = (reqs \ {r}) \union {q} /\ q.by = r.by /\ q.origin = r.origin
  BY <1>1 DEF Answered
<1>4. \A d \in Clients : \A i \in DOMAIN wire'[d] :
          conn'[d] # 0 /\ (wire'[d][i].kind = "ack" <=> wire'[d][i].origin = conn'[d])
  <2>1. CASE UNCHANGED wire
    BY <1>2, <2>1 DEF IdsApart
  <2>2. CASE Published(r)
    <3>1. PICK m \in News : m.kind \in Telling /\ wire' = Broadcast(m.kind, m.row, m.origin)
      BY <2>2 DEF Published
    <3>2. m.kind # "ack"
      BY <3>1 DEF Telling
    <3> QED BY <1>2, <3>1, <3>2, BroadcastApart
  <2> QED BY <1>1, <2>1, <2>2
<1> QED BY <1>2, <1>3, <1>4 DEF IdsApart

(* A tag operation has no id.                                              *)
LEMMA IdsRetag ==
    ASSUME TypeInv, IdsApart, NEW v \in Values, Retag(v)
    PROVE  IdsApart'
<1> DEFINE m == [kind |-> "retagged", row |-> NoRow, origin |-> 0]
<1>1. m \in News /\ m.kind = "retagged" /\ m.row = NoRow /\ m.origin = 0
  BY ClosedFinite, SyncAssumption DEF News, Messages, Telling, ConnIds
<1>2. wire' = Broadcast(m.kind, m.row, m.origin) /\ UNCHANGED <<conn, me, header, ids, reqs>>
  BY DEF Retag, client
<1> HIDE DEF m
<1>3. \A d \in Clients : \A i \in DOMAIN wire'[d] :
          conn'[d] # 0 /\ (wire'[d][i].kind = "ack" <=> wire'[d][i].origin = conn'[d])
  BY <1>1, <1>2, BroadcastApart
<1> QED BY <1>2, <1>3 DEF IdsApart

(* Where no id moves and requests only change their stage or go.           *)
LEMMA IdsKept ==
    ASSUME IdsApart, UNCHANGED <<conn, wire, me, header, ids>>,
           \A q \in reqs' : \E r \in reqs : q.by = r.by /\ q.origin = r.origin
    PROVE  IdsApart'
BY DEF IdsApart

----------------------------------------------------------------------------
(* What a step does to a tab that only watches.                            *)

(* Greetings change nothing that is read.                                  *)
LEMMA ReadGreetings ==
    ASSUME NEW s \in Seq(Rows), NEW w \in Seq(News), Len(w) <= 1,
           \A i \in DOMAIN w : w[i].kind = "ack"
    PROVE  Read(s, w) = s
<1>1. PICK f : ReadAlong(f, s, w)
  BY ReadRecursion
<1>2. Read(s, w) = f[Len(w)] /\ f[0] = s /\ \A i \in 1 .. Len(w) : f[i] = Applied(f[i - 1], w[i])
  BY <1>1 DEF ReadAlong
<1>3. Len(w) \in Nat /\ DOMAIN w = 1 .. Len(w) /\ \A i \in 1 .. Len(w) : w[i] \in News
  OBVIOUS
<1> DEFINE n == Len(w)
<1>4. n = 0 \/ n = 1
  BY <1>3
<1>5. ASSUME n = 1 PROVE f[1] = s
  <2>1. 1 \in 1 .. n /\ 1 - 1 = 0
    BY <1>5
  <2>2. w[1] \in News /\ w[1].kind = "ack" /\ f[1] = Applied(f[0], w[1])
    BY <1>2, <1>3, <2>1
  <2> QED BY <1>2, <2>2, AppliedSilent
<1> HIDE DEF n
<1> QED BY <1>2, <1>4, <1>5 DEF n

(* A watching tab that nothing happens to.                                 *)
LEMMA WatchKept ==
    ASSUME NEW d, Watching(d), table' = table, writes' = writes, retags' = retags,
           open'[d] = open[d], conn'[d] = conn[d], me'[d] = me[d],
           wire'[d] = wire[d], fetch'[d] = fetch[d], store'[d] = store[d]
    PROVE  Watching(d)'
BY DEF Watching, Early, Loading, Following

(* A watching tab connects before the first edit, once.                    *)
LEMMA WatchConnect ==
    ASSUME TypeInv, NEW d \in Watchers, Watching(d), NEW c \in Clients, Connect(c)
    PROVE  Watching(d)'
<1>1. /\ UNCHANGED <<table, fetch, store, me, writes, retags>> /\ ids \in Nat
      /\ open \in [Clients -> BOOLEAN] /\ conn \in [Clients -> ConnIds]
      /\ wire \in [Clients -> Seq(News)] /\ d \in Clients
  BY IdTypes DEF Connect, TypeInv, TypeOK, Watchers
<1>2. CASE c # d
  <2>1. open'[d] = open[d] /\ conn'[d] = conn[d] /\ wire'[d] = wire[d]
    BY <1>1, <1>2 DEF Connect
  <2> QED BY <1>1, <2>1, WatchKept
<1>3. CASE c = d
  <2>1. conn[d] = 0 /\ me[d] = 0
    BY <1>1, <1>3 DEF Connect, TypeInv, Watching
  <2>2. Early /\ Loading(d)
    BY <2>1 DEF Watching, Following
  <2>3. conn'[d] = ids + 1 /\ wire'[d] = <<[kind |-> "ack", row |-> NoRow, origin |-> ids + 1]>>
    BY <1>1, <1>3 DEF Connect
  <2>4. Loading(d)'
    BY <1>1, <2>2, <2>3 DEF Loading
  <2> QED BY <1>1, <2>1, <2>2, <2>3, <2>4 DEF Watching, Early
<1> QED BY <1>2, <1>3

(* Only editing tabs lose their connection.                                *)
LEMMA WatchCut ==
    ASSUME TypeInv, NEW d \in Watchers, Watching(d), NEW c \in Writers, Cut(c)
    PROVE  Watching(d)'
<1>1. UNCHANGED <<table, fetch, store, me, open, writes, retags>> /\ c # d /\ d \in Clients
  BY DEF Cut, client, Watchers
<1>2. conn'[d] = conn[d] /\ wire'[d] = wire[d]
  BY <1>1, IdTypes DEF Cut
<1> QED BY <1>1, <1>2, WatchKept

(* So it has none to notice.                                               *)
LEMMA WatchNoticeClose ==
    ASSUME TypeInv, NEW d \in Watchers, Watching(d), NEW c \in Clients, NoticeClose(c)
    PROVE  Watching(d)'
<1>1. UNCHANGED <<table, conn, wire, fetch, store, me, writes, retags>> /\ d \in Clients
  BY DEF NoticeClose, server, counts, Watchers
<1>2. c # d
  BY DEF NoticeClose, Watching
<1>3. open'[d] = open[d]
  BY <1>1, <1>2 DEF NoticeClose, TypeInv, TypeOK
<1> QED BY <1>1, <1>3, WatchKept

(* Reading a message moves it from the wire to the store.                  *)
LEMMA WatchDeliver ==
    ASSUME TypeInv, IdsApart, NEW d \in Watchers, Watching(d), NEW c \in Clients, Deliver(c)
    PROVE  Watching(d)'
<1>1. /\ UNCHANGED <<table, conn, open, writes, retags>> /\ d \in Clients
      /\ wire \in [Clients -> Seq(News)] /\ me \in [Clients -> ConnIds]
      /\ store \in [Clients -> Seq(Rows)]
      /\ fetch \in [Clients -> [stage: {"none", "sent", "ok"}, rows: Seq(Rows)]]
  BY DEF Deliver, server, counts, TypeInv, TypeOK, Watchers
<1>2. CASE c # d
  <2>1. wire'[d] = wire[d] /\ me'[d] = me[d] /\ store'[d] = store[d] /\ fetch'[d] = fetch[d]
    BY <1>1, <1>2 DEF Deliver
  <2> QED BY <1>1, <2>1, WatchKept
<1>3. CASE c = d
  <2> DEFINE w == wire[d]
             m == Head(w)
  <2>1. /\ w \in Seq(News) /\ w # <<>> /\ m \in News /\ m = w[1] /\ 1 \in DOMAIN w
        /\ Len(w) \in Nat \ {0} /\ Len(Tail(w)) = Len(w) - 1
        /\ \A i \in DOMAIN Tail(w) : i + 1 \in DOMAIN w /\ Tail(w)[i] = w[i + 1]
    BY <1>1, <1>3 DEF Deliver
  <2>2. wire'[d] = Tail(w)
    BY <1>1, <1>3 DEF Deliver
  <2>3. conn[d] # 0 /\ (m.kind = "ack" <=> m.origin = conn[d])
    BY <1>1, <2>1 DEF IdsApart
  <2>4. m.kind = "ack" => me'[d] = conn[d] /\ store'[d] = store[d] /\ fetch'[d] = fetch[d]
    BY <1>1, <1>3, <2>3 DEF Deliver
  <2>5. m.kind # "ack" => me'[d] = me[d]
    BY <1>1, <1>3 DEF Deliver
  <2>6. m.kind \notin {"ack", "retagged"} /\ m.origin # me[d] =>
            store'[d] = Applied(store[d], m) /\ fetch'[d] = fetch[d]
    BY <1>1, <1>3 DEF Deliver
  <2> HIDE DEF m
  <2>7. CASE Early
    <3>1. Loading(d) /\ m.kind = "ack"
      BY <2>1, <2>7 DEF Watching, Loading
    <3>2. Loading(d)'
      BY <1>1, <2>1, <2>2, <2>4, <3>1 DEF Loading
    <3> QED BY <1>1, <2>3, <2>4, <2>7, <3>1, <3>2 DEF Watching, Early
  <2>8. CASE ~Early
    <3>1. Following(d) /\ me[d] = conn[d]
      BY <2>8 DEF Watching, Following
    <3>2. me'[d] = conn[d]
      BY <2>4, <2>5, <3>1
    <3>3. ASSUME retags = 0
          PROVE  /\ fetch'[d].stage = "none"
                 /\ \A i \in DOMAIN wire'[d] : wire'[d][i].kind # "retagged"
                 /\ Agrees(Read(store'[d], wire'[d]), table')
      <4>1. /\ fetch[d].stage = "none" /\ Agrees(Read(store[d], w), table)
            /\ \A i \in DOMAIN w : w[i].kind # "retagged"
        BY <3>1, <3>3 DEF Following
      <4>2. store'[d] = Applied(store[d], m) /\ fetch'[d] = fetch[d]
        <5>1. CASE m.kind = "ack"
          BY <2>1, <2>4, <5>1, AppliedSilent
        <5>2. CASE m.kind # "ack"
          BY <2>1, <2>3, <2>6, <3>1, <4>1, <5>2
        <5> QED BY <5>1, <5>2
      <4>3. Read(store'[d], wire'[d]) = Read(store[d], w)
        <5>1. store[d] \in Seq(Rows)
          BY <1>1
        <5> QED BY <2>1, <2>2, <4>2, <5>1, ReadHead DEF m
      <4>4. \A i \in DOMAIN wire'[d] : wire'[d][i].kind # "retagged"
        BY <2>1, <2>2, <4>1
      <4> QED BY <1>1, <4>1, <4>2, <4>3, <4>4
    <3>4. Following(d)'
      BY <1>1, <2>3, <3>2, <3>3 DEF Following
    <3> QED BY <1>1, <2>3, <2>8, <3>2, <3>4 DEF Watching, Early
  <2> QED BY <2>7, <2>8
<1> QED BY <1>2, <1>3

(* What the fetch answers is the table, while nobody edits.                *)
LEMMA WatchServeFetch ==
    ASSUME TypeInv, NEW d \in Watchers, Watching(d), NEW c \in Clients, ServeFetch(c)
    PROVE  Watching(d)'
<1>1. /\ UNCHANGED <<table, conn, wire, store, open, me, writes, retags>> /\ d \in Clients
      /\ fetch \in [Clients -> [stage: {"none", "sent", "ok"}, rows: Seq(Rows)]]
  BY DEF ServeFetch, server, client, counts, TypeInv, TypeOK, Watchers
<1>2. CASE c # d
  <2>1. fetch'[d] = fetch[d]
    BY <1>1, <1>2 DEF ServeFetch
  <2> QED BY <1>1, <2>1, WatchKept
<1>3. CASE c = d
  <2>1. fetch[d].stage = "sent" /\ fetch'[d] = [stage |-> "ok", rows |-> LiveRows(table)]
    BY <1>1, <1>3 DEF ServeFetch
  <2>2. Agrees(LiveRows(table), table)
    BY LiveRowsAgree DEF TypeInv, TypeOK, Tables
  <2>3. CASE Early
    <3>1. Loading(d)'
      BY <1>1, <2>1, <2>2, <2>3 DEF Watching, Loading
    <3> QED BY <1>1, <2>3, <3>1 DEF Watching, Early
  <2>4. CASE ~Early
    <3>1. retags # 0 /\ me[d] # 0
      BY <2>1, <2>4 DEF Watching, Following
    <3> QED BY <1>1, <2>4, <3>1 DEF Watching, Early, Following
  <2> QED BY <2>3, <2>4
<1> QED BY <1>2, <1>3

(* And still is when it arrives.                                           *)
LEMMA WatchFetchArrives ==
    ASSUME TypeInv, NEW d \in Watchers, Watching(d), NEW c \in Clients, FetchArrives(c)
    PROVE  Watching(d)'
<1>1. /\ UNCHANGED <<table, conn, wire, open, me, writes, retags>> /\ d \in Clients
      /\ store \in [Clients -> Seq(Rows)]
      /\ fetch \in [Clients -> [stage: {"none", "sent", "ok"}, rows: Seq(Rows)]]
  BY DEF FetchArrives, server, counts, TypeInv, TypeOK, Watchers
<1>2. CASE c # d
  <2>1. fetch'[d] = fetch[d] /\ store'[d] = store[d]
    BY <1>1, <1>2 DEF FetchArrives
  <2> QED BY <1>1, <2>1, WatchKept
<1>3. CASE c = d
  <2>1. /\ fetch[d].stage = "ok" /\ store'[d] = fetch[d].rows
        /\ fetch'[d] = [stage |-> "none", rows |-> <<>>]
    BY <1>1, <1>3 DEF FetchArrives
  <2>2. CASE Early
    <3>1. Loading(d)'
      BY <1>1, <2>1, <2>2 DEF Watching, Loading
    <3> QED BY <1>1, <2>2, <3>1 DEF Watching, Early
  <2>3. CASE ~Early
    <3>1. retags # 0 /\ me[d] # 0
      BY <2>1, <2>3 DEF Watching, Following
    <3> QED BY <1>1, <2>3, <3>1 DEF Watching, Early, Following
  <2> QED BY <2>2, <2>3
<1> QED BY <1>2, <1>3

(* Only editing tabs' fetches fail.                                        *)
LEMMA WatchFetchFails ==
    ASSUME TypeInv, NEW d \in Watchers, Watching(d), NEW c \in Writers, FetchFails(c)
    PROVE  Watching(d)'
<1>1. UNCHANGED <<table, conn, wire, store, open, me, writes, retags>> /\ c # d /\ d \in Clients
  BY DEF FetchFails, server, client, Watchers
<1>2. fetch'[d] = fetch[d]
  BY <1>1 DEF FetchFails, TypeInv, TypeOK
<1> QED BY <1>1, <1>2, WatchKept

(* The first edit finds the watching tab loaded.                           *)
LEMMA WatchEdit ==
    ASSUME TypeInv, NEW d \in Watchers, Watching(d), NEW c \in Writers, PagesOpen,
           NEW kind, NEW row, NEW prev, Send(c, kind, row, prev), store'[d] = store[d]
    PROVE  Watching(d)'
<1>1. /\ UNCHANGED <<table, conn, wire, fetch, open, me, retags>> /\ writes' = writes + 1
      /\ writes \in Nat /\ d \in Clients /\ wire[d] \in Seq(News) /\ store[d] \in Seq(Rows)
  BY IdTypes DEF Send, TypeInv, TypeOK, Watchers
<1>2. me[d] # 0 /\ (Early => fetch[d].stage = "none")
  BY DEF PagesOpen, Watchers, Early
<1>3. retags = 0 => /\ fetch[d].stage = "none"
                    /\ \A i \in DOMAIN wire[d] : wire[d][i].kind # "retagged"
                    /\ Agrees(Read(store[d], wire[d]), table)
  <2>1. CASE Early
    <3>1. Loading(d) /\ fetch[d].stage = "none"
      BY <1>2, <2>1 DEF Watching
    <3>2. Read(store[d], wire[d]) = store[d]
      BY <1>1, <3>1, ReadGreetings DEF Loading
    <3> QED BY <3>1, <3>2 DEF Loading
  <2>2. CASE ~Early
    BY <2>2 DEF Watching, Following
  <2> QED BY <2>1, <2>2
<1>4. Following(d)'
  BY <1>1, <1>2, <1>3 DEF Following
<1>5. ~Early'
  BY <1>1 DEF Early
<1> QED BY <1>1, <1>4, <1>5 DEF Watching

(* Nor does any edit touch its store.                                      *)
LEMMA WatchUser ==
    ASSUME TypeInv, NEW d \in Watchers, Watching(d), NEW c \in Writers,
           \/ \E v \in Values : Create(c, v) \/ \E t \in Tasks : Update(c, t, v)
           \/ \E t \in Tasks : Remove(c, t) \/ RestoreFromTrash(c, t)
           \/ \E row \in undo[c] : Undo(c, row)
    PROVE  Watching(d)'
<1>1. c # d /\ d \in Clients /\ store \in [Clients -> Seq(Rows)]
  BY DEF Watchers, TypeInv, TypeOK
<1>2. PagesOpen /\ \E kind, row, prev : Send(c, kind, row, prev)
  BY DEF Create, Update, Remove, RestoreFromTrash, Undo, MayEdit
<1>3. store'[d] = store[d]
  BY <1>1 DEF Create, Update, Remove, RestoreFromTrash, Undo
<1> QED BY <1>2, <1>3, WatchEdit

(* What a route writes reaches its wire.                                   *)
LEMMA WatchServe ==
    ASSUME TypeInv, WatchInv, NEW d \in Watchers, NEW r \in reqs, Serve(r)
    PROVE  Watching(d)'
<1>1. /\ UNCHANGED <<conn, fetch, store, open, me, writes, retags>> /\ d \in Clients
      /\ wire[d] \in Seq(News) /\ store[d] \in Seq(Rows)
  BY IdTypes DEF Serve, client, counts, TypeInv, TypeOK, Watchers
<1>2. ~Early /\ Watching(d) /\ Following(d)
  BY DEF WatchInv, Watching
<1>3. conn[d] # 0 /\ r.origin # conn[d]
  <2>1. r.by \in Writers /\ d # r.by
    BY IdTypes DEF Watchers
  <2>2. conn[d] # 0
    BY <1>2 DEF Watching, Following
  <2> QED BY <1>1, <2>1, <2>2 DEF WatchInv, IdsApart
<1>4. CASE UNCHANGED <<table, wire>>
  BY <1>1, <1>2, <1>4, WatchKept
<1>5. CASE Published(r)
  <2>1. PICK m \in News : /\ m.kind \in Telling /\ m.origin = r.origin
                          /\ wire' = Broadcast(m.kind, m.row, m.origin)
                          /\ Told(m)
    BY <1>5 DEF Published
  <2>2. m = [kind |-> m.kind, row |-> m.row, origin |-> m.origin]
    BY DEF News, Messages
  <2>3. wire'[d] = Append(wire[d], m)
    BY <1>1, <1>3, <2>1, <2>2 DEF Broadcast
  <2>4. ASSUME retags = 0
        PROVE  /\ fetch'[d].stage = "none"
               /\ \A i \in DOMAIN wire'[d] : wire'[d][i].kind # "retagged"
               /\ Agrees(Read(store'[d], wire'[d]), table')
    <3>1. /\ fetch[d].stage = "none" /\ Agrees(Read(store[d], wire[d]), table)
          /\ \A i \in DOMAIN wire[d] : wire[d][i].kind # "retagged"
      BY <1>2, <2>4 DEF Following
    <3>2. /\ Read(store[d], wire[d]) \in Seq(Rows)
          /\ Read(store[d], wire'[d]) = Applied(Read(store[d], wire[d]), m)
      BY <1>1, <2>3, ReadAppend
    <3>3. Agrees(Read(store'[d], wire'[d]), table')
      BY <1>1, <2>1, <3>1, <3>2 DEF Told
    <3>4. m.kind # "retagged"
      BY <2>1 DEF Telling
    <3>5. \A i \in DOMAIN wire'[d] : (i \in DOMAIN wire[d] /\ wire'[d][i] = wire[d][i]) \/ wire'[d][i] = m
      BY <1>1, <2>3
    <3> QED BY <1>1, <3>1, <3>3, <3>4, <3>5
  <2>5. Following(d)'
    BY <1>1, <1>2, <2>4 DEF Following
  <2> QED BY <1>1, <1>2, <2>5 DEF Watching, Early
<1> QED BY <1>4, <1>5, ServeEffect

(* Answers go to the tab that asked.                                       *)
LEMMA WatchAnswer ==
    ASSUME TypeInv, NEW d \in Watchers, Watching(d), NEW r \in reqs, Fail(r) \/ Arrive(r)
    PROVE  Watching(d)'
<1>1. r.by # d /\ d \in Clients /\ store \in [Clients -> Seq(Rows)]
  BY IdTypes DEF Watchers, TypeInv, TypeOK
<1>2. UNCHANGED <<table, conn, wire, fetch, open, me, writes, retags>>
  BY DEF Fail, Arrive, server, client, counts
<1>3. store'[d] = store[d]
  BY <1>1 DEF Fail, Arrive, client
<1> QED BY <1>2, <1>3, WatchKept

(* A tag operation ends what is claimed.                                   *)
LEMMA WatchRetag ==
    ASSUME TypeInv, NEW d \in Watchers, Watching(d), NEW v \in Values, Retag(v)
    PROVE  Watching(d)'
<1>1. /\ UNCHANGED <<conn, open, me>> /\ retags' = retags + 1 /\ retags \in Nat
      /\ me[d] # 0
  BY IdTypes DEF Retag, client, PagesOpen, Watchers
<1>2. Following(d)' /\ ~Early'
  BY <1>1 DEF Following, Early
<1> QED BY <1>1, <1>2 DEF Watching

----------------------------------------------------------------------------
(* The theorems.                                                           *)

(* At the start every tab loads.                                           *)
LEMMA WatchInit == Init => WatchInv
<1> SUFFICES ASSUME Init PROVE WatchInv
  OBVIOUS
<1>1. IdsApart
  BY DEF Init, IdsApart
<1>2. \A d \in Watchers : Watching(d)
  BY DEF Init, Watchers, Watching, Early, Loading
<1> QED BY <1>1, <1>2 DEF WatchInv, Init

(* Every step keeps the ids apart ...                                      *)
LEMMA IdsStep == TypeInv /\ WatchInv /\ [Next]_vars => IdsApart'
<1> SUFFICES ASSUME TypeInv, IdsApart, [Next]_vars PROVE IdsApart'
  BY DEF WatchInv
<1>1. ASSUME NEW c \in Clients, Connect(c) \/ NoticeClose(c) \/ Deliver(c) PROVE IdsApart'
  BY <1>1, IdsConnect, IdsCut, IdsDeliver
<1>2. ASSUME NEW c \in Clients, ServeFetch(c) \/ FetchArrives(c) \/ FetchFails(c) PROVE IdsApart'
  BY <1>2, IdsKept DEF ServeFetch, FetchArrives, FetchFails, server, client, counts
<1>3. ASSUME NEW c \in Writers, Cut(c) \/ FetchFails(c) PROVE IdsApart'
  BY <1>2, <1>3, IdsCut, TabsAssumption
<1>4. ASSUME NEW c \in Writers,
             \/ \E v \in Values : Create(c, v) \/ \E t \in Tasks : Update(c, t, v)
             \/ \E t \in Tasks : Remove(c, t) \/ RestoreFromTrash(c, t)
             \/ \E row \in undo[c] : Undo(c, row)
      PROVE  IdsApart'
  <2>1. \E kind, row, prev : Send(c, kind, row, prev)
    BY <1>4 DEF Create, Update, Remove, RestoreFromTrash, Undo
  <2> QED BY <2>1, IdsSend
<1>5. ASSUME NEW v \in Values, Retag(v) PROVE IdsApart'
  BY <1>5, IdsRetag
<1>6. ASSUME NEW r \in reqs, Serve(r) PROVE IdsApart'
  BY <1>6, IdsServe
<1>7. ASSUME NEW r \in reqs, Fail(r) PROVE IdsApart'
  <2>1. Answered(r) /\ UNCHANGED <<conn, wire, me, header, ids>>
    BY <1>7, RefuseAnswers DEF Fail, server, client
  <2>2. \A q \in reqs' : \E p \in reqs : q.by = p.by /\ q.origin = p.origin
    BY <2>1 DEF Answered
  <2> QED BY <2>1, <2>2, IdsKept
<1>8. ASSUME NEW r \in reqs, Arrive(r) PROVE IdsApart'
  BY <1>8, IdsKept DEF Arrive, server, counts
<1>9. CASE UNCHANGED vars
  BY <1>9, IdsKept DEF vars, client, counts
<1> QED BY <1>1, <1>2, <1>3, <1>4, <1>5, <1>6, <1>7, <1>8, <1>9 DEF Next

(* ... and every watching tab's story.                                     *)
LEMMA WatchStep == TypeInv /\ WatchInv /\ [Next]_vars => WatchInv'
<1> SUFFICES ASSUME TypeInv, WatchInv, [Next]_vars PROVE WatchInv'
  OBVIOUS
<1>1. IdsApart /\ \A d \in Watchers : Watching(d)
  BY DEF WatchInv
<1>2. IdsApart'
  BY IdsStep
<1>3. ASSUME Early' PROVE reqs' = {}
  <2>1. writes \in Nat /\ retags \in Nat
    BY IdTypes
  <2>2. \/ UNCHANGED <<writes, retags, reqs>>
        \/ writes' = writes + 1 \/ retags' = retags + 1
        \/ UNCHANGED <<writes, retags>> /\ reqs # {}
    BY ZenonT(60) DEF Next, vars, Connect, Cut, NoticeClose, Deliver, ServeFetch, FetchArrives, FetchFails, Create,
           Update, Remove, RestoreFromTrash, Undo, Send, Retag, Serve, Fail, Arrive, counts
  <2>3. UNCHANGED <<writes, retags, reqs>> \/ (UNCHANGED <<writes, retags>> /\ reqs # {})
    BY <1>3, <2>1, <2>2 DEF Early
  <2> QED BY <1>3, <2>3 DEF Early, WatchInv
<1>4. ASSUME NEW d \in Watchers PROVE Watching(d)'
  <2>1. Watching(d)
    BY <1>1
  <2>2. ASSUME NEW c \in Clients,
               Connect(c) \/ NoticeClose(c) \/ Deliver(c) \/ ServeFetch(c) \/ FetchArrives(c)
        PROVE  Watching(d)'
    BY <1>1, <2>1, <2>2, WatchConnect, WatchNoticeClose, WatchDeliver, WatchServeFetch, WatchFetchArrives
  <2>3. ASSUME NEW c \in Writers, Cut(c) \/ FetchFails(c) PROVE Watching(d)'
    BY <2>1, <2>3, WatchCut, WatchFetchFails
  <2>4. ASSUME NEW c \in Writers,
               \/ \E v \in Values : Create(c, v) \/ \E t \in Tasks : Update(c, t, v)
               \/ \E t \in Tasks : Remove(c, t) \/ RestoreFromTrash(c, t)
               \/ \E row \in undo[c] : Undo(c, row)
        PROVE  Watching(d)'
    BY <2>1, <2>4, WatchUser
  <2>5. ASSUME NEW v \in Values, Retag(v) PROVE Watching(d)'
    BY <2>1, <2>5, WatchRetag
  <2>6. ASSUME NEW r \in reqs, Serve(r) \/ Fail(r) \/ Arrive(r) PROVE Watching(d)'
    BY <2>1, <2>6, WatchServe, WatchAnswer
  <2>7. CASE UNCHANGED vars
    BY <2>1, <2>7, WatchKept DEF vars, client, counts
  <2> QED BY <2>2, <2>3, <2>4, <2>5, <2>6, <2>7 DEF Next
<1> QED BY <1>2, <1>3, <1>4 DEF WatchInv

(* The story is the property.                                              *)
LEMMA WatchSafe == TypeInv /\ WatchInv => WatchersFollow
<1> SUFFICES ASSUME TypeInv, WatchInv, retags = 0, NEW c \in Watchers, Loaded(c)
             PROVE  Agrees(Read(store[c], wire[c]), table)
  BY DEF WatchersFollow
<1>1. wire[c] \in Seq(News) /\ store[c] \in Seq(Rows) /\ fetch[c].stage = "none" /\ Watching(c)
  BY DEF TypeInv, TypeOK, WatchInv, Loaded, Watchers
<1>2. CASE Early
  <2>1. Read(store[c], wire[c]) = store[c]
    BY <1>1, <1>2, ReadGreetings DEF Watching, Loading
  <2> QED BY <1>1, <1>2, <2>1 DEF Watching, Loading
<1>3. CASE ~Early
  BY <1>1, <1>3 DEF Watching, Following
<1> QED BY <1>2, <1>3

(* Every variable keeps its type: ids, which name connections, stay within *)
(* what the tabs and the cuts allow.                                       *)
THEOREM TypesHold == Spec => []TypeOK
<1>1. TypeInv => TypeOK
  BY DEF TypeInv
<1> QED BY <1>1, TypeInit, TypeStep, PTL DEF Spec

(* A tab that only watches follows the table: each row once, none missing, *)
(* none left over, late only by what is on its wire (WebSocketManager,     *)
(* EventBus, TaskStore.initWebSocket).                                     *)
THEOREM WatchersHold == Spec => []WatchersFollow
BY TypeInit, TypeStep, WatchInit, WatchStep, WatchSafe, PTL DEF Spec

----------------------------------------------------------------------------
(* The first scene of the model that is checked.                           *)

WatchScene == scene = "watch" => TypeInv /\ WatchInv

(* The scene begins in the invariant ...                                   *)
LEMMA SceneInit == SyncInit => WatchScene
BY TypeInit, WatchInit DEF SyncInit, WatchScene

(* ... and stays in it.                                                    *)
LEMMA SceneStep == WatchScene /\ [SyncNext]_<<scene, vars, history, board>> => WatchScene'
<1> SUFFICES ASSUME WatchScene, [SyncNext]_<<scene, vars, history, board>>, scene' = "watch"
             PROVE  TypeInv' /\ WatchInv'
  BY DEF WatchScene
<1>1. scene = "watch" /\ [Next]_vars
  BY DEF SyncNext
<1> QED BY <1>1, TypeStep, WatchStep DEF WatchScene

(* In the scene of the watching tab it follows the table.                  *)
THEOREM SceneFollows == SyncSpec => []WatchersAgree
<1>1. WatchScene => WatchersAgree
  BY WatchSafe DEF WatchScene, WatchersAgree
<1> QED BY <1>1, SceneInit, SceneStep, PTL DEF SyncSpec

----------------------------------------------------------------------------
(* The editing tabs: what is under way for one row at a time.              *)

(* The rows of a store, and of the table, that have the id t.              *)
Shown(s, t)  == { q \in Rowset(s) : q.id = t }
Held(tab, t) == IF tab[t].state = "live" THEN {Row(t, tab[t].val)} ELSE {}

LEMMA HasShown == ASSUME NEW s, NEW t PROVE Has(s, t) <=> Shown(s, t) # {}
<1>1. Has(s, t) => Shown(s, t) # {}
  BY DEF Has, Shown, Rowset
<1>2. Shown(s, t) # {} => Has(s, t)
  BY DEF Has, Shown, Rowset
<1> QED BY <1>1, <1>2

(* The messages on a wire about the row t.                                 *)
About(w, t) == { i \in DOMAIN w : w[i].row.id = t }

Posts    == [kind: {"ack", "created", "updated", "deleted", "restored", "retagged"},
             row: Rows \union {NoRow}, origin: Nat]
Tells(m) == m.kind \in Telling /\ m.row \in Rows

(* A store shows the row t as the table has it ...                         *)
Steady(w, s, tab, t) == About(w, t) = {} /\ Shown(s, t) = Held(tab, t)

(* ... or will, once it has read m ...                                     *)
Brings(m, s, tab, t) ==
    \/ m.kind \in {"created", "restored"} /\ Held(tab, t) = {m.row}
    \/ m.kind = "updated" /\ Held(tab, t) = {m.row} /\ Shown(s, t) # {}
    \/ m.kind = "deleted" /\ Held(tab, t) = {}

(* ... which is the one message about t on its wire.                       *)
Current(w, s, tab, t) ==
    \/ Steady(w, s, tab, t)
    \/ \E i \in DOMAIN w :
          About(w, t) = {i} /\ tab[t].state # "none" /\ Brings(w[i], s, tab, t)

(* Replacing a row touches those of its id only ...                        *)
LEMMA ShownReplaced ==
    ASSUME NEW s \in Seq(Rows), NEW r \in Rows
    PROVE  /\ Replaced(s, r) \in Seq(Rows)
           /\ Distinct(s) => Distinct(Replaced(s, r))
           /\ \A t : t # r.id => Shown(Replaced(s, r), t) = Shown(s, t)
           /\ Shown(s, r.id) = {} => Shown(Replaced(s, r), r.id) = {}
           /\ Shown(s, r.id) # {} => Shown(Replaced(s, r), r.id) = {r}
<1> DEFINE q == Replaced(s, r)
<1>1. /\ q \in Seq(Rows) /\ DOMAIN q = DOMAIN s
      /\ \A i \in DOMAIN s : q[i] = IF s[i].id = r.id THEN r ELSE s[i]
  BY ReplacedRows
<1> HIDE DEF q
<1>2. Distinct(s) => Distinct(q)
  BY <1>1 DEF Distinct
<1>3. \A i \in DOMAIN s : q[i].id = s[i].id
  BY <1>1
<1>4. ASSUME NEW t, t # r.id PROVE Shown(q, t) = Shown(s, t)
  BY <1>1, <1>4 DEF Shown, Rowset
<1>5. ASSUME Shown(s, r.id) = {} PROVE Shown(q, r.id) = {}
  BY <1>1, <1>5 DEF Shown, Rowset
<1>6. ASSUME Shown(s, r.id) # {} PROVE Shown(q, r.id) = {r}
  <2>1. PICK i \in DOMAIN s : s[i].id = r.id
    BY <1>6 DEF Shown, Rowset
  <2>2. r \in Shown(q, r.id)
    BY <1>1, <2>1 DEF Shown, Rowset
  <2>3. \A x \in Shown(q, r.id) : x = r
    BY <1>1 DEF Shown, Rowset
  <2> QED BY <2>2, <2>3
<1> QED BY <1>1, <1>2, <1>4, <1>5, <1>6 DEF q

(* ... so does appending one ...                                           *)
LEMMA ShownAppended ==
    ASSUME NEW s \in Seq(Rows), NEW r \in Rows
    PROVE  /\ Append(s, r) \in Seq(Rows)
           /\ Distinct(s) /\ Shown(s, r.id) = {} => Distinct(Append(s, r))
           /\ \A t : t # r.id => Shown(Append(s, r), t) = Shown(s, t)
           /\ Shown(s, r.id) = {} => Shown(Append(s, r), r.id) = {r}
<1>1. /\ Append(s, r) \in Seq(Rows)
      /\ Rowset(Append(s, r)) = Rowset(s) \union {r}
      /\ Distinct(s) /\ ~Has(s, r.id) => Distinct(Append(s, r))
  BY AppendedRows
<1>2. Shown(s, r.id) = {} => ~Has(s, r.id)
  BY HasShown
<1>3. \A t : t # r.id => Shown(Append(s, r), t) = Shown(s, t)
  BY <1>1 DEF Shown
<1>4. Shown(s, r.id) = {} => Shown(Append(s, r), r.id) = {r}
  BY <1>1 DEF Shown
<1> QED BY <1>1, <1>2, <1>3, <1>4

(* ... and dropping those of an id.                                        *)
LEMMA ShownWithout ==
    ASSUME NEW s \in Seq(Rows), NEW u
    PROVE  /\ Without(s, u) \in Seq(Rows)
           /\ Distinct(s) => Distinct(Without(s, u))
           /\ \A t : t # u => Shown(Without(s, u), t) = Shown(s, t)
           /\ Shown(Without(s, u), u) = {}
BY WithoutRows DEF Shown

(* A message touches the row it is about only, and brings what it tells.   *)
LEMMA ShownApplied ==
    ASSUME NEW s \in Seq(Rows), NEW m \in Posts, Tells(m)
    PROVE  /\ Applied(s, m) \in Seq(Rows)
           /\ Distinct(s) => Distinct(Applied(s, m))
           /\ \A t : t # m.row.id => Shown(Applied(s, m), t) = Shown(s, t)
           /\ \A tab : Brings(m, s, tab, m.row.id) =>
                 Shown(Applied(s, m), m.row.id) = Held(tab, m.row.id)
<1> DEFINE r == m.row
           x == Applied(s, m)
<1>1. r \in Rows
  BY DEF Tells
<1>2. CASE m.kind \in {"created", "restored"}
  <2>1. x = IF Has(s, r.id) THEN Replaced(s, r) ELSE Append(s, r)
    BY <1>2 DEF Applied, Upserted
  <2>2. Has(s, r.id) <=> Shown(s, r.id) # {}
    BY HasShown
  <2>3. Shown(s, r.id) = {} => x = Append(s, r)
    BY <2>1, <2>2
  <2>4. Shown(s, r.id) # {} => x = Replaced(s, r)
    BY <2>1, <2>2
  <2>5. \A tab : Brings(m, s, tab, r.id) => Held(tab, r.id) = {r}
    BY <1>2 DEF Brings
  <2> HIDE DEF r, x
  <2>8. /\ Replaced(s, r) \in Seq(Rows)
        /\ Distinct(s) => Distinct(Replaced(s, r))
        /\ \A t : t # r.id => Shown(Replaced(s, r), t) = Shown(s, t)
        /\ Shown(s, r.id) # {} => Shown(Replaced(s, r), r.id) = {r}
    BY <1>1, ShownReplaced
  <2>9. /\ Append(s, r) \in Seq(Rows)
        /\ Distinct(s) /\ Shown(s, r.id) = {} => Distinct(Append(s, r))
        /\ \A t : t # r.id => Shown(Append(s, r), t) = Shown(s, t)
        /\ Shown(s, r.id) = {} => Shown(Append(s, r), r.id) = {r}
    BY <1>1, ShownAppended
  <2>6. /\ x \in Seq(Rows)
        /\ Distinct(s) => Distinct(x)
        /\ \A t : t # r.id => Shown(x, t) = Shown(s, t)
        /\ Shown(x, r.id) = {r}
    <3>1. CASE Shown(s, r.id) = {}
      BY <2>3, <2>9, <3>1
    <3>2. CASE Shown(s, r.id) # {}
      BY <2>4, <2>8, <3>2
    <3> QED BY <3>1, <3>2
  <2>7. \A tab : Brings(m, s, tab, r.id) => Shown(x, r.id) = Held(tab, r.id)
    BY <2>5, <2>6
  <2> QED BY <2>6, <2>7 DEF r, x
<1>3. CASE m.kind = "updated"
  <2>1. x = Replaced(s, r)
    BY <1>3 DEF Applied
  <2>2. \A tab : Brings(m, s, tab, r.id) => Held(tab, r.id) = {r} /\ Shown(s, r.id) # {}
    BY <1>3 DEF Brings
  <2> HIDE DEF r, x
  <2>3. /\ x \in Seq(Rows)
        /\ Distinct(s) => Distinct(x)
        /\ \A t : t # r.id => Shown(x, t) = Shown(s, t)
        /\ Shown(s, r.id) # {} => Shown(x, r.id) = {r}
    <3>1. /\ Replaced(s, r) \in Seq(Rows)
          /\ Distinct(s) => Distinct(Replaced(s, r))
          /\ \A t : t # r.id => Shown(Replaced(s, r), t) = Shown(s, t)
          /\ Shown(s, r.id) # {} => Shown(Replaced(s, r), r.id) = {r}
      BY <1>1, ShownReplaced
    <3> QED BY <2>1, <3>1
  <2>4. \A tab : Brings(m, s, tab, r.id) => Shown(x, r.id) = Held(tab, r.id)
    BY <2>2, <2>3
  <2> QED BY <2>3, <2>4 DEF r, x
<1>4. CASE m.kind = "deleted"
  <2>1. x = Without(s, r.id)
    BY <1>4 DEF Applied
  <2>2. \A tab : Brings(m, s, tab, r.id) => Held(tab, r.id) = {}
    BY <1>4 DEF Brings
  <2> HIDE DEF r, x
  <2>3. /\ x \in Seq(Rows)
        /\ Distinct(s) => Distinct(x)
        /\ \A t : t # r.id => Shown(x, t) = Shown(s, t)
        /\ Shown(x, r.id) = {}
    BY <1>1, <2>1, ShownWithout
  <2>4. \A tab : Brings(m, s, tab, r.id) => Shown(x, r.id) = Held(tab, r.id)
    BY <2>2, <2>3
  <2> QED BY <2>3, <2>4 DEF r, x
<1> QED BY <1>2, <1>3, <1>4 DEF Tells, Telling

(* A row that is shown once is the one Find finds.                         *)
LEMMA ShownFind ==
    ASSUME NEW s \in Seq(Rows), NEW t, Distinct(s)
    PROVE  /\ Has(s, t) <=> Shown(s, t) # {}
           /\ Has(s, t) => /\ Find(s, t) \in Rows /\ Find(s, t).id = t
                           /\ Shown(s, t) = {Find(s, t)}
<1>1. Has(s, t) <=> Shown(s, t) # {}
  BY HasShown
<1>2. ASSUME Has(s, t)
      PROVE  Find(s, t) \in Rows /\ Find(s, t).id = t /\ Shown(s, t) = {Find(s, t)}
  <2>1. PICK i \in DOMAIN s : Find(s, t) = s[i] /\ s[i].id = t
    <3> DEFINE I == { i \in 1 .. Len(s) : s[i].id = t }
    <3>1. I \subseteq Nat /\ I # {} /\ DOMAIN s = 1 .. Len(s)
      BY <1>2 DEF Has
    <3>2. PICK i \in I : \A j \in I : i <= j
      <4> HIDE DEF I
      <4> QED BY <3>1, LeastNumber
    <3>3. \E k \in DOMAIN s : s[k].id = t /\ \A j \in 1 .. k - 1 : s[j].id # t
      BY <3>1, <3>2
    <3> QED BY <3>3 DEF Find
  <2>2. \A x \in Shown(s, t) : x = s[i]
    BY <2>1 DEF Shown, Rowset, Distinct
  <2>3. s[i] \in Shown(s, t) /\ s[i] \in Rows
    BY <2>1 DEF Shown, Rowset
  <2> QED BY <2>1, <2>2, <2>3
<1> QED BY <1>1, <1>2

(* A store that shows each row as the table has it shows the table.        *)
LEMMA ShowsEach ==
    ASSUME NEW s \in Seq(Rows), NEW tab \in Tables, Distinct(s),
           \A t \in Tasks : Shown(s, t) = Held(tab, t),
           Rowset(LiveRows(tab)) = { Row(t, tab[t].val) : t \in Live(tab) }
    PROVE  Shows(s, tab)
<1>1. \A r \in Rowset(s) : r.id \in Tasks /\ r \in Held(tab, r.id)
  BY RowsOfStore DEF Shown
<1>2. \A t \in Live(tab) : Row(t, tab[t].val) \in Shown(s, t)
  BY DEF Live, Held
<1>3. Rowset(s) = { Row(t, tab[t].val) : t \in Live(tab) }
  <2>1. ASSUME NEW r \in Rowset(s) PROVE r \in { Row(t, tab[t].val) : t \in Live(tab) }
    BY <1>1 DEF Held, Live
  <2>2. ASSUME NEW t \in Live(tab) PROVE Row(t, tab[t].val) \in Rowset(s)
    BY <1>2 DEF Shown
  <2> QED BY <2>1, <2>2
<1> QED BY <1>3 DEF Shows

----------------------------------------------------------------------------
(* A message about another row, or none, leaves the wire as it is for t.   *)
LEMMA AboutAppended ==
    ASSUME NEW w \in Seq(Posts), NEW m \in Posts
    PROVE  /\ Append(w, m) \in Seq(Posts)
           /\ \A t : t # m.row.id => About(Append(w, m), t) = About(w, t)
           /\ About(w, m.row.id) = {} => About(Append(w, m), m.row.id) = {Len(w) + 1}
           /\ Len(w) + 1 \in DOMAIN Append(w, m) /\ Append(w, m)[Len(w) + 1] = m
           /\ DOMAIN w = 1 .. Len(w) /\ Len(w) \in Nat /\ DOMAIN Append(w, m) = 1 .. Len(w) + 1
           /\ \A i \in DOMAIN w : Append(w, m)[i] = w[i]
<1> DEFINE v == Append(w, m)
<1>1. /\ v \in Seq(Posts) /\ DOMAIN v = 1 .. Len(w) + 1 /\ v[Len(w) + 1] = m
      /\ DOMAIN w = 1 .. Len(w) /\ Len(w) \in Nat
      /\ \A i \in DOMAIN w : v[i] = w[i]
  OBVIOUS
<1> HIDE DEF v
<1>2. ASSUME NEW t, t # m.row.id PROVE About(v, t) = About(w, t)
  BY <1>1, <1>2 DEF About
<1>3. ASSUME About(w, m.row.id) = {} PROVE About(v, m.row.id) = {Len(w) + 1}
  BY <1>1, <1>3 DEF About
<1> QED BY <1>1, <1>2, <1>3 DEF v

(* What is about t stays so when another message is read.                  *)
LEMMA AboutTail ==
    ASSUME NEW w \in Seq(Posts), w # <<>>, NEW t
    PROVE  /\ Tail(w) \in Seq(Posts) /\ Head(w) = w[1] /\ 1 \in DOMAIN w /\ Head(w) \in Posts
           /\ About(w, t) = {} => About(Tail(w), t) = {} /\ Head(w).row.id # t
           /\ \A i \in DOMAIN Tail(w) : i + 1 \in DOMAIN w /\ Tail(w)[i] = w[i + 1]
           /\ About(w, t) = {1} => About(Tail(w), t) = {} /\ Head(w).row.id = t
           /\ \A i \in DOMAIN w : About(w, t) = {i} /\ i # 1 =>
                 /\ i - 1 \in DOMAIN Tail(w) /\ Tail(w)[i - 1] = w[i]
                 /\ About(Tail(w), t) = {i - 1} /\ Head(w).row.id # t
<1> DEFINE v == Tail(w)
<1>1. /\ v \in Seq(Posts) /\ Len(w) \in Nat \ {0} /\ DOMAIN w = 1 .. Len(w) /\ DOMAIN v = 1 .. Len(w) - 1
      /\ Head(w) = w[1] /\ 1 \in DOMAIN w /\ Head(w) \in Posts
      /\ \A i \in DOMAIN v : v[i] = w[i + 1]
  OBVIOUS
<1> HIDE DEF v
<1>2. \A i \in DOMAIN v : i + 1 \in DOMAIN w /\ (i \in About(v, t) <=> i + 1 \in About(w, t)) /\ i + 1 # 1
  BY <1>1 DEF About
<1>3. 1 \in About(w, t) <=> Head(w).row.id = t
  BY <1>1 DEF About
<1>4. About(v, t) \subseteq DOMAIN v
  BY DEF About
<1>5. ASSUME NEW i \in DOMAIN w, About(w, t) = {i}, i # 1
      PROVE  i - 1 \in DOMAIN v /\ v[i - 1] = w[i] /\ About(v, t) = {i - 1}
  <2>1. i - 1 \in DOMAIN v /\ i - 1 + 1 = i
    BY <1>1, <1>5
  <2>2. i - 1 \in About(v, t)
    BY <1>2, <1>5, <2>1
  <2>3. \A j \in About(v, t) : j = i - 1
    BY <1>1, <1>2, <1>4, <1>5
  <2> QED BY <1>1, <2>1, <2>2, <2>3
<1>6. About(w, t) = {} => About(v, t) = {}
  BY <1>2, <1>4
<1>7. About(w, t) = {1} => About(v, t) = {}
  BY <1>2, <1>4
<1> QED BY <1>1, <1>2, <1>3, <1>5, <1>6, <1>7 DEF v

(* The stores stay current: when they read a message ...                   *)
LEMMA CurrentReads ==
    ASSUME NEW w \in Seq(Posts), w # <<>>, NEW s \in Seq(Rows), NEW tab, NEW t, Tells(Head(w))
    PROVE  /\ About(w, t) = {} => /\ About(Tail(w), t) = {}
                                  /\ Shown(Applied(s, Head(w)), t) = Shown(s, t)
           /\ Steady(w, s, tab, t) => Steady(Tail(w), Applied(s, Head(w)), tab, t)
           /\ Current(w, s, tab, t) => Current(Tail(w), Applied(s, Head(w)), tab, t)
<1> DEFINE m == Head(w)
           v == Tail(w)
           one == Applied(s, m)
<1>1. m \in Posts /\ m = w[1]
  BY AboutTail
<1>2. ASSUME m.row.id # t PROVE Shown(one, t) = Shown(s, t)
  BY <1>1, <1>2, ShownApplied
<1>3. ASSUME About(w, t) = {} PROVE About(v, t) = {} /\ Shown(one, t) = Shown(s, t)
  BY <1>2, <1>3, AboutTail
<1>4. Steady(w, s, tab, t) => Steady(v, one, tab, t)
  BY <1>3 DEF Steady
<1>5. ASSUME NEW i \in DOMAIN w, About(w, t) = {i}, tab[t].state # "none", Brings(w[i], s, tab, t)
      PROVE  Current(v, one, tab, t)
  <2>1. CASE i = 1
    <3>1. About(v, t) = {} /\ m.row.id = t
      BY <1>5, <2>1, AboutTail
    <3>2. Shown(one, t) = Held(tab, t)
      BY <1>1, <1>5, <2>1, <3>1, ShownApplied, ZenonT(60)
    <3> QED BY <3>1, <3>2 DEF Current, Steady
  <2>2. CASE i # 1
    <3>1. i - 1 \in DOMAIN v /\ v[i - 1] = w[i] /\ About(v, t) = {i - 1} /\ m.row.id # t
      BY <1>5, <2>2, AboutTail
    <3>2. Brings(v[i - 1], one, tab, t)
      BY <1>2, <1>5, <3>1 DEF Brings
    <3> HIDE DEF v, one
    <3> QED BY <1>5, <3>1, <3>2 DEF Current
  <2> QED BY <2>1, <2>2
<1> QED BY <1>3, <1>4, <1>5 DEF Current

(* ... when something changes that is not about the row ...                *)
LEMMA CurrentElsewhere ==
    ASSUME NEW w, NEW s, NEW x, NEW tab, NEW new, NEW t,
           Shown(x, t) = Shown(s, t), new[t] = tab[t]
    PROVE  /\ Steady(w, s, tab, t) => Steady(w, x, new, t)
           /\ Current(w, s, tab, t) => Current(w, x, new, t)
BY DEF Steady, Current, Held, Brings

(* ... or a message about another row joins the wire ...                   *)
LEMMA CurrentBeside ==
    ASSUME NEW w \in Seq(Posts), NEW m \in Posts, NEW s, NEW tab, NEW t, t # m.row.id
    PROVE  /\ Steady(w, s, tab, t) => Steady(Append(w, m), s, tab, t)
           /\ Current(w, s, tab, t) => Current(Append(w, m), s, tab, t)
<1> DEFINE v == Append(w, m)
<1>1. /\ About(v, t) = About(w, t) /\ \A i \in DOMAIN w : i \in DOMAIN v /\ v[i] = w[i]
  BY AboutAppended
<1> HIDE DEF v
<1> QED BY <1>1 DEF Steady, Current, v

(* ... and when they are told of the row itself.                           *)
LEMMA CurrentTold ==
    ASSUME NEW w \in Seq(Posts), NEW m \in Posts, NEW s, NEW tab,
           About(w, m.row.id) = {}, tab[m.row.id].state # "none",
           Brings(m, s, tab, m.row.id)
    PROVE  Current(Append(w, m), s, tab, m.row.id)
<1> DEFINE v == Append(w, m)
           k == Len(w) + 1
<1>1. k \in DOMAIN v /\ v[k] = m /\ About(v, m.row.id) = {k}
  BY AboutAppended
<1> HIDE DEF v, k
<1> QED BY <1>1 DEF Current, v

----------------------------------------------------------------------------
(* The invariant of the editing tabs.                                      *)

(* What a tab asks for: a new task has no id yet.                          *)
Asked == [n: Nat, by: Clients, kind: {"create", "update", "delete", "restore", "untrash"},
          stage: {"sent", "ok", "failed"}, origin: Nat,
          row: Rows \union [id: {0}, val: Values], prev: Rows \union {NoRow}]

(* The types of the variables; no store holds a row twice.                 *)
Shapes ==
    /\ table \in Tables /\ wire \in [Clients -> Seq(Posts)] /\ reqs \subseteq Asked
    /\ conn \in [Clients -> Nat] /\ me \in [Clients -> Nat] /\ header \in [Clients -> Nat]
    /\ fetch \in [Clients -> [stage: {"none", "sent", "ok"}, rows: Seq(Rows)]]
    /\ store \in [Clients -> Seq(Rows)] /\ open \in [Clients -> BOOLEAN]
    /\ undo \in [Clients -> SUBSET Rows]
    /\ ids \in Nat /\ writes \in Nat /\ cuts \in Nat
    /\ \A c \in Clients : Distinct(store[c])

(* The greeting of a socket.                                               *)
Ack(id) == [kind |-> "ack", row |-> NoRow, origin |-> id]

(* A socket is closed, or greeted, or named: no connection is cut, so a    *)
(* tab knows its id for good, and nothing of its own comes back to it.     *)
Socket(c) ==
    \/ ~open[c] /\ conn[c] = 0 /\ me[c] = 0 /\ wire[c] = <<>>
    \/ open[c] /\ conn[c] # 0 /\ me[c] = 0 /\ wire[c] = <<Ack(conn[c])>>
    \/ /\ open[c] /\ conn[c] # 0 /\ me[c] = conn[c] /\ header[c] = conn[c]
       /\ \A i \in DOMAIN wire[c] : wire[c][i].kind # "ack" /\ wire[c][i].origin # conn[c]

(* Sockets have their ids apart.                                           *)
Sockets ==
    /\ \A c \in Clients : Socket(c) /\ conn[c] <= ids
    /\ \A c, d \in Clients : c # d /\ conn[c] # 0 => conn[c] # conn[d]

(* What the tab that sent r shows of its row, when the table is tab.       *)
Own(r, s, tab) ==
    LET t == r.row.id
        shown == Shown(s, t)
        held  == Held(tab, t)
    IN  \/ /\ r.stage = "ok"
           /\ \/ r.kind \in {"update", "restore"} /\ shown = {r.row} /\ held = {r.row}
              \/ r.kind = "delete" /\ shown = {} /\ held = {}
              \/ r.kind \in {"create", "untrash"} /\ shown = {} /\ held = {r.row}
        \/ /\ r.stage # "ok"
           /\ \/ r.kind = "update" /\ r.prev = NoRow /\ shown = {} /\ held = {}
              \/ r.kind = "update" /\ r.prev.id = t /\ shown = {r.row} /\ held = {r.prev}
              \/ r.kind = "delete" /\ r.prev.id = t /\ shown = {} /\ held = {r.prev}
              \/ r.kind = "restore" /\ shown = {r.row} /\ held = {} /\ tab[t].val = r.row.val
              \/ r.kind = "untrash" /\ shown = {} /\ held = {}

(* A request that is under way: its row is nobody else's business, and the *)
(* other tabs show what they did until it is served.                       *)
Pending(r) ==
    /\ r.origin = conn[r.by]
    /\ r.row.id = 0 => r.kind = "create" /\ r.stage # "ok"
    /\ r.kind = "delete" => r.prev \in Rows
    /\ r.row.id # 0 =>
          /\ table[r.row.id].state # "none" /\ About(wire[r.by], r.row.id) = {}
          /\ Own(r, store[r.by], table)
          /\ \A c \in Clients \ {r.by} :
                IF r.stage = "ok" THEN Current(wire[c], store[c], table, r.row.id)
                ELSE Steady(wire[c], store[c], table, r.row.id)

(* Tabs that edit: at most one request for a row, and where there is none  *)
(* every store shows the row, late by one message at most.                 *)
Editing ==
    /\ \A c \in Clients : me[c] # 0 /\ fetch[c].stage = "none"
    /\ \A c \in Clients : \A i \in DOMAIN wire[c] : Tells(wire[c][i])
    /\ \A r, q \in reqs : r.row.id = q.row.id => r = q
    /\ \A r \in reqs : Pending(r)
    /\ \A t \in Tasks : (\A r \in reqs : r.row.id # t) =>
          \A c \in Clients : Current(wire[c], store[c], table, t)

(* Tabs that load, first or after a tag operation, while nobody edits.     *)
Refresh(c) ==
    \/ /\ me[c] # 0 /\ fetch[c].stage = "none"
       /\ \E m \in Posts : wire[c] = <<m>> /\ m.kind = "retagged"
    \/ /\ me[c] # 0 => wire[c] = <<>>
       /\ \/ fetch[c].stage = "sent"
          \/ fetch[c].stage = "ok" /\ fetch[c].rows = LiveRows(table)
          \/ /\ fetch[c].stage = "none"
             /\ \A t \in Tasks : Shown(store[c], t) = Held(table, t)

(* All tabs load, and nothing is asked for.                                *)
Refreshing == reqs = {} /\ \A c \in Clients : Refresh(c)

(* The tabs load, or they edit.                                            *)
EditInv == Shapes /\ Sockets /\ (Refreshing \/ Editing)

----------------------------------------------------------------------------
(* The steps of courteous users on a network that only turns requests      *)
(* away: the actions of TaskSync with the guards those constants give.     *)

SettledCreate(c, v) ==
    /\ Settled(0)
    /\ Send(c, "create", [id |-> 0, val |-> v], NoRow)
    /\ UNCHANGED <<store, undo>>

SettledUpdate(c, t, v) ==
    /\ Settled(t) /\ table[t].state # "none"
    /\ store' = [store EXCEPT ![c] = Replaced(@, Row(t, v))]
    /\ Send(c, "update", Row(t, v), IF Has(store[c], t) THEN Find(store[c], t) ELSE NoRow)
    /\ UNCHANGED undo

SettledRemove(c, t) ==
    /\ Settled(t) /\ Has(store[c], t)
    /\ store' = [store EXCEPT ![c] = Without(@, t)]
    /\ Send(c, "delete", Find(store[c], t), Find(store[c], t))
    /\ UNCHANGED undo

SettledUndo(c, row) ==
    /\ Settled(row.id) /\ row \in undo[c]
    /\ table[row.id] = [state |-> "trash", val |-> row.val]
    /\ undo' = [undo EXCEPT ![c] = @ \ {row}]
    /\ store' = [store EXCEPT ![c] = Append(@, row)]
    /\ Send(c, "restore", row, NoRow)

SettledUntrash(c, t) ==
    /\ Settled(t) /\ table[t].state = "trash"
    /\ Send(c, "untrash", Row(t, table[t].val), NoRow)
    /\ UNCHANGED <<store, undo>>

SettledRetag(v) ==
    /\ reqs = {} /\ \A t \in Tasks : Settled(t)
    /\ table' = [t \in Tasks |-> IF table[t].state = "live"
                                 THEN [table[t] EXCEPT !.val = v] ELSE table[t]]
    /\ wire' = Broadcast("retagged", NoRow, 0)
    /\ UNCHANGED <<conn, reqs, fetch, client, ids, writes, faults, cuts>>

PutOrphan(r) ==
    /\ r.kind = "update"
    /\ IF table[r.row.id].state = "live"
       THEN Write(r, [table EXCEPT ![r.row.id].val = r.row.val], "updated", r.row)
       ELSE Unwritten(r)

ServeOrphan(r) ==
    /\ r.stage = "sent"
    /\ PostTask(r) \/ PutOrphan(r) \/ DeleteTask(r) \/ RestoreTask(r)
    /\ UNCHANGED <<conn, fetch, client, counts>>

FailSent(r) ==
    /\ r.stage = "sent"
    /\ Refuse(r)
    /\ UNCHANGED <<server, wire, fetch, client, ids, writes, cuts>>

GentleNext ==
    \/ \E c \in Clients :
          \/ Connect(c) \/ NoticeClose(c) \/ Deliver(c) \/ ServeFetch(c) \/ FetchArrives(c)
          \/ \E v \in Values : SettledCreate(c, v) \/ \E t \in Tasks : SettledUpdate(c, t, v)
          \/ \E t \in Tasks : SettledRemove(c, t) \/ SettledUntrash(c, t)
          \/ \E row \in undo[c] : SettledUndo(c, row)
    \/ \E v \in Values : SettledRetag(v)
    \/ \E r \in reqs : ServeOrphan(r) \/ FailSent(r) \/ Arrive(r)

(* No tab loses a connection or an answer, users are courteous and tasks   *)
(* have no parents.                                                        *)
Gentle == Courteous /\ ~LoseAnswers /\ MaxCuts = 0 /\ Parent = [t \in Tasks |-> 0]

(* Only a new task has no row to name.                                     *)
LEMMA UpdatesNameRows ==
    ASSUME EditInv, NEW r \in reqs, r.kind # "create"
    PROVE  r.row \in Rows /\ r.row.id \in Tasks
<1>1. r.row.id # 0
  BY DEF EditInv, Refreshing, Editing, Pending
<1>2. r.row \in Rows \union [id: {0}, val: Values]
  BY DEF EditInv, Shapes, Asked
<1> QED BY <1>1, <1>2 DEF Rows

(* Every step of TaskSync is one of them when its constants are these ...  *)
LEMMA GentleSteps ==
    ASSUME Gentle, EditInv, [Next]_vars
    PROVE  GentleNext \/ UNCHANGED vars
<1>1. \A c \in Writers : c \in Clients /\ ~Cut(c) /\ ~FetchFails(c)
  <2>1. cuts \in Nat
    BY DEF EditInv, Shapes
  <2> QED BY <2>1, TabsAssumption DEF Gentle, Cut, FetchFails
<1>2. \A c, v : Create(c, v) => SettledCreate(c, v)
  BY DEF Gentle, Create, MayEdit, SettledCreate
<1>3. \A c, t, v : Update(c, t, v) => SettledUpdate(c, t, v)
  BY DEF Gentle, Update, MayEdit, SettledUpdate
<1>4. \A c, t : Remove(c, t) => SettledRemove(c, t)
  BY DEF Gentle, Remove, MayEdit, SettledRemove
<1>5. \A c, row : Undo(c, row) => SettledUndo(c, row)
  BY DEF Gentle, Undo, MayEdit, SettledUndo
<1>6. \A c, t : RestoreFromTrash(c, t) => SettledUntrash(c, t)
  BY DEF Gentle, RestoreFromTrash, MayEdit, SettledUntrash
<1>7. \A v : Retag(v) => SettledRetag(v)
  BY DEF Gentle, Retag, SettledRetag
<1>8. ASSUME NEW r \in reqs, Serve(r) PROVE ServeOrphan(r)
  <2>1. \A tab, t, v : Parent[t] = 0 => RolledUp(tab, t, v) = tab
    BY DEF RolledUp
  <2>2. ASSUME PutTask(r), table[r.row.id].state = "live" PROVE PutOrphan(r)
    <3>1. r.row.id \in Tasks
      BY <1>8, <2>2, UpdatesNameRows DEF PutTask
    <3> QED BY <2>1, <2>2, <3>1 DEF Gentle, PutTask, PutOrphan
  <2>3. ASSUME PutTask(r), table[r.row.id].state # "live" PROVE PutOrphan(r)
    BY <2>3 DEF PutTask, PutOrphan
  <2> QED BY <1>8, <2>2, <2>3 DEF Serve, ServeOrphan
<1>9. \A r : Fail(r) => FailSent(r)
  BY DEF Gentle, Fail, FailSent
<1> QED BY <1>1, <1>2, <1>3, <1>4, <1>5, <1>6, <1>7, <1>8, <1>9 DEF Next, GentleNext

(* ... and every step of the second scene of the checked model.            *)
LEMMA SceneSteps ==
    ASSUME EditInv, K!Next
    PROVE  GentleNext
<1>1. K!Tasks = Tasks /\ K!Values = Values /\ K!NoRow = NoRow /\ \A t, v : K!Row(t, v) = Row(t, v)
  BY DEF K!Tasks, Tasks, K!Values, Values, K!NoRow, NoRow, K!Row, Row
<1>2. /\ \A s, t : (K!Has(s, t) <=> Has(s, t)) /\ K!Find(s, t) = Find(s, t)
      /\ \A s, t : K!Without(s, t) = Without(s, t)
      /\ \A s, r : K!Replaced(s, r) = Replaced(s, r)
      /\ \A s, r : K!Upserted(s, r) = Upserted(s, r)
  BY DEF K!Has, Has, K!Find, Find, K!Without, Without, K!Replaced, Replaced, K!Upserted, Upserted
<1>3. \A s, m : K!Applied(s, m) = Applied(s, m)
  BY <1>2 DEF K!Applied, Applied
<1>4. \A tab : K!LiveRows(tab) = LiveRows(tab)
  BY <1>1 DEF K!LiveRows, LiveRows
<1>5. \A k, r, o : K!Broadcast(k, r, o) = Broadcast(k, r, o)
  BY DEF K!Broadcast, Broadcast
<1>6. \A t : K!Settled(t) <=> Settled(t)
  BY DEF K!Settled, Settled, K!Loaded, Loaded
<1>7. \A c, k, row, prev : K!Send(c, k, row, prev) => Send(c, k, row, prev)
  BY DEF K!Send, Send
<1>8. ASSUME NEW c \in Clients,
             K!Connect(c) \/ K!NoticeClose(c) \/ K!Deliver(c) \/ K!ServeFetch(c) \/ K!FetchArrives(c)
      PROVE  Connect(c) \/ NoticeClose(c) \/ Deliver(c) \/ ServeFetch(c) \/ FetchArrives(c)
  <2>1. K!Connect(c) => Connect(c)
    BY <1>1 DEF K!Connect, Connect
  <2>2. K!NoticeClose(c) => NoticeClose(c)
    BY DEF K!NoticeClose, NoticeClose, K!server, server, K!counts, counts
  <2>3. K!Deliver(c) => Deliver(c)
    <3>1. \A f : K!FetchAll(f) = FetchAll(f)
      BY DEF K!FetchAll, FetchAll
    <3> QED BY <1>3, <3>1 DEF K!Deliver, Deliver, K!server, server, K!counts, counts
  <2>4. K!ServeFetch(c) => ServeFetch(c)
    BY <1>4 DEF K!ServeFetch, ServeFetch, K!server, server, K!client, client, K!counts, counts
  <2>5. K!FetchArrives(c) => FetchArrives(c)
    BY DEF K!FetchArrives, FetchArrives, K!server, server, K!counts, counts
  <2> QED BY <1>8, <2>1, <2>2, <2>3, <2>4, <2>5
<1>9. ASSUME NEW c \in Clients PROVE ~K!Cut(c) /\ ~K!FetchFails(c)
  <2>1. cuts \in Nat
    BY DEF EditInv, Shapes
  <2> QED BY <2>1 DEF K!Cut, K!FetchFails
<1>10. \A c, v : K!Create(c, v) => SettledCreate(c, v)
  BY <1>1, <1>6, <1>7 DEF K!Create, K!MayEdit, SettledCreate
<1>11. \A c, t, v : K!Update(c, t, v) => SettledUpdate(c, t, v)
  BY <1>1, <1>2, <1>6, <1>7 DEF K!Update, K!MayEdit, SettledUpdate
<1>12. \A c, t : K!Remove(c, t) => SettledRemove(c, t)
  BY <1>1, <1>2, <1>6, <1>7 DEF K!Remove, K!MayEdit, SettledRemove
<1>13. \A c, row : K!Undo(c, row) => SettledUndo(c, row)
  BY <1>1, <1>6, <1>7 DEF K!Undo, K!MayEdit, SettledUndo
<1>14. \A c, t : K!RestoreFromTrash(c, t) => SettledUntrash(c, t)
  BY <1>1, <1>6, <1>7 DEF K!RestoreFromTrash, K!MayEdit, SettledUntrash
<1>15. \A v : K!Retag(v) => SettledRetag(v)
  BY <1>1, <1>5, <1>6 DEF K!Retag, SettledRetag, K!client, client
<1>16. ASSUME NEW r \in reqs, K!Serve(r) PROVE ServeOrphan(r)
  <2>1. \A tab, k, row : K!Write(r, tab, k, row) => Write(r, tab, k, row)
    BY <1>5 DEF K!Write, Write, K!Answer, Answer
  <2>2. K!Unwritten(r) => Unwritten(r)
    BY DEF K!Unwritten, Unwritten, K!Refuse, Refuse
  <2>3. K!PostTask(r) => PostTask(r)
    BY <1>1, <2>1 DEF K!PostTask, PostTask
  <2>4. ASSUME K!PutTask(r) PROVE PutOrphan(r)
    <3>1. r.row.id \in Tasks
      BY <2>4, UpdatesNameRows DEF K!PutTask
    <3>2. \A tab : K!RolledUp(tab, r.row.id, r.row.val) = tab
      BY <3>1 DEF K!RolledUp, MCOrphans
    <3> QED BY <2>1, <2>2, <2>4, <3>2 DEF K!PutTask, PutOrphan
  <2>5. K!DeleteTask(r) => DeleteTask(r)
    BY <2>1, <2>2 DEF K!DeleteTask, DeleteTask
  <2>6. K!RestoreTask(r) => RestoreTask(r)
    BY <1>1, <2>1, <2>2 DEF K!RestoreTask, RestoreTask
  <2>7. UNCHANGED <<K!client, K!counts>> => UNCHANGED <<client, counts>>
    BY DEF K!client, client, K!counts, counts
  <2> QED BY <1>16, <2>3, <2>4, <2>5, <2>6, <2>7 DEF K!Serve, ServeOrphan
<1>17. \A r : K!Fail(r) => FailSent(r)
  BY DEF K!Fail, FailSent, K!Refuse, Refuse, K!server, server, K!client, client
<1>18. \A r : K!Arrive(r) => Arrive(r)
  <2>1. \A s, r : K!Confirmed(s, r) = Confirmed(s, r)
    BY <1>2 DEF K!Confirmed, Confirmed
  <2>2. \A s, r : K!RolledBack(s, r) = RolledBack(s, r)
    BY <1>1, <1>2 DEF K!RolledBack, RolledBack
  <2> QED BY <2>1, <2>2 DEF K!Arrive, Arrive, K!server, server, K!counts, counts
<1> QED BY <1>1, <1>8, <1>9, <1>10, <1>11, <1>12, <1>13, <1>14, <1>15, <1>16, <1>17, <1>18 DEF K!Next, GentleNext

----------------------------------------------------------------------------
(* Each of them keeps the invariant.                                       *)
(* What GET /api/tasks answers shows each row as the table has it.         *)
LEMMA LiveRowsHold ==
    ASSUME NEW tab \in Tables
    PROVE  /\ LiveRows(tab) \in Seq(Rows) /\ Distinct(LiveRows(tab))
           /\ Rowset(LiveRows(tab)) = { Row(t, tab[t].val) : t \in Live(tab) }
           /\ \A t \in Tasks : Shown(LiveRows(tab), t) = Held(tab, t)
<1>1. /\ LiveRows(tab) \in Seq(Rows) /\ Distinct(LiveRows(tab))
      /\ Rowset(LiveRows(tab)) = { Row(t, tab[t].val) : t \in Live(tab) }
  BY LiveRowsEach
<1>2. ASSUME NEW t \in Tasks PROVE Shown(LiveRows(tab), t) = Held(tab, t)
  <2>1. \A u : Row(u, tab[u].val).id = u
    BY DEF Row
  <2>2. CASE t \in Live(tab)
    BY <1>1, <2>1, <2>2 DEF Shown, Held, Live
  <2>3. CASE t \notin Live(tab)
    BY <1>1, <1>2, <2>1, <2>3 DEF Shown, Held, Live
  <2> QED BY <2>2, <2>3
<1> QED BY <1>1, <1>2

(* Tabs begin closed: nothing is asked for and no store is loaded.         *)
LEMMA EditInit == Init => EditInv
<1> SUFFICES ASSUME Init PROVE EditInv
  OBVIOUS
<1>1. Shapes
  BY DEF Init, Shapes, Tables, States, Values, Distinct
<1>2. Sockets
  BY DEF Init, Sockets, Socket
<1>3. Refreshing
  BY DEF Init, Refreshing, Refresh
<1> QED BY <1>1, <1>2, <1>3 DEF EditInv

(* Where nothing is asked for and every tab has loaded, tabs may edit.     *)
LEMMA LoadedEdits ==
    ASSUME EditInv, \A c \in Clients : Loaded(c),
           \A c \in Clients : \A i \in DOMAIN wire[c] : wire[c][i].kind # "retagged"
    PROVE  Editing
<1> SUFFICES ASSUME Refreshing PROVE Editing
  BY DEF EditInv
<1>1. ASSUME NEW c \in Clients
      PROVE  /\ me[c] # 0 /\ fetch[c].stage = "none" /\ wire[c] = <<>>
             /\ \A t \in Tasks : Shown(store[c], t) = Held(table, t)
  <2>1. me[c] # 0 /\ fetch[c].stage = "none" /\ Refresh(c)
    BY DEF Loaded, Refreshing
  <2>2. \A m : wire[c] = <<m>> => 1 \in DOMAIN wire[c] /\ wire[c][1] = m
    OBVIOUS
  <2> QED BY <2>1, <2>2 DEF Refresh
<1>2. \A c \in Clients, t \in Tasks : Current(wire[c], store[c], table, t)
  BY <1>1 DEF Current, Steady, About
<1>3. reqs = {}
  BY DEF Refreshing
<1> QED BY <1>1, <1>2, <1>3 DEF Editing

(* A row that is settled is shown everywhere as it is.                     *)
LEMMA SettledSteady ==
    ASSUME EditInv, NEW t, Settled(t)
    PROVE  /\ Editing /\ \A r \in reqs : r.row.id # t
           /\ t \in Tasks => \A c \in Clients : Steady(wire[c], store[c], table, t)
<1>1. Editing
  BY LoadedEdits DEF Settled
<1>2. \A r \in reqs : r.row.id # t
  BY DEF Settled
<1>3. \A c \in Clients : About(wire[c], t) = {}
  BY DEF Settled, About
<1>4. ASSUME t \in Tasks, NEW c \in Clients PROVE Steady(wire[c], store[c], table, t)
  <2>1. Current(wire[c], store[c], table, t)
    BY <1>1, <1>2, <1>4 DEF Editing
  <2> QED BY <1>3, <2>1 DEF Current
<1> QED BY <1>1, <1>2, <1>4

(* The sockets, where they and the wires stay.                             *)
LEMMA SocketsStay ==
    ASSUME Sockets, UNCHANGED <<conn, wire, open, me, header, ids>>
    PROVE  Sockets'
BY DEF Sockets, Socket, Ack

(* A new socket is greeted with an id that none has had.                   *)
LEMMA EditConnect ==
    ASSUME EditInv, NEW c \in Clients, Connect(c)
    PROVE  EditInv'
<1> DEFINE m == Ack(ids + 1)
<1>1. /\ Shapes /\ Sockets /\ ids \in Nat /\ ~open[c] /\ me[c] = 0 /\ conn[c] = 0
  BY DEF EditInv, Sockets, Socket, Connect, Shapes
<1>2. /\ conn' = [conn EXCEPT ![c] = ids + 1] /\ ids' = ids + 1 /\ open' = [open EXCEPT ![c] = TRUE]
      /\ wire' = [wire EXCEPT ![c] = <<m>>]
      /\ UNCHANGED <<table, reqs, fetch, store, me, header, undo, writes, cuts>>
  BY DEF Connect, Ack
<1>3. m \in Posts /\ m.kind = "ack"
  BY <1>1 DEF Ack, Posts
<1>4. Shapes'
  BY <1>1, <1>2, <1>3 DEF Shapes
<1>5. Sockets'
  <2>1. \A d \in Clients : /\ conn'[d] = IF d = c THEN ids + 1 ELSE conn[d]
                           /\ wire'[d] = IF d = c THEN <<m>> ELSE wire[d]
                           /\ open'[d] = IF d = c THEN TRUE ELSE open[d]
                           /\ me'[d] = me[d] /\ header'[d] = header[d] /\ conn[d] \in Nat
    BY <1>1, <1>2 DEF Shapes
  <2>2. \A d \in Clients : conn[d] <= ids /\ Socket(d)
    BY <1>1 DEF Sockets
  <2> DEFINE n == ids + 1
  <2>7. n \in Nat /\ n # 0 /\ \A k \in Nat : k <= ids => k <= n /\ k # n
    BY <1>1
  <2> HIDE DEF n
  <2>8. \A d \in Clients : /\ conn'[d] = IF d = c THEN n ELSE conn[d]
                           /\ wire'[d] = IF d = c THEN <<Ack(n)>> ELSE wire[d]
    BY <2>1 DEF n
  <2>9. ids' = n
    BY <1>2 DEF n
  <2>3. Socket(c)'
    BY <1>1, <2>1, <2>7, <2>8 DEF Socket
  <2>4. ASSUME NEW d \in Clients, d # c PROVE Socket(d)'
    BY <2>1, <2>2, <2>4, ZenonT(60) DEF Socket
  <2>5. \A d \in Clients : conn'[d] <= ids'
    <3>1. n <= n
      BY <2>7
    <3>2. ASSUME NEW d \in Clients PROVE conn'[d] <= n
      BY <2>1, <2>2, <2>7, <2>8, <3>1
    <3> QED BY <2>9, <3>2
  <2>6. \A d, e \in Clients : d # e /\ conn'[d] # 0 => conn'[d] # conn'[e]
    <3>1. \A d, e \in Clients : d # e /\ conn[d] # 0 => conn[d] # conn[e]
      BY <1>1 DEF Sockets
    <3> QED BY <1>1, <2>1, <2>2, <2>7, <2>8, <3>1
  <2> QED BY <2>3, <2>4, <2>5, <2>6 DEF Sockets
<1>6. Refreshing'
  <2>1. Refreshing
    BY <1>1 DEF EditInv, Editing
  <2>2. \A d \in Clients : d # c => wire'[d] = wire[d]
    BY <1>1, <1>2 DEF Shapes
  <2>3. \A d \in Clients : Refresh(d)'
    BY <1>1, <1>2, <2>1, <2>2 DEF Refreshing, Refresh
  <2> QED BY <1>2, <2>1, <2>3 DEF Refreshing
<1> QED BY <1>4, <1>5, <1>6 DEF EditInv

(* No socket is ever found closed.                                         *)
LEMMA EditNoticeClose ==
    ASSUME EditInv, NEW c \in Clients, NoticeClose(c)
    PROVE  FALSE
BY DEF EditInv, Sockets, Socket, NoticeClose

(* A tab reads a message: its name, a reason to load, or news of a row.    *)
LEMMA EditDeliver ==
    ASSUME EditInv, NEW c \in Clients, Deliver(c)
    PROVE  EditInv'
<1> DEFINE m == Head(wire[c])
<1>1. /\ Shapes /\ Sockets /\ wire[c] \in Seq(Posts) /\ wire[c] # <<>> /\ m \in Posts /\ m = wire[c][1]
      /\ 1 \in DOMAIN wire[c] /\ store[c] \in Seq(Rows) /\ Distinct(store[c]) /\ Socket(c)
  BY AboutTail DEF EditInv, Deliver, Shapes, Sockets
<1>2. /\ wire' = [wire EXCEPT ![c] = Tail(@)]
      /\ UNCHANGED <<table, conn, reqs, open, undo, ids, writes, cuts>>
  BY DEF Deliver, server, counts
<1>3. Tail(wire[c]) \in Seq(Posts)
  BY <1>1
<1>4. \A d \in Clients : wire'[d] = IF d = c THEN Tail(wire[c]) ELSE wire[d]
  BY <1>1, <1>2 DEF Shapes
<1>5. CASE m.kind = "ack"
  <2>1. wire[c] = <<Ack(conn[c])>> /\ me[c] = 0 /\ conn[c] # 0 /\ open[c]
    BY <1>1, <1>5 DEF Socket
  <2>2. m.origin = conn[c] /\ Tail(wire[c]) = <<>>
    BY <2>1 DEF Ack
  <2>3. /\ me' = [me EXCEPT ![c] = conn[c]] /\ header' = [header EXCEPT ![c] = conn[c]]
        /\ UNCHANGED <<store, fetch>>
    BY <1>5, <2>2 DEF Deliver
  <2>4. Shapes'
    <3>1. conn[c] \in Nat
      BY <1>1 DEF Shapes
    <3>2. wire' \in [Clients -> Seq(Posts)] /\ me' \in [Clients -> Nat] /\ header' \in [Clients -> Nat]
      BY <1>1, <1>2, <1>3, <2>3, <3>1 DEF Shapes
    <3>3. UNCHANGED <<table, conn, reqs, fetch, store, open, undo, ids, writes, cuts>>
      BY <1>2, <2>3
    <3> QED BY <1>1, <3>2, <3>3 DEF Shapes
  <2>5. \A d \in Clients : /\ me'[d] = IF d = c THEN conn[c] ELSE me[d]
                           /\ header'[d] = IF d = c THEN conn[c] ELSE header[d]
    BY <1>1, <2>3 DEF Shapes
  <2>6. Socket(c)'
    BY <1>2, <1>4, <2>1, <2>2, <2>5 DEF Socket
  <2>7. \A d \in Clients : d # c => Socket(d)'
    BY <1>1, <1>2, <1>4, <2>5 DEF Sockets, Socket
  <2>8. Sockets'
    BY <1>1, <1>2, <2>6, <2>7 DEF Sockets
  <2>9. Refreshing
    BY <2>1 DEF EditInv, Editing
  <2>10. Refresh(c)'
    <3>1. \/ fetch[c].stage = "sent"
          \/ fetch[c].stage = "ok" /\ fetch[c].rows = LiveRows(table)
          \/ /\ fetch[c].stage = "none"
             /\ \A t \in Tasks : Shown(store[c], t) = Held(table, t)
      BY <2>1, <2>9 DEF Refreshing, Refresh
    <3>2. wire'[c] = <<>>
      BY <1>4, <2>2
    <3>3. UNCHANGED <<table, store, fetch>>
      BY <1>2, <2>3
    <3> QED BY <3>1, <3>2, <3>3 DEF Refresh
  <2>11. \A d \in Clients : d # c => Refresh(d)'
    BY <1>2, <1>4, <2>3, <2>5, <2>9 DEF Refreshing, Refresh
  <2>12. Refreshing'
    BY <1>2, <2>9, <2>10, <2>11 DEF Refreshing
  <2> QED BY <2>4, <2>8, <2>12 DEF EditInv
<1>6. CASE m.kind # "ack"
  <2>1. /\ open[c] /\ conn[c] # 0 /\ me[c] = conn[c] /\ m.origin # me[c]
    BY <1>1, <1>6 DEF Socket, Ack
  <2>2. /\ store' = [store EXCEPT ![c] = Applied(@, m)]
        /\ fetch' = IF m.kind = "retagged" THEN [fetch EXCEPT ![c] = FetchAll(@)] ELSE fetch
        /\ UNCHANGED <<me, header>>
    BY <1>6, <2>1 DEF Deliver
  <2>3. Sockets'
    <3>1. \A i \in DOMAIN Tail(wire[c]) : i + 1 \in DOMAIN wire[c] /\ Tail(wire[c])[i] = wire[c][i + 1]
      BY <1>1
    <3>2. Socket(c)'
      BY <1>1, <1>2, <1>4, <2>1, <2>2, <3>1 DEF Socket, Ack
    <3>3. \A d \in Clients : d # c => Socket(d)'
      BY <1>1, <1>2, <1>4, <2>2 DEF Sockets, Socket
    <3> QED BY <1>1, <1>2, <3>2, <3>3 DEF Sockets
  <2>4. CASE m.kind = "retagged"
    <3>1. Applied(store[c], m) = store[c] /\ store' = store
      BY <1>1, <2>2, <2>4 DEF Applied, Shapes
    <3>2. Refreshing
      BY <1>1, <2>4 DEF EditInv, Editing, Tells, Telling
    <3>3. /\ wire[c] = <<m>> /\ Tail(wire[c]) = <<>> /\ fetch[c].stage = "none"
      <4>1. Refresh(c) /\ me[c] # 0
        BY <2>1, <3>2 DEF Refreshing
      <4>2. PICK x \in Posts : wire[c] = <<x>> /\ fetch[c].stage = "none"
        BY <1>1, <4>1 DEF Refresh
      <4>3. m = x /\ Tail(<<x>>) = <<>>
        BY <4>2
      <4> QED BY <4>2, <4>3
    <3>4. FetchAll(fetch[c]) = [stage |-> "sent", rows |-> <<>>]
      BY <3>3 DEF FetchAll
    <3>5. fetch' = [fetch EXCEPT ![c] = [stage |-> "sent", rows |-> <<>>]]
      BY <1>1, <2>2, <2>4, <3>4 DEF Shapes
    <3>6. Shapes'
      <4>1. fetch' \in [Clients -> [stage: {"none", "sent", "ok"}, rows: Seq(Rows)]]
        <5>1. [stage |-> "sent", rows |-> <<>>] \in [stage: {"none", "sent", "ok"}, rows: Seq(Rows)]
          OBVIOUS
        <5> QED BY <1>1, <3>5, <5>1 DEF Shapes
      <4>2. UNCHANGED <<table, conn, reqs, store, open, undo, ids, writes, cuts, me, header>>
        BY <1>2, <2>2, <3>1
      <4>3. wire' \in [Clients -> Seq(Posts)]
        BY <1>1, <1>2, <1>3 DEF Shapes
      <4> QED BY <1>1, <4>1, <4>2, <4>3 DEF Shapes
    <3>7. \A d \in Clients : fetch'[d] = IF d = c THEN [stage |-> "sent", rows |-> <<>>] ELSE fetch[d]
      BY <1>1, <3>5 DEF Shapes
    <3>8. \A d \in Clients : Refresh(d)'
      <4>1. Refresh(c)'
        <5>1. wire'[c] = <<>> /\ fetch'[c].stage = "sent"
          <6>1. wire'[c] = Tail(wire[c]) /\ fetch'[c] = [stage |-> "sent", rows |-> <<>>]
            BY <1>4, <3>7
          <6>2. Tail(wire[c]) = <<>>
            BY <3>3
          <6>3. [stage |-> "sent", rows |-> <<>>].stage = "sent"
            OBVIOUS
          <6> QED BY <6>1, <6>2, <6>3
        <5> QED BY <5>1 DEF Refresh
      <4>2. ASSUME NEW d \in Clients, d # c PROVE Refresh(d)'
        BY <1>2, <1>4, <2>2, <3>1, <3>2, <3>7, <4>2 DEF Refreshing, Refresh
      <4> QED BY <4>1, <4>2
    <3> QED BY <1>2, <2>3, <3>2, <3>6, <3>8 DEF EditInv, Refreshing
  <2>5. CASE m.kind # "retagged"
    <3>1. Editing
      <4>1. me[c] # 0 /\ wire[c] # <<>>
        BY <1>1, <2>1
      <4>2. \A x \in Posts : wire[c] = <<x>> => x = m
        OBVIOUS
      <4>3. ~Refresh(c)
        BY <2>5, <4>1, <4>2 DEF Refresh
      <4> QED BY <4>3 DEF EditInv, Refreshing
    <3>2. Tells(m)
      BY <1>1, <3>1 DEF Editing
    <3> DEFINE x == Applied(store[c], m)
    <3>3. /\ x \in Seq(Rows) /\ Distinct(x)
      BY <1>1, <3>2, ShownApplied
    <3>4. store' = [store EXCEPT ![c] = x] /\ fetch' = fetch
      BY <2>2, <2>5
    <3>5. \A d \in Clients : store'[d] = IF d = c THEN x ELSE store[d]
      BY <1>1, <3>4 DEF Shapes
    <3>6. \A t : /\ About(wire[c], t) = {} => About(Tail(wire[c]), t) = {} /\ Shown(x, t) = Shown(store[c], t)
                 /\ Steady(wire[c], store[c], table, t) => Steady(Tail(wire[c]), x, table, t)
                 /\ Current(wire[c], store[c], table, t) => Current(Tail(wire[c]), x, table, t)
      BY <1>1, <3>2, CurrentReads
    <3> HIDE DEF x
    <3>7. Shapes'
      BY <1>1, <1>2, <1>3, <2>2, <3>3, <3>4, <3>5 DEF Shapes
    <3>8. \A d \in Clients : \A t : /\ About(wire[d], t) = {} => /\ About(wire'[d], t) = {}
                                                                 /\ Shown(store'[d], t) = Shown(store[d], t)
                                    /\ Steady(wire[d], store[d], table, t) => Steady(wire'[d], store'[d], table, t)
                                    /\ Current(wire[d], store[d], table, t) => Current(wire'[d], store'[d], table, t)
      BY <1>4, <3>5, <3>6
    <3>9. ASSUME NEW r \in reqs PROVE Pending(r)'
      <4>1. Pending(r) /\ r.by \in Clients
        BY <1>1, <3>1 DEF Editing, Shapes, Asked
      <4>2. CASE r.row.id = 0
        BY <1>2, <4>1, <4>2 DEF Pending
      <4>3. CASE r.row.id # 0
        <5>1. Own(r, store'[r.by], table)
          BY <3>8, <4>1, <4>3 DEF Pending, Own
        <5>2. /\ table[r.row.id].state # "none" /\ About(wire'[r.by], r.row.id) = {}
          BY <3>8, <4>1, <4>3 DEF Pending
        <5>3. \A d \in Clients \ {r.by} :
                 IF r.stage = "ok" THEN Current(wire'[d], store'[d], table, r.row.id)
                 ELSE Steady(wire'[d], store'[d], table, r.row.id)
          BY <3>8, <4>1, <4>3 DEF Pending
        <5> QED BY <1>2, <4>1, <4>3, <5>1, <5>2, <5>3 DEF Pending
      <4> QED BY <4>2, <4>3
    <3>10. \A d \in Clients : me'[d] # 0 /\ fetch'[d].stage = "none"
      BY <2>2, <3>1, <3>4 DEF Editing
    <3>11. \A d \in Clients : \A i \in DOMAIN wire'[d] : Tells(wire'[d][i])
      <4>1. \A i \in DOMAIN Tail(wire[c]) : i + 1 \in DOMAIN wire[c] /\ Tail(wire[c])[i] = wire[c][i + 1]
        BY <1>1
      <4> QED BY <1>4, <3>1, <4>1 DEF Editing
    <3>12. \A t \in Tasks : (\A r \in reqs : r.row.id # t) =>
              \A d \in Clients : Current(wire'[d], store'[d], table, t)
      BY <3>1, <3>8 DEF Editing
    <3>13. Editing'
      BY <1>2, <3>1, <3>9, <3>10, <3>11, <3>12 DEF Editing
    <3> QED BY <2>3, <3>7, <3>13 DEF EditInv
  <2> QED BY <2>4, <2>5
<1> QED BY <1>5, <1>6

----------------------------------------------------------------------------
(* The list is read from the table ...                                     *)
LEMMA EditServeFetch ==
    ASSUME EditInv, NEW c \in Clients, ServeFetch(c)
    PROVE  EditInv'
<1> DEFINE f == [stage |-> "ok", rows |-> LiveRows(table)]
<1>1. /\ Shapes /\ Sockets /\ Refreshing /\ fetch[c].stage = "sent"
  BY DEF EditInv, Editing, ServeFetch
<1>2. /\ fetch' = [fetch EXCEPT ![c] = f]
      /\ UNCHANGED <<table, conn, wire, reqs, store, open, me, header, undo, ids, writes, cuts>>
  BY DEF ServeFetch, server, client, counts
<1>3. f \in [stage: {"none", "sent", "ok"}, rows: Seq(Rows)] /\ f.stage = "ok" /\ f.rows = LiveRows(table)
  BY <1>1, LiveRowsHold DEF Shapes
<1> HIDE DEF f
<1>4. \A d \in Clients : fetch'[d] = IF d = c THEN f ELSE fetch[d]
  BY <1>1, <1>2 DEF Shapes
<1>5. Shapes'
  <2>1. fetch' \in [Clients -> [stage: {"none", "sent", "ok"}, rows: Seq(Rows)]]
    BY <1>1, <1>2, <1>3 DEF Shapes
  <2> QED BY <1>1, <1>2, <2>1 DEF Shapes
<1>6. Sockets'
  BY <1>1, <1>2, SocketsStay
<1>7. Refresh(c)'
  <2>1. me[c] # 0 => wire[c] = <<>>
    BY <1>1 DEF Refreshing, Refresh
  <2> QED BY <1>2, <1>3, <1>4, <2>1 DEF Refresh
<1>8. \A d \in Clients : d # c => Refresh(d)'
  BY <1>1, <1>2, <1>4 DEF Refreshing, Refresh
<1> QED BY <1>1, <1>2, <1>5, <1>6, <1>7, <1>8 DEF EditInv, Refreshing

(* ... and becomes the store.                                              *)
LEMMA EditFetchArrives ==
    ASSUME EditInv, NEW c \in Clients, FetchArrives(c)
    PROVE  EditInv'
<1> DEFINE f == [stage |-> "none", rows |-> <<>>]
           x == LiveRows(table)
<1>1. /\ Shapes /\ Sockets /\ Refreshing /\ fetch[c].stage = "ok"
  BY DEF EditInv, Editing, FetchArrives
<1>2. /\ fetch[c].rows = x /\ (me[c] # 0 => wire[c] = <<>>)
  BY <1>1 DEF Refreshing, Refresh
<1>3. /\ fetch' = [fetch EXCEPT ![c] = f] /\ store' = [store EXCEPT ![c] = x]
      /\ UNCHANGED <<table, conn, wire, reqs, open, me, header, undo, ids, writes, cuts>>
  BY <1>2 DEF FetchArrives, server, counts
<1>4. /\ x \in Seq(Rows) /\ Distinct(x) /\ \A t \in Tasks : Shown(x, t) = Held(table, t)
  BY <1>1, LiveRowsHold DEF Shapes
<1>5. f \in [stage: {"none", "sent", "ok"}, rows: Seq(Rows)] /\ f.stage = "none"
  OBVIOUS
<1> HIDE DEF f, x
<1>6. \A d \in Clients : /\ fetch'[d] = IF d = c THEN f ELSE fetch[d]
                         /\ store'[d] = IF d = c THEN x ELSE store[d]
  BY <1>1, <1>3 DEF Shapes
<1>7. Shapes'
  <2>1. /\ fetch' \in [Clients -> [stage: {"none", "sent", "ok"}, rows: Seq(Rows)]]
        /\ store' \in [Clients -> Seq(Rows)]
    BY <1>1, <1>3, <1>4, <1>5 DEF Shapes
  <2>2. \A d \in Clients : Distinct(store'[d])
    BY <1>1, <1>4, <1>6 DEF Shapes
  <2> QED BY <1>1, <1>3, <2>1, <2>2 DEF Shapes
<1>8. Sockets'
  BY <1>1, <1>3, SocketsStay
<1>9. Refresh(c)'
  BY <1>2, <1>3, <1>4, <1>5, <1>6 DEF Refresh
<1>10. \A d \in Clients : d # c => Refresh(d)'
  BY <1>1, <1>3, <1>6 DEF Refreshing, Refresh
<1> QED BY <1>1, <1>3, <1>7, <1>8, <1>9, <1>10 DEF EditInv, Refreshing

----------------------------------------------------------------------------
(* Only the row t differs.                                                 *)
SameBut(x, s, t) == \A u : u # t => Shown(x, u) = Shown(s, u)

(* Whose request for a row is sent shows s.                                *)
Expects(kind, row, prev, s, tab) ==
    \A q : q.kind = kind /\ q.stage = "sent" /\ q.row = row /\ q.prev = prev => Own(q, s, tab)

(* A user's edit of a row that is settled, whose tab shows x from then on. *)
LEMMA EditSent ==
    ASSUME EditInv, NEW c \in Clients, NEW row \in Rows, Settled(row.id),
           NEW kind \in {"update", "delete", "restore", "untrash"}, NEW prev \in Rows \union {NoRow},
           kind = "delete" => prev \in Rows, Send(c, kind, row, prev),
           NEW x \in Seq(Rows), Distinct(x), store' = [store EXCEPT ![c] = x],
           SameBut(x, store[c], row.id),
           table[row.id].state # "none", undo' \in [Clients -> SUBSET Rows],
           Expects(kind, row, prev, x, table)
    PROVE  EditInv'
<1> DEFINE t == row.id
<1>1. /\ Shapes /\ Sockets /\ Editing /\ t \in Tasks /\ t # 0 /\ \A r \in reqs : r.row.id # t
      /\ \A d \in Clients : Steady(wire[d], store[d], table, t)
  <2>1. t \in Tasks /\ t # 0
    BY DEF Rows, Tasks
  <2> QED BY <2>1, SettledSteady DEF EditInv
<1>2. /\ writes' = writes + 1
      /\ UNCHANGED <<table, conn, wire, fetch, open, me, header, ids, cuts>>
  BY DEF Send
<1>3. header[c] = conn[c]
  BY <1>1 DEF Sockets, Socket, Editing
<1>4. PICK n \in Asked : /\ reqs' = reqs \union {n}
                        /\ n.by = c /\ n.kind = kind /\ n.stage = "sent" /\ n.origin = conn[c]
                        /\ n.row = row /\ n.prev = prev
  <2> DEFINE m == [n |-> writes + 1, by |-> c, kind |-> kind, stage |-> "sent",
                   origin |-> header[c], row |-> row, prev |-> prev]
  <2>1. writes + 1 \in Nat /\ header[c] \in Nat
    BY <1>1 DEF Shapes
  <2>2. /\ m \in Asked /\ m.by = c /\ m.kind = kind /\ m.stage = "sent" /\ m.origin = conn[c]
        /\ m.row = row /\ m.prev = prev
    BY <1>3, <2>1 DEF Asked
  <2>3. reqs' = reqs \union {m}
    BY DEF Send
  <2> HIDE DEF m
  <2> QED BY <2>2, <2>3
<1>5. \A d \in Clients : store'[d] = IF d = c THEN x ELSE store[d]
  BY <1>1 DEF Shapes
<1>6. Shapes'
  <2>1. reqs' \subseteq Asked /\ store' \in [Clients -> Seq(Rows)] /\ writes' \in Nat
    BY <1>1, <1>2, <1>4 DEF Shapes
  <2>2. \A d \in Clients : Distinct(store'[d])
    BY <1>1, <1>5 DEF Shapes
  <2> QED BY <1>1, <1>2, <2>1, <2>2 DEF Shapes
<1>7. Sockets'
  BY <1>1, <1>2, SocketsStay
<1>8. ASSUME NEW u, u # t, NEW d \in Clients
      PROVE  /\ Shown(store'[d], u) = Shown(store[d], u)
             /\ Steady(wire[d], store[d], table, u) => Steady(wire[d], store'[d], table, u)
             /\ Current(wire[d], store[d], table, u) => Current(wire[d], store'[d], table, u)
  <2>1. Shown(store'[d], u) = Shown(store[d], u)
    BY <1>5, <1>8 DEF SameBut
  <2> QED BY <2>1, CurrentElsewhere
<1>9. ASSUME NEW r \in reqs PROVE Pending(r)'
  <2>1. Pending(r) /\ r.row.id # t /\ r.by \in Clients
    BY <1>1 DEF Editing, Shapes, Asked
  <2>2. CASE r.row.id = 0
    BY <1>2, <2>1, <2>2 DEF Pending
  <2>3. CASE r.row.id # 0
    <3>1. Own(r, store'[r.by], table)
      BY <1>8, <2>1, <2>3 DEF Pending, Own
    <3>2. \A d \in Clients \ {r.by} :
             IF r.stage = "ok" THEN Current(wire[d], store'[d], table, r.row.id)
             ELSE Steady(wire[d], store'[d], table, r.row.id)
      BY <1>8, <2>1, <2>3 DEF Pending
    <3> QED BY <1>2, <2>1, <2>3, <3>1, <3>2 DEF Pending
  <2> QED BY <2>2, <2>3
<1>10. Pending(n)'
  <2>1. Own(n, x, table)
    BY <1>4 DEF Expects
  <2>2. About(wire[c], t) = {}
    BY <1>1 DEF Steady
  <2>3. \A d \in Clients \ {c} : Steady(wire[d], store'[d], table, t)
    BY <1>1, <1>5
  <2> QED BY <1>1, <1>2, <1>4, <1>5, <2>1, <2>2, <2>3 DEF Pending
<1>11. \A d \in Clients : me'[d] # 0 /\ fetch'[d].stage = "none"
  BY <1>1, <1>2 DEF Editing
<1>12. \A d \in Clients : \A i \in DOMAIN wire'[d] : Tells(wire'[d][i])
  BY <1>1, <1>2 DEF Editing
<1>13. \A r, q \in reqs' : r.row.id = q.row.id => r = q
  BY <1>1, <1>4 DEF Editing
<1>14. ASSUME NEW u \in Tasks, \A r \in reqs' : r.row.id # u, NEW d \in Clients
       PROVE  Current(wire'[d], store'[d], table', u)
  <2>1. u # t /\ \A r \in reqs : r.row.id # u
    BY <1>4, <1>14
  <2> QED BY <1>1, <1>2, <1>8, <2>1 DEF Editing
<1>15. \A r \in reqs' : Pending(r)'
  BY <1>4, <1>9, <1>10
<1>16. Editing'
  BY <1>11, <1>12, <1>13, <1>14, <1>15 DEF Editing
<1> QED BY <1>6, <1>7, <1>16 DEF EditInv

(* A new task has no row yet.                                              *)
LEMMA EditCreate ==
    ASSUME EditInv, NEW c \in Clients, NEW v \in Values, SettledCreate(c, v)
    PROVE  EditInv'
<1>1. /\ Shapes /\ Sockets /\ Editing /\ \A r \in reqs : r.row.id # 0
  BY SettledSteady DEF EditInv, SettledCreate
<1>2. /\ writes' = writes + 1
      /\ UNCHANGED <<table, conn, wire, fetch, open, me, header, ids, cuts, store, undo>>
  BY DEF Send, SettledCreate
<1>3. header[c] = conn[c]
  BY <1>1 DEF Sockets, Socket, Editing
<1>4. PICK n \in Asked : /\ reqs' = reqs \union {n} /\ n.by = c /\ n.origin = conn[c]
                        /\ n.kind = "create" /\ n.stage = "sent" /\ n.row.id = 0
  <2> DEFINE m == [n |-> writes + 1, by |-> c, kind |-> "create", stage |-> "sent",
                   origin |-> header[c], row |-> [id |-> 0, val |-> v], prev |-> NoRow]
  <2>1. writes + 1 \in Nat /\ header[c] \in Nat
    BY <1>1 DEF Shapes
  <2>2. /\ m \in Asked /\ m.by = c /\ m.kind = "create" /\ m.stage = "sent" /\ m.origin = conn[c]
        /\ m.row.id = 0
    BY <1>3, <2>1 DEF Asked
  <2>3. reqs' = reqs \union {m}
    BY DEF Send, SettledCreate
  <2> HIDE DEF m
  <2> QED BY <2>2, <2>3
<1>5. Shapes'
  <2>1. reqs' \subseteq Asked /\ writes' \in Nat
    BY <1>1, <1>2, <1>4 DEF Shapes
  <2> QED BY <1>1, <1>2, <2>1 DEF Shapes
<1>6. Sockets'
  BY <1>1, <1>2, SocketsStay
<1>7. ASSUME NEW r \in reqs PROVE Pending(r)'
  BY <1>1, <1>2 DEF Editing, Pending
<1>8. Pending(n)'
  BY <1>2, <1>4 DEF Pending
<1>9. \A r \in reqs' : Pending(r)'
  BY <1>4, <1>7, <1>8
<1>10. /\ \A d \in Clients : me'[d] # 0 /\ fetch'[d].stage = "none"
       /\ \A d \in Clients : \A i \in DOMAIN wire'[d] : Tells(wire'[d][i])
       /\ \A r, q \in reqs' : r.row.id = q.row.id => r = q
  BY <1>1, <1>2, <1>4 DEF Editing
<1>11. ASSUME NEW u \in Tasks, \A r \in reqs' : r.row.id # u, NEW d \in Clients
       PROVE  Current(wire'[d], store'[d], table', u)
  BY <1>1, <1>2, <1>4, <1>11 DEF Editing
<1>12. Editing'
  BY <1>9, <1>10, <1>11 DEF Editing
<1> QED BY <1>5, <1>6, <1>12 DEF EditInv

(* What the tab shows is what it asks for, if it shows the row.            *)
LEMMA EditUpdate ==
    ASSUME EditInv, NEW c \in Clients, NEW t \in Tasks, NEW v \in Values, SettledUpdate(c, t, v)
    PROVE  EditInv'
<1>6. PICK row, prev, x :
          /\ row = Row(t, v) /\ x = Replaced(store[c], row)
          /\ prev = IF Has(store[c], t) THEN Find(store[c], t) ELSE NoRow
  OBVIOUS
<1>1. /\ store[c] \in Seq(Rows) /\ Distinct(store[c]) /\ undo \in [Clients -> SUBSET Rows]
      /\ row \in Rows /\ row.id = t /\ Settled(t) /\ table[t].state # "none"
      /\ Send(c, "update", row, prev) /\ store' = [store EXCEPT ![c] = x] /\ undo' = undo
  BY <1>6, RowTyped DEF EditInv, Shapes, SettledUpdate
<1>2. Shown(store[c], t) = Held(table, t) /\ t # 0
  BY <1>1, SettledSteady DEF Steady, Tasks
<1>3. /\ prev \in Rows \union {NoRow}
      /\ \/ prev = NoRow /\ Held(table, t) = {}
         \/ prev.id = t /\ Held(table, t) = {prev}
  BY <1>1, <1>2, <1>6, ShownFind
<1>4. /\ x \in Seq(Rows) /\ Distinct(x)
      /\ SameBut(x, store[c], row.id)
      /\ Shown(store[c], t) = {} => Shown(x, t) = {}
      /\ Shown(store[c], t) # {} => Shown(x, t) = {row}
  <2>1. PICK s \in Seq(Rows) : s = store[c] /\ Distinct(s)
    BY <1>1
  <2>2. /\ Replaced(s, row) \in Seq(Rows) /\ (Distinct(s) => Distinct(Replaced(s, row)))
        /\ \A u : u # row.id => Shown(Replaced(s, row), u) = Shown(s, u)
        /\ Shown(s, row.id) = {} => Shown(Replaced(s, row), row.id) = {}
        /\ Shown(s, row.id) # {} => Shown(Replaced(s, row), row.id) = {row}
    BY <1>1, ShownReplaced
  <2>3. x = Replaced(s, row)
    BY <1>6, <2>1
  <2> QED BY <1>1, <2>1, <2>2, <2>3 DEF SameBut
<1>5. Expects("update", row, prev, x, table)
  BY <1>1, <1>2, <1>3, <1>4, ZenonT(60) DEF Own, Expects
<1> QED BY <1>1, <1>3, <1>4, <1>5, EditSent

(* A row that is removed is shown no more.                                 *)
LEMMA EditRemove ==
    ASSUME EditInv, NEW c \in Clients, NEW t \in Tasks, SettledRemove(c, t)
    PROVE  EditInv'
<1>7. PICK row, x : row = Find(store[c], t) /\ x = Without(store[c], t)
  OBVIOUS
<1>1. /\ store[c] \in Seq(Rows) /\ Distinct(store[c]) /\ undo \in [Clients -> SUBSET Rows]
      /\ Settled(t) /\ Has(store[c], t)
      /\ Send(c, "delete", row, row) /\ store' = [store EXCEPT ![c] = x] /\ undo' = undo
  BY <1>7 DEF EditInv, Shapes, SettledRemove
<1>2. Shown(store[c], t) = Held(table, t)
  BY <1>1, SettledSteady DEF Steady
<1>3. row \in Rows /\ row.id = t /\ Held(table, t) = {row}
  BY <1>1, <1>2, <1>7, ShownFind
<1>4. table[t].state # "none"
  BY <1>3 DEF Held
<1>5. /\ x \in Seq(Rows) /\ Distinct(x)
      /\ SameBut(x, store[c], row.id)
      /\ Shown(x, t) = {}
  BY <1>1, <1>3, <1>7, ShownWithout DEF SameBut
<1>6. Expects("delete", row, row, x, table)
  BY <1>3, <1>5 DEF Own, Expects
<1> QED BY <1>1, <1>3, <1>4, <1>5, <1>6, EditSent

(* An Undo of a removal shows the row as it was.                           *)
LEMMA EditUndo ==
    ASSUME EditInv, NEW c \in Clients, NEW row \in undo[c], SettledUndo(c, row)
    PROVE  EditInv'
<1> DEFINE t == row.id
<1>8. PICK x : x = Append(store[c], row)
  OBVIOUS
<1>1. /\ store[c] \in Seq(Rows) /\ Distinct(store[c]) /\ undo \in [Clients -> SUBSET Rows]
      /\ row \in Rows /\ Settled(t) /\ table[t] = [state |-> "trash", val |-> row.val]
      /\ Send(c, "restore", row, NoRow) /\ store' = [store EXCEPT ![c] = x]
      /\ undo' = [undo EXCEPT ![c] = @ \ {row}]
  BY <1>8 DEF EditInv, Shapes, SettledUndo
<1>2. t \in Tasks
  BY <1>1 DEF Rows
<1>3. table[t].state = "trash" /\ table[t].val = row.val /\ Held(table, t) = {}
  BY <1>1 DEF Held
<1>4. Shown(store[c], t) = {}
  BY <1>1, <1>2, <1>3, SettledSteady DEF Steady
<1>5. /\ x \in Seq(Rows) /\ Distinct(x)
      /\ SameBut(x, store[c], row.id)
      /\ Shown(x, t) = {row}
  BY <1>1, <1>4, <1>8, ShownAppended DEF SameBut
<1>6. undo' \in [Clients -> SUBSET Rows]
  BY <1>1
<1>7. Expects("restore", row, NoRow, x, table)
  BY <1>3, <1>5 DEF Own, Expects
<1> QED BY <1>1, <1>3, <1>5, <1>6, <1>7, EditSent

(* The trash modal waits for the answer.                                   *)
LEMMA EditUntrash ==
    ASSUME EditInv, NEW c \in Clients, NEW t \in Tasks, SettledUntrash(c, t)
    PROVE  EditInv'
<1>6. PICK row, x : row = Row(t, table[t].val) /\ x = store[c]
  OBVIOUS
<1>1. /\ x \in Seq(Rows) /\ Distinct(x) /\ undo' \in [Clients -> SUBSET Rows]
      /\ row \in Rows /\ row.id = t /\ Settled(t) /\ table[t].state = "trash"
      /\ Send(c, "untrash", row, NoRow) /\ store' = [store EXCEPT ![c] = x]
  BY <1>6, RowTyped DEF EditInv, Shapes, SettledUntrash, Tables
<1>2. Held(table, t) = {}
  BY <1>1 DEF Held
<1>3. Shown(x, t) = {}
  BY <1>1, <1>2, <1>6, SettledSteady DEF Steady
<1>4. Expects("untrash", row, NoRow, x, table)
  BY <1>1, <1>2, <1>3 DEF Own, Expects
<1>5. SameBut(x, store[c], row.id)
  BY <1>6 DEF SameBut
<1> QED BY <1>1, <1>4, <1>5, EditSent

----------------------------------------------------------------------------
(* A tag operation: every tab is told to load, and has nothing else to do. *)
LEMMA EditRetag ==
    ASSUME EditInv, NEW v \in Values, SettledRetag(v)
    PROVE  EditInv'
<1>1. PICK m \in Posts : m = [kind |-> "retagged", row |-> NoRow, origin |-> 0]
  BY DEF Posts
<1>2. m.kind = "retagged" /\ m.origin = 0
  BY <1>1
<1>3. 1 \in Tasks
  BY SyncAssumption DEF Tasks
<1>4. /\ Shapes /\ Sockets /\ Editing /\ reqs = {} /\ \A t \in Tasks : Settled(t)
  BY <1>3, SettledSteady DEF EditInv, SettledRetag
<1>5. UNCHANGED <<conn, reqs, fetch, store, open, me, header, undo, ids, writes, cuts>>
  BY DEF SettledRetag, client
<1>6. ASSUME NEW c \in Clients
      PROVE  /\ conn[c] # 0 /\ me[c] = conn[c] /\ header[c] = conn[c] /\ open[c]
             /\ fetch[c].stage = "none" /\ wire[c] = <<>> /\ wire'[c] = <<m>>
  <2>1. /\ conn[c] # 0 /\ me[c] = conn[c] /\ header[c] = conn[c] /\ open[c] /\ fetch[c].stage = "none"
    BY <1>4 DEF Sockets, Socket, Editing
  <2>2. \A i \in DOMAIN wire[c] : FALSE
    <3>1. \A i \in DOMAIN wire[c] : wire[c][i].row.id \in Tasks
      BY <1>4 DEF Editing, Tells, Rows
    <3> QED BY <1>4, <3>1 DEF Settled
  <2>3. wire[c] \in Seq(Posts) /\ wire[c] = <<>>
    <3>1. PICK w \in Seq(Posts) : w = wire[c]
      BY <1>4 DEF Shapes
    <3>2. Len(w) = 0
      <4>1. Len(w) \in Nat /\ DOMAIN w = 1 .. Len(w)
        OBVIOUS
      <4>2. 1 \notin DOMAIN w
        BY <2>2, <3>1
      <4> QED BY <4>1, <4>2
    <3> QED BY <3>1, <3>2
  <2>4. wire'[c] = Append(wire[c], m)
    BY <1>1, <2>1 DEF SettledRetag, Broadcast
  <2> QED BY <2>1, <2>3, <2>4
<1>7. Shapes'
  <2>1. table' \in Tables
    BY <1>4 DEF Shapes, Tables, SettledRetag, Values
  <2>2. <<m>> \in Seq(Posts)
    OBVIOUS
  <2>3. wire' \in [Clients -> Seq(Posts)]
    <3>1. wire' = [c \in Clients |-> wire'[c]]
      BY DEF SettledRetag, Broadcast
    <3> QED BY <1>6, <2>2, <3>1
  <2> QED BY <1>4, <1>5, <2>1, <2>3 DEF Shapes
<1>8. ASSUME NEW c \in Clients PROVE Socket(c)' /\ Refresh(c)'
  <2>1. \A i \in DOMAIN wire'[c] : wire'[c][i] = m
    BY <1>6
  <2> QED BY <1>2, <1>5, <1>6, <2>1 DEF Socket, Refresh
<1>9. Sockets'
  BY <1>4, <1>5, <1>8 DEF Sockets
<1> QED BY <1>4, <1>5, <1>7, <1>8, <1>9 DEF EditInv, Refreshing

----------------------------------------------------------------------------
(* A request is turned away: nothing has changed.                          *)
LEMMA EditRefused ==
    ASSUME EditInv, NEW r \in reqs, r.stage = "sent", Refuse(r),
           UNCHANGED <<table, conn, wire, fetch, client, ids, writes, cuts>>
    PROVE  EditInv'
<1>1. Shapes /\ Sockets /\ Editing /\ r \in Asked
  BY DEF EditInv, Refreshing, Shapes
<1>2. UNCHANGED <<table, conn, wire, fetch, store, open, me, header, undo, ids, writes, cuts>>
  BY DEF client
<1>3. PICK q \in Asked : /\ q.by = r.by /\ q.kind = r.kind /\ q.stage = "failed" /\ q.origin = r.origin
                         /\ q.row = r.row /\ q.prev = r.prev /\ reqs' = (reqs \ {r}) \union {q}
  <2>1. PICK q : q = [r EXCEPT !.stage = "failed"]
    OBVIOUS
  <2>2. /\ q \in Asked /\ q.by = r.by /\ q.kind = r.kind /\ q.stage = "failed" /\ q.origin = r.origin
        /\ q.row = r.row /\ q.prev = r.prev
    BY <1>1, <2>1 DEF Asked
  <2>3. reqs' = (reqs \ {r}) \union {q}
    BY <2>1 DEF Refuse
  <2> QED BY <2>2, <2>3
<1>4. Shapes'
  <2>1. reqs' \subseteq Asked
    BY <1>1, <1>3 DEF Shapes
  <2> QED BY <1>1, <1>2, <2>1 DEF Shapes
<1>5. Sockets'
  BY <1>1, <1>2, SocketsStay
<1>6. ASSUME NEW p \in reqs \ {r} PROVE Pending(p)'
  BY <1>1, <1>2 DEF Editing, Pending
<1>7. Pending(q)'
  <2>1. Pending(r)
    BY <1>1 DEF Editing
  <2>2. Own(r, store[r.by], table) => Own(q, store[r.by], table)
    BY <1>3 DEF Own
  <2> QED BY <1>2, <1>3, <2>1, <2>2 DEF Pending
<1>8. \A p \in reqs' : Pending(p)'
  BY <1>3, <1>6, <1>7
<1>9. /\ \A d \in Clients : me'[d] # 0 /\ fetch'[d].stage = "none"
      /\ \A d \in Clients : \A i \in DOMAIN wire'[d] : Tells(wire'[d][i])
      /\ \A p, o \in reqs' : p.row.id = o.row.id => p = o
  BY <1>1, <1>2, <1>3 DEF Editing
<1>10. ASSUME NEW u \in Tasks, \A p \in reqs' : p.row.id # u, NEW d \in Clients
       PROVE  Current(wire'[d], store'[d], table', u)
  <2>1. \A p \in reqs : p.row.id # u
    BY <1>3, <1>10
  <2> QED BY <1>1, <1>2, <2>1 DEF Editing
<1>11. Editing'
  BY <1>8, <1>9, <1>10 DEF Editing
<1> QED BY <1>4, <1>5, <1>11 DEF EditInv

----------------------------------------------------------------------------
(* A request is served: its row changes, and all other tabs are told.      *)
LEMMA EditServed ==
    ASSUME EditInv, Editing, NEW r \in reqs, NEW q \in Asked, NEW m \in Posts, NEW t \in Tasks,
           reqs' = (reqs \ {r}) \union {q}, q.by = r.by, q.origin = r.origin, q.stage = "ok",
           q.row.id = t, r.row.id \in {0, t}, q.kind = "delete" => q.prev \in Rows,
           table' \in Tables, \A u \in Tasks : u # t => table'[u] = table[u], table'[t].state # "none",
           Tells(m), m.row.id = t, m.origin = r.origin, wire' = Broadcast(m.kind, m.row, m.origin),
           \A p \in reqs \ {r} : p.row.id # t,
           \A c \in Clients \ {r.by} : /\ Steady(wire[c], store[c], table, t)
                                       /\ Brings(m, store[c], table', t),
           About(wire[r.by], t) = {}, Own(q, store[r.by], table'),
           UNCHANGED <<conn, fetch, client, counts>>
    PROVE  EditInv'
<1>1. Shapes /\ Sockets /\ r \in Asked /\ r.by \in Clients /\ Pending(r) /\ t # 0 /\ r.origin = conn[r.by]
  BY SMTT(30) DEF EditInv, Shapes, Editing, Asked, Tasks, Pending
<1>2. UNCHANGED <<conn, fetch, store, open, me, header, undo, ids, writes, cuts>>
  BY DEF client, counts
<1>3. \A c \in Clients : conn[c] # 0 /\ me[c] = conn[c] /\ header[c] = conn[c] /\ open[c]
  BY <1>1 DEF Sockets, Socket, Editing
<1>4. m = [kind |-> m.kind, row |-> m.row, origin |-> m.origin]
  BY DEF Posts
<1>5. \A c \in Clients : /\ wire[c] \in Seq(Posts)
                         /\ wire'[c] = IF c = r.by THEN wire[c] ELSE Append(wire[c], m)
  <2>1. \A c \in Clients : c # r.by => conn[c] # r.origin
    BY <1>1, <1>3 DEF Sockets
  <2> QED BY <1>1, <1>3, <1>4, <2>1 DEF Broadcast, Shapes
<1>6. Shapes'
  <2>1. reqs' \subseteq Asked
    BY <1>1 DEF Shapes
  <2>2. wire' \in [Clients -> Seq(Posts)]
    <3>1. wire' = [c \in Clients |-> wire'[c]]
      BY DEF Broadcast
    <3>2. \A c \in Clients : wire'[c] \in Seq(Posts)
      <4> TAKE c \in Clients
      <4>1. PICK w \in Seq(Posts) : w = wire[c]
        BY <1>5
      <4>2. Append(w, m) \in Seq(Posts)
        BY AboutAppended
      <4> QED BY <1>5, <4>1, <4>2
    <3> QED BY <3>1, <3>2
  <2> QED BY <1>1, <1>2, <2>1, <2>2 DEF Shapes
<1>7. ASSUME NEW c \in Clients, c # r.by
      PROVE  /\ DOMAIN wire'[c] = 1 .. Len(wire[c]) + 1 /\ Len(wire[c]) \in Nat
             /\ \A i \in DOMAIN wire'[c] : wire'[c][i] = m \/ (i \in DOMAIN wire[c] /\ wire'[c][i] = wire[c][i])
  <2>1. PICK w \in Seq(Posts) : w = wire[c] /\ wire'[c] = Append(w, m)
    BY <1>5, <1>7
  <2>2. /\ DOMAIN Append(w, m) = 1 .. Len(w) + 1 /\ Len(w) \in Nat /\ DOMAIN w = 1 .. Len(w)
        /\ Append(w, m)[Len(w) + 1] = m /\ \A i \in DOMAIN w : Append(w, m)[i] = w[i]
    BY AboutAppended
  <2> QED BY <2>1, <2>2
<1>8. Sockets'
  <2>1. m.kind # "ack"
    BY DEF Tells, Telling
  <2>2. ASSUME NEW c \in Clients, c # r.by PROVE Socket(c)'
    <3>1. conn[c] # r.origin
      BY <1>1, <1>3, <2>2 DEF Sockets
    <3>2. \A i \in DOMAIN wire[c] : wire[c][i].kind # "ack" /\ wire[c][i].origin # conn[c]
      BY <1>1, <1>3 DEF Sockets, Socket
    <3>3. \A i \in DOMAIN wire'[c] : wire'[c][i].kind # "ack" /\ wire'[c][i].origin # conn[c]
      BY <1>7, <2>1, <2>2, <3>1, <3>2
    <3> QED BY <1>2, <1>3, <3>3 DEF Socket
  <2>3. Socket(r.by)'
    BY <1>1, <1>2, <1>5 DEF Sockets, Socket
  <2> QED BY <1>1, <1>2, <2>2, <2>3 DEF Sockets
<1>9. ASSUME NEW u \in Tasks, u # t, NEW c \in Clients
      PROVE  /\ About(wire[c], u) = {} => About(wire'[c], u) = {}
             /\ Held(table', u) = Held(table, u)
             /\ Steady(wire[c], store[c], table, u) => Steady(wire'[c], store[c], table', u)
             /\ Current(wire[c], store[c], table, u) => Current(wire'[c], store[c], table', u)
  <2>1. table'[u] = table[u]
    BY <1>9
  <2>2. /\ About(wire[c], u) = {} => About(wire'[c], u) = {}
        /\ Steady(wire[c], store[c], table, u) => Steady(wire'[c], store[c], table, u)
        /\ Current(wire[c], store[c], table, u) => Current(wire'[c], store[c], table, u)
    <3>1. CASE c = r.by
      BY <1>5, <3>1
    <3>2. CASE c # r.by
      <4>1. wire'[c] = Append(wire[c], m) /\ wire[c] \in Seq(Posts) /\ u # m.row.id
        BY <1>5, <1>9, <3>2
      <4>2. About(wire'[c], u) = About(wire[c], u)
        BY <4>1, AboutAppended
      <4> QED BY <4>1, <4>2, CurrentBeside
    <3> QED BY <3>1, <3>2
  <2>3. /\ Steady(wire'[c], store[c], table, u) => Steady(wire'[c], store[c], table', u)
        /\ Current(wire'[c], store[c], table, u) => Current(wire'[c], store[c], table', u)
    BY <2>1, CurrentElsewhere
  <2> QED BY <2>1, <2>2, <2>3 DEF Held
<1>10. ASSUME NEW c \in Clients, c # r.by PROVE Current(wire'[c], store[c], table', t)
  <2>1. About(wire[c], t) = {} /\ Brings(m, store[c], table', t)
    BY <1>10 DEF Steady
  <2>2. wire'[c] = Append(wire[c], m) /\ wire[c] \in Seq(Posts)
    BY <1>5, <1>10
  <2>3. Current(Append(wire[c], m), store[c], table', m.row.id)
    BY <2>1, <2>2, CurrentTold
  <2> QED BY <2>2, <2>3
<1>11. ASSUME NEW p \in reqs \ {r} PROVE Pending(p)'
  <2>1. Pending(p) /\ p.row.id # t /\ p \in Asked /\ p.by \in Clients
    BY <1>1 DEF Editing, Shapes, Asked
  <2>2. CASE p.row.id = 0
    BY <1>2, <2>1, <2>2 DEF Pending
  <2>3. CASE p.row.id # 0
    <3>1. p.row.id \in Tasks
      BY <2>1, <2>3 DEF Asked, Rows
    <3>2. table'[p.row.id] = table[p.row.id]
      BY <2>1, <3>1
    <3>3. Own(p, store[p.by], table')
      BY <1>9, <2>1, <2>3, <3>1, <3>2 DEF Pending, Own
    <3>4. About(wire'[p.by], p.row.id) = {}
      BY <1>9, <2>1, <2>3, <3>1 DEF Pending
    <3>5. \A d \in Clients \ {p.by} :
             IF p.stage = "ok" THEN Current(wire'[d], store[d], table', p.row.id)
             ELSE Steady(wire'[d], store[d], table', p.row.id)
      BY <1>9, <2>1, <2>3, <3>1 DEF Pending
    <3> QED BY <1>2, <2>1, <2>3, <3>2, <3>3, <3>4, <3>5 DEF Pending
  <2> QED BY <2>2, <2>3
<1>12. Pending(q)'
  <2>1. About(wire'[q.by], t) = {}
    BY <1>1, <1>5
  <2> QED BY <1>1, <1>2, <1>10, <2>1 DEF Pending
<1>13. \A p \in reqs' : Pending(p)'
  BY <1>11, <1>12
<1>14. /\ \A d \in Clients : me'[d] # 0 /\ fetch'[d].stage = "none"
       /\ \A p, o \in reqs' : p.row.id = o.row.id => p = o
  BY <1>2 DEF Editing
<1>15. ASSUME NEW d \in Clients, NEW i \in DOMAIN wire'[d] PROVE Tells(wire'[d][i])
  BY <1>5, <1>7, <1>15 DEF Editing
<1>16. ASSUME NEW u \in Tasks, \A p \in reqs' : p.row.id # u, NEW d \in Clients
       PROVE  Current(wire'[d], store'[d], table', u)
  <2>1. u # t
    BY <1>16
  <2>2. \A p \in reqs : p.row.id # u
    BY <1>16, <2>1 DEF Tasks
  <2>3. Current(wire[d], store[d], table, u)
    BY <2>2 DEF Editing
  <2> QED BY <1>2, <1>9, <2>1, <2>3
<1>17. Editing'
  BY <1>13, <1>14, <1>15, <1>16 DEF Editing
<1> QED BY <1>6, <1>8, <1>17 DEF EditInv

----------------------------------------------------------------------------
(* What a route writes, it answers and publishes.                          *)
LEMMA EditWrite ==
    ASSUME EditInv, Editing, NEW r \in reqs, NEW tab \in Tables, NEW kind \in Telling, NEW row \in Rows,
           Write(r, tab, kind, row), r.row.id \in {0, row.id},
           \A u \in Tasks : u # row.id => tab[u] = table[u], tab[row.id].state # "none",
           \A p \in reqs \ {r} : p.row.id # row.id,
           \A c \in Clients \ {r.by} : Steady(wire[c], store[c], table, row.id),
           \A m, c : m.kind = kind /\ m.row = row /\ c \in Clients \ {r.by} =>
              Brings(m, store[c], tab, row.id),
           About(wire[r.by], row.id) = {},
           \A q : q.kind = r.kind /\ q.stage = "ok" /\ q.row = row => Own(q, store[r.by], tab),
           UNCHANGED <<conn, fetch, client, counts>>
    PROVE  EditInv'
<1>1. r \in Asked /\ Pending(r) /\ row.id \in Tasks
  BY DEF EditInv, Shapes, Editing, Rows
<1>2. PICK q \in Asked : /\ q.by = r.by /\ q.kind = r.kind /\ q.stage = "ok" /\ q.origin = r.origin
                         /\ q.row = row /\ q.prev = r.prev /\ reqs' = (reqs \ {r}) \union {q}
  <2>1. PICK q : q = [r EXCEPT !.stage = "ok", !.row = row]
    OBVIOUS
  <2>2. /\ q \in Asked /\ q.by = r.by /\ q.kind = r.kind /\ q.stage = "ok" /\ q.origin = r.origin
        /\ q.row = row /\ q.prev = r.prev
    BY <1>1, <2>1 DEF Asked
  <2>3. reqs' = (reqs \ {r}) \union {q}
    BY <2>1 DEF Write, Answer
  <2> QED BY <2>2, <2>3
<1>3. PICK m \in Posts : m.kind = kind /\ m.row = row /\ m.origin = r.origin
  <2> DEFINE n == [kind |-> kind, row |-> row, origin |-> r.origin]
  <2>1. n \in Posts /\ n.kind = kind /\ n.row = row /\ n.origin = r.origin
    BY <1>1 DEF Posts, Asked, Telling
  <2> HIDE DEF n
  <2> QED BY <2>1
<1>4. table' = tab /\ wire' = Broadcast(m.kind, m.row, m.origin)
  BY <1>3 DEF Write
<1>5. Tells(m)
  BY <1>3 DEF Tells
<1>6. q.kind = "delete" => q.prev \in Rows
  BY <1>1, <1>2 DEF Pending
<1>7. \A c \in Clients \ {r.by} : Brings(m, store[c], table', row.id)
  BY <1>3, <1>4
<1>8. Own(q, store[r.by], table')
  BY <1>2, <1>4
<1> QED BY <1>1, <1>2, <1>3, <1>4, <1>5, <1>6, <1>7, <1>8, EditServed

(* POST: the new row is everybody's but the author's, who adds it when the *)
(* answer comes.                                                           *)
LEMMA EditPost ==
    ASSUME EditInv, NEW r \in reqs, r.stage = "sent", PostTask(r), UNCHANGED <<conn, fetch, client, counts>>
    PROVE  EditInv'
<1>1. /\ Shapes /\ Editing /\ r \in Asked /\ Pending(r)
  BY DEF EditInv, Refreshing, Shapes, Editing
<1>2. PICK t : t = CHOOSE i \in Tasks : /\ table[i].state = "none"
                                        /\ \A j \in 1 .. i - 1 : table[j].state # "none"
  OBVIOUS
<1>3. t \in Tasks /\ table[t].state = "none"
  <2> DEFINE I == { i \in Tasks : table[i].state = "none" }
  <2>1. I \subseteq Nat /\ I # {} /\ Tasks = 1 .. MaxTask
    BY DEF PostTask, Tasks
  <2>2. PICK i \in I : \A j \in I : i <= j
    <3> HIDE DEF I
    <3> QED BY <2>1, LeastNumber
  <2>3. \A j \in 1 .. i - 1 : table[j].state # "none"
    BY <2>1, <2>2, SyncAssumption
  <2>4. \E k \in Tasks : table[k].state = "none" /\ \A j \in 1 .. k - 1 : table[j].state # "none"
    BY <2>2, <2>3
  <2> QED BY <1>2, <2>4
<1>4. PICK row, tab : row = Row(t, r.row.val) /\ tab = [table EXCEPT ![t] = [state |-> "live", val |-> r.row.val]]
  OBVIOUS
<1>5. /\ row \in Rows /\ row.id = t /\ r.row.val \in Values /\ tab \in Tables
      /\ \A u \in Tasks : u # t => tab[u] = table[u]
      /\ Held(tab, t) = {row} /\ tab[t].state # "none"
  <2>1. r.row.val \in Values
    BY <1>1 DEF Asked, Rows
  <2>2. row \in Rows /\ row.id = t
    BY <1>3, <1>4, <2>1, RowTyped
  <2>3. tab \in Tables /\ tab[t] = [state |-> "live", val |-> r.row.val] /\ \A u \in Tasks : u # t => tab[u] = table[u]
    BY <1>1, <1>3, <1>4, <2>1 DEF Shapes, Tables, States
  <2> QED BY <1>4, <2>1, <2>2, <2>3 DEF Held
<1>6. Write(r, tab, "created", row) /\ r.kind = "create"
  BY <1>2, <1>4 DEF PostTask
<1>7. r.row.id = 0
  <2>1. r.row.id # 0 => ~Own(r, store[r.by], table)
    BY <1>6 DEF Own
  <2> QED BY <1>1, <2>1 DEF Pending
<1>8. \A p \in reqs : p.row.id # t
  <2>1. \A p \in reqs : p.row.id # 0 => table[p.row.id].state # "none"
    BY <1>1 DEF Editing, Pending
  <2> QED BY <1>3, <2>1 DEF Tasks
<1>9. \A c \in Clients : Steady(wire[c], store[c], table, t)
  <2>1. \A c \in Clients : Current(wire[c], store[c], table, t)
    BY <1>1, <1>3, <1>8 DEF Editing
  <2> QED BY <1>3, <2>1 DEF Current
<1>10. Held(table, t) = {} /\ r.by \in Clients
  BY <1>1, <1>3 DEF Held, Asked
<1>11. About(wire[r.by], t) = {} /\ Shown(store[r.by], t) = {}
  BY <1>9, <1>10 DEF Steady
<1>12. \A m, c : m.kind = "created" /\ m.row = row /\ c \in Clients \ {r.by} => Brings(m, store[c], tab, row.id)
  BY <1>5 DEF Brings
<1>13. \A q : q.kind = r.kind /\ q.stage = "ok" /\ q.row = row => Own(q, store[r.by], tab)
  BY <1>5, <1>6, <1>11 DEF Own
<1>14. "created" \in Telling
  BY DEF Telling
<1> QED BY <1>1, <1>5, <1>6, <1>7, <1>8, <1>9, <1>11, <1>12, <1>13, <1>14, EditWrite

(* PUT: the author shows the contents already.                             *)
LEMMA EditPut ==
    ASSUME EditInv, NEW r \in reqs, r.stage = "sent", PutOrphan(r), UNCHANGED <<conn, fetch, client, counts>>
    PROVE  EditInv'
<1> DEFINE t == r.row.id
<1>1. /\ Shapes /\ Editing /\ r \in Asked /\ Pending(r) /\ r.kind = "update" /\ r.row \in Rows
      /\ t \in Tasks /\ t # 0 /\ r.by \in Clients
  <2>1. r.kind # "create" /\ t \in Tasks /\ r.row \in Rows
    BY UpdatesNameRows DEF PutOrphan
  <2>2. Shapes /\ Editing
    BY DEF EditInv, Refreshing
  <2>3. r \in Asked /\ r.by \in Clients
    BY <2>2 DEF Shapes, Asked
  <2>4. Pending(r)
    BY <2>2 DEF Editing
  <2>5. t # 0 /\ r.kind = "update"
    BY <2>1 DEF PutOrphan, Tasks
  <2> QED BY <2>1, <2>2, <2>3, <2>4, <2>5
<1>2. CASE table[t].state # "live"
  BY <1>1, <1>2, EditRefused DEF PutOrphan, Unwritten, client, counts
<1>3. CASE table[t].state = "live"
  <2>1. PICK tab : tab = [table EXCEPT ![t].val = r.row.val]
    OBVIOUS
  <2>2. /\ tab \in Tables /\ tab[t].state = "live" /\ tab[t].val = r.row.val
        /\ \A u \in Tasks : u # t => tab[u] = table[u]
    BY <1>1, <1>3, <2>1 DEF Shapes, Tables, Rows
  <2>3. r.row = Row(t, r.row.val)
    BY <1>1 DEF Rows, Row
  <2>4. Held(tab, t) = {r.row} /\ Held(table, t) # {}
    BY <1>3, <2>2, <2>3 DEF Held
  <2>5. /\ Shown(store[r.by], t) = {r.row} /\ About(wire[r.by], t) = {}
        /\ \A c \in Clients \ {r.by} : Steady(wire[c], store[c], table, t)
    <3>1. Own(r, store[r.by], table)
      BY <1>1 DEF Pending
    <3> QED BY <1>1, <2>4, <3>1 DEF Pending, Own
  <2>6. \A p \in reqs \ {r} : p.row.id # t
    BY <1>1 DEF Editing
  <2>7. \A m, c : m.kind = "updated" /\ m.row = r.row /\ c \in Clients \ {r.by} => Brings(m, store[c], tab, t)
    BY <2>4, <2>5 DEF Brings, Steady
  <2>8. \A q : q.kind = r.kind /\ q.stage = "ok" /\ q.row = r.row => Own(q, store[r.by], tab)
    BY <1>1, <2>4, <2>5 DEF Own
  <2>9. Write(r, tab, "updated", r.row) /\ "updated" \in Telling
    BY <1>3, <2>1 DEF PutOrphan, Telling
  <2> QED BY <1>1, <2>2, <2>5, <2>6, <2>7, <2>8, <2>9, EditWrite, SMTT(30)
<1> QED BY <1>2, <1>3

(* DELETE: the author shows the row no more.                               *)
LEMMA EditDelete ==
    ASSUME EditInv, NEW r \in reqs, r.stage = "sent", DeleteTask(r), UNCHANGED <<conn, fetch, client, counts>>
    PROVE  EditInv'
<1> DEFINE t == r.row.id
<1>1. /\ Shapes /\ Editing /\ r \in Asked /\ Pending(r) /\ r.kind = "delete" /\ r.row \in Rows
      /\ t \in Tasks /\ t # 0 /\ r.by \in Clients
  <2>1. r.kind # "create" /\ t \in Tasks /\ r.row \in Rows
    BY UpdatesNameRows DEF DeleteTask
  <2>2. Shapes /\ Editing
    BY DEF EditInv, Refreshing
  <2>3. r \in Asked /\ r.by \in Clients
    BY <2>2 DEF Shapes, Asked
  <2>4. Pending(r)
    BY <2>2 DEF Editing
  <2>5. t # 0 /\ r.kind = "delete"
    BY <2>1 DEF DeleteTask, Tasks
  <2> QED BY <2>1, <2>2, <2>3, <2>4, <2>5
<1>2. CASE table[t].state # "live"
  BY <1>1, <1>2, EditRefused DEF DeleteTask, Unwritten, client, counts
<1>3. CASE table[t].state = "live"
  <2>1. PICK tab : tab = [table EXCEPT ![t].state = "trash"]
    OBVIOUS
  <2>2. /\ tab \in Tables /\ tab[t].state = "trash" /\ \A u \in Tasks : u # t => tab[u] = table[u]
    BY <1>1, <1>3, <2>1 DEF Shapes, Tables, States
  <2>4. Held(tab, t) = {}
    BY <2>2 DEF Held
  <2>5. /\ Shown(store[r.by], t) = {} /\ About(wire[r.by], t) = {}
        /\ \A c \in Clients \ {r.by} : Steady(wire[c], store[c], table, t)
    <3>1. Own(r, store[r.by], table)
      BY <1>1 DEF Pending
    <3> QED BY <1>1, <3>1 DEF Pending, Own
  <2>6. \A p \in reqs \ {r} : p.row.id # t
    BY <1>1 DEF Editing
  <2>7. \A m, c : m.kind = "deleted" /\ m.row = r.row /\ c \in Clients \ {r.by} => Brings(m, store[c], tab, t)
    BY <2>4 DEF Brings
  <2>8. \A q : q.kind = r.kind /\ q.stage = "ok" /\ q.row = r.row => Own(q, store[r.by], tab)
    BY <1>1, <2>4, <2>5 DEF Own
  <2>9. Write(r, tab, "deleted", r.row) /\ "deleted" \in Telling
    BY <1>3, <2>1 DEF DeleteTask, Telling
  <2> QED BY <1>1, <2>2, <2>5, <2>6, <2>7, <2>8, <2>9, EditWrite
<1> QED BY <1>2, <1>3

(* Restoring: an Undo shows the row as it was, the trash modal shows none. *)
LEMMA EditRestore ==
    ASSUME EditInv, NEW r \in reqs, r.stage = "sent", RestoreTask(r), UNCHANGED <<conn, fetch, client, counts>>
    PROVE  EditInv'
<1> DEFINE t == r.row.id
<1>1. /\ Shapes /\ Editing /\ r \in Asked /\ Pending(r) /\ r.kind \in {"restore", "untrash"} /\ r.row \in Rows
      /\ t \in Tasks /\ t # 0 /\ r.by \in Clients
  <2>1. r.kind # "create" /\ t \in Tasks /\ r.row \in Rows
    BY UpdatesNameRows DEF RestoreTask
  <2>2. Shapes /\ Editing
    BY DEF EditInv, Refreshing
  <2>3. r \in Asked /\ r.by \in Clients
    BY <2>2 DEF Shapes, Asked
  <2>4. Pending(r)
    BY <2>2 DEF Editing
  <2>5. t # 0 /\ r.kind \in {"restore", "untrash"}
    BY <2>1 DEF RestoreTask, Tasks
  <2> QED BY <2>1, <2>2, <2>3, <2>4, <2>5
<1>2. CASE table[t].state # "trash"
  BY <1>1, <1>2, EditRefused DEF RestoreTask, Unwritten, client, counts
<1>3. CASE table[t].state = "trash"
  <2>1. PICK tab, row : tab = [table EXCEPT ![t].state = "live"] /\ row = Row(t, table[t].val)
    OBVIOUS
  <2>2. /\ tab \in Tables /\ tab[t].state = "live" /\ tab[t].val = table[t].val
        /\ \A u \in Tasks : u # t => tab[u] = table[u]
    BY <1>1, <1>3, <2>1 DEF Shapes, Tables, States
  <2>3. row \in Rows /\ row.id = t /\ row.val = table[t].val
    BY <1>1, <2>1, RowTyped DEF Shapes, Tables
  <2>4. Held(tab, t) = {row}
    BY <2>1, <2>2 DEF Held
  <2>5. /\ About(wire[r.by], t) = {}
        /\ \A c \in Clients \ {r.by} : Steady(wire[c], store[c], table, t)
        /\ r.kind = "restore" => Shown(store[r.by], t) = {row}
        /\ r.kind = "untrash" => Shown(store[r.by], t) = {}
    <3>1. Own(r, store[r.by], table)
      BY <1>1 DEF Pending
    <3>2. r.kind = "restore" => r.row.val = table[t].val
      BY <3>1 DEF Own
    <3>3. r.kind = "restore" => r.row = row
      BY <1>1, <2>3, <3>2 DEF Rows
    <3> QED BY <1>1, <3>1, <3>3 DEF Pending, Own
  <2>6. \A p \in reqs \ {r} : p.row.id # t
    BY <1>1 DEF Editing
  <2>7. \A m, c : m.kind = "restored" /\ m.row = row /\ c \in Clients \ {r.by} => Brings(m, store[c], tab, row.id)
    BY <2>3, <2>4 DEF Brings
  <2>8. \A q : q.kind = r.kind /\ q.stage = "ok" /\ q.row = row => Own(q, store[r.by], tab)
    BY <1>1, <2>3, <2>4, <2>5 DEF Own
  <2>9. Write(r, tab, "restored", row) /\ "restored" \in Telling
    BY <1>3, <2>1 DEF RestoreTask, Telling
  <2> QED BY <1>1, <2>2, <2>3, <2>5, <2>6, <2>7, <2>8, <2>9, EditWrite
<1> QED BY <1>2, <1>3

----------------------------------------------------------------------------
(* An answer arrives: the author shows the row as the table has it.        *)
LEMMA EditArrive ==
    ASSUME EditInv, NEW r \in reqs, Arrive(r)
    PROVE  EditInv'
<1> DEFINE t == r.row.id
<1>1. /\ Shapes /\ Sockets /\ Editing /\ r \in Asked /\ Pending(r) /\ r.by \in Clients
      /\ r.stage \in {"ok", "failed"}
  BY DEF EditInv, Refreshing, Shapes, Editing, Arrive, Asked
<1>2. PICK s, x : /\ s \in Seq(Rows) /\ s = store[r.by] /\ Distinct(s)
                  /\ x = IF r.stage = "ok" THEN Confirmed(s, r) ELSE RolledBack(s, r)
  BY <1>1 DEF Shapes
<1>3. /\ reqs' = reqs \ {r} /\ store' = [store EXCEPT ![r.by] = x]
      /\ undo' = IF r.kind = "delete" /\ r.stage = "ok"
                 THEN [undo EXCEPT ![r.by] = @ \union {r.prev}] ELSE undo
      /\ UNCHANGED <<table, conn, wire, fetch, open, me, header, ids, writes, cuts>>
  BY <1>2 DEF Arrive, server, counts
<1>4. /\ x \in Seq(Rows) /\ Distinct(x) /\ SameBut(x, s, t)
      /\ t # 0 => Shown(x, t) = Held(table, t)
  <2>1. CASE x = s /\ (t # 0 => Shown(s, t) = Held(table, t))
    BY <1>2, <2>1 DEF SameBut
  <2>2. CASE \E row \in Rows : /\ x = Append(s, row) /\ row.id = t /\ Shown(s, t) = {}
                              /\ Held(table, t) = {row}
    <3>1. PICK row \in Rows : x = Append(s, row) /\ row.id = t /\ Shown(s, t) = {} /\ Held(table, t) = {row}
      BY <2>2
    <3>2. /\ Append(s, row) \in Seq(Rows)
          /\ Distinct(s) /\ Shown(s, row.id) = {} => Distinct(Append(s, row))
          /\ \A u : u # row.id => Shown(Append(s, row), u) = Shown(s, u)
          /\ Shown(s, row.id) = {} => Shown(Append(s, row), row.id) = {row}
      BY <1>2, ShownAppended
    <3> QED BY <1>2, <3>1, <3>2 DEF SameBut
  <2>3. CASE \E row \in Rows : /\ x = Replaced(s, row) /\ row.id = t /\ Shown(s, t) # {}
                              /\ Held(table, t) = {row}
    <3>1. PICK row \in Rows : x = Replaced(s, row) /\ row.id = t /\ Shown(s, t) # {} /\ Held(table, t) = {row}
      BY <2>3
    <3>2. /\ Replaced(s, row) \in Seq(Rows) /\ (Distinct(s) => Distinct(Replaced(s, row)))
          /\ \A u : u # row.id => Shown(Replaced(s, row), u) = Shown(s, u)
          /\ Shown(s, row.id) # {} => Shown(Replaced(s, row), row.id) = {row}
      BY <1>2, ShownReplaced
    <3> QED BY <1>2, <3>1, <3>2 DEF SameBut
  <2>4. CASE x = Without(s, t) /\ Held(table, t) = {}
    BY <1>2, <2>4, ShownWithout DEF SameBut
  <2>5. CASE t = 0
    <3>1. r.kind = "create" /\ r.stage = "failed"
      BY <1>1, <2>5 DEF Pending
    <3>2. x = s
      BY <1>2, <3>1 DEF RolledBack
    <3> QED BY <2>1, <2>5, <3>2
  <2>6. CASE t # 0 /\ r.stage = "ok"
    <3>1. r.row \in Rows /\ Own(r, s, table) /\ x = Confirmed(s, r)
      BY <1>1, <1>2, <2>6 DEF Pending, Asked
    <3>2. CASE r.kind = "update"
      BY <2>3, <2>6, <3>1, <3>2 DEF Own, Confirmed
    <3>3. CASE r.kind \in {"create", "untrash"}
      BY <2>2, <2>6, <3>1, <3>3 DEF Own, Confirmed
    <3>4. CASE r.kind \in {"delete", "restore"}
      BY <2>1, <2>6, <3>1, <3>4 DEF Own, Confirmed
    <3> QED BY <1>1, <3>2, <3>3, <3>4 DEF Asked
  <2>7. CASE t # 0 /\ r.stage = "failed"
    <3>1. Own(r, s, table) /\ x = RolledBack(s, r) /\ r.prev \in Rows \union {NoRow}
      BY <1>1, <1>2, <2>7 DEF Pending, Asked
    <3>2. r.prev.id = t => r.prev \in Rows /\ r.prev # NoRow
      BY <2>7, <3>1 DEF NoRow
    <3>3. CASE r.kind = "update" /\ r.prev = NoRow
      BY <2>1, <2>7, <3>1, <3>2, <3>3 DEF Own, RolledBack
    <3>4. CASE r.kind = "update" /\ r.prev # NoRow
      BY <2>3, <2>7, <3>1, <3>2, <3>4 DEF Own, RolledBack
    <3>5. CASE r.kind = "delete"
      BY <2>2, <2>7, <3>1, <3>2, <3>5 DEF Own, RolledBack
    <3>6. CASE r.kind = "restore"
      BY <2>4, <2>7, <3>1, <3>6 DEF Own, RolledBack
    <3>7. CASE r.kind \in {"create", "untrash"}
      BY <2>1, <2>7, <3>1, <3>7 DEF Own, RolledBack
    <3> QED BY <1>1, <3>3, <3>4, <3>5, <3>6, <3>7 DEF Asked
  <2> QED BY <1>1, <2>5, <2>6, <2>7
<1>5. \A d \in Clients : store'[d] = IF d = r.by THEN x ELSE store[d]
  BY <1>1, <1>3 DEF Shapes
<1>6. Shapes'
  <2>1. undo' \in [Clients -> SUBSET Rows]
    BY <1>1, <1>3 DEF Shapes, Pending
  <2>2. reqs' \subseteq Asked /\ store' \in [Clients -> Seq(Rows)]
    BY <1>1, <1>3, <1>4 DEF Shapes
  <2>3. \A d \in Clients : Distinct(store'[d])
    BY <1>1, <1>4, <1>5 DEF Shapes
  <2> QED BY <1>1, <1>3, <2>1, <2>2, <2>3 DEF Shapes
<1>7. Sockets'
  BY <1>1, <1>3, SocketsStay
<1>8. ASSUME NEW u, u # t, NEW d \in Clients
      PROVE  /\ Shown(store'[d], u) = Shown(store[d], u)
             /\ Steady(wire[d], store[d], table, u) => Steady(wire[d], store'[d], table, u)
             /\ Current(wire[d], store[d], table, u) => Current(wire[d], store'[d], table, u)
  <2>1. Shown(store'[d], u) = Shown(store[d], u)
    BY <1>2, <1>4, <1>5, <1>8 DEF SameBut
  <2> QED BY <2>1, CurrentElsewhere
<1>9. ASSUME NEW p \in reqs \ {r} PROVE Pending(p)'
  <2>1. Pending(p) /\ p.row.id # t /\ p.by \in Clients
    BY <1>1 DEF Editing, Shapes, Asked
  <2>2. CASE p.row.id = 0
    BY <1>3, <2>1, <2>2 DEF Pending
  <2>3. CASE p.row.id # 0
    <3>1. Own(p, store'[p.by], table)
      BY <1>8, <2>1, <2>3 DEF Pending, Own
    <3>2. \A d \in Clients \ {p.by} :
             IF p.stage = "ok" THEN Current(wire[d], store'[d], table, p.row.id)
             ELSE Steady(wire[d], store'[d], table, p.row.id)
      BY <1>8, <2>1, <2>3 DEF Pending
    <3> QED BY <1>3, <2>1, <2>3, <3>1, <3>2 DEF Pending
  <2> QED BY <2>2, <2>3
<1>10. ASSUME t # 0, NEW d \in Clients PROVE Current(wire[d], store'[d], table, t)
  <2>1. CASE d = r.by
    BY <1>1, <1>4, <1>5, <1>10, <2>1 DEF Pending, Current, Steady
  <2>2. CASE d # r.by
    BY <1>1, <1>5, <1>10, <2>2 DEF Pending, Current
  <2> QED BY <2>1, <2>2
<1>11. /\ \A d \in Clients : me'[d] # 0 /\ fetch'[d].stage = "none"
       /\ \A d \in Clients : \A i \in DOMAIN wire'[d] : Tells(wire'[d][i])
       /\ \A p, o \in reqs' : p.row.id = o.row.id => p = o
       /\ \A p \in reqs' : Pending(p)'
  BY <1>1, <1>3, <1>9 DEF Editing
<1>12. ASSUME NEW u \in Tasks, \A p \in reqs' : p.row.id # u, NEW d \in Clients
       PROVE  Current(wire'[d], store'[d], table', u)
  <2>1. CASE u = t
    <3>1. t # 0
      BY <2>1 DEF Tasks
    <3> QED BY <1>3, <1>10, <2>1, <3>1
  <2>2. CASE u # t
    <3>1. \A p \in reqs : p.row.id # u
      BY <1>3, <1>12, <2>2
    <3> QED BY <1>1, <1>3, <1>8, <2>2, <3>1 DEF Editing
  <2> QED BY <2>1, <2>2
<1>13. Editing'
  BY <1>11, <1>12 DEF Editing
<1> QED BY <1>6, <1>7, <1>13 DEF EditInv

----------------------------------------------------------------------------
(* Whatever happens, the invariant holds ...                               *)
LEMMA EditStep == EditInv /\ (GentleNext \/ UNCHANGED vars) => EditInv'
<1> SUFFICES ASSUME EditInv, GentleNext \/ UNCHANGED vars PROVE EditInv'
  OBVIOUS
<1>1. ASSUME NEW c \in Clients,
             Connect(c) \/ NoticeClose(c) \/ Deliver(c) \/ ServeFetch(c) \/ FetchArrives(c)
      PROVE  EditInv'
  BY <1>1, EditConnect, EditNoticeClose, EditDeliver, EditServeFetch, EditFetchArrives
<1>2. ASSUME NEW c \in Clients,
             \/ \E v \in Values : SettledCreate(c, v) \/ \E t \in Tasks : SettledUpdate(c, t, v)
             \/ \E t \in Tasks : SettledRemove(c, t) \/ SettledUntrash(c, t)
             \/ \E row \in undo[c] : SettledUndo(c, row)
      PROVE  EditInv'
  BY <1>2, EditCreate, EditUpdate, EditRemove, EditUntrash, EditUndo
<1>3. ASSUME NEW v \in Values, SettledRetag(v) PROVE EditInv'
  BY <1>3, EditRetag
<1>4. ASSUME NEW r \in reqs, ServeOrphan(r) PROVE EditInv'
  BY <1>4, EditPost, EditPut, EditDelete, EditRestore DEF ServeOrphan
<1>5. ASSUME NEW r \in reqs, FailSent(r) PROVE EditInv'
  BY <1>5, EditRefused DEF FailSent, server
<1>6. ASSUME NEW r \in reqs, Arrive(r) PROVE EditInv'
  BY <1>6, EditArrive
<1>7. CASE UNCHANGED vars
  <2>1. UNCHANGED <<table, conn, wire, reqs, fetch, store, open, me, header, undo, ids, writes, cuts>>
    BY <1>7 DEF vars, client, counts
  <2>2. Shapes' /\ Sockets'
    BY <2>1, SocketsStay DEF EditInv, Shapes
  <2>3. Refreshing => Refreshing'
    BY <2>1 DEF Refreshing, Refresh
  <2>4. Editing => Editing'
    BY <2>1 DEF Editing, Pending
  <2> QED BY <2>2, <2>3, <2>4 DEF EditInv
<1> QED BY <1>1, <1>2, <1>3, <1>4, <1>5, <1>6, <1>7 DEF GentleNext

(* ... and with it what the tabs promise.                                  *)
LEMMA EditSafe == EditInv => NoDuplicates /\ TabsAgree
<1> SUFFICES ASSUME EditInv PROVE NoDuplicates /\ TabsAgree
  OBVIOUS
<1>1. NoDuplicates
  BY DEF EditInv, Shapes, NoDuplicates
<1>2. ASSUME NEW c \in Clients, Quiet(c) PROVE Shows(store[c], table)
  <2>1. /\ me[c] # 0 /\ fetch[c].stage = "none" /\ wire[c] = <<>> /\ \A r \in reqs : r.by # c
    BY <1>2 DEF Quiet, Loaded
  <2>2. ASSUME NEW t \in Tasks PROVE Shown(store[c], t) = Held(table, t)
    <3>1. \A i \in DOMAIN wire[c] : FALSE
      BY <2>1
    <3>2. Current(wire[c], store[c], table, t) => Shown(store[c], t) = Held(table, t)
      BY <3>1 DEF Current, Steady
    <3>3. CASE Refreshing
      <4>1. \A m : wire[c] # <<m>>
        BY <2>1
      <4> QED BY <2>1, <3>3, <4>1 DEF Refreshing, Refresh
    <3>4. CASE Editing
      <4>1. CASE \A r \in reqs : r.row.id # t
        BY <3>2, <3>4, <4>1 DEF Editing
      <4>2. ASSUME NEW r \in reqs, r.row.id = t PROVE Shown(store[c], t) = Held(table, t)
        <5>1. t # 0 /\ Pending(r) /\ c \in Clients \ {r.by}
          BY <2>1, <3>4 DEF Editing, Tasks
        <5>2. Steady(wire[c], store[c], table, t) \/ Current(wire[c], store[c], table, t)
          BY <4>2, <5>1 DEF Pending
        <5> QED BY <3>2, <5>2 DEF Steady
      <4> QED BY <4>1, <4>2
    <3> QED BY <3>3, <3>4 DEF EditInv
  <2>3. store[c] \in Seq(Rows) /\ Distinct(store[c]) /\ table \in Tables
    BY DEF EditInv, Shapes
  <2> QED BY <2>2, <2>3, LiveRowsHold, ShowsEach
<1> QED BY <1>1, <1>2 DEF TabsAgree

(* Tabs that all edit, but no row that something is under way for, show    *)
(* the table whenever they are quiet, and no row twice, for any number of  *)
(* edits, refused requests and tag operations (TaskStore).                 *)
THEOREM GentleTabs == Gentle => (Spec => [](NoDuplicates /\ TabsAgree))
<1> SUFFICES ASSUME Gentle PROVE Spec => [](NoDuplicates /\ TabsAgree)
  OBVIOUS
<1>1. EditInv /\ [Next]_vars => EditInv'
  BY GentleSteps, EditStep
<1> QED BY <1>1, EditInit, EditSafe, PTL DEF Spec

(* The second scene of the model that is checked: its tabs are such tabs.  *)
EditScene == scene = "courteous" => EditInv

(* The scene begins in the invariant ...                                   *)
LEMMA EditSceneInit == SyncInit => EditScene
<1>1. K!Init => Init
  BY DEF K!Init, Init, K!Tasks, Tasks
<1> QED BY <1>1, EditInit DEF SyncInit, EditScene

(* ... and stays in it.                                                    *)
LEMMA EditSceneStep == EditScene /\ [SyncNext]_<<scene, vars, history, board>> => EditScene'
<1> SUFFICES ASSUME EditScene, [SyncNext]_<<scene, vars, history, board>>, scene' = "courteous" PROVE EditInv'
  BY DEF EditScene
<1>1. EditInv
  BY DEF SyncNext, EditScene
<1>2. CASE UNCHANGED vars
  BY <1>1, <1>2, EditStep
<1>3. CASE K!Next
  BY <1>1, <1>3, SceneSteps, EditStep
<1> QED BY <1>2, <1>3 DEF SyncNext

(* In the scene of the editing tabs no tab shows a row twice ...           *)
THEOREM SceneRows == SyncSpec => []RowsOnce
<1>1. EditScene => RowsOnce
  BY EditSafe DEF EditScene, RowsOnce, NoDuplicates, K!NoDuplicates, K!Distinct, Distinct
<1> QED BY <1>1, EditSceneInit, EditSceneStep, PTL DEF SyncSpec

(* ... and a quiet tab shows what the server holds.                        *)
THEOREM SceneAgrees == SyncSpec => []EditorsAgree
<1>1. EditScene => EditorsAgree
  <2>1. \A tab : K!LiveRows(tab) = LiveRows(tab)
    BY DEF K!LiveRows, LiveRows, K!Row, Row
  <2>2. \A s : K!Shows(s, table) <=> Shows(s, table)
    BY <2>1 DEF K!Shows, Shows, K!Distinct, Distinct, K!Rowset, Rowset
  <2>3. \A c : K!Quiet(c) <=> Quiet(c)
    BY DEF K!Quiet, Quiet, K!Loaded, Loaded
  <2> QED BY <2>2, <2>3, EditSafe DEF EditScene, EditorsAgree, TabsAgree, K!TabsAgree
<1> QED BY <1>1, EditSceneInit, EditSceneStep, PTL DEF SyncSpec

----------------------------------------------------------------------------
(***************************************************************************)
(* Histories: what is kept of one, in order.                               *)
(***************************************************************************)
Among(s)    == { s[i] : i \in DOMAIN s }
AllDiffer(s) == \A i, j \in DOMAIN s : s[i] = s[j] => i = j

LEMMA CappedIs ==
    ASSUME NEW A, NEW s \in Seq(A)
    PROVE  /\ U!Capped(s) \in Seq(A) /\ Among(U!Capped(s)) \subseteq Among(s)
           /\ AllDiffer(s) => AllDiffer(U!Capped(s))
           /\ Len(s) <= MaxHistory + 1 => Len(U!Capped(s)) <= MaxHistory
<1>0. MaxHistory \in Nat
  BY HistoryAssumption
<1>1. CASE U!Capped(s) = s
  BY <1>0, <1>1 DEF U!Capped
<1>2. CASE s = <<>> /\ U!Capped(s) = Tail(s)
  <2>1. U!Capped(s) = <<>> \/ U!Capped(s) = s \/ Len(s) = 0
    BY <1>2
  <2> QED BY <1>0, <1>2, <2>1 DEF U!Capped
<1>3. CASE s # <<>> /\ U!Capped(s) = Tail(s)
  <2>1. Len(Tail(s)) = Len(s) - 1 /\ Len(s) \in Nat
    BY <1>3
  <2>2. U!Capped(s) \in Seq(A) /\ Among(U!Capped(s)) \subseteq Among(s) /\ (AllDiffer(s) => AllDiffer(U!Capped(s)))
    BY <1>3 DEF Among, AllDiffer
  <2> QED BY <1>0, <1>3, <2>1, <2>2
<1> QED BY <1>1, <1>2, <1>3 DEF U!Capped

LEMMA ShorterIs ==
    ASSUME NEW A, NEW s \in Seq(A), s # <<>>
    PROVE  /\ U!Shorter(s) \in Seq(A) /\ Among(U!Shorter(s)) \subseteq Among(s) /\ U!Last(s) \in Among(s)
           /\ AllDiffer(s) => AllDiffer(U!Shorter(s)) /\ U!Last(s) \notin Among(U!Shorter(s))
           /\ Len(U!Shorter(s)) = Len(s) - 1
<1>1. Len(s) \in Nat \ {0} /\ DOMAIN s = 1 .. Len(s)
  OBVIOUS
<1>2. /\ U!Shorter(s) \in Seq(A) /\ Len(U!Shorter(s)) = Len(s) - 1
      /\ \A i \in 1 .. Len(s) - 1 : U!Shorter(s)[i] = s[i]
  BY <1>1 DEF U!Shorter
<1>3. DOMAIN U!Shorter(s) = 1 .. Len(s) - 1
  BY <1>2
<1> QED BY <1>1, <1>2, <1>3 DEF Among, AllDiffer, U!Last

LEMMA AddedIs ==
    ASSUME NEW A, NEW s \in Seq(A), NEW x \in A
    PROVE  /\ Append(s, x) \in Seq(A) /\ Among(Append(s, x)) = Among(s) \union {x}
           /\ AllDiffer(s) /\ x \notin Among(s) => AllDiffer(Append(s, x))
<1>1. /\ Append(s, x) \in Seq(A) /\ Len(Append(s, x)) = Len(s) + 1 /\ Append(s, x)[Len(s) + 1] = x
      /\ \A i \in 1 .. Len(s) : Append(s, x)[i] = s[i]
  OBVIOUS
<1>2. DOMAIN Append(s, x) = 1 .. Len(s) + 1 /\ DOMAIN s = 1 .. Len(s) /\ Len(s) \in Nat
  BY <1>1
<1>3. Among(Append(s, x)) = Among(s) \union {x}
  BY <1>1, <1>2 DEF Among
<1>4. ASSUME AllDiffer(s), x \notin Among(s) PROVE AllDiffer(Append(s, x))
  BY <1>1, <1>2, <1>4 DEF Among, AllDiffer
<1> QED BY <1>1, <1>3, <1>4

LEMMA WithoutIs ==
    ASSUME NEW A, NEW s \in Seq(A), NEW n
    PROVE  /\ U!Without(s, n) \in Seq(A) /\ Among(U!Without(s, n)) = Among(s) \ {n}
           /\ AllDiffer(s) => AllDiffer(U!Without(s, n))
           /\ Len(U!Without(s, n)) <= Len(s)
<1> DEFINE G(f) == [i \in 0 .. Len(s) |->
                       IF i = 0 THEN <<>>
                       ELSE IF s[i] = n THEN f[i - 1] ELSE Append(f[i - 1], s[i])]
           E == Seq(A)
           g == [i \in 1 .. Len(s) |-> [x \in E |-> IF s[i] = n THEN x ELSE Append(x, s[i])]]
<1>1. Len(s) \in Nat /\ g \in [1 .. Len(s) -> [E -> E]] /\ <<>> \in E
  OBVIOUS
<1>2. PICK h : Solves(h, Len(s), E, <<>>, g)
  <2> HIDE DEF g, E
  <2> QED BY <1>1, RecursionExists
<1>3. h \in [0 .. Len(s) -> E] /\ h[0] = <<>> /\ \A i \in 1 .. Len(s) : h[i] = g[i][h[i - 1]]
  <2> HIDE DEF g, E
  <2> QED BY <1>2 DEF Solves
<1>4. \A i \in 1 .. Len(s) : i - 1 \in 0 .. Len(s) /\ h[i - 1] \in E
  BY <1>1, <1>3
<1>5. \A i \in 1 .. Len(s) : h[i] = IF s[i] = n THEN h[i - 1] ELSE Append(h[i - 1], s[i])
  <2> TAKE i \in 1 .. Len(s)
  <2>1. g[i] = [x \in E |-> IF s[i] = n THEN x ELSE Append(x, s[i])]
    OBVIOUS
  <2> HIDE DEF g
  <2> QED BY <1>3, <1>4, <2>1
<1>6. h = G(h)
  <2> HIDE DEF g, E
  <2>1. \A i \in 0 .. Len(s) : i = 0 \/ i \in 1 .. Len(s)
    BY <1>1
  <2>2. \A i \in 0 .. Len(s) : h[i] = G(h)[i]
    BY <1>3, <1>5, <2>1
  <2>3. DOMAIN h = 0 .. Len(s) /\ h = [i \in 0 .. Len(s) |-> h[i]]
    BY <1>3
  <2> QED BY <2>2, <2>3
<1>7. PICK f : f = G(f) /\ f = CHOOSE f1 : f1 = G(f1)
  <2> HIDE DEF G
  <2> QED BY <1>6
<1>8. U!Without(s, n) = f[Len(s)]
  BY <1>7 DEF U!Without
<1>9. \A i \in 0 .. Len(s) : f[i] = IF i = 0 THEN <<>>
          ELSE IF s[i] = n THEN f[i - 1] ELSE Append(f[i - 1], s[i])
  BY <1>7
<1> HIDE DEF g, G, E
<1>10. f[0] = <<>> /\ \A i \in 1 .. Len(s) : f[i] = IF s[i] = n THEN f[i - 1] ELSE Append(f[i - 1], s[i])
  BY <1>1, <1>9
<1> DEFINE Before(i) == { s[j] : j \in 1 .. i }
           Kept(i) == /\ f[i] \in Seq(A) /\ Among(f[i]) = Before(i) \ {n}
                      /\ AllDiffer(s) => AllDiffer(f[i])
                      /\ Len(f[i]) <= i
           S == { i \in 0 .. Len(s) : Kept(i) }
<1>11. 0 \in S
  <2>1. Among(<<>>) = {} /\ AllDiffer(<<>>) /\ <<>> \in Seq(A) /\ Before(0) = {} /\ Len(<<>>) = 0
    BY DEF Among, AllDiffer
  <2> HIDE DEF Before
  <2>2. Kept(0)
    BY <1>10, <2>1
  <2> HIDE DEF Kept
  <2> QED BY <1>1, <2>2
<1>12. ASSUME NEW i \in 0 .. Len(s), i < Len(s), i \in S PROVE i + 1 \in S
  <2>1. /\ i + 1 \in 1 .. Len(s) /\ i + 1 \in 0 .. Len(s) /\ (i + 1) - 1 = i /\ s[i + 1] \in A
        /\ Kept(i)
    BY <1>1, <1>12, SMTT(30)
  <2>2. f[i + 1] = IF s[i + 1] = n THEN f[i] ELSE Append(f[i], s[i + 1])
    <3> HIDE DEF S, Before
    <3> QED BY <1>10, <2>1
  <2>3. Before(i + 1) = Before(i) \union {s[i + 1]}
    BY <1>1, <2>1
  <2>4. AllDiffer(s) => s[i + 1] \notin Before(i)
    BY <1>1, <2>1 DEF AllDiffer
  <2> HIDE DEF Before
  <2>5. ASSUME s[i + 1] = n PROVE Kept(i + 1)
    <3>1. f[i + 1] = f[i] /\ Len(f[i]) \in Nat
      BY <2>1, <2>2, <2>5
    <3> QED BY <2>1, <2>3, <2>5, <3>1
  <2>6. ASSUME s[i + 1] # n PROVE Kept(i + 1)
    <3>1. f[i] \in Seq(A) /\ f[i + 1] = Append(f[i], s[i + 1]) /\ Len(f[i]) <= i
      BY <2>1, <2>2, <2>6
    <3>2. Len(f[i + 1]) <= i + 1
      BY <2>1, <3>1
    <3> QED BY <2>1, <2>3, <2>4, <2>6, <3>1, <3>2, AddedIs
  <2> HIDE DEF Kept
  <2> QED BY <2>1, <2>5, <2>6
<1>13. Kept(Len(s))
  <2>1. \A i \in 0 .. Len(s) : i \in S
    <3> HIDE DEF S
    <3> QED BY <1>1, <1>11, <1>12, BoundedInduction
  <2>2. Len(s) \in 0 .. Len(s)
    BY <1>1
  <2> HIDE DEF Kept
  <2> QED BY <2>1, <2>2
<1>14. Among(s) = Before(Len(s))
  BY DEF Among
<1> QED BY <1>8, <1>13, <1>14

(***************************************************************************)
(* One task: rs are the requests about it, x how often it is shown, live   *)
(* the toasts whose action would bring it back.                            *)
(***************************************************************************)
Deletes(rs) == {r \in rs : r.kind = "delete"}

(* Restores that the server has still to answer, or refused.               *)
Waits(rs) == {r \in rs : r.kind = "restore" /\ r.stage # "ok"}

(* The task is not in the trash, or about to leave it.                     *)
Back(t, rs, gone) == Waits(rs) # {} \/ t \notin gone

(* It is in one place at most: shown, about to be deleted, or in the hands *)
(* of a toast.                                                             *)
Single(rs, x, live) ==
    /\ x \in {0, 1}
    /\ \A p, q \in Deletes(rs) : p = q
    /\ \A p, q \in live : p = q
    /\ x = 1 => Deletes(rs) = {} /\ live = {}
    /\ Deletes(rs) = {} \/ live = {}

RowAgrees(t, rs, x, gone, live, knots, l) ==
    /\ \A p, q \in Waits(rs) : p = q
    /\ Waits(rs) # {} => t \in gone
    /\ Deletes(rs) = {} => x = IF Back(t, rs, gone) THEN 1 ELSE 0
    /\ \A d \in Deletes(rs) : d.stage = "ok" <=> ~Back(t, rs, gone)
    /\ live # {} => ~Back(t, rs, gone)
    /\ l = 0 => \A r \in Waits(rs) : r.stage = "sent"
    /\ t \notin knots => \A p, q \in rs : p = q

Settles(t, rs, x, gone, live, knots, l) ==
    /\ Single(rs, x, live)
    /\ t \notin knots \/ l = 0 => RowAgrees(t, rs, x, gone, live, knots, l)

LEMMA FewerSettle ==
    ASSUME NEW t, NEW rs, NEW x, NEW gone, NEW gone2, NEW live, NEW live2, NEW knots, NEW knots2,
           NEW l, NEW l2, Settles(t, rs, x, gone, live, knots, l), live2 \subseteq live,
           t \in gone2 <=> t \in gone, t \notin knots2 => t \notin knots, l2 = 0 => l = 0
    PROVE  Settles(t, rs, x, gone2, live2, knots2, l2)
<1>1. Single(rs, x, live2)
  BY DEF Settles, Single
<1>2. ASSUME t \notin knots2 \/ l2 = 0 PROVE RowAgrees(t, rs, x, gone2, live2, knots2, l2)
  <2>1. RowAgrees(t, rs, x, gone, live, knots, l)
    BY <1>2 DEF Settles
  <2> QED BY <2>1 DEF RowAgrees, Back
<1> QED BY <1>1, <1>2 DEF Settles

LEMMA DeleteSent ==
    ASSUME NEW t, NEW rs, NEW x, NEW gone, NEW live, NEW knots, NEW knots2, NEW l, NEW d,
           Settles(t, rs, x, gone, live, knots, l), x # 0, d.kind = "delete", d.stage = "sent",
           t \notin knots2 => t \notin knots /\ rs = {}
    PROVE  Settles(t, rs \union {d}, 0, gone, live, knots2, l)
<1>1. Deletes(rs) = {} /\ x = 1 /\ live = {}
  BY DEF Settles, Single
<1>2. Deletes(rs \union {d}) = {d} /\ Waits(rs \union {d}) = Waits(rs)
  BY <1>1 DEF Deletes, Waits
<1>3. Single(rs \union {d}, 0, live)
  BY <1>1, <1>2 DEF Single
<1>4. ASSUME t \notin knots2 \/ l = 0 PROVE RowAgrees(t, rs \union {d}, 0, gone, live, knots2, l)
  <2>1. RowAgrees(t, rs, x, gone, live, knots, l)
    BY <1>4 DEF Settles
  <2> QED BY <1>1, <1>2, <2>1 DEF RowAgrees, Back
<1> QED BY <1>3, <1>4 DEF Settles

LEMMA RestoreSent ==
    ASSUME NEW t, NEW rs, NEW x, NEW gone, NEW live, NEW n \in live, NEW knots, NEW knots2, NEW l, NEW r,
           Settles(t, rs, x, gone, live, knots, l), r.kind = "restore", r.stage = "sent",
           t \notin knots2 => t \notin knots /\ rs = {}
    PROVE  x = 0 /\ Settles(t, rs \union {r}, 1, gone, live \ {n}, knots2, l)
<1>0. live # {} /\ Single(rs, x, live)
  BY DEF Settles
<1>1. Deletes(rs) = {} /\ live \ {n} = {} /\ x = 0
  <2>1. \A p \in live : p = n
    BY <1>0 DEF Single
  <2>2. x = 0 /\ Deletes(rs) = {}
    BY <1>0 DEF Single
  <2> QED BY <2>1, <2>2
<1>2. Deletes(rs \union {r}) = {} /\ Waits(rs \union {r}) = Waits(rs) \union {r}
  BY <1>1 DEF Deletes, Waits
<1>3. Single(rs \union {r}, 1, live \ {n})
  BY <1>1, <1>2 DEF Single
<1>4. ASSUME t \notin knots2 \/ l = 0 PROVE RowAgrees(t, rs \union {r}, 1, gone, live \ {n}, knots2, l)
  <2>1. RowAgrees(t, rs, x, gone, live, knots, l)
    BY <1>4 DEF Settles
  <2>2. Waits(rs) = {} /\ t \in gone
    BY <2>1 DEF RowAgrees, Back
  <2> QED BY <1>1, <1>2, <2>1, <2>2 DEF RowAgrees, Back
<1> QED BY <1>1, <1>3, <1>4 DEF Settles

(* A request moves to another stage.                                       *)
LEMMA StageMoved ==
    ASSUME NEW rs, NEW r \in rs, NEW q, q.kind = r.kind, r.stage = "sent"
    PROVE  /\ r.kind = "delete" =>
                /\ Deletes((rs \ {r}) \union {q}) = (Deletes(rs) \ {r}) \union {q}
                /\ Waits((rs \ {r}) \union {q}) = Waits(rs) /\ r \in Deletes(rs)
           /\ r.kind = "restore" =>
                /\ Deletes((rs \ {r}) \union {q}) = Deletes(rs) /\ r \in Waits(rs)
                /\ Waits((rs \ {r}) \union {q}) =
                        (Waits(rs) \ {r}) \union (IF q.stage = "ok" THEN {} ELSE {q})
<1> DEFINE m == (rs \ {r}) \union {q}
<1>1. ASSUME r.kind = "delete"
      PROVE  Deletes(m) = (Deletes(rs) \ {r}) \union {q} /\ Waits(m) = Waits(rs) /\ r \in Deletes(rs)
  <2>1. q.kind = "delete" /\ q.kind # "restore" /\ r.kind # "restore"
    BY <1>1
  <2>2. Deletes(m) = (Deletes(rs) \ {r}) \union {q} /\ r \in Deletes(rs)
    BY <1>1, <2>1 DEF Deletes
  <2>3. Waits(m) = Waits(rs)
    BY <2>1 DEF Waits
  <2> QED BY <2>2, <2>3
<1>2. ASSUME r.kind = "restore"
      PROVE  /\ Deletes(m) = Deletes(rs) /\ r \in Waits(rs)
             /\ Waits(m) = (Waits(rs) \ {r}) \union (IF q.stage = "ok" THEN {} ELSE {q})
  <2>1. q.kind = "restore" /\ q.kind # "delete" /\ r.kind # "delete" /\ r.stage # "ok"
    BY <1>2
  <2>2. Deletes(m) = Deletes(rs)
    BY <2>1 DEF Deletes
  <2>3. r \in Waits(rs) /\ Waits(m) = (Waits(rs) \ {r}) \union (IF q.stage = "ok" THEN {} ELSE {q})
    BY <1>2, <2>1 DEF Waits
  <2> QED BY <2>2, <2>3
<1> QED BY <1>1, <1>2

LEMMA SingleMoved ==
    ASSUME NEW rs, NEW x, NEW live, NEW r \in rs, NEW q, Single(rs, x, live),
           q.kind = r.kind, r.kind \in {"delete", "restore"}, r.stage = "sent"
    PROVE  /\ Single((rs \ {r}) \union {q}, x, live)
           /\ r.kind = "delete" =>
                /\ Deletes(rs) = {r} /\ Deletes((rs \ {r}) \union {q}) = {q}
                /\ Waits((rs \ {r}) \union {q}) = Waits(rs) /\ x = 0 /\ live = {}
<1>1. CASE r.kind = "delete"
  <2>1. /\ Deletes((rs \ {r}) \union {q}) = (Deletes(rs) \ {r}) \union {q} /\ r \in Deletes(rs)
        /\ Waits((rs \ {r}) \union {q}) = Waits(rs)
    BY <1>1, StageMoved, SMTT(30)
  <2>2. Deletes(rs) = {r} /\ x = 0 /\ live = {}
    BY <2>1 DEF Single
  <2> QED BY <1>1, <2>1, <2>2 DEF Single
<1>2. CASE r.kind = "restore"
  <2>1. Deletes((rs \ {r}) \union {q}) = Deletes(rs)
    BY <1>2, StageMoved
  <2> QED BY <1>2, <2>1 DEF Single
<1> QED BY <1>1, <1>2

LEMMA RequestServed ==
    ASSUME NEW t, NEW rs, NEW x, NEW gone, NEW gone2, NEW live, NEW knots, NEW l, NEW r \in rs, NEW q,
           Settles(t, rs, x, gone, live, knots, l), r.kind \in {"delete", "restore"}, r.stage = "sent",
           q.kind = r.kind,
           \/ (t \in gone <=> r.kind = "restore") /\ q.stage = "ok" /\ (t \in gone2 <=> r.kind = "delete")
           \/ ~(t \in gone <=> r.kind = "restore") /\ q.stage = "failed" /\ (t \in gone2 <=> t \in gone)
    PROVE  Settles(t, (rs \ {r}) \union {q}, x, gone2, live, knots, l)
<1> DEFINE m == (rs \ {r}) \union {q}
<1>1. Single(m, x, live)
  BY SingleMoved DEF Settles
<1>2. ASSUME t \notin knots \/ l = 0 PROVE RowAgrees(t, m, x, gone2, live, knots, l)
  <2>1. RowAgrees(t, rs, x, gone, live, knots, l)
    BY <1>2 DEF Settles
  <2>2. t \notin knots => \A y, z \in m : y = z
    BY <2>1 DEF RowAgrees
  <2>3. CASE r.kind = "delete"
    <3>1. Deletes(rs) = {r} /\ Deletes(m) = {q} /\ Waits(m) = Waits(rs) /\ x = 0 /\ live = {}
      BY <2>3, SingleMoved DEF Settles
    <3>2. Back(t, rs, gone)
      BY <2>1, <3>1 DEF RowAgrees
    <3> HIDE DEF m
    <3>3. q.stage = "ok" <=> ~Back(t, m, gone2)
      BY <2>1, <2>3, <3>1, <3>2 DEF RowAgrees, Back
    <3>4. Waits(m) # {} => t \in gone2
      BY <2>1, <2>3, <3>1 DEF RowAgrees
    <3> QED BY <2>1, <2>2, <3>1, <3>3, <3>4 DEF RowAgrees
  <2>4. CASE r.kind = "restore"
    <3>1. r \in Waits(rs)
      BY <2>4, StageMoved
    <3>2. t \in gone /\ Waits(rs) = {r} /\ live = {} /\ q.stage = "ok" /\ t \notin gone2
      BY <2>1, <2>4, <3>1 DEF RowAgrees, Back
    <3>3. Deletes(m) = Deletes(rs) /\ Waits(m) = {}
      BY <2>4, <3>2, StageMoved, SMTT(30)
    <3> HIDE DEF m
    <3> QED BY <2>1, <2>2, <3>2, <3>3 DEF RowAgrees, Back
  <2> QED BY <2>3, <2>4
<1> QED BY <1>1, <1>2 DEF Settles

LEMMA RequestLost ==
    ASSUME NEW t, NEW rs, NEW x, NEW gone, NEW live, NEW knots, NEW l, NEW l2, NEW r \in rs, NEW q,
           Settles(t, rs, x, gone, live, knots, l), r.kind \in {"delete", "restore"}, r.stage = "sent",
           q.kind = r.kind, q.stage = "failed", l2 # 0
    PROVE  Settles(t, (rs \ {r}) \union {q}, x, gone, live, knots, l2)
<1> DEFINE m == (rs \ {r}) \union {q}
<1>1. Single(m, x, live)
  BY SingleMoved DEF Settles
<1>2. ASSUME t \notin knots \/ l2 = 0 PROVE RowAgrees(t, m, x, gone, live, knots, l2)
  <2>1. RowAgrees(t, rs, x, gone, live, knots, l)
    BY <1>2 DEF Settles
  <2>2. t \notin knots => \A y, z \in m : y = z
    BY <2>1 DEF RowAgrees
  <2>3. CASE r.kind = "delete"
    <3>1. Deletes(rs) = {r} /\ Deletes(m) = {q} /\ Waits(m) = Waits(rs) /\ x = 0 /\ live = {}
      BY <2>3, SingleMoved DEF Settles
    <3>2. Back(t, rs, gone)
      BY <2>1, <3>1 DEF RowAgrees
    <3> HIDE DEF m
    <3> QED BY <2>1, <2>2, <3>1, <3>2 DEF RowAgrees, Back
  <2>4. CASE r.kind = "restore"
    <3>1. r \in Waits(rs)
      BY <2>4, StageMoved
    <3>2. t \in gone /\ Waits(rs) = {r} /\ live = {}
      BY <2>1, <3>1 DEF RowAgrees, Back
    <3>3. Deletes(m) = Deletes(rs) /\ Waits(m) = {q}
      BY <2>4, <3>2, StageMoved
    <3> HIDE DEF m
    <3> QED BY <2>1, <2>2, <3>2, <3>3 DEF RowAgrees, Back
  <2> QED BY <2>3, <2>4
<1> QED BY <1>1, <1>2 DEF Settles

(* An answer came: of a deletion, which brings the row back if it failed   *)
(* and a toast if it did not, ...                                          *)
LEMMA DeleteOver ==
    ASSUME NEW t, NEW rs, NEW x, NEW gone, NEW live, NEW live2, NEW knots, NEW l, NEW r \in rs, NEW x2,
           Settles(t, rs, x, gone, live, knots, l), r.kind = "delete", r.stage \in {"ok", "failed"},
           x2 = IF r.stage = "failed" THEN x + 1 ELSE x,
           \/ live2 \subseteq live
           \/ r.stage = "ok" /\ \E n : live2 \subseteq live \union {n}
    PROVE  Settles(t, rs \ {r}, x2, gone, live2, knots, l)
<1>1. r \in Deletes(rs)
  BY DEF Deletes
<1>2. Deletes(rs \ {r}) = {} /\ Waits(rs \ {r}) = Waits(rs)
  BY <1>1 DEF Settles, Single, Deletes, Waits
<1>3. live = {} /\ x = 0 /\ x2 = IF r.stage = "failed" THEN 1 ELSE 0
  BY <1>1 DEF Settles, Single
<1>4. Single(rs \ {r}, x2, live2)
  BY <1>2, <1>3 DEF Single
<1>5. ASSUME t \notin knots \/ l = 0 PROVE RowAgrees(t, rs \ {r}, x2, gone, live2, knots, l)
  <2>1. RowAgrees(t, rs, x, gone, live, knots, l)
    BY <1>5 DEF Settles
  <2>2. r.stage = "ok" <=> ~Back(t, rs, gone)
    BY <1>1, <2>1 DEF RowAgrees
  <2>3. t \notin knots => \A p, q \in rs \ {r} : p = q
    BY <2>1 DEF RowAgrees
  <2>4. x2 = IF Back(t, rs, gone) THEN 1 ELSE 0
    BY <1>3, <2>2
  <2> QED BY <1>2, <1>3, <2>1, <2>2, <2>3, <2>4 DEF RowAgrees, Back
<1> QED BY <1>4, <1>5 DEF Settles

(* ... and of a restore, which takes the row away if it failed.            *)
LEMMA RestoreOver ==
    ASSUME NEW t, NEW rs, NEW x, NEW gone, NEW live, NEW knots, NEW l, NEW r \in rs, NEW x2,
           Settles(t, rs, x, gone, live, knots, l), r.kind = "restore", r.stage \in {"ok", "failed"},
           x2 = IF r.stage = "failed" THEN 0 ELSE x
    PROVE  Settles(t, rs \ {r}, x2, gone, live, knots, l)
<1>1. Deletes(rs \ {r}) = Deletes(rs)
  BY DEF Deletes
<1>2. Single(rs \ {r}, x2, live)
  BY <1>1 DEF Settles, Single
<1>3. ASSUME t \notin knots \/ l = 0 PROVE RowAgrees(t, rs \ {r}, x2, gone, live, knots, l)
  <2>1. RowAgrees(t, rs, x, gone, live, knots, l)
    BY <1>3 DEF Settles
  <2>2. t \notin knots => \A p, q \in rs \ {r} : p = q
    BY <2>1 DEF RowAgrees
  <2>3. CASE r.stage = "ok"
    <3>1. Waits(rs \ {r}) = Waits(rs)
      BY <2>3 DEF Waits
    <3> QED BY <1>1, <2>1, <2>2, <2>3, <3>1 DEF RowAgrees, Back
  <2>4. CASE r.stage = "failed"
    <3>1. r \in Waits(rs)
      BY <2>4 DEF Waits
    <3>2. t \in gone /\ live = {} /\ l # 0
      BY <2>1, <2>4, <3>1 DEF RowAgrees, Back
    <3>3. rs = {r}
      BY <1>3, <2>1, <3>2 DEF RowAgrees
    <3>4. Deletes(rs) = {} /\ Waits(rs \ {r}) = {}
      BY <3>3 DEF Waits, Deletes
    <3> QED BY <1>1, <2>1, <2>2, <2>4, <3>2, <3>3, <3>4 DEF RowAgrees, Back
  <2> QED BY <2>3, <2>4
<1> QED BY <1>2, <1>3 DEF Settles

(***************************************************************************)
(* The invariant.                                                          *)
(***************************************************************************)
Toasts == [task: Tasks, stage: {"shown", "leaving", "gone"}]
Redone == [task: Tasks, since: Nat]

Authors == {"user", "list", "history"}

Letter(r) ==
    /\ r = [n |-> r.n, kind |-> r.kind, task |-> r.task, by |-> r.by, stage |-> r.stage]
    /\ r.kind \in {"delete", "restore"} /\ r.task \in Tasks /\ r.stage \in {"sent", "ok", "failed"}
    /\ r.by \in Authors

AskedAbout(t) == {r \in asks : r.task = t}

(* The toasts about a task whose action has still to run.                  *)
LiveOf(t) == {n \in 1 .. Len(toasts) : /\ toasts[n].task = t
                                       /\ toasts[n].stage = "shown" \/ n \in Among(undos)}

HistoryInv ==
    /\ toasts \in Seq(Toasts) /\ undone \in Seq({0, 1}) /\ Len(undone) = Len(toasts)
    /\ undos \in Seq(Nat) /\ Among(undos) \subseteq 1 .. Len(toasts) /\ AllDiffer(undos)
    /\ redos \in Seq(Redone) /\ \A e \in Among(redos) : e.since = Len(toasts)
    /\ \A n \in 1 .. Len(toasts) : toasts[n].stage = "shown" \/ n \in Among(undos) => undone[n] = 0
    /\ Len(undos) <= MaxHistory /\ Len(redos) <= MaxHistory

RequestsInv ==
    /\ rows \in [Tasks -> Nat] /\ tangled \subseteq Tasks /\ \A r \in asks : Letter(r)
    /\ \A t \in Tasks : Settles(t, AskedAbout(t), rows[t], trash, LiveOf(t), tangled, lost)

Questions ==
    /\ asking \in Tasks \union {0} /\ dropping.tasks \subseteq Tasks
    /\ dropping = [tasks |-> dropping.tasks, waits |-> dropping.waits]
    /\ lost \in Nat

UndoInv == HistoryInv /\ RequestsInv /\ Questions

----------------------------------------------------------------------------
(* The history after each of its operations.                               *)
LEMMA HistoryRests ==
    ASSUME HistoryInv, UNCHANGED <<toasts, undos, undone>>,
           redos' = redos \/ (redos # <<>> /\ redos' = U!Shorter(redos))
    PROVE  HistoryInv' /\ \A u : LiveOf(u)' = LiveOf(u)
<1>0. redos \in Seq(Redone) /\ Len(redos) \in Nat /\ Len(redos) <= MaxHistory /\ MaxHistory \in Nat
  BY HistoryAssumption DEF HistoryInv
<1>1. redos' \in Seq(Redone) /\ Among(redos') \subseteq Among(redos) /\ Len(redos') <= MaxHistory
  BY <1>0, ShorterIs
<1>2. \A u : LiveOf(u)' = LiveOf(u)
  BY DEF LiveOf
<1> QED BY <1>1, <1>2 DEF HistoryInv

LEMMA Pushed ==
    ASSUME HistoryInv, NEW t \in Tasks, U!Push(t)
    PROVE  /\ HistoryInv'
           /\ \A u : u # t => LiveOf(u)' \subseteq LiveOf(u)
           /\ LiveOf(t)' \subseteq LiveOf(t) \union {Len(toasts) + 1}
<1> DEFINE k == Len(toasts) + 1
<1>1. /\ toasts' = Append(toasts, [task |-> t, stage |-> "shown"])
      /\ undos' = U!Capped(Append(undos, k)) /\ redos' = <<>> /\ undone' = Append(undone, 0)
  BY DEF U!Push, U!Forked
<1>2. /\ toasts' \in Seq(Toasts) /\ Len(toasts') = k /\ k \in Nat
      /\ \A n \in 1 .. Len(toasts) : toasts'[n] = toasts[n]
      /\ toasts'[k] = [task |-> t, stage |-> "shown"]
  BY <1>1 DEF HistoryInv, Toasts
<1>3. /\ undone' \in Seq({0, 1}) /\ Len(undone') = k /\ undone'[k] = 0
      /\ \A n \in 1 .. Len(toasts) : undone'[n] = undone[n]
  BY <1>1 DEF HistoryInv
<1>4. k \notin Among(undos) /\ 1 .. k = (1 .. Len(toasts)) \union {k} /\ k \notin 1 .. Len(toasts)
  BY <1>2 DEF HistoryInv
<1> HIDE DEF k
<1>5. /\ undos' \in Seq(Nat) /\ Among(undos') \subseteq Among(undos) \union {k} /\ AllDiffer(undos')
      /\ Len(undos') <= MaxHistory
  <2>1. /\ Append(undos, k) \in Seq(Nat) /\ Among(Append(undos, k)) = Among(undos) \union {k}
        /\ AllDiffer(Append(undos, k)) /\ Len(Append(undos, k)) <= MaxHistory + 1
    BY <1>2, <1>4, AddedIs, HistoryAssumption DEF HistoryInv
  <2> QED BY <1>1, <2>1, CappedIs
<1>6. redos' \in Seq(Redone) /\ Among(redos') = {} /\ Len(redos') <= MaxHistory
  BY <1>1, HistoryAssumption DEF Among
<1>7. HistoryInv'
  BY <1>2, <1>3, <1>4, <1>5, <1>6 DEF HistoryInv
<1>8. \A u : LiveOf(u)' \subseteq LiveOf(u) \union (IF u = t THEN {k} ELSE {})
  BY <1>2, <1>4, <1>5 DEF LiveOf
<1> QED BY <1>7, <1>8 DEF k

(* A toast leaves.                                                         *)
LEMMA ToastLeaves ==
    ASSUME HistoryInv, NEW n \in 1 .. Len(toasts), NEW g \in {"leaving", "gone"},
           toasts' = [toasts EXCEPT ![n].stage = g], UNCHANGED <<undos, redos, undone>>
    PROVE  HistoryInv' /\ \A u : LiveOf(u)' \subseteq LiveOf(u)
<1>1. /\ toasts' \in Seq(Toasts) /\ Len(toasts') = Len(toasts) /\ toasts'[n].stage = g
      /\ toasts'[n].task = toasts[n].task
      /\ \A m \in 1 .. Len(toasts) : m # n => toasts'[m] = toasts[m]
  <2>1. toasts[n] \in Toasts /\ toasts' = [toasts EXCEPT ![n] = [toasts[n] EXCEPT !.stage = g]]
    BY DEF HistoryInv
  <2>2. PICK x : x = [toasts[n] EXCEPT !.stage = g]
    OBVIOUS
  <2>3. x \in Toasts /\ x.stage = g /\ x.task = toasts[n].task
    BY <2>1, <2>2 DEF Toasts
  <2> QED BY <2>1, <2>2, <2>3 DEF HistoryInv
<1> QED BY <1>1 DEF HistoryInv, LiveOf

LEMMA Ran ==
    ASSUME HistoryInv, NEW n \in 1 .. Len(toasts), toasts[n].stage = "shown" \/ n \in Among(undos),
           U!RanAction(n), undos' \in Seq(Nat), Among(undos') \subseteq Among(undos) \ {n}, AllDiffer(undos'),
           Len(undos') <= MaxHistory
    PROVE  HistoryInv' /\ \A u : LiveOf(u)' \subseteq LiveOf(u) \ {n}
<1>1. /\ toasts' \in Seq(Toasts) /\ Len(toasts') = Len(toasts) /\ toasts'[n].stage # "shown"
      /\ \A m \in 1 .. Len(toasts) : toasts'[m].task = toasts[m].task
      /\ \A m \in 1 .. Len(toasts) : m # n => toasts'[m] = toasts[m]
  <2>1. toasts[n] \in Toasts /\ toasts' = U!Dismissed(toasts, n)
    BY DEF HistoryInv, U!RanAction
  <2>2. CASE toasts[n].stage = "shown"
    <3>1. PICK x : x = [toasts[n] EXCEPT !.stage = "leaving"]
      OBVIOUS
    <3>2. x \in Toasts /\ x.stage = "leaving" /\ x.task = toasts[n].task
      BY <2>1, <3>1 DEF Toasts
    <3>3. toasts' = [toasts EXCEPT ![n] = x]
      BY <2>1, <2>2, <3>1 DEF U!Dismissed
    <3> QED BY <3>2, <3>3 DEF HistoryInv
  <2>3. CASE toasts[n].stage # "shown"
    BY <2>1, <2>3 DEF HistoryInv, U!Dismissed
  <2> QED BY <2>2, <2>3
<1>2. /\ undone' \in Seq({0, 1}) /\ Len(undone') = Len(undone)
      /\ \A m \in 1 .. Len(toasts) : m # n => undone'[m] = undone[m]
  BY DEF HistoryInv, U!RanAction
<1>3. redos' \in Seq(Redone) /\ Len(redos') <= MaxHistory /\ \A e \in Among(redos') : e.since = Len(toasts)
  <2> DEFINE x == [task |-> toasts[n].task, since |-> Len(toasts)]
  <2>0. toasts[n].task \in Tasks /\ Len(toasts) \in Nat
    <3>1. toasts[n] \in Toasts /\ Len(toasts) \in Nat
      BY DEF HistoryInv
    <3> QED BY <3>1 DEF Toasts
  <2>1. x \in Redone /\ x.since = Len(toasts)
    BY <2>0 DEF Redone
  <2>3. redos' = U!Capped(Append(redos, x))
    BY DEF U!RanAction
  <2> HIDE DEF x
  <2>2. /\ Append(redos, x) \in Seq(Redone) /\ Among(Append(redos, x)) = Among(redos) \union {x}
        /\ Len(Append(redos, x)) <= MaxHistory + 1
    BY <2>1, AddedIs, HistoryAssumption DEF HistoryInv
  <2>4. redos' \in Seq(Redone) /\ Among(redos') \subseteq Among(redos) \union {x} /\ Len(redos') <= MaxHistory
    BY <2>2, <2>3, CappedIs
  <2>5. \A e \in Among(redos) : e.since = Len(toasts)
    BY DEF HistoryInv
  <2> QED BY <2>1, <2>4, <2>5
<1>4. HistoryInv'
  BY <1>1, <1>2, <1>3 DEF HistoryInv
<1> QED BY <1>1, <1>4 DEF LiveOf

----------------------------------------------------------------------------
(* The requests after each of their operations.                            *)
(* A task that no step is about settles as before.                         *)
LEMMA OthersSettle ==
    ASSUME RequestsInv, NEW u \in Tasks, AskedAbout(u)' = AskedAbout(u), rows'[u] = rows[u],
           u \in trash' <=> u \in trash, LiveOf(u)' \subseteq LiveOf(u),
           tangled \subseteq tangled', lost' = 0 => lost = 0
    PROVE  Settles(u, AskedAbout(u)', rows'[u], trash', LiveOf(u)', tangled', lost')
<1>1. Settles(u, AskedAbout(u), rows[u], trash, LiveOf(u), tangled, lost)
  BY DEF RequestsInv
<1> QED BY <1>1, FewerSettle

LEMMA RequestsRest ==
    ASSUME RequestsInv, UNCHANGED <<rows, asks, trash, tangled, lost>>,
           \A u : LiveOf(u)' \subseteq LiveOf(u)
    PROVE  RequestsInv'
<1>1. \A u : AskedAbout(u)' = AskedAbout(u)
  BY DEF AskedAbout
<1>2. \A u \in Tasks : Settles(u, AskedAbout(u)', rows'[u], trash', LiveOf(u)', tangled', lost')
  BY <1>1, OthersSettle
<1> QED BY <1>2 DEF RequestsInv

(* A request about t is sent.                                              *)
LEMMA SentIs ==
    ASSUME NEW t \in Tasks, NEW k \in {"delete", "restore"}, NEW by \in Authors, asks' = U!Sent(asks, k, t, by), U!Tangled(t),
           \A r \in asks : Letter(r)
    PROVE  \E q : /\ q.kind = k /\ q.stage = "sent"
                  /\ \A r \in asks' : Letter(r)
                  /\ AskedAbout(t)' = AskedAbout(t) \union {q} /\ \A u : u # t => AskedAbout(u)' = AskedAbout(u)
                  /\ tangled \subseteq tangled' /\ (t \notin tangled' => t \notin tangled /\ AskedAbout(t) = {})
                  /\ \A u : u # t => (u \in tangled' <=> u \in tangled)
<1>0. PICK q : asks' = asks \union {q} /\ \E n : q = U!Request(n, k, t, by)
  BY DEF U!Sent
<1>1. q.kind = k /\ q.stage = "sent" /\ q.task = t /\ Letter(q)
  BY <1>0 DEF U!Request, Letter
<1>2. asks' = asks \union {q}
  BY <1>0
<1>3. AskedAbout(t)' = AskedAbout(t) \union {q} /\ \A u : u # t => AskedAbout(u)' = AskedAbout(u)
  BY <1>1, <1>2 DEF AskedAbout
<1>4. /\ tangled \subseteq tangled' /\ (t \notin tangled' => t \notin tangled /\ AskedAbout(t) = {})
      /\ \A u : u # t => (u \in tangled' <=> u \in tangled)
  BY DEF U!Tangled, AskedAbout
<1> QED BY <1>1, <1>2, <1>3, <1>4

LEMMA Removed ==
    ASSUME RequestsInv, NEW t \in Tasks, NEW by \in Authors, U!Remove(t, by), UNCHANGED <<trash, lost>>,
           \A u : LiveOf(u)' = LiveOf(u)
    PROVE  RequestsInv'
<1>1. CASE rows[t] = 0
  BY <1>1, RequestsRest DEF U!Remove
<1>2. CASE rows[t] # 0
  <2>1. U!Tangled(t) /\ rows' = [rows EXCEPT ![t] = 0] /\ asks' = U!Sent(asks, "delete", t, by)
    BY <1>2 DEF U!Remove
  <2>2. PICK q : /\ q.kind = "delete" /\ q.stage = "sent"
                 /\ \A r \in asks' : Letter(r)
                 /\ AskedAbout(t)' = AskedAbout(t) \union {q} /\ \A u : u # t => AskedAbout(u)' = AskedAbout(u)
                 /\ tangled \subseteq tangled' /\ (t \notin tangled' => t \notin tangled /\ AskedAbout(t) = {})
                 /\ \A u : u # t => (u \in tangled' <=> u \in tangled)
    BY <2>1, SentIs DEF RequestsInv
  <2>3. rows' \in [Tasks -> Nat] /\ rows'[t] = 0 /\ \A u \in Tasks : u # t => rows'[u] = rows[u]
    BY <2>1 DEF RequestsInv
  <2>4. ASSUME NEW u \in Tasks
        PROVE  Settles(u, AskedAbout(u)', rows'[u], trash', LiveOf(u)', tangled', lost')
    <3>1. CASE u # t
      BY <2>2, <2>3, <2>4, <3>1, OthersSettle
    <3>2. CASE u = t
      <4>1. Settles(t, AskedAbout(t), rows[t], trash, LiveOf(t), tangled, lost)
        BY <2>2, <2>4, <3>2 DEF RequestsInv
      <4>2. Settles(t, AskedAbout(t) \union {q}, 0, trash, LiveOf(t), tangled', lost)
        BY <1>2, <2>2, <4>1, DeleteSent
      <4> QED BY <2>2, <2>3, <3>2, <4>2
    <3> QED BY <3>1, <3>2
  <2> QED BY <2>2, <2>3, <2>4 DEF RequestsInv
<1> QED BY <1>1, <1>2

LEMMA Restored ==
    ASSUME RequestsInv, NEW t \in Tasks, U!Restore(t), UNCHANGED <<trash, lost>>,
           NEW n \in LiveOf(t), \A u : LiveOf(u)' \subseteq LiveOf(u) \ {n}
    PROVE  RequestsInv'
<1>1. U!Tangled(t) /\ rows' = [rows EXCEPT ![t] = @ + 1] /\ asks' = U!Sent(asks, "restore", t, "history")
  BY DEF U!Restore
<1>2. PICK q : /\ q.kind = "restore" /\ q.stage = "sent"
               /\ \A r \in asks' : Letter(r)
               /\ AskedAbout(t)' = AskedAbout(t) \union {q} /\ \A u : u # t => AskedAbout(u)' = AskedAbout(u)
               /\ tangled \subseteq tangled' /\ (t \notin tangled' => t \notin tangled /\ AskedAbout(t) = {})
               /\ \A u : u # t => (u \in tangled' <=> u \in tangled)
  BY <1>1, SentIs DEF RequestsInv, Authors
<1>3. rows' \in [Tasks -> Nat] /\ rows'[t] = rows[t] + 1 /\ \A u \in Tasks : u # t => rows'[u] = rows[u]
  BY <1>1 DEF RequestsInv
<1>4. ASSUME NEW u \in Tasks
      PROVE  Settles(u, AskedAbout(u)', rows'[u], trash', LiveOf(u)', tangled', lost')
  <2>1. CASE u # t
    BY <1>2, <1>3, <1>4, <2>1, OthersSettle
  <2>2. CASE u = t
    <3>1. Settles(t, AskedAbout(t), rows[t], trash, LiveOf(t), tangled, lost)
      BY <1>2, <1>4, <2>2 DEF RequestsInv
    <3>2. rows[t] = 0 /\ Settles(t, AskedAbout(t) \union {q}, 1, trash, LiveOf(t) \ {n}, tangled', lost)
      BY <1>2, <3>1, RestoreSent
    <3>3. Settles(t, AskedAbout(t) \union {q}, 1, trash, LiveOf(t)', tangled', lost)
      BY <3>2, FewerSettle
    <3> QED BY <1>2, <1>3, <2>2, <3>2, <3>3
  <2> QED BY <2>1, <2>2
<1> QED BY <1>2, <1>3, <1>4 DEF RequestsInv

(* A request moves on, or is answered.                                     *)
LEMMA MovedIs ==
    ASSUME NEW r \in asks, Letter(r), NEW g \in {"sent", "ok", "failed"}, \A q \in asks : Letter(q),
           asks' = (asks \ {r}) \union {[r EXCEPT !.stage = g]}
    PROVE  \E q : /\ q.kind = r.kind /\ q.stage = g
                  /\ \A p \in asks' : Letter(p)
                  /\ AskedAbout(r.task)' = (AskedAbout(r.task) \ {r}) \union {q} /\ r \in AskedAbout(r.task)
                  /\ \A u : u # r.task => AskedAbout(u)' = AskedAbout(u)
<1>1. PICK q : q = [r EXCEPT !.stage = g]
  OBVIOUS
<1>2. q = [n |-> r.n, kind |-> r.kind, task |-> r.task, by |-> r.by, stage |-> g]
  BY <1>1 DEF Letter
<1>3. q.kind = r.kind /\ q.stage = g /\ q.task = r.task /\ Letter(q)
  BY <1>2 DEF Letter
<1>4. asks' = (asks \ {r}) \union {q}
  BY <1>1
<1>5. /\ AskedAbout(r.task)' = (AskedAbout(r.task) \ {r}) \union {q} /\ r \in AskedAbout(r.task)
      /\ \A u : u # r.task => AskedAbout(u)' = AskedAbout(u)
  BY <1>3, <1>4 DEF AskedAbout
<1> QED BY <1>3, <1>4, <1>5

LEMMA Served ==
    ASSUME RequestsInv, NEW r \in asks, U!Serve(r), \A u : LiveOf(u)' = LiveOf(u)
    PROVE  RequestsInv'
<1> DEFINE works == (r.task \in trash) = (r.kind = "restore")
           t == r.task
<1>1. Letter(r) /\ t \in Tasks /\ r.kind \in {"delete", "restore"} /\ r.stage = "sent"
  BY DEF RequestsInv, Letter, U!Serve
<1>2. /\ UNCHANGED <<rows, tangled, lost>>
      /\ asks' = (asks \ {r}) \union {[r EXCEPT !.stage = IF works THEN "ok" ELSE "failed"]}
      /\ \A u : u # t => (u \in trash' <=> u \in trash)
      /\ works => (t \in trash' <=> r.kind = "delete")
      /\ ~works => trash' = trash
  BY <1>1 DEF U!Serve
<1>3. PICK g \in {"sent", "ok", "failed"} : g = IF works THEN "ok" ELSE "failed"
  OBVIOUS
<1>4. PICK q : /\ q.kind = r.kind /\ q.stage = g
               /\ \A p \in asks' : Letter(p)
               /\ AskedAbout(t)' = (AskedAbout(t) \ {r}) \union {q} /\ r \in AskedAbout(t)
               /\ \A u : u # t => AskedAbout(u)' = AskedAbout(u)
  BY <1>1, <1>2, <1>3, MovedIs DEF RequestsInv
<1>5. ASSUME NEW u \in Tasks
      PROVE  Settles(u, AskedAbout(u)', rows'[u], trash', LiveOf(u)', tangled', lost')
  <2>1. CASE u # t
    BY <1>2, <1>4, <1>5, <2>1, OthersSettle
  <2>2. CASE u = t
    <3>1. Settles(t, AskedAbout(t), rows[t], trash, LiveOf(t), tangled, lost)
      BY <1>1, <1>2, <1>5, <2>2 DEF RequestsInv
    <3>2. \/ (t \in trash <=> r.kind = "restore") /\ q.stage = "ok" /\ (t \in trash' <=> r.kind = "delete")
          \/ ~(t \in trash <=> r.kind = "restore") /\ q.stage = "failed" /\ (t \in trash' <=> t \in trash)
      BY <1>2, <1>3, <1>4
    <3>3. Settles(t, (AskedAbout(t) \ {r}) \union {q}, rows[t], trash', LiveOf(t), tangled, lost)
      BY <1>1, <1>4, <3>1, <3>2, RequestServed
    <3> QED BY <1>2, <1>4, <2>2, <3>3
  <2> QED BY <2>1, <2>2
<1> QED BY <1>2, <1>4, <1>5 DEF RequestsInv

LEMMA Lost ==
    ASSUME RequestsInv, lost \in Nat, NEW r \in asks, U!Lose(r), \A u : LiveOf(u)' = LiveOf(u)
    PROVE  RequestsInv'
<1> DEFINE t == r.task
<1>1. Letter(r) /\ t \in Tasks /\ r.kind \in {"delete", "restore"} /\ r.stage = "sent"
  BY DEF RequestsInv, Letter, U!Lose
<1>2. /\ UNCHANGED <<rows, trash, tangled>> /\ lost' # 0
      /\ asks' = (asks \ {r}) \union {[r EXCEPT !.stage = "failed"]}
  BY DEF U!Lose
<1>3. PICK q : /\ q.kind = r.kind /\ q.stage = "failed"
               /\ \A p \in asks' : Letter(p)
               /\ AskedAbout(t)' = (AskedAbout(t) \ {r}) \union {q} /\ r \in AskedAbout(t)
               /\ \A u : u # t => AskedAbout(u)' = AskedAbout(u)
  BY <1>1, <1>2, MovedIs DEF RequestsInv
<1>4. ASSUME NEW u \in Tasks
      PROVE  Settles(u, AskedAbout(u)', rows'[u], trash', LiveOf(u)', tangled', lost')
  <2>1. CASE u # t
    BY <1>2, <1>3, <1>4, <2>1, OthersSettle
  <2>2. CASE u = t
    <3>1. Settles(t, AskedAbout(t), rows[t], trash, LiveOf(t), tangled, lost)
      BY <1>1, <1>2, <1>4, <2>2 DEF RequestsInv
    <3>2. Settles(t, (AskedAbout(t) \ {r}) \union {q}, rows[t], trash, LiveOf(t), tangled, lost')
      BY <1>1, <1>2, <1>3, <3>1, RequestLost
    <3> QED BY <1>2, <1>3, <2>2, <3>2
  <2> QED BY <2>1, <2>2
<1> QED BY <1>2, <1>3, <1>4 DEF RequestsInv

LEMMA DeletionAnswered ==
    ASSUME RequestsInv, NEW r \in asks, U!DeleteAnswered(r),
           \A u : u # r.task => LiveOf(u)' \subseteq LiveOf(u),
           \/ LiveOf(r.task)' \subseteq LiveOf(r.task)
           \/ r.stage = "ok" /\ LiveOf(r.task)' \subseteq LiveOf(r.task) \union {Len(toasts) + 1}
    PROVE  RequestsInv'
<1> DEFINE t == r.task
<1>1. Letter(r) /\ t \in Tasks /\ r.kind = "delete" /\ r.stage \in {"ok", "failed"} /\ r \in AskedAbout(t)
  BY DEF RequestsInv, Letter, U!DeleteAnswered, AskedAbout
<1>2. /\ UNCHANGED <<trash, tangled, lost>> /\ asks' = asks \ {r}
      /\ rows' = IF r.stage = "failed" THEN [rows EXCEPT ![t] = @ + 1] ELSE rows
  BY DEF U!DeleteAnswered, U!PutBack
<1>3. /\ rows' \in [Tasks -> Nat] /\ \A u \in Tasks : u # t => rows'[u] = rows[u]
      /\ rows'[t] = IF r.stage = "failed" THEN rows[t] + 1 ELSE rows[t]
  BY <1>1, <1>2 DEF RequestsInv
<1>4. /\ \A p \in asks' : Letter(p)
      /\ AskedAbout(t)' = AskedAbout(t) \ {r} /\ \A u : u # t => AskedAbout(u)' = AskedAbout(u)
  BY <1>2 DEF AskedAbout, RequestsInv
<1>5. ASSUME NEW u \in Tasks
      PROVE  Settles(u, AskedAbout(u)', rows'[u], trash', LiveOf(u)', tangled', lost')
  <2>1. CASE u # t
    BY <1>2, <1>3, <1>4, <1>5, <2>1, OthersSettle
  <2>2. CASE u = t
    <3>1. Settles(t, AskedAbout(t), rows[t], trash, LiveOf(t), tangled, lost)
      BY <1>1, <1>2, <1>5, <2>2 DEF RequestsInv
    <3>2. Settles(t, AskedAbout(t) \ {r}, rows'[t], trash, LiveOf(t)', tangled, lost)
      BY <1>1, <1>3, <3>1, DeleteOver
    <3> QED BY <1>2, <1>4, <2>2, <3>2
  <2> QED BY <2>1, <2>2
<1> QED BY <1>2, <1>3, <1>4, <1>5 DEF RequestsInv

LEMMA RestorationAnswered ==
    ASSUME RequestsInv, NEW r \in asks, U!RestoreAnswered(r), \A u : LiveOf(u)' = LiveOf(u)
    PROVE  RequestsInv'
<1> DEFINE t == r.task
<1>1. Letter(r) /\ t \in Tasks /\ r.kind = "restore" /\ r.stage \in {"ok", "failed"} /\ r \in AskedAbout(t)
  BY DEF RequestsInv, Letter, U!RestoreAnswered, AskedAbout
<1>2. /\ UNCHANGED <<trash, tangled, lost>> /\ asks' = asks \ {r}
      /\ rows' = IF r.stage = "failed" THEN [rows EXCEPT ![t] = 0] ELSE rows
  BY DEF U!RestoreAnswered
<1>3. /\ rows' \in [Tasks -> Nat] /\ \A u \in Tasks : u # t => rows'[u] = rows[u]
      /\ rows'[t] = IF r.stage = "failed" THEN 0 ELSE rows[t]
  BY <1>1, <1>2 DEF RequestsInv
<1>4. /\ \A p \in asks' : Letter(p)
      /\ AskedAbout(t)' = AskedAbout(t) \ {r} /\ \A u : u # t => AskedAbout(u)' = AskedAbout(u)
  BY <1>2 DEF AskedAbout, RequestsInv
<1>5. ASSUME NEW u \in Tasks
      PROVE  Settles(u, AskedAbout(u)', rows'[u], trash', LiveOf(u)', tangled', lost')
  <2>1. CASE u # t
    BY <1>2, <1>3, <1>4, <1>5, <2>1, OthersSettle
  <2>2. CASE u = t
    <3>1. Settles(t, AskedAbout(t), rows[t], trash, LiveOf(t), tangled, lost)
      BY <1>1, <1>2, <1>5, <2>2 DEF RequestsInv
    <3>2. Settles(t, AskedAbout(t) \ {r}, rows'[t], trash, LiveOf(t), tangled, lost)
      BY <1>1, <1>2, <1>3, <1>5, <2>2, <3>1, RestoreOver
    <3> QED BY <1>2, <1>4, <2>2, <3>2
  <2> QED BY <2>1, <2>2
<1> QED BY <1>2, <1>3, <1>4, <1>5 DEF RequestsInv

----------------------------------------------------------------------------
LEMMA UndoInit == U!Init => UndoInv
<1> SUFFICES ASSUME U!Init PROVE UndoInv
  OBVIOUS
<1>1. Among(<<>>) = {} /\ AllDiffer(<<>>) /\ Len(<<>>) = 0 /\ MaxHistory \in Nat
  BY HistoryAssumption DEF Among, AllDiffer
<1>2. HistoryInv /\ \A t : LiveOf(t) = {}
  BY <1>1 DEF U!Init, HistoryInv, LiveOf
<1>3. \A t : AskedAbout(t) = {} /\ Deletes({}) = {} /\ Waits({}) = {}
  BY DEF U!Init, AskedAbout, Deletes, Waits
<1>4. \A t \in Tasks : Settles(t, AskedAbout(t), rows[t], trash, LiveOf(t), tangled, lost)
  BY <1>2, <1>3 DEF U!Init, Settles, Single, RowAgrees, Back
<1>5. RequestsInv
  BY <1>4 DEF U!Init, RequestsInv
<1> QED BY <1>2, <1>5 DEF UndoInv, U!Init, Questions

(* What the user asks for, and is asked.                                   *)
LEMMA AskSteps ==
    ASSUME UndoInv, \/ \E t \in Tasks : U!DeleteTask(t)
                    \/ \E ok \in BOOLEAN : U!Answer(ok)
                    \/ U!DeleteList \/ U!DropNext
    PROVE  UndoInv'
<1>1. UNCHANGED <<toasts, undos, redos, undone, trash, lost>>
  BY DEF U!DeleteTask, U!Answer, U!DeleteList, U!DropNext
<1>2. HistoryInv' /\ \A u : LiveOf(u)' = LiveOf(u)
  BY <1>1, HistoryRests DEF UndoInv
<1>3. Questions'
  BY DEF UndoInv, Questions, U!DeleteTask, U!Answer, U!DeleteList, U!DropNext
<1>4. \/ UNCHANGED <<rows, asks, tangled>>
      \/ \E t \in Tasks, by \in Authors : U!Remove(t, by)
  BY DEF Authors, UndoInv, Questions, U!DeleteTask, U!Answer, U!DeleteList, U!DropNext
<1>5. RequestsInv'
  BY <1>1, <1>2, <1>4, RequestsRest, Removed DEF UndoInv
<1> QED BY <1>2, <1>3, <1>5 DEF UndoInv

(* Undo and redo.                                                          *)
LEMMA RanSteps ==
    ASSUME UndoInv, NEW n \in 1 .. Len(toasts), U!RanAction(n), toasts[n].stage = "shown" \/ n \in Among(undos),
           undos' \in Seq(Nat), Among(undos') \subseteq Among(undos) \ {n}, AllDiffer(undos'),
           Len(undos') <= MaxHistory, UNCHANGED <<trash, asking, dropping, lost>>
    PROVE  UndoInv'
<1>1. HistoryInv' /\ \A u : LiveOf(u)' \subseteq LiveOf(u) \ {n}
  BY Ran DEF UndoInv
<1>2. toasts[n] \in Toasts /\ U!Restore(toasts[n].task)
  BY DEF UndoInv, HistoryInv, U!RanAction
<1>3. toasts[n].task \in Tasks /\ n \in LiveOf(toasts[n].task)
  BY <1>2 DEF LiveOf, Toasts
<1>4. RequestsInv'
  BY <1>1, <1>2, <1>3, Restored DEF UndoInv
<1>5. Questions'
  BY DEF UndoInv, Questions
<1> QED BY <1>1, <1>4, <1>5 DEF UndoInv

LEMMA HistorySteps ==
    ASSUME UndoInv, U!UndoLatest \/ U!RedoLatest \/ \E n \in U!Numbers : U!RunAction(n) \/ U!Expire(n) \/ U!Faded(n)
    PROVE  UndoInv'
<1>1. CASE U!UndoLatest
  <2>1. /\ undos # <<>> /\ undos \in Seq(Nat) /\ AllDiffer(undos) /\ Among(undos) \subseteq 1 .. Len(toasts)
        /\ Len(undos) <= MaxHistory /\ MaxHistory \in Nat
    BY <1>1, HistoryAssumption DEF UndoInv, HistoryInv, U!UndoLatest
  <2>2. /\ U!Last(undos) \in Among(undos) /\ U!Shorter(undos) \in Seq(Nat) /\ AllDiffer(U!Shorter(undos))
        /\ Among(U!Shorter(undos)) \subseteq Among(undos) \ {U!Last(undos)} /\ Len(U!Shorter(undos)) <= MaxHistory
    BY <2>1, ShorterIs
  <2> QED BY <1>1, <2>1, <2>2, RanSteps DEF U!UndoLatest
<1>2. CASE U!RedoLatest
  <2>1. /\ redos # <<>> /\ redos' = U!Shorter(redos) /\ U!Remove(U!Last(redos).task, "history")
        /\ UNCHANGED <<trash, asking, dropping, toasts, undos, undone, lost>>
    BY <1>2 DEF U!RedoLatest
  <2>2. HistoryInv' /\ \A u : LiveOf(u)' = LiveOf(u)
    BY <2>1, HistoryRests DEF UndoInv
  <2>3. U!Last(redos) \in Redone
    BY <2>1 DEF UndoInv, HistoryInv, U!Last
  <2>4. U!Last(redos).task \in Tasks
    BY <2>3 DEF Redone
  <2>5. RequestsInv'
    BY <2>1, <2>2, <2>4, Removed DEF UndoInv, Authors
  <2> QED BY <2>1, <2>2, <2>5 DEF UndoInv, Questions
<1>3. ASSUME NEW n \in U!Numbers, U!RunAction(n) PROVE UndoInv'
  <2>1. /\ n \in 1 .. Len(toasts) /\ toasts[n].stage = "shown" /\ undos' = U!Without(undos, n) /\ U!RanAction(n)
        /\ UNCHANGED <<trash, asking, dropping, lost>>
    BY <1>3 DEF U!Numbers, U!RunAction, U!Consumed
  <2>2. /\ undos \in Seq(Nat) /\ AllDiffer(undos) /\ Len(undos) \in Nat /\ Len(undos) <= MaxHistory
        /\ MaxHistory \in Nat
    BY HistoryAssumption DEF UndoInv, HistoryInv
  <2>3. /\ undos' \in Seq(Nat) /\ Among(undos') = Among(undos) \ {n} /\ AllDiffer(undos')
        /\ Len(undos') <= MaxHistory
    BY <2>1, <2>2, WithoutIs
  <2> QED BY <2>1, <2>3, RanSteps
<1>4. ASSUME NEW n \in U!Numbers, U!Expire(n) \/ U!Faded(n) PROVE UndoInv'
  <2>1. /\ UNCHANGED <<trash, rows, asks, tangled, asking, dropping, lost, undos, redos, undone>>
        /\ n \in 1 .. Len(toasts)
        /\ \E g \in {"leaving", "gone"} : toasts' = [toasts EXCEPT ![n].stage = g]
    BY <1>4 DEF U!Numbers, U!Expire, U!Faded, U!Dismissed
  <2>2. HistoryInv' /\ \A u : LiveOf(u)' \subseteq LiveOf(u)
    BY <2>1, ToastLeaves DEF UndoInv
  <2>3. RequestsInv'
    BY <2>1, <2>2, RequestsRest DEF UndoInv
  <2> QED BY <2>1, <2>2, <2>3 DEF UndoInv, Questions
<1> QED BY <1>1, <1>2, <1>3, <1>4

(* The server, and its answers.                                            *)
LEMMA AnswerSteps ==
    ASSUME UndoInv,
           NEW r \in asks, U!Serve(r) \/ U!Lose(r) \/ U!DeleteAnswered(r) \/ U!RestoreAnswered(r)
    PROVE  UndoInv'
<1>1. CASE U!Serve(r) \/ U!Lose(r) \/ U!RestoreAnswered(r)
  <2>1. UNCHANGED <<toasts, undos, redos, undone, asking, dropping>> /\ lost' \in Nat
    BY <1>1 DEF UndoInv, Questions, U!Serve, U!Lose, U!RestoreAnswered
  <2>2. HistoryInv' /\ \A u : LiveOf(u)' = LiveOf(u)
    BY <2>1, HistoryRests DEF UndoInv
  <2>3. RequestsInv'
    BY <1>1, <2>2, Served, Lost, RestorationAnswered DEF UndoInv, Questions
  <2> QED BY <2>1, <2>2, <2>3 DEF UndoInv, Questions
<1>2. CASE U!DeleteAnswered(r)
  <2>1. r.task \in Tasks
    BY DEF UndoInv, RequestsInv, Letter
  <2>2. /\ HistoryInv' /\ \A u : u # r.task => LiveOf(u)' \subseteq LiveOf(u)
        /\ \/ LiveOf(r.task)' \subseteq LiveOf(r.task)
           \/ r.stage = "ok" /\ LiveOf(r.task)' \subseteq LiveOf(r.task) \union {Len(toasts) + 1}
    <3>1. CASE r.stage = "ok" /\ U!Push(r.task)
      BY <2>1, <3>1, Pushed DEF UndoInv
    <3>2. CASE UNCHANGED <<toasts, undos, redos, undone>>
      BY <3>2, HistoryRests DEF UndoInv
    <3> QED BY <1>2, <3>1, <3>2 DEF U!DeleteAnswered
  <2>3. RequestsInv'
    BY <1>2, <2>2, DeletionAnswered DEF UndoInv
  <2>4. Questions'
    BY <1>2 DEF UndoInv, Questions, U!DeleteAnswered
  <2> QED BY <2>2, <2>3, <2>4 DEF UndoInv
<1> QED BY <1>1, <1>2

LEMMA UndoNext == UndoInv /\ [U!Next]_U!vars => UndoInv'
<1> SUFFICES ASSUME UndoInv, [U!Next]_U!vars PROVE UndoInv'
  OBVIOUS
<1>1. CASE UNCHANGED U!vars
  <2>1. UNCHANGED <<toasts, undos, redos, undone, rows, asks, trash, tangled, asking, dropping, lost>>
    BY <1>1 DEF U!vars
  <2>2. HistoryInv' /\ \A u : LiveOf(u)' = LiveOf(u)
    BY <2>1, HistoryRests DEF UndoInv
  <2>3. RequestsInv'
    BY <2>1, <2>2, RequestsRest DEF UndoInv
  <2> QED BY <2>1, <2>2, <2>3 DEF UndoInv, Questions
<1>2. CASE U!Next
  BY <1>2, AskSteps, HistorySteps, AnswerSteps DEF U!Next
<1> QED BY <1>1, <1>2

(* The rest of the types.                                                  *)
BoundsInv ==
    /\ confirms \in BOOLEAN /\ trash \subseteq Tasks /\ dropped \subseteq Tasks
    /\ asked \in 0 .. MaxDeletes /\ lost \in 0 .. MaxLost

LEMMA BoundsInit == U!Init => BoundsInv
BY HistoryAssumption DEF U!Init, BoundsInv

LEMMA BoundsNext == UndoInv /\ BoundsInv /\ [U!Next]_U!vars => BoundsInv'
<1> SUFFICES ASSUME UndoInv, BoundsInv, [U!Next]_U!vars PROVE BoundsInv'
  OBVIOUS
<1>1. CASE UNCHANGED U!vars
  BY <1>1 DEF U!vars, BoundsInv
<1>2. CASE \/ \E t \in Tasks : U!DeleteTask(t)
           \/ U!DeleteList
  <2>1. asked' = asked + 1 /\ asked < MaxDeletes /\ UNCHANGED <<confirms, trash, dropped, lost>>
    BY <1>2 DEF U!DeleteTask, U!DeleteList
  <2> QED BY <2>1, HistoryAssumption DEF BoundsInv
<1>3. CASE \/ \E ok \in BOOLEAN : U!Answer(ok)
           \/ U!DropNext \/ U!UndoLatest \/ U!RedoLatest
           \/ \E n \in U!Numbers : U!RunAction(n) \/ U!Expire(n) \/ U!Faded(n)
           \/ \E r \in asks : U!DeleteAnswered(r) \/ U!RestoreAnswered(r)
  <2>1. UNCHANGED <<confirms, trash, dropped, asked, lost>>
    BY <1>3 DEF U!Answer, U!DropNext, U!UndoLatest, U!RedoLatest, U!RunAction, U!Expire, U!Faded, U!DeleteAnswered, U!RestoreAnswered
  <2> QED BY <2>1 DEF BoundsInv
<1>4. ASSUME NEW r \in asks, U!Serve(r) PROVE BoundsInv'
  <2>1. r.task \in Tasks
    BY DEF UndoInv, RequestsInv, Letter
  <2>2. /\ trash' \subseteq trash \union {r.task} /\ dropped' \subseteq dropped \union {r.task}
        /\ UNCHANGED <<confirms, asked, lost>>
    BY <1>4 DEF U!Serve
  <2> QED BY <2>1, <2>2 DEF BoundsInv
<1>5. ASSUME NEW r \in asks, U!Lose(r) PROVE BoundsInv'
  <2>1. lost' = lost + 1 /\ lost < MaxLost /\ UNCHANGED <<confirms, trash, dropped, asked>>
    BY <1>5 DEF U!Lose
  <2> QED BY <2>1, HistoryAssumption DEF BoundsInv
<1> QED BY <1>1, <1>2, <1>3, <1>4, <1>5 DEF U!Next

(* What the history promises, and the types of its variables.              *)
LEMMA UndoSound == UndoInv => U!ConsumedOnce /\ U!RedoNeverForks /\ U!ShowsTheRest
<1> SUFFICES ASSUME UndoInv PROVE U!ConsumedOnce /\ U!RedoNeverForks /\ U!ShowsTheRest
  OBVIOUS
<1>1. U!ConsumedOnce
  <2>1. \A n \in 1 .. Len(toasts) : undone[n] \in {0, 1}
    BY DEF UndoInv, HistoryInv
  <2> QED BY <2>1 DEF U!ConsumedOnce, U!Numbers
<1>2. U!RedoNeverForks
  BY DEF UndoInv, HistoryInv, U!RedoNeverForks, Among
<1>3. ASSUME asks = {}, NEW t \in Tasks, ~(t \in tangled /\ lost > 0)
      PROVE  rows[t] = IF t \in trash THEN 0 ELSE 1
  <2>1. Settles(t, AskedAbout(t), rows[t], trash, LiveOf(t), tangled, lost)
    BY <1>3 DEF UndoInv, RequestsInv
  <2>2. Deletes(AskedAbout(t)) = {} /\ Waits(AskedAbout(t)) = {}
    BY <1>3 DEF AskedAbout, Deletes, Waits
  <2>3. RowAgrees(t, AskedAbout(t), rows[t], trash, LiveOf(t), tangled, lost)
    BY <1>3, <2>1 DEF UndoInv, Questions, Settles
  <2> QED BY <2>2, <2>3 DEF RowAgrees, Back
<1> QED BY <1>1, <1>2, <1>3 DEF U!ShowsTheRest

LEMMA UndoTypes == UndoInv /\ BoundsInv => U!TypeOK
<1> SUFFICES ASSUME UndoInv, BoundsInv PROVE U!TypeOK
  OBVIOUS
<1>1. rows \in [Tasks -> 0 .. 1]
  <2>1. rows \in [Tasks -> Nat]
    BY DEF UndoInv, RequestsInv
  <2>2. \A t \in Tasks : rows[t] \in {0, 1}
    BY DEF UndoInv, RequestsInv, Settles, Single
  <2> QED BY <2>1, <2>2
<1>2. \A r \in asks : /\ r.kind \in {"delete", "restore"} /\ r.task \in Tasks
                      /\ r.by \in {"user", "list", "history"}
                      /\ r.stage \in {"sent", "ok", "failed"}
  BY DEF UndoInv, RequestsInv, Letter, Authors
<1>3. \A n \in U!Numbers : toasts[n].task \in Tasks /\ toasts[n].stage \in {"shown", "leaving", "gone"}
  <2> TAKE n \in U!Numbers
  <2>1. toasts[n] \in Toasts
    BY DEF UndoInv, HistoryInv, U!Numbers
  <2> QED BY <2>1 DEF Toasts
<1>4. DOMAIN undone = U!Numbers /\ Len(undos) <= MaxHistory /\ Len(redos) <= MaxHistory
  BY DEF UndoInv, HistoryInv, U!Numbers
<1> QED BY <1>1, <1>2, <1>3, <1>4 DEF U!TypeOK, UndoInv, RequestsInv, Questions, BoundsInv

(* Every scene of the checked model begins in the invariant and stays in   *)
(* it: the histories rest in those they are not about.                     *)
LEMMA SyncUndoInit == SyncInit => UndoInv /\ BoundsInv
BY UndoInit, BoundsInit DEF SyncInit

LEMMA SyncUndoStep ==
    UndoInv /\ BoundsInv /\ [SyncNext]_<<scene, vars, history, board>> => (UndoInv /\ BoundsInv)'
<1> SUFFICES ASSUME UndoInv, BoundsInv, [SyncNext]_<<scene, vars, history, board>>
             PROVE  UndoInv' /\ BoundsInv'
  OBVIOUS
<1>1. U!Next \/ UNCHANGED history
  BY DEF SyncNext
<1>2. [U!Next]_U!vars
  BY <1>1 DEF history, U!vars
<1> QED BY <1>2, UndoNext, BoundsNext

(* Undo and redo are done once each and in order, and what is shown is     *)
(* what is not in the trash, whatever was undone, redone, refused and lost *)
(* in between (notificationStore.svelte.ts:27).                            *)
THEOREM HistoriesSound == SyncSpec => []HistorySound
<1>1. UndoInv => HistorySound
  BY UndoSound DEF HistorySound
<1> QED BY <1>1, SyncUndoInit, SyncUndoStep, PTL DEF SyncSpec

----------------------------------------------------------------------------
(* The keys.                                                               *)
Uppers == {"J", "K", "G", "X"}

(* A key is in the hands of one letter of the keyboard.                    *)
LEMMA OneKeyEach ==
    \A p, q \in B!Pressable :
        p = q \/ (p # q /\ p # B!Shifted(q) /\ B!Shifted(p) # q /\ B!Shifted(p) # B!Shifted(q))
BY DEF B!Pressable, B!Shifted

LEMMA ToLowerIs ==
    \A p \in B!Pressable : B!ToLower(p) = p /\ B!ToLower(B!Shifted(p)) = p
<1> SUFFICES ASSUME NEW p \in B!Pressable, NEW k \in {p, B!Shifted(p)} PROVE B!ToLower(k) = p
  OBVIOUS
<1>1. \A q \in B!Pressable : k \in {q, B!Shifted(q)} <=> q = p
  BY OneKeyEach
<1> QED BY <1>1 DEF B!ToLower

LEMMA UpperIs ==
    /\ \A k \in B!Letters : B!Upper(k) \in Uppers
    /\ \A k \in Uppers : k \in B!Letters /\ B!Upper(B!ToLower(k)) = k
<1>1. /\ B!Shifted("j") = "J" /\ B!Shifted("k") = "K" /\ B!Shifted("g") = "G" /\ B!Shifted("x") = "X"
      /\ B!Shifted("Space") = "Space" /\ B!Shifted("Escape") = "Escape"
      /\ B!Shifted("Shift") = "Shift" /\ B!Shifted("Control") = "Control"
  BY DEF B!Shifted
<1>2. B!Letters = {"j", "k", "g", "x"} \union Uppers
  BY <1>1 DEF B!Letters, B!Keys, B!Pressable, B!Named, Uppers
<1>3. /\ B!ToLower("j") = "j" /\ B!ToLower("k") = "k" /\ B!ToLower("g") = "g" /\ B!ToLower("x") = "x"
      /\ B!ToLower("J") = "j" /\ B!ToLower("K") = "k" /\ B!ToLower("G") = "g" /\ B!ToLower("X") = "x"
  BY <1>1, ToLowerIs DEF B!Pressable
<1> QED BY <1>1, <1>2, <1>3 DEF B!Upper, Uppers

(* Of several actions with the same keys one wins.                         *)
LEMMA WinnerIs ==
    ASSUME NEW S, S \subseteq B!Ids
    PROVE  (B!Winner(S) = "" /\ S = {}) \/ B!Winner(S) \in S
<1> DEFINE I == {i \in 1 .. 7 : B!Order[i] \in S}
           T == {8 - i : i \in I}
<1>1. DOMAIN B!Order = 1 .. 7
  BY DEF B!Order
<1>2. CASE S = {}
  BY <1>2 DEF B!Winner
<1>3. CASE S # {}
  <2>1. I # {} /\ T # {} /\ T \subseteq Nat
    BY <1>1, <1>3 DEF B!Ids
  <2>2. PICK m \in T : \A k \in T : m <= k
    <3> HIDE DEF T
    <3> QED BY <2>1, LeastNumber
  <2>3. PICK i \in I : m = 8 - i
    BY <2>2
  <2>4. ASSUME NEW j \in I PROVE j <= i
    <3>1. m <= 8 - j
      BY <2>2
    <3> QED BY <2>3, <3>1
  <2>5. \E k \in DOMAIN B!Order :
            B!Order[k] \in S /\ \A j \in DOMAIN B!Order : B!Order[j] \in S => j <= k
    BY <1>1, <2>3, <2>4
  <2> QED BY <1>3, <2>5 DEF B!Winner
<1> QED BY <1>2, <1>3

(* The names that are no action.                                           *)
LEMMA NoAction == "" \notin B!Ids /\ "closeModal" \notin B!Ids
<1>1. B!Ids = {"focusNext", "focusPrev", "jumpNextSection", "jumpPrevSection", "toggleComplete",
               "search", "openTrash"}
  <2>1. DOMAIN B!Order = 1 .. 7
    BY DEF B!Order
  <2> QED BY <2>1 DEF B!Ids, B!Order
<1> QED BY <1>1

----------------------------------------------------------------------------
(* The registry: each action has one binding, and one on two keys starts   *)
(* with a "g".                                                             *)
Bound(x) ==
    \/ \E k \in Uppers : x = B!Mod(k)
    \/ \E k \in B!Letters \union B!Named : x = B!Bare(k) \/ x = B!Pair("g", k)

Registry(reg) == \A id \in B!Ids : \E x : reg[id] = {x} /\ Bound(x)

LEMMA DefaultsBound == Registry(B!SHORTCUTS)
<1>1. B!Ids = {"focusNext", "focusPrev", "jumpNextSection", "jumpPrevSection", "toggleComplete",
               "search", "openTrash"}
  <2>1. DOMAIN B!Order = 1 .. 7
    BY DEF B!Order
  <2> QED BY <2>1 DEF B!Ids, B!Order
<1>2. {"j", "k", "J", "K", "x"} \subseteq B!Letters /\ "Space" \in B!Named
  <2>1. \A k \in {"j", "k", "J", "K", "x"} : k \in B!Keys
    BY DEF B!Keys, B!Pressable, B!Shifted
  <2> QED BY <2>1 DEF B!Letters, B!Named
<1>3. ASSUME NEW id \in B!Ids PROVE \E x : B!SHORTCUTS[id] = {x} /\ Bound(x)
  <2>1. CASE id = "focusNext"
    <3>1. B!SHORTCUTS[id] = {B!Bare("j")}
      BY <2>1, <1>3 DEF B!SHORTCUTS
    <3> QED BY <1>2, <3>1 DEF Bound
  <2>2. CASE id = "focusPrev"
    <3>1. B!SHORTCUTS[id] = {B!Bare("k")}
      BY <2>2, <1>3 DEF B!SHORTCUTS
    <3> QED BY <1>2, <3>1 DEF Bound
  <2>3. CASE id = "jumpNextSection"
    <3>1. B!SHORTCUTS[id] = {B!Bare("J")}
      BY <2>3, <1>3 DEF B!SHORTCUTS
    <3> QED BY <1>2, <3>1 DEF Bound
  <2>4. CASE id = "jumpPrevSection"
    <3>1. B!SHORTCUTS[id] = {B!Bare("K")}
      BY <2>4, <1>3 DEF B!SHORTCUTS
    <3> QED BY <1>2, <3>1 DEF Bound
  <2>5. CASE id = "toggleComplete"
    <3>1. B!SHORTCUTS[id] = {B!Bare("Space")}
      BY <2>5, <1>3 DEF B!SHORTCUTS
    <3> QED BY <1>2, <3>1 DEF Bound
  <2>6. CASE id = "search"
    <3>1. B!SHORTCUTS[id] = {B!Mod("K")}
      BY <2>6, <1>3 DEF B!SHORTCUTS
    <3> QED BY <3>1 DEF Bound, Uppers
  <2>7. CASE id = "openTrash"
    <3>1. B!SHORTCUTS[id] = {B!Pair("g", "x")}
      BY <2>7, <1>3 DEF B!SHORTCUTS
    <3> QED BY <1>2, <3>1 DEF Bound
  <2> QED BY <1>1, <2>1, <2>2, <2>3, <2>4, <2>5, <2>6, <2>7
<1> QED BY <1>3 DEF Registry

(* What a binding has, whichever it is.                                    *)
LEMMA BoundIs ==
    ASSUME NEW x, Bound(x)
    PROVE  /\ x.mod \in BOOLEAN /\ Len(x.keys) \in {1, 2}
           /\ Len(x.keys) = 2 => ~x.mod /\ x.keys[1] = "g"
           /\ B!IsValidBinding(x)
<1>1. CASE \E k \in Uppers : x = B!Mod(k)
  BY <1>1, UpperIs DEF B!Mod, B!IsValidBinding
<1>2. CASE \E k \in B!Letters \union B!Named : x = B!Bare(k)
  BY <1>2 DEF B!Bare, B!IsValidBinding
<1>3. CASE \E k \in B!Letters \union B!Named : x = B!Pair("g", k)
  <2>1. "g" \in B!Letters
    BY DEF B!Letters, B!Keys, B!Pressable, B!Named
  <2> QED BY <1>3, <2>1 DEF B!Pair, B!IsValidBinding
<1> QED BY <1>1, <1>2, <1>3 DEF Bound

----------------------------------------------------------------------------
(* The matcher.                                                            *)
LEMMA WinsAlone ==
    ASSUME NEW reg, Registry(reg), NEW x, NEW S,
           \A id : id \in S <=> id \in B!Ids /\ x \in reg[id]
    PROVE  \/ B!Winner(S) = "" /\ \A id \in B!Ids : x \notin reg[id]
           \/ B!Winner(S) \in B!Ids /\ reg[B!Winner(S)] = {x}
<1>1. S \subseteq B!Ids
  OBVIOUS
<1>2. \A id \in S : reg[id] = {x}
  BY DEF Registry
<1>3. (B!Winner(S) = "" /\ S = {}) \/ B!Winner(S) \in S
  BY <1>1, WinnerIs
<1> QED BY <1>1, <1>2, <1>3

(* A key that starts a binding on two keys is a "g".                       *)
LEMMA PrefixIs ==
    ASSUME NEW reg, Registry(reg)
    PROVE  /\ \A k \in B!SequencePrefixes(reg) : k = "g"
           /\ \A id \in B!Ids : \A x \in reg[id] : Len(x.keys) = 2 => "g" \in B!SequencePrefixes(reg)
<1>1. \A id \in B!Ids : \A x \in reg[id] : Len(x.keys) = 2 => x.keys[1] = "g"
  BY BoundIs DEF Registry
<1> QED BY <1>1 DEF B!SequencePrefixes

(* What the matcher makes of a key: an action on two keys only with the    *)
(* first of them waiting; a first key waits only if it is a bare "g".      *)
Fed(reg, armed, e, m) ==
    /\ m.id \in B!Ids \union {""}
    /\ m.prefix = "" \/ (m.prefix = "g" /\ e.key = "g" /\ ~e.mod)
    /\ (m.id \in B!Ids /\ \A x \in reg[m.id] : Len(x.keys) = 2)
       => armed # "" /\ \E x \in reg[m.id] : x.keys[1] = armed

LEMMA FeedIs ==
    ASSUME NEW reg, Registry(reg), NEW armed, NEW e
    PROVE  Fed(reg, armed, e, B!Feed(reg, armed, e))
<1>0. PICK m : m = B!Feed(reg, armed, e)
  OBVIOUS
<1>1. ASSUME e.mod PROVE Fed(reg, armed, e, m)
  <2>1. m = [id |-> B!Modifiers(reg, e), prefix |-> ""]
    BY <1>0, <1>1 DEF B!Feed
  <2>2. m.id = B!Modifiers(reg, e) /\ m.prefix = ""
    BY <2>1
  <2>3. PICK x : x = [mod |-> TRUE, shift |-> e.shift, keys |-> <<B!Upper(e.key)>>]
    OBVIOUS
  <2>4. m.id = "" \/ (m.id \in B!Ids /\ reg[m.id] = {x})
    <3>1. PICK S : S = {id \in B!Ids : x \in reg[id]}
      OBVIOUS
    <3>2. m.id = B!Winner(S)
      BY <2>2, <2>3, <3>1 DEF B!Modifiers
    <3>3. \A id : id \in S <=> id \in B!Ids /\ x \in reg[id]
      BY <3>1
    <3>4. PICK w : w = m.id
      OBVIOUS
    <3>5. w = B!Winner(S)
      BY <3>2, <3>4
    <3>6. w = "" \/ (w \in B!Ids /\ reg[w] = {x})
      BY <3>3, <3>5, WinsAlone
    <3> QED BY <3>4, <3>6
  <2>5. Len(x.keys) = 1
    BY <2>3
  <2>6. ASSUME m.id \in B!Ids PROVE \E y \in reg[m.id] : Len(y.keys) # 2
    <3>1. reg[m.id] = {x}
      BY <2>4, <2>6, NoAction
    <3> QED BY <2>5, <3>1
  <2> QED BY <2>2, <2>4, <2>6 DEF Fed
<1>2. ASSUME ~e.mod /\ armed # "" PROVE Fed(reg, armed, e, m)
  <2>1. m = [id |-> B!Sequences2(reg, armed, B!ToLower(e.key)), prefix |-> ""]
    BY <1>0, <1>2 DEF B!Feed
  <2>2. m.id = B!Sequences2(reg, armed, B!ToLower(e.key)) /\ m.prefix = ""
    BY <2>1
  <2>3. \/ m.id = ""
        \/ m.id \in B!Ids /\ reg[m.id] = {B!Pair(armed, B!ToLower(e.key))}
    <3>1. PICK id : id = B!Sequences2(reg, armed, B!ToLower(e.key))
      OBVIOUS
    <3>2. PICK x : x = B!Pair(armed, B!ToLower(e.key))
      OBVIOUS
    <3>3. PICK S : S = {o \in B!Ids : x \in reg[o]}
      OBVIOUS
    <3>4. id = B!Winner(S)
      BY <3>1, <3>2, <3>3 DEF B!Sequences2
    <3>5. id = "" \/ (id \in B!Ids /\ reg[id] = {x})
      BY <3>3, <3>4, WinsAlone
    <3> QED BY <2>2, <3>1, <3>2, <3>5
  <2>4. m.id \in B!Ids => \E x \in reg[m.id] : x.keys[1] = armed
    <3>1. PICK x : x = B!Pair(armed, B!ToLower(e.key))
      OBVIOUS
    <3>2. x.keys[1] = armed
      BY <3>1 DEF B!Pair
    <3>3. m.id \in B!Ids => reg[m.id] = {x}
      BY <2>3, <3>1, NoAction
    <3> QED BY <3>2, <3>3
  <2> QED BY <1>2, <2>2, <2>3, <2>4 DEF Fed
<1>3. ASSUME ~e.mod /\ armed = "" /\ B!PlainKeys(reg, e.key) # "" PROVE Fed(reg, armed, e, m)
  <2>1. m = [id |-> B!PlainKeys(reg, e.key), prefix |-> ""]
    BY <1>0, <1>3 DEF B!Feed
  <2>2. m.id = B!PlainKeys(reg, e.key) /\ m.prefix = ""
    BY <2>1
  <2>3. m.id \in B!Ids /\ reg[m.id] = {B!Bare(e.key)}
    <3>1. PICK id : id = B!PlainKeys(reg, e.key)
      OBVIOUS
    <3>2. PICK x : x = B!Bare(e.key)
      OBVIOUS
    <3>3. PICK S : S = {o \in B!Ids : x \in reg[o]}
      OBVIOUS
    <3>4. id = B!Winner(S)
      BY <3>1, <3>2, <3>3 DEF B!PlainKeys
    <3>5. id = "" \/ (id \in B!Ids /\ reg[id] = {x})
      BY <3>3, <3>4, WinsAlone
    <3> QED BY <1>3, <2>2, <3>1, <3>2, <3>5
  <2>4. \E x \in reg[m.id] : Len(x.keys) # 2
    BY <2>3 DEF B!Bare
  <2> QED BY <2>2, <2>3, <2>4 DEF Fed
<1>4. ASSUME ~e.mod /\ armed = "" /\ B!PlainKeys(reg, e.key) = "" /\ e.key \in B!SequencePrefixes(reg) PROVE Fed(reg, armed, e, m)
  <2>1. m = [id |-> "", prefix |-> e.key] /\ e.key = "g"
    BY <1>0, <1>4, PrefixIs DEF B!Feed
  <2>2. m.id = "" /\ m.prefix = "g"
    BY <2>1
  <2> QED BY <1>4, <2>1, <2>2, NoAction DEF Fed
<1>5. ASSUME ~e.mod /\ armed = "" /\ B!PlainKeys(reg, e.key) = "" /\ e.key \notin B!SequencePrefixes(reg) PROVE Fed(reg, armed, e, m)
  <2>1. m = [id |-> "", prefix |-> ""]
    BY <1>0, <1>5 DEF B!Feed
  <2>2. m.id = "" /\ m.prefix = ""
    BY <2>1
  <2> QED BY <2>2, NoAction DEF Fed
<1>6. Fed(reg, armed, e, m)
  BY <1>1, <1>2, <1>3, <1>4, <1>5
<1> QED BY <1>0, <1>6

----------------------------------------------------------------------------
(* A key in conflict with none runs its action.                            *)
LEMMA BoundFires ==
    ASSUME NEW reg, reg = B!ApplyShortcutOverrides, Registry(reg), NEW id \in B!Ids, NEW x \in reg[id],
           B!BindingConflicts(reg, id) = {},
           Len(x.keys) = 2 => B!ToLower(x.keys[2]) = x.keys[2]
    PROVE  B!Fires(id, x)
<1>1. reg[id] = {x} /\ Bound(x)
  BY DEF Registry
<1>2. \A o \in B!Ids : o # id => x \notin reg[o]
  BY <1>1 DEF B!BindingConflicts
<1>c. PICK S : S = {o \in B!Ids : x \in reg[o]}
  OBVIOUS
<1>3. B!Winner(S) = id
  <2>1. /\ \A o : o \in S <=> o \in B!Ids /\ x \in reg[o]
        /\ id \in B!Ids /\ x \in reg[id]
    BY <1>1, <1>c
  <2>2. B!Winner(S) \in B!Ids /\ reg[B!Winner(S)] = {x}
    BY <2>1, WinsAlone
  <2> QED BY <1>2, <2>2
<1>4. CASE \E k \in Uppers : x = B!Mod(k)
  <2>1. PICK k \in Uppers : x = B!Mod(k)
    BY <1>4
  <2>2. x.keys[1] = k /\ Len(x.keys) = 1 /\ x.mod = TRUE /\ x.shift = FALSE
    BY <2>1 DEF B!Mod
  <2>3. PICK e : e = [key |-> B!ToLower(k), mod |-> TRUE, shift |-> FALSE]
    OBVIOUS
  <2>4. e.key = B!ToLower(k) /\ e.mod = TRUE /\ e.shift = FALSE
    BY <2>3
  <2>5. PICK w : w = B!Modifiers(reg, e)
    OBVIOUS
  <2>6. x = [mod |-> TRUE, shift |-> e.shift, keys |-> <<B!Upper(e.key)>>]
    BY <2>1, <2>4, UpperIs DEF B!Mod
  <2>7. w = id
    <3>1. w = B!Winner(S)
      BY <1>c, <2>5, <2>6 DEF B!Modifiers
    <3> QED BY <1>3, <3>1
  <2>8. PICK m : m = B!Feed(reg, "", e)
    OBVIOUS
  <2>9. m = [id |-> w, prefix |-> ""]
    BY <2>4, <2>5, <2>8 DEF B!Feed
  <2>10. m.id = id
    BY <2>7, <2>9
  <2>11. e = B!Pressed(x.keys[1], x)
    BY <2>2, <2>3 DEF B!Pressed
  <2> QED BY <2>2, <2>8, <2>10, <2>11 DEF B!Fires
<1>5. CASE \E k \in B!Letters \union B!Named : x = B!Bare(k)
  <2>1. PICK k : x = B!Bare(k)
    BY <1>5
  <2>2. x.keys[1] = k /\ Len(x.keys) = 1 /\ x.mod = FALSE /\ x.shift = FALSE
    BY <2>1 DEF B!Bare
  <2>3. PICK e : e = [key |-> k, mod |-> FALSE, shift |-> FALSE]
    OBVIOUS
  <2>4. e.key = k /\ e.mod = FALSE /\ e.shift = FALSE
    BY <2>3
  <2>5. PICK w : w = B!PlainKeys(reg, k)
    OBVIOUS
  <2>7. w = id
    <3>1. w = B!Winner(S)
      BY <1>c, <2>1, <2>5 DEF B!PlainKeys
    <3> QED BY <1>3, <3>1
  <2>8. PICK m : m = B!Feed(reg, "", e)
    OBVIOUS
  <2>9. m = [id |-> w, prefix |-> ""]
    BY <2>4, <2>5, <2>7, <2>8, NoAction DEF B!Feed
  <2>10. m.id = id
    BY <2>7, <2>9
  <2>11. e = B!Pressed(x.keys[1], x)
    BY <2>2, <2>3 DEF B!Pressed
  <2> QED BY <2>2, <2>8, <2>10, <2>11 DEF B!Fires
<1>6. CASE \E k \in B!Letters \union B!Named : x = B!Pair("g", k)
  <2>1. PICK k : x = B!Pair("g", k)
    BY <1>6
  <2>2. /\ x.keys[1] = "g" /\ x.keys[2] = k /\ Len(x.keys) = 2 /\ x.mod = FALSE /\ x.shift = FALSE
        /\ B!ToLower(k) = k
    BY <2>1 DEF B!Pair
  <2>3. PICK e : e = [key |-> "g", mod |-> FALSE, shift |-> FALSE]
    OBVIOUS
  <2>4. PICK d : d = [key |-> k, mod |-> FALSE, shift |-> FALSE]
    OBVIOUS
  <2>5. e.key = "g" /\ e.mod = FALSE /\ d.key = k /\ d.mod = FALSE
    BY <2>3, <2>4
  <2>6. PICK v : v = B!PlainKeys(reg, "g")
    OBVIOUS
  <2>7. v = ""
    <3>2. PICK y : y = B!Bare("g")
      OBVIOUS
    <3>1. v = "" \/ (v \in B!Ids /\ reg[v] = {y})
      <4>1. PICK T : T = {o \in B!Ids : y \in reg[o]}
        OBVIOUS
      <4>2. \A o : o \in T <=> o \in B!Ids /\ y \in reg[o]
        BY <4>1
      <4>3. v = B!Winner(T)
        BY <2>6, <3>2, <4>1 DEF B!PlainKeys
      <4> QED BY <4>2, <4>3, WinsAlone
    <3>3. y.keys[1] = "g" /\ Len(y.keys) = 1 /\ y.mod = FALSE
      BY <3>2 DEF B!Bare
    <3>4. \A o \in B!Ids : reg[o] # {y}
      <4>1. reg[id] # {y}
        BY <1>1, <2>2, <3>3
      <4>2. \A o \in B!Ids : o # id => y \notin reg[o]
        <5>1. ASSUME NEW o \in B!Ids, o # id, y \in reg[o] PROVE o \in B!BindingConflicts(reg, id)
          <6>1. x.mod = y.mod /\ x.keys[1] = y.keys[1] /\ Len(x.keys) # Len(y.keys)
            <7>1. x.mod = y.mod
              BY <2>2, <3>3
            <7>2. x.keys[1] = y.keys[1]
              BY <2>2, <3>3, Zenon
            <7>3. Len(x.keys) # Len(y.keys)
              BY <2>2, <3>3
            <7> QED BY <7>1, <7>2, <7>3
          <6> QED BY <5>1, <6>1, Zenon DEF B!BindingConflicts
        <5> QED BY <5>1
      <4> QED BY <4>1, <4>2
    <3> QED BY <3>1, <3>2, <3>4
  <2>8. "g" \in B!SequencePrefixes(reg)
    BY <2>2, PrefixIs
  <2>9. PICK m : m = B!Feed(reg, "", e)
    OBVIOUS
  <2>10. m = [id |-> "", prefix |-> "g"]
    BY <2>5, <2>6, <2>7, <2>8, <2>9 DEF B!Feed
  <2>11. PICK w : w = B!Sequences2(reg, "g", k)
    OBVIOUS
  <2>12. w = id
    <3>1. w = B!Winner(S)
      BY <1>c, <2>1, <2>11 DEF B!Sequences2
    <3> QED BY <1>3, <3>1
  <2>13. PICK n : n = B!Feed(reg, "g", d)
    OBVIOUS
  <2>14. n = [id |-> w, prefix |-> ""]
    BY <2>2, <2>5, <2>11, <2>13 DEF B!Feed
  <2>15. n.id = id /\ m.prefix = "g"
    BY <2>10, <2>12, <2>14
  <2>16. e = B!Pressed(x.keys[1], x) /\ d = B!Pressed(x.keys[2], x)
    BY <2>2, <2>3, <2>4 DEF B!Pressed
  <2>17. B!Feed(reg, B!Feed(reg, "", e).prefix, d) = n
    BY <2>9, <2>13, <2>15
  <2>18. B!Feed(reg, B!Feed(reg, "", e).prefix, d).id = id
    BY <2>15, <2>17
  <2>19. Len(x.keys) # 1
    BY <2>2
  <2> QED BY <2>16, <2>18, <2>19, Zenon DEF B!Fires
<1> QED BY <1>1, <1>4, <1>5, <1>6 DEF Bound

----------------------------------------------------------------------------
(* Remapping keeps the registry one.                                       *)
Overridden ==
    /\ overrides = [id \in Remapped |-> overrides[id]]
    /\ \A id \in Remapped : overrides[id] = {} \/ \E x : overrides[id] = {x} /\ Bound(x)

LEMMA RegistryIs ==
    ASSUME Overridden
    PROVE  Registry(B!ApplyShortcutOverrides)
<1> SUFFICES ASSUME NEW id \in B!Ids
             PROVE  \E x : B!ApplyShortcutOverrides[id] = {x} /\ Bound(x)
  BY DEF Registry
<1>1. B!ApplyShortcutOverrides[id] =
          IF id \in Remapped /\ overrides[id] # {} THEN overrides[id] ELSE B!SHORTCUTS[id]
  BY DEF B!ApplyShortcutOverrides
<1>2. \E x : B!SHORTCUTS[id] = {x} /\ Bound(x)
  BY DefaultsBound DEF Registry
<1> QED BY <1>1, <1>2 DEF Overridden

LEMMA Joined ==
    ASSUME NEW g, NEW k
    PROVE  <<g>> \o <<k>> = <<g, k>>
<1>1. <<g>> \in Seq({g, k}) /\ <<k>> \in Seq({g, k}) /\ Len(<<g>>) = 1 /\ Len(<<k>>) = 1
  OBVIOUS
<1>2. PICK c : c = <<g>> \o <<k>>
  OBVIOUS
<1>3. c \in Seq({g, k}) /\ Len(c) = 2 /\ c[1] = g /\ c[2] = k
  BY <1>1, <1>2
<1>4. <<g, k>> \in Seq({g, k}) /\ Len(<<g, k>>) = 2 /\ <<g, k>>[1] = g /\ <<g, k>>[2] = k
  OBVIOUS
<1>5. c = <<g, k>>
  BY <1>3, <1>4, SeqEqual
<1> QED BY <1>2, <1>5

(* What is captured and accepted is a binding.                             *)
LEMMA CapturedBound ==
    ASSUME NEW e, e.key \in B!Keys, e.mod \in BOOLEAN, e.shift \in BOOLEAN
    PROVE  /\ B!IsValidBinding(B!CaptureToken(e)) => Bound(B!CaptureToken(e))
           /\ B!IsValidBinding([B!CaptureToken(e) EXCEPT !.keys = <<"g">> \o @])
              => Bound([B!CaptureToken(e) EXCEPT !.keys = <<"g">> \o @])
<1>1. PICK s : s \in BOOLEAN /\ s = (e.mod /\ e.shift)
  OBVIOUS
<1>2. PICK k : k = IF e.mod /\ e.key \in B!Letters THEN B!Upper(e.key) ELSE e.key
  OBVIOUS
<1>3. PICK x : x = [mod |-> e.mod, shift |-> s, keys |-> <<k>>]
  OBVIOUS
<1>4. B!CaptureToken(e) = x
  BY <1>1, <1>2, <1>3 DEF B!CaptureToken
<1>g. PICK g : g = "g"
  OBVIOUS
<1>5. PICK y : y = [mod |-> e.mod, shift |-> s, keys |-> <<g, k>>]
  OBVIOUS
<1>6. [x EXCEPT !.keys = <<"g">> \o @] = y
  <2>1. <<g>> \o <<k>> = <<g, k>>
    BY Joined
  <2>2. [x EXCEPT !.keys = <<g>> \o @] = y
    BY <1>3, <1>5, <2>1
  <2> QED BY <1>g, <2>2, Zenon
<1>7. /\ x.mod = e.mod /\ x.shift = s /\ Len(x.keys) = 1 /\ x.keys[1] = k /\ DOMAIN x.keys = {1}
      /\ y.mod = e.mod /\ Len(y.keys) = 2 /\ y.keys[2] = k /\ DOMAIN y.keys = {1, 2}
  BY <1>3, <1>5
<1>8. ASSUME B!IsValidBinding(x) PROVE Bound(x)
  <2>1. CASE e.mod
    <3>1. k \in B!Letters /\ s = FALSE
      BY <1>7, <1>8, <2>1 DEF B!IsValidBinding
    <3>2. k \in Uppers
      BY <1>2, <2>1, <3>1, UpperIs
    <3> QED BY <1>3, <2>1, <3>1, <3>2 DEF Bound, B!Mod
  <2>2. CASE ~e.mod
    <3>1. k \in B!Letters \union B!Named /\ s = FALSE
      BY <1>1, <1>7, <1>8, <2>2 DEF B!IsValidBinding
    <3> QED BY <1>3, <2>2, <3>1 DEF Bound, B!Bare
  <2> QED BY <2>1, <2>2
<1>9. ASSUME B!IsValidBinding(y) PROVE Bound(y)
  <2>1. ~e.mod
    BY <1>7, <1>9 DEF B!IsValidBinding
  <2>2. k \in B!Letters \union B!Named /\ s = FALSE
    BY <1>1, <1>7, <1>9, <2>1 DEF B!IsValidBinding
  <2>3. y = B!Pair("g", k)
    BY <1>g, <1>5, <2>1, <2>2 DEF B!Pair
  <2> QED BY <2>2, <2>3 DEF Bound
<1> QED BY <1>4, <1>6, <1>8, <1>9

(* The rows of the sections in order are the tasks of the sections.        *)
LEMMA VisibleIs ==
    ASSUME NEW T, NEW s \in Seq(Seq(T))
    PROVE  B!Visible(s) \in Seq(T) /\ B!Range(B!Visible(s)) = B!InSections(s)
<1> DEFINE G(f) == [i \in 0 .. Len(s) |-> IF i = 0 THEN <<>> ELSE f[i - 1] \o s[i]]
           E == Seq(T)
           g == [i \in 1 .. Len(s) |-> [x \in E |-> x \o s[i]]]
<1>1. Len(s) \in Nat /\ g \in [1 .. Len(s) -> [E -> E]] /\ <<>> \in E
  <2>1. \A x, y \in E : x \o y \in E
    OBVIOUS
  <2>2. \A i \in 1 .. Len(s) : s[i] \in E
    OBVIOUS
  <2> HIDE DEF E
  <2>3. \A i \in 1 .. Len(s) : \A x \in E : x \o s[i] \in E
    BY <2>1, <2>2
  <2>4. <<>> \in E
    BY DEF E
  <2> QED BY <2>3, <2>4
<1>2. PICK h : Solves(h, Len(s), E, <<>>, g)
  <2> HIDE DEF g, E
  <2> QED BY <1>1, RecursionExists
<1>3. h \in [0 .. Len(s) -> E] /\ h[0] = <<>> /\ \A i \in 1 .. Len(s) : h[i] = g[i][h[i - 1]]
  <2> HIDE DEF g, E
  <2> QED BY <1>2 DEF Solves
<1>4. \A i \in 1 .. Len(s) : i - 1 \in 0 .. Len(s) /\ h[i - 1] \in E
  <2> HIDE DEF g, E
  <2>1. \A i \in 1 .. Len(s) : i - 1 \in 0 .. Len(s)
    BY <1>1
  <2> QED BY <1>3, <2>1
<1>5. \A i \in 1 .. Len(s) : h[i] = h[i - 1] \o s[i]
  <2> TAKE i \in 1 .. Len(s)
  <2>1. g[i] = [x \in E |-> x \o s[i]]
    OBVIOUS
  <2> HIDE DEF g
  <2> QED BY <1>3, <1>4, <2>1
<1>6. h = G(h)
  <2> HIDE DEF g, E
  <2>1. \A i \in 0 .. Len(s) : i = 0 \/ i \in 1 .. Len(s)
    BY <1>1
  <2>2. \A i \in 0 .. Len(s) : h[i] = G(h)[i]
    BY <1>3, <1>5, <2>1
  <2>3. DOMAIN h = 0 .. Len(s) /\ h = [i \in 0 .. Len(s) |-> h[i]]
    BY <1>3
  <2> QED BY <2>2, <2>3
<1>7. PICK f : f = G(f) /\ f = CHOOSE f1 : f1 = G(f1)
  <2> HIDE DEF G
  <2> QED BY <1>6
<1>8. B!Visible(s) = f[Len(s)]
  BY <1>7 DEF B!Visible
<1>9. \A i \in 0 .. Len(s) : f[i] = IF i = 0 THEN <<>> ELSE f[i - 1] \o s[i]
  BY <1>7
<1> HIDE DEF g, G, E
<1>10. f[0] = <<>> /\ \A i \in 1 .. Len(s) : f[i] = f[i - 1] \o s[i]
  <2>1. \A i \in 1 .. Len(s) : i \in 0 .. Len(s) /\ i # 0
    BY <1>1
  <2>2. 0 \in 0 .. Len(s)
    BY <1>1
  <2> QED BY <1>9, <2>1, <2>2
<1> DEFINE Before(i) == UNION { B!Range(s[j]) : j \in 1 .. i }
           Kept(i) == f[i] \in Seq(T) /\ B!Range(f[i]) = Before(i)
           S == { i \in 0 .. Len(s) : Kept(i) }
<1>11. 0 \in S
  <2>1. B!Range(<<>>) = {} /\ <<>> \in Seq(T) /\ Before(0) = {}
    BY DEF B!Range
  <2> HIDE DEF Before
  <2>2. Kept(0)
    BY <1>10, <2>1
  <2> HIDE DEF Kept
  <2> QED BY <1>1, <2>2
<1>12. ASSUME NEW i \in 0 .. Len(s), i < Len(s), i \in S PROVE i + 1 \in S
  <2>1. /\ i + 1 \in 1 .. Len(s) /\ i + 1 \in 0 .. Len(s) /\ (i + 1) - 1 = i /\ s[i + 1] \in Seq(T)
        /\ Kept(i)
    BY <1>1, <1>12
  <2>2. f[i + 1] = f[i] \o s[i + 1]
    <3> HIDE DEF S, Before
    <3> QED BY <1>10, <2>1
  <2>3. Before(i + 1) = Before(i) \union B!Range(s[i + 1])
    <3>1. 1 .. i + 1 = (1 .. i) \union {i + 1}
      BY <1>1
    <3> QED BY <3>1
  <2> HIDE DEF Before
  <2>4. Kept(i + 1)
    <3>1. PICK p, q : p = f[i] /\ q = s[i + 1]
      OBVIOUS
    <3>2. p \in Seq(T) /\ q \in Seq(T) /\ B!Range(p) = Before(i)
      BY <2>1, <3>1
    <3>3. p \o q \in Seq(T) /\ B!Range(p \o q) = B!Range(p) \union B!Range(q)
      <4>1. \A x : x \in B!Range(p) => x \in B!Range(p \o q)
        BY <3>2 DEF B!Range
      <4>2. \A x : x \in B!Range(q) => x \in B!Range(p \o q)
        <5> SUFFICES ASSUME NEW j \in 1 .. Len(q) PROVE q[j] \in B!Range(p \o q)
          BY <3>2, SMTT(30) DEF B!Range
        <5>1. Len(p) + j \in 1 .. Len(p \o q) /\ (p \o q)[Len(p) + j] = q[j]
          BY <3>2
        <5>2. DOMAIN (p \o q) = 1 .. Len(p \o q)
          BY <3>2
        <5> QED BY <5>1, <5>2 DEF B!Range
      <4>3. \A x : x \in B!Range(p \o q) => x \in B!Range(p) \union B!Range(q)
        <5> SUFFICES ASSUME NEW j \in 1 .. Len(p \o q)
                     PROVE  (p \o q)[j] \in B!Range(p) \union B!Range(q)
          BY <3>2 DEF B!Range
        <5>1. CASE j \in 1 .. Len(p)
          BY <3>2, <5>1 DEF B!Range
        <5>2. CASE j \notin 1 .. Len(p)
          <6>1. j - Len(p) \in 1 .. Len(q) /\ (p \o q)[j] = q[j - Len(p)]
            BY <3>2, <5>2
          <6> QED BY <3>2, <6>1 DEF B!Range
        <5> QED BY <5>1, <5>2
      <4> QED BY <3>2, <4>1, <4>2, <4>3
    <3> QED BY <2>2, <2>3, <3>1, <3>2, <3>3
  <2> HIDE DEF Kept
  <2> QED BY <2>1, <2>4
<1>13. Kept(Len(s))
  <2>1. \A i \in 0 .. Len(s) : i \in S
    <3> HIDE DEF S
    <3> QED BY <1>1, <1>11, <1>12, BoundedInduction
  <2>2. Len(s) \in 0 .. Len(s)
    BY <1>1
  <2> HIDE DEF Kept
  <2> QED BY <2>1, <2>2
<1>14. B!InSections(s) = Before(Len(s))
  <2>1. DOMAIN s = 1 .. Len(s)
    OBVIOUS
  <2> QED BY <2>1, Zenon DEF B!InSections
<1> QED BY <1>8, <1>13, <1>14

LEMMA ClampIs ==
    ASSUME NEW n \in Int, NEW size \in Nat, size # 0
    PROVE  B!Clamp(n, size) \in 1 .. size
BY DEF B!Clamp

(* A move of the focus ends on a task on screen, if there is one.          *)
LEMMA MoveFocusIs ==
    ASSUME NEW T, days \in Seq(Seq(T)), someday \in Seq(Seq(T)), NEW delta \in {1, -1}, B!Shown # {}
    PROVE  B!MoveFocus(delta) \in B!Shown
<1>1. PICK d : d = B!Visible(days)
  OBVIOUS
<1>2. PICK m : m = B!Visible(someday)
  OBVIOUS
<1>3. d \in Seq(T) /\ B!Range(d) = B!InSections(days) /\ m \in Seq(T) /\ B!Range(m) = B!InSections(someday)
  BY <1>1, <1>2, VisibleIs
<1>4. PICK list : list = IF B!InSomeday \/ d = <<>> THEN m ELSE d
  OBVIOUS
<1>5. list \in Seq(T) /\ B!Range(list) \subseteq B!Shown
  BY <1>3, <1>4 DEF B!Shown
<1>6. list # <<>>
  <2>1. CASE B!InSomeday
    <3>1. focused \in B!Range(m)
      BY <1>3, <2>1 DEF B!InSomeday
    <3> QED BY <1>4, <2>1, <3>1 DEF B!Range
  <2>2. CASE ~B!InSomeday /\ d = <<>>
    <3>1. B!Range(d) = {}
      BY <2>2 DEF B!Range
    <3>2. B!Range(m) # {}
      BY <1>3, <3>1 DEF B!Shown
    <3> QED BY <1>4, <2>2, <3>2 DEF B!Range
  <2> QED BY <1>4, <2>1, <2>2
<1>7. Len(list) \in Nat /\ Len(list) # 0 /\ DOMAIN list = 1 .. Len(list)
  BY <1>5, <1>6
<1>8. \A i \in 1 .. Len(list) : list[i] \in B!Shown
  BY <1>5, <1>7 DEF B!Range
<1>9. PICK at : at = B!Place(list, focused)
  OBVIOUS
<1>10. at = 0 \/ at \in DOMAIN list
  BY <1>9 DEF B!Place
<1>11. at \in Int
  BY <1>7, <1>10
<1>12. /\ B!Clamp(at + delta, Len(list)) \in 1 .. Len(list)
       /\ 1 \in 1 .. Len(list) /\ Len(list) \in 1 .. Len(list)
  <2>1. PICK n : n = at + delta
    OBVIOUS
  <2>2. PICK z : z = Len(list)
    OBVIOUS
  <2>3. n \in Int /\ z \in Nat /\ z # 0
    BY <1>7, <1>11, <2>1, <2>2
  <2>4. B!Clamp(n, z) \in 1 .. z
    BY <2>3, ClampIs
  <2> QED BY <2>1, <2>2, <2>3, <2>4
<1>13. B!MoveFocus(delta) = IF at = 0 THEN (IF delta > 0 THEN list[1] ELSE list[Len(list)])
                            ELSE list[B!Clamp(at + delta, Len(list))]
  BY <1>1, <1>2, <1>4, <1>6, <1>9 DEF B!MoveFocus
<1> QED BY <1>8, <1>12, <1>13

(***************************************************************************)
(* The invariant of the page.                                              *)
(***************************************************************************)
KeysHeld ==
    /\ Overridden
    /\ prefix \in {"", "g"} /\ (prefix # "" => prefix = last) /\ last \in {"", "g"}
    /\ modifiers \subseteq {"Shift", "Control"}
    /\ capturing \in Remapped \union {""} /\ chord \in {"", "g"}
    /\ capturing # "" => modal = "settings"
    /\ fired \in B!Ids \union {"", "closeModal"}

PageShown ==
    /\ \E s \in Sections : days = s[1] /\ someday = s[2]
    /\ target \in {"page", "add", "button"} \union B!AllTasks
    /\ modal \in {"", "search", "trash", "settings"}
    /\ questions \in Nat /\ confirm \in 0 .. questions /\ waiting = {confirm} \ {0}

KeysInv == KeysHeld /\ PageShown

LEMMA KeysInit == B!Init => KeysInv
<1> SUFFICES ASSUME B!Init PROVE KeysInv
  OBVIOUS
<1>1. Overridden
  BY DEF B!Init, Overridden
<1>2. KeysHeld
  BY <1>1 DEF B!Init, KeysHeld
<1>3. \E s \in Sections : days = s[1] /\ someday = s[2]
  BY DEF B!Init
<1>4. waiting = {} /\ target = "page" /\ modal = ""
  BY DEF B!Init
<1>z. questions = 0 /\ confirm = 0
  BY DEF B!Init
<1>5. questions \in Nat /\ confirm \in 0 .. questions /\ waiting = {confirm} \ {0}
  <2>1. questions \in Nat /\ confirm \in 0 .. questions
    BY <1>z
  <2>2. {0} \ {0} = {}
    OBVIOUS
  <2> QED BY <1>4, <1>z, <2>1, <2>2, Zenon
<1>6. PageShown
  BY <1>3, <1>4, <1>5 DEF PageShown
<1> QED BY <1>2, <1>6 DEF KeysInv

LEMMA KeysSound == KeysInv => B!TypeOK /\ B!QuestionsSettled /\ B!LowerKeysFire
<1> SUFFICES ASSUME KeysInv PROVE B!TypeOK /\ B!QuestionsSettled /\ B!LowerKeysFire
  OBVIOUS
<1>1. B!QuestionsSettled
  BY DEF B!QuestionsSettled, KeysInv, PageShown
<1>2. B!LowerKeysFire
  <2> SUFFICES ASSUME NEW id \in B!Ids, B!BindingConflicts(B!ApplyShortcutOverrides, id) = {},
                      NEW x \in B!ApplyShortcutOverrides[id],
                      Len(x.keys) = 2 => B!ToLower(x.keys[2]) = x.keys[2]
               PROVE  B!Fires(id, x)
    BY DEF B!LowerKeysFire
  <2>1. PICK reg : reg = B!ApplyShortcutOverrides
    OBVIOUS
  <2>2. Registry(reg)
    BY <2>1, RegistryIs DEF KeysInv, KeysHeld
  <2>3. B!BindingConflicts(reg, id) = {} /\ x \in reg[id]
    BY <2>1
  <2> QED BY <2>1, <2>2, <2>3, BoundFires
<1>3. ASSUME NEW id \in Remapped, NEW x \in overrides[id] PROVE B!IsValidBinding(x)
  <2>1. Bound(x)
    BY <1>3 DEF KeysInv, KeysHeld, Overridden
  <2> QED BY <2>1, BoundIs
<1>4. "g" \in B!Keys
  BY DEF B!Keys, B!Pressable
<1>5. waiting \subseteq 1 .. questions
  <2>1. questions \in Nat /\ confirm \in 0 .. questions /\ waiting = {confirm} \ {0}
    BY DEF KeysInv, PageShown
  <2>2. \A n \in waiting : n = confirm /\ n # 0
    BY <2>1
  <2> QED BY <2>1, <2>2
<1>6. B!TypeOK
  BY <1>3, <1>4, <1>5 DEF B!TypeOK, KeysInv, KeysHeld, PageShown
<1> QED BY <1>1, <1>2, <1>6

(* What is on screen is among all tasks.                                   *)
LEMMA ShownAmongAll ==
    ASSUME \E s \in Sections : days = s[1] /\ someday = s[2]
    PROVE  B!Shown \subseteq B!AllTasks
BY DEF B!Shown, B!AllTasks

(* A move of the focus.                                                    *)
LEMMA MovesOnScreen ==
    ASSUME PageShown, NEW delta \in {1, -1}, B!Shown # {}
    PROVE  B!MoveFocus(delta) \in B!Shown
<1>1. days \in Seq(Seq(STRING)) /\ someday \in Seq(Seq(STRING))
  BY BoardAssumption DEF PageShown
<1> QED BY <1>1, MoveFocusIs

(* What an action does when it runs.                                       *)
LEMMA RunIs ==
    ASSUME PageShown, NEW id \in B!Ids \union {""}, B!Run(id)
    PROVE  fired' = id /\ PageShown' /\ modal' \in {modal, "search", "trash"} /\ B!FocusStep
<1>1. PageShown'
  BY DEF B!Run, PageShown
<1>2. fired' = id /\ modal' \in {modal, "search", "trash"}
  BY DEF B!Run
<1>3. B!FocusStep
  <2> SUFFICES ASSUME fired' \in {"focusNext", "focusPrev"}, B!Shown # {} PROVE focused' \in B!Shown
    BY DEF B!FocusStep
  <2>1. CASE id = "focusNext"
    <3>1. focused' = B!MoveFocus(1)
      BY <2>1 DEF B!Run
    <3> QED BY <3>1, MovesOnScreen
  <2>2. CASE id = "focusPrev"
    <3>1. focused' = B!MoveFocus(-1)
      BY <2>2 DEF B!Run
    <3> QED BY <3>1, MovesOnScreen
  <2> QED BY <1>2, <2>1, <2>2
<1> QED BY <1>1, <1>2, <1>3

(* A step that runs no action moves no focus and breaks no sequence.       *)
LEMMA NothingRan ==
    ASSUME fired' \in {"", "closeModal"}
    PROVE  B!SequenceStep /\ B!FocusStep
BY NoAction DEF B!SequenceStep, B!FocusStep

(* A key as it is typed, and what becomes of it.                           *)
Typed(e) == /\ e.key \in B!Keys /\ e.mod \in BOOLEAN /\ e.shift \in BOOLEAN
            /\ modifiers' \subseteq {"Shift", "Control"}

OnPage(e) == /\ capturing = "" /\ B!HandleGlobalKeydown(e)
             /\ last' = IF e.key = "g" /\ ~(e.mod \/ B!Overlay \/ B!Typing) THEN "g" ELSE ""

InRow(e) == /\ capturing # "" /\ B!HandleCaptureKeydown(e)
            /\ last' = IF B!SameKeys THEN last ELSE ""

LEMMA GlobalKey ==
    ASSUME KeysInv, NEW e, Typed(e), OnPage(e)
    PROVE  KeysInv' /\ B!SequenceStep /\ B!FocusStep
<1>0. e.mod \in BOOLEAN /\ modifiers' \subseteq {"Shift", "Control"} /\ B!HandleGlobalKeydown(e)
  BY DEF Typed, OnPage
<1> DEFINE Kept == /\ prefix' \in {"", "g"} /\ (prefix' # "" => prefix' = last')
                   /\ fired' \in B!Ids \union {"", "closeModal"} /\ PageShown'
                   /\ B!SequenceStep /\ B!FocusStep
<1>1. UNCHANGED <<overrides, capturing, chord>>
  BY <1>0 DEF B!HandleGlobalKeydown
<1>2. ASSUME prefix' = "", B!Run("") PROVE Kept
  BY <1>2, RunIs, NothingRan DEF KeysInv
<1>r. PICK reg : reg = B!ApplyShortcutOverrides
  OBVIOUS
<1>s. Registry(reg)
  BY <1>r, RegistryIs DEF KeysInv, KeysHeld
<1>3. ASSUME e.key = "Escape" PROVE Kept
  <2>1. B!Escape
    BY <1>0, <1>3 DEF B!HandleGlobalKeydown
  <2>2. prefix' = "" /\ fired' = "closeModal" /\ PageShown'
    BY <2>1 DEF B!Escape, KeysInv, PageShown
  <2> QED BY <2>2, NothingRan
<1>4. ASSUME e.key # "Escape" /\ B!Overlay PROVE Kept
  <2>1. B!UnderOverlay
    BY <1>0, <1>4 DEF B!HandleGlobalKeydown
  <2> QED BY <1>2, <2>1 DEF B!UnderOverlay, B!Cancelled, B!Idle
<1>5. ASSUME e.key # "Escape" /\ ~B!Overlay /\ e.mod PROVE Kept
  <2>1. B!ModifierChord(e)
    BY <1>0, <1>5 DEF B!HandleGlobalKeydown
  <2>2. PICK none : none = ""
    OBVIOUS
  <2>a. PICK m : m = B!Feed(reg, none, e)
    OBVIOUS
  <2>b. Fed(reg, none, e, m)
    BY <1>s, <2>a, FeedIs
  <2>3. PICK id : id = m.id
    OBVIOUS
  <2>4. /\ id \in B!Ids \union {""}
        /\ ~(id \in B!Ids /\ \A x \in reg[id] : Len(x.keys) = 2)
    BY <2>2, <2>3, <2>b DEF Fed
  <2>5. prefix' = "" /\ (B!Run("") \/ B!Run(id))
    BY <1>r, <2>1, <2>2, <2>3, <2>a DEF B!ModifierChord
  <2>6. ASSUME B!Run(id) PROVE Kept
    <3>1. fired' = id /\ PageShown' /\ B!FocusStep
      BY <2>4, <2>6, RunIs DEF KeysInv
    <3>2. B!SequenceStep
      BY <1>r, <2>4, <3>1 DEF B!SequenceStep
    <3> QED BY <2>4, <2>5, <3>1, <3>2
  <2> QED BY <1>2, <2>5, <2>6
<1>6. ASSUME e.key # "Escape" /\ ~B!Overlay /\ ~e.mod PROVE Kept
  <2>1. ((B!Typing \/ B!NativeActivationWins(e)) /\ B!Cancelled) \/ (~B!Typing /\ B!Dispatch(e))
    BY <1>0, <1>6 DEF B!HandleGlobalKeydown
  <2>2. ASSUME B!Dispatch(e), ~B!Typing PROVE Kept
    <3>1. PICK armed : armed = prefix
      OBVIOUS
    <3>2. PICK m : m = B!Feed(reg, armed, e)
      OBVIOUS
    <3>a. prefix' = m.prefix /\ B!Run(m.id)
      BY <1>r, <2>2, <3>1, <3>2 DEF B!Dispatch
    <3>b. Fed(reg, armed, e, m)
      BY <1>s, <3>2, FeedIs
    <3>3. m.id \in B!Ids \union {""} /\ (m.prefix = "" \/ (m.prefix = "g" /\ e.key = "g" /\ ~e.mod))
      BY <3>b DEF Fed
    <3>4. prefix' \in {"", "g"} /\ (prefix' # "" => prefix' = last')
      BY <1>6, <2>2, <3>a, <3>3 DEF OnPage
    <3>5. fired' = m.id /\ PageShown' /\ B!FocusStep
      BY <3>a, <3>3, RunIs DEF KeysInv
    <3>6. B!SequenceStep
      BY <1>r, <3>1, <3>b, <3>5 DEF Fed, B!SequenceStep, KeysInv, KeysHeld
    <3> QED BY <3>3, <3>4, <3>5, <3>6
  <2> QED BY <1>2, <2>1, <2>2 DEF B!Cancelled, B!Idle
<1>7. Kept
  <2> HIDE DEF Kept
  <2> QED BY <1>3, <1>4, <1>5, <1>6
<1>8. KeysHeld'
  BY <1>0, <1>1, <1>7 DEF OnPage, KeysInv, KeysHeld, Overridden
<1> QED BY <1>7, <1>8 DEF KeysInv

(* A key while a row of the settings listens.                              *)
LEMMA CaptureKey ==
    ASSUME KeysInv, NEW e, Typed(e), InRow(e)
    PROVE  KeysInv' /\ B!SequenceStep /\ B!FocusStep
<1>0. /\ e.key \in B!Keys /\ e.mod \in BOOLEAN /\ e.shift \in BOOLEAN
      /\ capturing # "" /\ B!HandleCaptureKeydown(e)
      /\ modifiers' \subseteq {"Shift", "Control"}
  BY DEF Typed, InRow
<1>1. fired' = "" /\ B!Refreshed /\ UNCHANGED <<target, modal, confirm, focused, days, someday, questions, waiting>>
  BY <1>0 DEF B!HandleCaptureKeydown, B!ui
<1>2. PageShown'
  BY <1>1 DEF KeysInv, PageShown
<1>3. prefix' \in {"", "g"} /\ (prefix' # "" => prefix' = last') /\ last' \in {"", "g"}
  BY <1>1 DEF InRow, B!Refreshed, KeysInv, KeysHeld
<1>4. capturing \in Remapped
  BY <1>0 DEF KeysInv, KeysHeld
<1>5. ASSUME NEW x, B!IsValidBinding(x) => Bound(x), B!CommitBinding(capturing, x)
      PROVE  Overridden' /\ capturing' = "" /\ chord' = ""
  <2>1. capturing' = "" /\ chord' = ""
    BY <1>5 DEF B!CommitBinding
  <2>2. overrides' = overrides \/ (Bound(x) /\ overrides' = [overrides EXCEPT ![capturing] = {x}])
    BY <1>5 DEF B!CommitBinding
  <2>3. Overridden'
    BY <1>4, <2>2 DEF KeysInv, KeysHeld, Overridden
  <2> QED BY <2>1, <2>3
<1>6. Overridden' /\ capturing' \in {"", capturing} /\ chord' \in {"", "g"}
  <2>1. CASE e.key = "Escape"
    BY <1>0, <2>1 DEF B!HandleCaptureKeydown, KeysInv, KeysHeld, Overridden
  <2>2. CASE e.key # "Escape" /\ chord # ""
    <3>1. PICK x : x = [B!CaptureToken(e) EXCEPT !.keys = <<"g">> \o @]
      OBVIOUS
    <3>2. chord = "g"
      BY <2>2 DEF KeysInv, KeysHeld
    <3>3. B!CommitBinding(capturing, [B!CaptureToken(e) EXCEPT !.keys = <<chord>> \o @])
      BY <1>0, <2>2, Zenon DEF B!HandleCaptureKeydown
    <3>4. [B!CaptureToken(e) EXCEPT !.keys = <<chord>> \o @] = x
      BY <3>1, <3>2, Zenon
    <3>5. B!CommitBinding(capturing, x)
      BY <3>3, <3>4, Zenon
    <3>6. B!IsValidBinding(x) => Bound(x)
      BY <3>1, <1>0, CapturedBound, Zenon
    <3> QED BY <1>5, <3>5, <3>6
  <2>3. CASE e.key = "g" /\ ~e.mod /\ chord = ""
    BY <1>0, <2>3 DEF B!HandleCaptureKeydown, KeysInv, KeysHeld, Overridden
  <2>4. CASE e.key # "Escape" /\ chord = "" /\ ~(e.key = "g" /\ ~e.mod)
    <3>1. PICK x : x = B!CaptureToken(e)
      OBVIOUS
    <3>2. B!CommitBinding(capturing, x)
      BY <1>0, <2>4, <3>1 DEF B!HandleCaptureKeydown
    <3>3. B!IsValidBinding(x) => Bound(x)
      BY <3>1, <1>0, CapturedBound, Zenon
    <3> QED BY <1>5, <3>2, <3>3
  <2> QED BY <2>1, <2>2, <2>3, <2>4
<1>7. KeysHeld'
  BY <1>0, <1>1, <1>3, <1>6 DEF KeysInv, KeysHeld
<1> QED BY <1>1, <1>2, <1>7, NothingRan DEF KeysInv

(* A keystroke, with what it is.                                           *)
LEMMA KeyPressed ==
    ASSUME KeysInv, NEW p \in B!Pressable, B!Press(p)
    PROVE  KeysInv' /\ B!SequenceStep /\ B!FocusStep
<1>1. PICK e : e = B!Event(p)
  OBVIOUS
<1>2. Typed(e)
  <2>1. e.key \in B!Keys /\ e.mod \in BOOLEAN /\ e.shift \in BOOLEAN
    BY <1>1 DEF B!Event, B!Keys
  <2>2. modifiers' \subseteq {"Shift", "Control"}
    BY DEF B!Press, KeysInv, KeysHeld
  <2> QED BY <2>1, <2>2 DEF Typed
<1>3. InRow(e) \/ OnPage(e)
  BY <1>1 DEF B!Press, InRow, OnPage
<1> QED BY <1>2, <1>3, GlobalKey, CaptureKey

(* What leaves the page alone.                                             *)
LEMMA PageRests ==
    ASSUME PageShown, UNCHANGED B!ui
    PROVE  PageShown'
BY DEF PageShown, B!ui

(* The rows of the settings, a key let go, a prefix that expires.          *)
LEMMA QuietSteps ==
    ASSUME KeysInv,
           \/ \E p \in B!Pressable : B!Release(p)
           \/ B!Expire
           \/ \E id \in Remapped : B!StartCapture(id) \/ B!ResetShortcut(id)
    PROVE  KeysInv' /\ B!SequenceStep /\ B!FocusStep
<1>1. fired' = "" /\ UNCHANGED B!ui
  BY DEF B!Release, B!Expire, B!StartCapture, B!ResetShortcut
<1>2. PageShown' /\ B!SequenceStep /\ B!FocusStep
  BY <1>1, PageRests, NothingRan DEF KeysInv
<1>3. modal' = modal
  BY <1>1 DEF B!ui
<1>4. CASE \E p \in B!Pressable : B!Release(p)
  <2>1. modifiers' \subseteq modifiers /\ UNCHANGED <<overrides, prefix, capturing, chord, last>>
    BY <1>4 DEF B!Release
  <2>2. KeysHeld'
    BY <1>1, <1>3, <2>1 DEF KeysInv, KeysHeld, Overridden
  <2> QED BY <1>2, <2>2 DEF KeysInv
<1>5. CASE B!Expire
  <2>1. prefix' = "" /\ last' = "" /\ UNCHANGED <<overrides, modifiers, capturing, chord>>
    BY <1>5 DEF B!Expire
  <2>2. KeysHeld'
    BY <1>1, <1>3, <2>1 DEF KeysInv, KeysHeld, Overridden
  <2> QED BY <1>2, <2>2 DEF KeysInv
<1>6. CASE \E id \in Remapped : B!StartCapture(id)
  <2>1. PICK id \in Remapped : B!StartCapture(id)
    BY <1>6
  <2>2. /\ capturing' = id /\ chord' = "" /\ modal = "settings"
        /\ UNCHANGED <<overrides, prefix, modifiers, last>>
    BY <2>1 DEF B!StartCapture
  <2>3. KeysHeld'
    BY <1>1, <1>3, <2>2 DEF KeysInv, KeysHeld, Overridden
  <2> QED BY <1>2, <2>3 DEF KeysInv
<1>7. CASE \E id \in Remapped : B!ResetShortcut(id)
  <2>1. PICK id \in Remapped : B!ResetShortcut(id)
    BY <1>7
  <2>2. /\ overrides' = [overrides EXCEPT ![id] = {}] /\ UNCHANGED <<modifiers, capturing, chord>>
        /\ prefix' = IF B!SameKeys THEN prefix ELSE ""
        /\ last' = IF B!SameKeys THEN last ELSE ""
    BY <2>1 DEF B!ResetShortcut, B!Refreshed
  <2>3. Overridden'
    BY <2>2 DEF KeysInv, KeysHeld, Overridden
  <2>4. KeysHeld'
    BY <1>1, <1>3, <2>2, <2>3 DEF KeysInv, KeysHeld
  <2> QED BY <1>2, <2>4 DEF KeysInv
<1> QED BY <1>4, <1>5, <1>6, <1>7

(* With the mouse: the keys rest.                                          *)
LEMMA MouseKeys ==
    ASSUME KeysInv, B!Mouse, chord' \in {"", chord}, modal' \in {modal, "", "settings", "trash"},
           capturing' = "" \/ (capturing' = capturing /\ modal' = modal)
    PROVE  KeysHeld' /\ B!SequenceStep /\ B!FocusStep
<1>1. fired' = "" /\ UNCHANGED <<overrides, prefix, modifiers, last>>
  BY DEF B!Mouse
<1>2. KeysHeld'
  BY <1>1 DEF KeysInv, KeysHeld, Overridden
<1> QED BY <1>1, <1>2, NothingRan

LEMMA MouseSteps ==
    ASSUME KeysInv,
           \/ \E t \in {"page", "add", "button"} \union B!Shown : B!FocusMoves(t)
           \/ \E s \in Sections : B!ListsChange(s)
           \/ \E m \in {"settings", "trash"} : B!OpenModal(m)
           \/ B!CloseModal \/ B!Confirm \/ B!ResolveConfirm
    PROVE  KeysInv' /\ B!SequenceStep /\ B!FocusStep
<1>0. ASSUME B!NotInSettings PROVE B!Mouse /\ modal = "" /\ capturing = "" /\ capturing' = capturing /\ chord' = chord
  BY <1>0 DEF B!NotInSettings, B!Overlay, KeysInv, KeysHeld
<1>1. ASSUME NEW t \in {"page", "add", "button"} \union B!Shown, B!FocusMoves(t)
      PROVE  KeysInv' /\ B!SequenceStep /\ B!FocusStep
  <2>1. t \in {"page", "add", "button"} \union B!AllTasks
    BY ShownAmongAll DEF KeysInv, PageShown
  <2>2. /\ B!NotInSettings /\ target' = t
        /\ UNCHANGED <<modal, confirm, days, someday, questions, waiting>>
    BY <1>1 DEF B!FocusMoves
  <2>3. PageShown'
    BY <2>1, <2>2 DEF KeysInv, PageShown
  <2>4. KeysHeld' /\ B!SequenceStep /\ B!FocusStep
    BY <1>0, <2>2, MouseKeys
  <2> QED BY <2>3, <2>4 DEF KeysInv
<1>2. ASSUME NEW s \in Sections, B!ListsChange(s)
      PROVE  KeysInv' /\ B!SequenceStep /\ B!FocusStep
  <2>1. /\ B!NotInSettings /\ days' = s[1] /\ someday' = s[2] /\ target' \in {target, "page"}
        /\ UNCHANGED <<modal, confirm, questions, waiting>>
    BY <1>2 DEF B!ListsChange
  <2>2. PageShown'
    BY <2>1 DEF KeysInv, PageShown
  <2>3. KeysHeld' /\ B!SequenceStep /\ B!FocusStep
    BY <1>0, <2>1, MouseKeys
  <2> QED BY <2>2, <2>3 DEF KeysInv
<1>3. ASSUME NEW m \in {"settings", "trash"}, B!OpenModal(m)
      PROVE  KeysInv' /\ B!SequenceStep /\ B!FocusStep
  <2>1. /\ B!NotInSettings /\ modal' = m /\ target' = "button"
        /\ UNCHANGED <<confirm, days, someday, questions, waiting>>
    BY <1>3 DEF B!OpenModal
  <2>2. PageShown'
    BY <2>1 DEF KeysInv, PageShown
  <2>3. KeysHeld' /\ B!SequenceStep /\ B!FocusStep
    BY <1>0, <2>1, MouseKeys
  <2> QED BY <2>2, <2>3 DEF KeysInv
<1>4. ASSUME B!CloseModal PROVE KeysInv' /\ B!SequenceStep /\ B!FocusStep
  <2>1. /\ B!Mouse /\ modal' = "" /\ capturing' = "" /\ chord' = ""
        /\ UNCHANGED <<target, confirm, days, someday, questions, waiting>>
    BY <1>4 DEF B!CloseModal
  <2>2. PageShown'
    BY <2>1 DEF KeysInv, PageShown
  <2>3. KeysHeld' /\ B!SequenceStep /\ B!FocusStep
    BY <2>1, MouseKeys
  <2> QED BY <2>2, <2>3 DEF KeysInv
<1>5. ASSUME B!Confirm PROVE KeysInv' /\ B!SequenceStep /\ B!FocusStep
  <2>1. /\ B!Mouse /\ questions' = questions + 1 /\ confirm' = questions + 1
        /\ waiting' = (waiting \ {confirm}) \union {questions + 1}
        /\ UNCHANGED <<target, modal, capturing, chord, days, someday>>
    BY <1>5 DEF B!Confirm, B!Superseded
  <2>2. questions' \in Nat /\ confirm' \in 0 .. questions' /\ confirm' # 0
    <3>1. questions \in Nat
      BY DEF KeysInv, PageShown
    <3>2. questions' = questions + 1 /\ confirm' = questions + 1
      BY <2>1
    <3> QED BY <3>1, <3>2
  <2>3. waiting' = {confirm'} \ {0}
    BY <2>1, <2>2 DEF KeysInv, PageShown
  <2>4. PageShown'
    BY <2>1, <2>2, <2>3 DEF KeysInv, PageShown
  <2>5. KeysHeld' /\ B!SequenceStep /\ B!FocusStep
    BY <2>1, MouseKeys
  <2> QED BY <2>4, <2>5 DEF KeysInv
<1>6. ASSUME B!ResolveConfirm PROVE KeysInv' /\ B!SequenceStep /\ B!FocusStep
  <2>1. /\ B!Mouse /\ waiting' = waiting \ {confirm} /\ confirm' = 0
        /\ UNCHANGED <<target, modal, capturing, chord, days, someday, questions>>
    BY <1>6 DEF B!ResolveConfirm
  <2>2. waiting' = {confirm'} \ {0} /\ confirm' \in 0 .. questions'
    <3>1. waiting = {confirm} \ {0} /\ questions \in Nat
      BY DEF KeysInv, PageShown
    <3>2. confirm' = 0 /\ questions' = questions
      BY <2>1
    <3>3. waiting' = {confirm'} \ {0}
      BY <2>1, <3>1
    <3> QED BY <3>1, <3>2, <3>3
  <2>3. PageShown'
    BY <2>1, <2>2 DEF KeysInv, PageShown
  <2>4. KeysHeld' /\ B!SequenceStep /\ B!FocusStep
    BY <2>1, MouseKeys
  <2> QED BY <2>3, <2>4 DEF KeysInv
<1> QED BY <1>1, <1>2, <1>3, <1>4, <1>5, <1>6

LEMMA KeysNext == KeysInv /\ B!Next => KeysInv' /\ B!SequenceStep /\ B!FocusStep
<1> SUFFICES ASSUME KeysInv, B!Next PROVE KeysInv' /\ B!SequenceStep /\ B!FocusStep
  OBVIOUS
<1>1. CASE \E p \in B!Pressable : B!Press(p)
  BY <1>1, KeyPressed
<1>2. CASE \/ \E p \in B!Pressable : B!Release(p)
           \/ B!Expire
           \/ \E id \in Remapped : B!StartCapture(id) \/ B!ResetShortcut(id)
  BY <1>2, QuietSteps
<1>3. CASE \/ \E t \in {"page", "add", "button"} \union B!Shown : B!FocusMoves(t)
           \/ \E s \in Sections : B!ListsChange(s)
           \/ \E m \in {"settings", "trash"} : B!OpenModal(m)
           \/ B!CloseModal \/ B!Confirm \/ B!ResolveConfirm
  BY <1>3, MouseSteps
<1> QED BY <1>1, <1>2, <1>3 DEF B!Next

LEMMA KeysRest == KeysInv /\ UNCHANGED board => KeysInv'
<1> SUFFICES ASSUME KeysInv, UNCHANGED board PROVE KeysInv'
  OBVIOUS
<1>1. KeysHeld'
  BY DEF board, KeysInv, KeysHeld, Overridden
<1>2. PageShown'
  BY DEF board, KeysInv, PageShown
<1> QED BY <1>1, <1>2 DEF KeysInv

LEMMA SceneKeysInit == SyncInit => KeysInv
BY KeysInit DEF SyncInit

LEMMA SceneKeysStep ==
    KeysInv /\ [SyncNext]_<<scene, vars, history, board>>
    => KeysInv' /\ [B!SequenceStep /\ B!FocusStep]_board
<1> SUFFICES ASSUME KeysInv, [SyncNext]_<<scene, vars, history, board>>
             PROVE  KeysInv' /\ [B!SequenceStep /\ B!FocusStep]_board
  OBVIOUS
<1>1. B!Next \/ UNCHANGED board
  BY DEF SyncNext
<1> QED BY <1>1, KeysNext, KeysRest

(* Keys and questions: a binding on two keys never runs but right after    *)
(* its first key (keyboard.ts:38), one in conflict with no other can fire  *)
(* (keyboard.ts:5; but for a second key in upper case), j and k end on a   *)
(* task on screen, and of all questions asked the one on screen alone has  *)
(* no answer yet; whatever is pressed, clicked and remapped in between.    *)
THEOREM KeysBehave == SyncSpec => KeysSettled
<1>1. KeysInv => B!QuestionsSettled /\ B!LowerKeysFire
  BY KeysSound
<1> QED BY <1>1, SceneKeysInit, SceneKeysStep, PTL DEF SyncSpec, KeysSettled

(* In the scenes of the watching tab, of the histories and of the keys     *)
(* every variable keeps its type; no task is ever shown twice              *)
(* (taskStore.svelte.ts).                                                  *)
THEOREM SceneTypes == SyncSpec => []SyncTypeOK
<1>1. WatchScene /\ UndoInv /\ BoundsInv /\ KeysInv => SyncTypeOK
  BY UndoTypes, KeysSound DEF WatchScene, SyncTypeOK, TypeInv
<1> QED BY <1>1, SceneInit, SceneStep, SyncUndoInit, SyncUndoStep, SceneKeysInit, SceneKeysStep,
           PTL DEF SyncSpec
=============================================================================
