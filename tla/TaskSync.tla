------------------------------ MODULE TaskSync ------------------------------
(***************************************************************************)
(* Several tabs, one server: the task store of the client                  *)
(* (packages/client/src/lib/stores/taskStore.svelte.ts) over its two       *)
(* channels, HTTP requests that are answered in any order and a WebSocket  *)
(* that delivers in order but may be cut, and the routes of the server     *)
(* that change a task, answer and publish an event (routes/taskRoutes.ts,  *)
(* EventBus.ts, WebSocketManager.ts, BunWebSocketServer.ts).               *)
(*                                                                         *)
(* A row is its id and one value for its contents; value 1 is a completed  *)
(* task.  bun:sqlite is synchronous, so a route's statement, its event and *)
(* its answer are one step.  Definitions marked as a slip are not part of  *)
(* the model: each is a bug its neighbour might have.                      *)
(***************************************************************************)
EXTENDS Naturals, Sequences, FiniteSets

CONSTANTS
    Clients,     \* browser tabs
    Writers,     \* those whose user edits; the others only watch
    Latecomers,  \* those whose page may still load while others edit
    Courteous,   \* no user touches a row that something is under way for
    Parent,      \* the parent of each task, 0 if it has none
    MaxTask,     \* bound: task ids are 1 .. MaxTask
    MaxWrites,   \* bound: edits
    MaxRetags,   \* bound: tag operations
    MaxFaults,   \* bound: requests that fail
    LoseAnswers, \* whether an answer can be lost too, after the request worked
    MaxCuts      \* bound: broken connections

Tasks  == 1 .. MaxTask
Values == {0, 1}

ASSUME ParentAssumption == Parent \in [Tasks -> Tasks \union {0}]
ASSUME TabsAssumption   ==
    IsFiniteSet(Clients) /\ Writers \subseteq Clients /\ Latecomers \subseteq Clients
ASSUME SyncAssumption ==
    /\ MaxTask \in Nat \ {0} /\ MaxWrites \in Nat /\ MaxRetags \in Nat
    /\ MaxFaults \in Nat /\ MaxCuts \in Nat
    /\ Courteous \in BOOLEAN /\ LoseAnswers \in BOOLEAN

VARIABLES
    (* the server *)
    table,    \* the tasks table
    conn,     \* the client id of each live socket, 0 if there is none
    (* the network *)
    wire,     \* messages on the way to each client
    reqs,     \* requests under way and answers on their way back
    fetch,    \* the GET /api/tasks of each client and its answer
    (* the client *)
    store,    \* taskStore.tasks
    open,     \* the browser believes its socket is open
    me,       \* websocketService's client id, 0 before the first ack
    header,   \* the X-Client-ID of its requests, 0 for none
    undo,     \* rows an Undo may bring back
    (* counters *)
    ids,      \* client ids handed out
    writes, retags, faults, cuts

server  == <<table, conn>>
client  == <<store, open, me, header, undo>>
counts  == <<ids, writes, retags, faults, cuts>>
vars    == <<table, conn, wire, reqs, fetch, client, counts>>

NoRow    == [id |-> 0, val |-> 0]
Rows     == [id: Tasks, val: Values]
States   == {"none", "live", "trash"}
ConnIds  == 0 .. Cardinality(Clients) + MaxCuts
Messages == [kind: {"ack", "created", "updated", "deleted", "restored", "retagged"},
             row: Rows \union {NoRow}, origin: ConnIds]
Requests == [n: 1 .. MaxWrites, by: Clients,
             kind: {"create", "update", "delete", "restore", "untrash"},
             stage: {"sent", "ok", "failed"}, origin: ConnIds,
             row: Rows \union [id: {0}, val: Values],  \* what is asked, then answered
             prev: Rows \union {NoRow}]                \* the row before the edit

TypeOK ==
    /\ table \in [Tasks -> [state: States, val: Values]]
    /\ conn \in [Clients -> ConnIds]
    /\ wire \in [Clients -> Seq(Messages)]
    /\ reqs \subseteq Requests
    /\ fetch \in [Clients -> [stage: {"none", "sent", "ok"}, rows: Seq(Rows)]]
    /\ store \in [Clients -> Seq(Rows)]
    /\ open \in [Clients -> BOOLEAN]
    /\ me \in [Clients -> ConnIds] /\ header \in [Clients -> ConnIds]
    /\ undo \in [Clients -> SUBSET Rows]
    /\ ids \in ConnIds
    /\ writes \in 0 .. MaxWrites /\ retags \in 0 .. MaxRetags
    /\ faults \in 0 .. MaxFaults /\ cuts \in 0 .. MaxCuts

----------------------------------------------------------------------------
(* The rows of a store.                                                    *)

Row(t, v)   == [id |-> t, val |-> v]
Has(s, t)   == \E i \in DOMAIN s : s[i].id = t
Find(s, t)  == s[CHOOSE i \in DOMAIN s : /\ s[i].id = t
                                         /\ \A j \in 1 .. i - 1 : s[j].id # t]
Without(s, t)   ==
    LET f[i \in 0 .. Len(s)] ==
            IF i = 0 THEN <<>>
            ELSE IF s[i].id = t THEN f[i - 1] ELSE Append(f[i - 1], s[i])
    IN  f[Len(s)]
Replaced(s, r)  == [i \in DOMAIN s |-> IF s[i].id = r.id THEN r ELSE s[i]]
Upserted(s, r)  == IF Has(s, r.id) THEN Replaced(s, r) ELSE Append(s, r)

(* What GET /api/tasks answers.                                            *)
LiveRows(tab) ==
    LET f[t \in 0 .. MaxTask] ==
            IF t = 0 THEN <<>>
            ELSE IF tab[t].state = "live" THEN Append(f[t - 1], Row(t, tab[t].val))
            ELSE f[t - 1]
    IN  f[MaxTask]

Rowset(s)      == { s[i] : i \in DOMAIN s }
Distinct(s)    == \A i, j \in DOMAIN s : s[i].id = s[j].id => i = j
Shows(s, tab)  == Distinct(s) /\ Rowset(s) = Rowset(LiveRows(tab))

----------------------------------------------------------------------------
(* Sockets.  A client id names one connection and is never used again.     *)

Init ==
    /\ table = [t \in Tasks |-> [state |-> IF t = 1 THEN "live" ELSE "none", val |-> 0]]
    /\ conn = [c \in Clients |-> 0]
    /\ wire = [c \in Clients |-> <<>>]
    /\ reqs = {}
    /\ fetch = [c \in Clients |-> [stage |-> "sent", rows |-> <<>>]]
    /\ store = [c \in Clients |-> <<>>]
    /\ open = [c \in Clients |-> FALSE]
    /\ me = [c \in Clients |-> 0] /\ header = [c \in Clients |-> 0]
    /\ undo = [c \in Clients |-> {}]
    /\ ids = 0 /\ writes = 0 /\ retags = 0 /\ faults = 0 /\ cuts = 0

(* The server registers the socket and greets it with its client id.       *)
Connect(c) ==
    /\ ~open[c]
    /\ open' = [open EXCEPT ![c] = TRUE]
    /\ ids' = ids + 1
    /\ conn' = [conn EXCEPT ![c] = ids + 1]
    /\ wire' = [wire EXCEPT ![c] =
                   <<[kind |-> "ack", row |-> NoRow, origin |-> ids + 1]>>]
    /\ UNCHANGED <<table, reqs, fetch, store, me, header, undo,
                   writes, retags, faults, cuts>>

(* The connection breaks: what is on the wire is lost ...                  *)
Cut(c) ==
    /\ conn[c] # 0 /\ cuts < MaxCuts
    /\ cuts' = cuts + 1
    /\ conn' = [conn EXCEPT ![c] = 0]
    /\ wire' = [wire EXCEPT ![c] = <<>>]
    /\ UNCHANGED <<table, reqs, fetch, client, ids, writes, retags, faults>>

(* ... which the browser notices later: requests go out without an id from *)
(* then on, but the filter keeps the old one until the next ack.  Nothing  *)
(* is fetched again, then or on the reconnect.                             *)
NoticeClose(c) ==
    /\ open[c] /\ conn[c] = 0
    /\ open' = [open EXCEPT ![c] = FALSE]
    /\ header' = [header EXCEPT ![c] = 0]
    /\ UNCHANGED <<server, wire, reqs, fetch, store, me, undo, counts>>

(* Slip: whoever has no id in the request is taken for the originator.     *)
BroadcastTagged(kind, row, origin) ==
    IF origin = 0 THEN wire
    ELSE [c \in Clients |->
            IF conn[c] # 0 /\ conn[c] # origin
            THEN Append(wire[c], [kind |-> kind, row |-> row, origin |-> origin])
            ELSE wire[c]]

(* broadcast(): to every live socket but the originator's.                 *)
Broadcast(kind, row, origin) ==
    [c \in Clients |->
        IF conn[c] # 0 /\ conn[c] # origin
        THEN Append(wire[c], [kind |-> kind, row |-> row, origin |-> origin])
        ELSE wire[c]]

----------------------------------------------------------------------------
(* Messages at the client.                                                 *)

(* The event handlers of the store.                                        *)
Applied(s, m) ==
    CASE m.kind \in {"created", "restored"} -> Upserted(s, m.row)
      [] m.kind = "updated"                 -> Replaced(s, m.row)
      [] m.kind = "deleted"                 -> Without(s, m.row.id)
      [] OTHER                              -> s

(* fetchAll() while one is under way joins it.                             *)
FetchAll(f) == IF f.stage = "none" THEN [stage |-> "sent", rows |-> <<>>] ELSE f

Deliver(c) ==
    /\ wire[c] # <<>>
    /\ wire' = [wire EXCEPT ![c] = Tail(@)]
    /\ LET m == Head(wire[c])
       IN  IF m.kind = "ack"
           THEN /\ me' = [me EXCEPT ![c] = m.origin]
                /\ header' = [header EXCEPT ![c] = m.origin]
                /\ UNCHANGED <<store, fetch>>
           ELSE /\ IF m.origin # 0 /\ m.origin = me[c]
                   THEN UNCHANGED <<store, fetch>>
                   ELSE /\ store' = [store EXCEPT ![c] = Applied(@, m)]
                        /\ fetch' = IF m.kind = "retagged"
                                    THEN [fetch EXCEPT ![c] = FetchAll(@)]
                                    ELSE fetch
                /\ UNCHANGED <<me, header>>
    /\ UNCHANGED <<server, reqs, open, undo, counts>>

(* GET /api/tasks reads the table; its answer replaces the store.          *)
ServeFetch(c) ==
    /\ fetch[c].stage = "sent"
    /\ fetch' = [fetch EXCEPT ![c] = [stage |-> "ok", rows |-> LiveRows(table)]]
    /\ UNCHANGED <<server, wire, reqs, client, counts>>

FetchArrives(c) ==
    /\ fetch[c].stage = "ok"
    /\ store' = [store EXCEPT ![c] = fetch[c].rows]
    /\ fetch' = [fetch EXCEPT ![c] = [stage |-> "none", rows |-> <<>>]]
    /\ UNCHANGED <<server, wire, reqs, open, me, header, undo, counts>>

(* A failed fetch leaves the store as it was, and nobody asks again.       *)
FetchFails(c) ==
    /\ fetch[c].stage # "none" /\ LoseAnswers /\ faults < MaxFaults
    /\ faults' = faults + 1
    /\ fetch' = [fetch EXCEPT ![c] = [stage |-> "none", rows |-> <<>>]]
    /\ UNCHANGED <<server, wire, reqs, client, ids, writes, retags, cuts>>

----------------------------------------------------------------------------
(* What the user does.                                                     *)

Loaded(c) == me[c] # 0 /\ me[c] = conn[c] /\ fetch[c].stage = "none"

(* Nothing is under way for row t, nor for all rows at once.               *)
Settled(t) ==
    /\ \A c \in Clients : Loaded(c)
    /\ \A r \in reqs : r.row.id # t
    /\ \A c \in Clients : \A i \in DOMAIN wire[c] :
          wire[c][i].row.id # t /\ wire[c][i].kind # "retagged"

(* All but the latecomers have loaded their page when the edits begin.     *)
PagesOpen ==
    \A w \in Clients \ Latecomers :
        me[w] # 0 /\ (writes = 0 /\ retags = 0 => fetch[w].stage = "none")

MayEdit(c, t) ==
    /\ writes < MaxWrites /\ PagesOpen
    /\ Courteous => Settled(t)

Send(c, kind, row, prev) ==
    /\ writes' = writes + 1
    /\ reqs' = reqs \union {[n |-> writes + 1, by |-> c, kind |-> kind, stage |-> "sent",
                             origin |-> header[c], row |-> row, prev |-> prev]}
    /\ UNCHANGED <<table, conn, wire, fetch, open, me, header, ids, retags, faults, cuts>>

(* create() waits for the server to name the row.                          *)
Create(c, v) ==
    /\ MayEdit(c, 0)
    /\ Send(c, "create", [id |-> 0, val |-> v], NoRow)
    /\ UNCHANGED <<store, undo>>

(* update() shows the new contents at once, if the row is in the store.    *)
Update(c, t, v) ==
    /\ MayEdit(c, t) /\ table[t].state # "none"
    /\ store' = [store EXCEPT ![c] = Replaced(@, Row(t, v))]
    /\ Send(c, "update", Row(t, v), IF Has(store[c], t) THEN Find(store[c], t) ELSE NoRow)
    /\ UNCHANGED undo

Remove(c, t) ==
    /\ MayEdit(c, t) /\ Has(store[c], t)
    /\ store' = [store EXCEPT ![c] = Without(@, t)]
    /\ Send(c, "delete", Find(store[c], t), Find(store[c], t))
    /\ UNCHANGED undo

(* Undo of a deletion: the copy is appended and the server asked to follow.*)
(* A courteous user undoes a deletion only while it still stands.          *)
Undo(c, row) ==
    /\ MayEdit(c, row.id) /\ row \in undo[c]
    /\ Courteous => table[row.id] = [state |-> "trash", val |-> row.val]
    /\ undo' = [undo EXCEPT ![c] = @ \ {row}]
    /\ store' = [store EXCEPT ![c] = Append(@, row)]
    /\ Send(c, "restore", row, NoRow)

(* The trash modal.                                                        *)
RestoreFromTrash(c, t) ==
    /\ MayEdit(c, t) /\ table[t].state = "trash"
    /\ Send(c, "untrash", Row(t, table[t].val), NoRow)
    /\ UNCHANGED <<store, undo>>

----------------------------------------------------------------------------
(* The routes.                                                             *)

(* Slip: the answer is the input.                                          *)
AnswerAsAsked(r, row) ==
    reqs' = (reqs \ {r}) \union {[r EXCEPT !.stage = "ok"]}

Answer(r, row) ==
    reqs' = (reqs \ {r}) \union {[r EXCEPT !.stage = "ok", !.row = row]}

Refuse(r) == reqs' = (reqs \ {r}) \union {[r EXCEPT !.stage = "failed"]}

(* One row is written, answered and published; of none, only an error.     *)
Write(r, tab, kind, row) ==
    /\ table' = tab
    /\ wire' = Broadcast(kind, row, r.origin)
    /\ Answer(r, row)

Unwritten(r) == Refuse(r) /\ UNCHANGED <<table, wire>>

(* POST /api/tasks: the next id.                                           *)
PostTask(r) ==
    LET t == CHOOSE i \in Tasks : /\ table[i].state = "none"
                                  /\ \A j \in 1 .. i - 1 : table[j].state # "none"
    IN  /\ r.kind = "create" /\ \E i \in Tasks : table[i].state = "none"
        /\ Write(r, [table EXCEPT ![t] = [state |-> "live", val |-> r.row.val]],
                 "created", Row(t, r.row.val))

(* The last child to be completed completes its parent, without an event.  *)
RolledUp(tab, t, v) ==
    LET p == Parent[t]
        Children == { u \in Tasks : Parent[u] = p /\ tab[u].state = "live" }
    IN  IF v = 1 /\ p # 0 /\ \A u \in Children : tab[u].val = 1
        THEN IF tab[p].state = "live" THEN [tab EXCEPT ![p].val = 1] ELSE tab
        ELSE tab

(* PUT /api/tasks/:id                                                      *)
PutTask(r) ==
    /\ r.kind = "update"
    /\ IF table[r.row.id].state = "live"
       THEN Write(r, RolledUp([table EXCEPT ![r.row.id].val = r.row.val],
                              r.row.id, r.row.val),
                  "updated", r.row)
       ELSE Unwritten(r)

(* DELETE /api/tasks/:id moves the row to the trash.                       *)
DeleteTask(r) ==
    /\ r.kind = "delete"
    /\ IF table[r.row.id].state = "live"
       THEN Write(r, [table EXCEPT ![r.row.id].state = "trash"], "deleted", r.row)
       ELSE Unwritten(r)

(* POST /api/tasks/:id/restore                                             *)
RestoreTask(r) ==
    /\ r.kind \in {"restore", "untrash"}
    /\ IF table[r.row.id].state = "trash"
       THEN Write(r, [table EXCEPT ![r.row.id].state = "live"], "restored",
                  Row(r.row.id, table[r.row.id].val))
       ELSE Unwritten(r)

Serve(r) ==
    /\ r.stage = "sent"
    /\ PostTask(r) \/ PutTask(r) \/ DeleteTask(r) \/ RestoreTask(r)
    /\ UNCHANGED <<conn, fetch, client, counts>>

(* A tag operation from elsewhere: every row, and one event for all.       *)
Retag(v) ==
    /\ retags < MaxRetags /\ PagesOpen
    /\ Courteous => reqs = {} /\ \A t \in Tasks : Settled(t)
    /\ retags' = retags + 1
    /\ table' = [t \in Tasks |-> IF table[t].state = "live"
                                 THEN [table[t] EXCEPT !.val = v] ELSE table[t]]
    /\ wire' = Broadcast("retagged", NoRow, 0)
    /\ UNCHANGED <<conn, reqs, fetch, client, ids, writes, faults, cuts>>

----------------------------------------------------------------------------
(* Answers at the client.                                                  *)

(* A request, or its answer, is lost or turned away.                       *)
Fail(r) ==
    /\ r.stage = "sent" \/ (r.stage = "ok" /\ LoseAnswers)
    /\ faults < MaxFaults
    /\ faults' = faults + 1
    /\ Refuse(r)
    /\ UNCHANGED <<server, wire, fetch, client, ids, writes, retags, cuts>>

(* Slip: a row that is shown already is appended once more.                *)
ConfirmedAgain(s, r) ==
    CASE r.kind = "update" -> Replaced(s, r.row)
      [] r.kind = "delete" -> s
      [] OTHER             -> Append(s, r.row)

(* What the store makes of a success.                                      *)
Confirmed(s, r) ==
    CASE r.kind \in {"create", "untrash"} -> Append(s, r.row)
      [] r.kind = "update"                -> Replaced(s, r.row)
      [] OTHER                            -> s

(* Slip: a failed deletion is not taken back.                              *)
RolledBackForgetful(s, r) ==
    CASE r.kind = "update" /\ r.prev # NoRow -> Replaced(s, r.prev)
      [] r.kind = "restore"                  -> Without(s, r.row.id)
      [] OTHER                               -> s

(* What it makes of a failure: the row as it was before the edit is back.  *)
RolledBack(s, r) ==
    CASE r.kind = "update" /\ r.prev # NoRow -> Replaced(s, r.prev)
      [] r.kind = "delete"                   -> Append(s, r.prev)
      [] r.kind = "restore"                  -> Without(s, r.row.id)
      [] OTHER                               -> s

Arrive(r) ==
    /\ r.stage \in {"ok", "failed"}
    /\ reqs' = reqs \ {r}
    /\ store' = [store EXCEPT ![r.by] = IF r.stage = "ok" THEN Confirmed(@, r)
                                        ELSE RolledBack(@, r)]
    /\ undo' = IF r.kind = "delete" /\ r.stage = "ok"
               THEN [undo EXCEPT ![r.by] = @ \union {r.prev}] ELSE undo
    /\ UNCHANGED <<server, wire, fetch, open, me, header, counts>>

----------------------------------------------------------------------------
Next ==
    \/ \E c \in Clients : \/ Connect(c) \/ NoticeClose(c) \/ Deliver(c)
                          \/ ServeFetch(c) \/ FetchArrives(c)
    \/ \E c \in Writers :
          \/ Cut(c) \/ FetchFails(c)
          \/ \E v \in Values : Create(c, v) \/ \E t \in Tasks : Update(c, t, v)
          \/ \E t \in Tasks : Remove(c, t) \/ RestoreFromTrash(c, t)
          \/ \E row \in undo[c] : Undo(c, row)
    \/ \E v \in Values : Retag(v)
    \/ \E r \in reqs : Serve(r) \/ Fail(r) \/ Arrive(r)

Spec == Init /\ [][Next]_vars

----------------------------------------------------------------------------
(* The store s once the messages w are read.                               *)
Read(s, w) ==
    LET f[i \in 0 .. Len(w)] == IF i = 0 THEN s ELSE Applied(f[i - 1], w[i])
    IN  f[Len(w)]

Watchers == Clients \ (Writers \union Latecomers)
Parents  == { Parent[t] : t \in Tasks }
Live(tab) == { t \in Tasks : tab[t].state = "live" }

(* Each live row once and no other, with its contents: those of a parent   *)
(* excepted, whose completion by its last child is not published.          *)
Agrees(s, tab) ==
    /\ Distinct(s)
    /\ { r.id : r \in Rowset(s) } = Live(tab)
    /\ \A r \in Rowset(s) : r.id \notin Parents => r.val = tab[r.id].val

(* A tab that only watches, and keeps its connection, is the server's      *)
(* table, late by what is on its wire: whatever overlapping edits,         *)
(* failures, lost answers and reconnects the other tabs go through, each   *)
(* row is shown once, none is missing and none is left over.  A tag        *)
(* operation makes the tab fetch again, beside which events are lost.      *)
WatchersFollow ==
    retags = 0 => \A c \in Watchers : Loaded(c) => Agrees(Read(store[c], wire[c]), table)

(* The keyed each block of the day list breaks on a doubled id             *)
(* (taskStore.svelte.ts:6-10): no tab ever holds one.                      *)
NoDuplicates == \A c \in Clients : Distinct(store[c])

Quiet(c) ==
    /\ Loaded(c) /\ wire[c] = <<>>
    /\ \A r \in reqs : r.by # c

(* "every change broadcasts instantly to every connected window"           *)
(* (README.md:56): a tab that has answers for all it asked and has read    *)
(* all it was sent shows what the server holds.                            *)
TabsAgree == \A c \in Clients : Quiet(c) => Shows(store[c], table)
=============================================================================
