----------------------------- MODULE EntitySync -----------------------------
(***************************************************************************)
(* The rows the client keeps whole (holidays, Someday tabs and lists,      *)
(* projects), as one browser tab holds them: entityStore.svelte.ts with    *)
(* the event handlers of its subclasses, the Holidays section of           *)
(* SettingsModal.svelte, and the routes and HolidayService.ts behind them. *)
(* Whatever others do to the rows reaches this tab as events.              *)
(*                                                                         *)
(* Two of the stores stand for the rest: "holiday" rows are added, deleted *)
(* and imported, "tab" rows are added, renamed and deleted, and row 1 is   *)
(* the default tab.  A value is a row's content, 0 an empty name; values   *)
(* of one Fold differ only in case.                                        *)
(***************************************************************************)
EXTENDS Integers, Sequences, FiniteSetsExt

CONSTANTS
    Kinds,      \* the stores to look at: among "holiday", "tab"
    Values, Fold,   \* contents of a row, and when two are duplicates
    Mine, Theirs,   \* those this tab's user, and the others, write
    Feeds,      \* calendars to import: sequences of values, 0 an event with no date
    None,
    MaxRow, MaxWrites, MaxOthers   \* bounds

VARIABLES
    kind,
    server,     \* row id -> content, or None
    byHand,     \* Fold value -> rows ever added one by one
    items,      \* EntityStore.items: row id -> the contents shown under it
    events,     \* on the way to this tab
    requests,   \* this tab's, under way
    named,      \* the socket's client id is known
    form,       \* newHolidayName and newHolidayDate: what is typed
    error, importing,   \* holidayError, holidayImporting
    hasty,      \* something was typed while an earlier entry was on its way
    crossed,    \* this tab's view may be out of date for a reason named below
    writes, others      \* what this tab, and others, did; a lost request is of the others

vars == <<kind, server, byHand, items, events, requests, named, form, error, importing,
          hasty, crossed, writes, others>>
settings == <<form, error, importing, hasty>>

Ids == 1 .. MaxRow
Rows == [Ids -> Values \union {None}]

TypeOK ==
    /\ kind \in Kinds /\ server \in Rows
    /\ items \in [Ids -> UNION {[1 .. n -> Values] : n \in 0 .. MaxRow}]
    /\ form \in Values \union {0}
    /\ \A b \in {named, error, importing, hasty, crossed} : b \in BOOLEAN
    /\ \A i \in DOMAIN requests :
          /\ requests[i].op \in {"fetch", "create", "update", "remove", "import"}
          /\ requests[i].stage \in {"sent", "ok", "failed"}

Request(op, id, v) ==
    [op |-> op, id |-> id, v |-> v, named |-> named, stage |-> "sent", rows |-> <<>>, mark |-> ""]
Event(type, id, v) == [type |-> type, id |-> id, v |-> v]
Forget(i) == SubSeq(requests, 1, i - 1) \o SubSeq(requests, i + 1, Len(requests))
UnderWay(op) == {i \in DOMAIN requests : requests[i].op = op}

(* The layout's onMount: the store is fetched, then the socket opens, whose *)
(* first message brings the client id.                                     *)
Init ==
    /\ kind \in Kinds /\ server \in {[i \in Ids |-> IF i = 1 THEN 1 ELSE None]}
    /\ byHand = [f \in {Fold[v] : v \in Values} |-> IF f = Fold[1] THEN 1 ELSE 0]
    /\ items = [i \in Ids |-> <<>>] /\ events = <<Event("connected", 0, 0)>>
    /\ named = FALSE
    /\ requests = <<[op |-> "fetch", id |-> 0, v |-> 0, named |-> FALSE, stage |-> "sent",
                     rows |-> <<>>, mark |-> ""]>>
    /\ form = 0 /\ error = FALSE /\ importing = FALSE /\ hasty = FALSE
    /\ crossed = FALSE /\ writes = 0 /\ others = 0

----------------------------------------------------------------------------
(* What the user does.  An action asks for one row or one import.          *)
Ask(r) == requests' = Append(requests, r) /\ writes < MaxWrites /\ writes' = writes + 1

(* (bound: typed when all events are in, and typed over only while an      *)
(* entry is on its way)                                                    *)
Type(v) ==
    /\ kind = "holiday" /\ form # v /\ writes < MaxWrites
    /\ (form = 0 /\ events = <<>>) \/ UnderWay("create") # {}
    /\ form' = v /\ hasty' = (hasty \/ UnderWay("create") # {})
    /\ UNCHANGED <<kind, server, byHand, items, events, requests, named, error, importing,
                   crossed, writes, others>>

(* addHoliday(): the entry stays in the form until the row is made.        *)
AddHoliday ==
    /\ kind = "holiday" /\ form # 0 /\ Ask(Request("create", 0, form)) /\ error' = FALSE
    /\ hasty' = (hasty \/ UnderWay("create") # {})
    /\ UNCHANGED <<kind, server, byHand, items, events, named, form, importing, crossed,
                   others>>

Create(v) ==
    /\ kind = "tab" /\ Ask(Request("create", 0, v))
    /\ UNCHANGED <<kind, server, byHand, items, events, named, settings, crossed, others>>

Update(id, v) ==
    /\ kind = "tab" /\ items[id] # <<>> /\ v \notin {items[id][n] : n \in DOMAIN items[id]}
    /\ Ask(Request("update", id, v))
    /\ UNCHANGED <<kind, server, byHand, items, events, named, settings, crossed, others>>

Remove(id) ==
    /\ items[id] # <<>> /\ Ask(Request("remove", id, 0))
    /\ UNCHANGED <<kind, server, byHand, items, events, named, settings, crossed, others>>

(* runHolidayImport(): Enter in the address asks again while one runs; the *)
(* rows it makes never reach this tab's store, whose event is not sent     *)
(* back to it: crossed.                                                    *)
RunHolidayImport ==
    /\ kind = "holiday" /\ Ask(Request("import", 0, 0))
    /\ importing' = TRUE /\ error' = FALSE
    /\ UNCHANGED <<kind, server, byHand, items, events, named, form, hasty, crossed, others>>

----------------------------------------------------------------------------
(* The server.  A write is told to every socket but the one it names.      *)
Told(r, e) == events' = IF r.named THEN events ELSE Append(events, e)

Answered(i, stage) == [requests EXCEPT ![i].stage = stage]
(* A fetch answered before this write is no longer the whole truth.        *)
Overtaken(rs) == [n \in DOMAIN rs |-> IF rs[n].op = "fetch" /\ rs[n].stage = "ok"
                                      THEN [rs[n] EXCEPT !.mark = "overtaken"] ELSE rs[n]]

About(e, id) == e.id = id \/ (e.type = "imported" /\ \E b \in e.v : b[1] = id)

(* An answer and an event about one row, or two answers, may change places. *)
Crossing(id, mine) ==
    \/ mine /\ \E n \in DOMAIN events : About(events[n], id)
    \/ \E n \in DOMAIN requests : /\ requests[n].stage = "ok"
                                  /\ requests[n].id = id /\ requests[n].op # "fetch"

(* nextId(): one more than the highest id there is, so that the id of the  *)
(* last row comes back once it is deleted.                                 *)
NextId == 1 + Max({0} \union {i \in Ids : server[i] # None})
Added(rows, id, v) == [rows EXCEPT ![id] = v]

ServeCreate(i) ==
    LET r == requests[i]
    IN  /\ r.op = "create" /\ r.stage = "sent" /\ NextId <= MaxRow
        /\ server' = Added(server, NextId, r.v)
        /\ byHand' = [byHand EXCEPT ![Fold[r.v]] = @ + 1]
        /\ requests' = Overtaken([requests EXCEPT ![i].stage = "ok", ![i].id = NextId])
        /\ Told(r, Event("created", NextId, r.v))
        /\ crossed' = (crossed \/ ~r.named \/ Crossing(NextId, TRUE))

(* PUT and DELETE: 404 for a row that is gone, and the default tab stays.  *)
Refused(r) == server[r.id] = None \/ (kind = "tab" /\ r.op = "remove" /\ r.id = 1)

ServeChange(i) ==
    LET r == requests[i]
    IN  /\ r.op \in {"update", "remove"} /\ r.stage = "sent"
        /\ UNCHANGED byHand
        /\ IF Refused(r)
           THEN requests' = Answered(i, "failed") /\ UNCHANGED <<server, events, crossed>>
           ELSE /\ server' = [server EXCEPT ![r.id] = IF r.op = "update" THEN r.v ELSE None]
                /\ requests' = Overtaken(Answered(i, "ok"))
                /\ Told(r, Event(IF r.op = "update" THEN "updated" ELSE "deleted", r.id, r.v))
                /\ crossed' = (crossed \/ Crossing(r.id, TRUE))

(* Slip: the events of one feed are not held against each other.           *)
FreshEventsRepeated(feed, rows) ==
    SelectSeq(feed, LAMBDA v : v # 0 /\ \A i \in Ids : rows[i] = None \/ Fold[rows[i]] # Fold[v])

(* importFromIcs(): the events with a date that no row and no earlier      *)
(* event of the feed already has.                                          *)
FreshEvents(feed, rows) ==
    LET new(n) == /\ feed[n] # 0
                  /\ \A i \in Ids : rows[i] = None \/ Fold[rows[i]] # Fold[feed[n]]
                  /\ \A k \in 1 .. n - 1 : feed[k] = 0 \/ Fold[feed[k]] # Fold[feed[n]]
        pick[n \in 0 .. Len(feed)] ==
            IF n = 0 THEN <<>> ELSE IF new(n) THEN Append(pick[n - 1], feed[n]) ELSE pick[n - 1]
    IN  pick[Len(feed)]

Imported(fresh) ==
    /\ NextId + Len(fresh) <= MaxRow + 1
    /\ server' = [id \in Ids |-> IF id \in NextId .. NextId + Len(fresh) - 1 THEN fresh[id - NextId + 1]
                                 ELSE server[id]]
    /\ UNCHANGED byHand

(* POST /holidays/import; a document that is no calendar, or an address    *)
(* that does not answer, is refused.  One event tells the others.          *)
Batch(fresh) == {<<NextId + n - 1, fresh[n]>> : n \in DOMAIN fresh}

ServeImport(i, feed) ==
    LET r == requests[i]
        fresh == FreshEvents(feed, server)
    IN  /\ r.op = "import" /\ r.stage = "sent" /\ Imported(fresh)
        /\ requests' = Overtaken(Answered(i, "ok"))
        /\ IF fresh = <<>> THEN UNCHANGED events ELSE Told(r, Event("imported", 0, Batch(fresh)))
        /\ crossed' = (crossed \/ (fresh # <<>> /\ r.named)
                               \/ \E b \in Batch(fresh) : Crossing(b[1], FALSE))

RefuseImport(i) ==
    /\ requests[i].op = "import" /\ requests[i].stage = "sent"
    /\ requests' = Answered(i, "failed") /\ UNCHANGED <<server, byHand, events, crossed>>

(* GET: clean when nothing else is on its way to the tab, fine when only   *)
(* events are, which say again what the rows already say.                  *)
ServeFetch(i) ==
    /\ requests[i].op = "fetch" /\ requests[i].stage = "sent"
    /\ requests' = [requests EXCEPT ![i].stage = "ok", ![i].rows = server,
                     ![i].mark = IF \E n \in DOMAIN requests : requests[n].stage = "ok"
                                 THEN "overtaken"
                                 ELSE IF events = <<>> THEN "clean" ELSE "fine"]
    /\ UNCHANGED <<server, byHand, events, crossed>>

Serve(i) ==
    /\ \/ ServeCreate(i) \/ ServeChange(i) \/ ServeFetch(i) \/ RefuseImport(i)
       \/ \E feed \in Feeds : ServeImport(i, feed)
    /\ UNCHANGED <<kind, items, named, settings, writes, others>>

(* Somebody else writes: a row, a feed, or a restored backup.              *)
Other ==
    /\ others < MaxOthers /\ others' = others + 1
    /\ UNCHANGED <<kind, items, named, settings, writes>>

OtherCreates(v) ==
    /\ Other /\ NextId <= MaxRow /\ server' = Added(server, NextId, v)
    /\ byHand' = [byHand EXCEPT ![Fold[v]] = @ + 1]
    /\ events' = Append(events, Event("created", NextId, v))
    /\ requests' = Overtaken(requests) /\ crossed' = (crossed \/ Crossing(NextId, FALSE))

OtherChanges(id, v) ==
    /\ Other /\ server[id] # None /\ v # server[id] /\ ~(v = None /\ kind = "tab" /\ id = 1)
    /\ v # None => kind = "tab"
    /\ server' = [server EXCEPT ![id] = v]
    /\ events' = Append(events, IF v = None THEN Event("deleted", id, 0)
                                ELSE Event("updated", id, v))
    /\ requests' = Overtaken(requests) /\ crossed' = (crossed \/ Crossing(id, FALSE))
    /\ UNCHANGED byHand

OtherImports(feed) ==
    LET fresh == FreshEvents(feed, server)
    IN  /\ Other /\ kind = "holiday" /\ fresh # <<>> /\ Imported(fresh)
        /\ events' = Append(events, Event("imported", 0, Batch(fresh)))
        /\ requests' = Overtaken(requests)
        /\ crossed' = (crossed \/ \E b \in Batch(fresh) : Crossing(b[1], FALSE))

(* A backup holds row 1 as it once was, and no other.                      *)
Restored ==
    /\ Other /\ server' = [i \in Ids |-> IF i = 1 THEN 3 ELSE None]
    /\ byHand' = [f \in DOMAIN byHand |-> IF f = Fold[3] THEN byHand[f] + 1 ELSE byHand[f]]
    /\ events' = Append(events, Event("restored", 0, 0)) /\ requests' = Overtaken(requests)
    /\ crossed' = (crossed \/ \E n \in DOMAIN requests : requests[n].stage = "ok")

----------------------------------------------------------------------------
(* Slip: a created row is appended whether or not it is there.             *)
UpsertAppends(shown, id, v) == [shown EXCEPT ![id] = Append(@, v)]

Upsert(shown, id, v) ==
    [shown EXCEPT ![id] = IF @ = <<>> THEN <<v>> ELSE [n \in DOMAIN @ |-> v]]
Mapped(shown, id, v) == [shown EXCEPT ![id] = [n \in DOMAIN @ |-> v]]
Without(shown, id)   == [shown EXCEPT ![id] = <<>>]
UpsertAll(shown, batch) ==
    [id \in Ids |-> IF \E b \in batch : b[1] = id
                    THEN Upsert(shown, id, (CHOOSE b \in batch : b[1] = id)[2])[id]
                    ELSE shown[id]]

(* The stores' onServerMessage(), the holidays' with the batch of an       *)
(* import; data:restored fetches everything again.                         *)
RowMessage(e) ==
    CASE e.type = "created" -> Upsert(items, e.id, e.v)
      [] e.type = "updated" -> Mapped(items, e.id, e.v)
      [] e.type = "deleted" -> Without(items, e.id)
      [] OTHER              -> items

Ingested(e) == IF e.type = "imported" THEN UpsertAll(items, e.v) ELSE RowMessage(e)

OnServerMessage ==
    /\ events # <<>> /\ events' = Tail(events)
    /\ LET e == Head(events)
       IN  /\ items' = Ingested(e) /\ named' = (named \/ e.type = "connected")
           /\ requests' = IF e.type = "restored" THEN Append(requests, Request("fetch", 0, 0))
                          ELSE requests
    /\ UNCHANGED <<kind, server, byHand, settings, crossed, writes, others>>

(* Slip: the row is shown while it is only asked for, and a refusal leaves *)
(* it as the user wanted it.                                               *)
ShownAnyway(r) ==
    CASE r.op = "fetch" /\ r.stage = "ok"  -> [i \in Ids |-> IF r.rows[i] = None THEN <<>>
                                                             ELSE <<r.rows[i]>>]
      [] r.op = "create" /\ r.stage = "ok" -> [items EXCEPT ![r.id] = Append(@, r.v)]
      [] r.op = "update"                   -> Mapped(items, r.id, r.v)
      [] r.op = "remove"                   -> Without(items, r.id)
      [] OTHER                             -> items

(* fetchAll, create, update and remove change the list by the answer; a    *)
(* failure keeps it.                                                       *)
Shown(r) ==
    IF r.stage = "failed" THEN items
    ELSE CASE r.op = "fetch"  -> [i \in Ids |-> IF r.rows[i] = None THEN <<>> ELSE <<r.rows[i]>>]
           [] r.op = "create" -> [items EXCEPT ![r.id] = Append(@, r.v)]
           [] r.op = "update" -> Mapped(items, r.id, r.v)
           [] r.op = "remove" -> Without(items, r.id)
           [] OTHER           -> items

(* Slip: the entry is taken out of the form before it is made.             *)
FormAfterAny(r) == IF r.op = "create" THEN 0 ELSE form
FormAfter(r) == IF r.op = "create" /\ r.stage = "ok" THEN 0 ELSE form

Answer(i) ==
    LET r == requests[i]
    IN  /\ r.stage # "sent" /\ requests' = Forget(i) /\ items' = Shown(r)
        /\ form' = FormAfter(r)
        /\ error' = (error \/ (r.stage = "failed" /\ kind = "holiday"
                                /\ r.op \in {"create", "import"}))
        /\ importing' = (importing /\ r.op # "import")
        /\ crossed' = IF r.op # "fetch" \/ r.stage = "failed" THEN crossed
                      ELSE r.mark = "overtaken" \/ (crossed /\ r.mark = "fine")
        /\ UNCHANGED <<kind, server, byHand, events, named, hasty, writes, others>>

(* The request or its answer does not arrive: a failure to the store.      *)
Lose(i) ==
    /\ others < MaxOthers /\ others' = others + 1 /\ requests[i].stage # "failed"
    /\ requests' = Answered(i, "failed") /\ crossed' = TRUE
    /\ hasty' = (hasty \/ (requests[i].op = "create" /\ requests[i].stage = "ok"))
    /\ UNCHANGED <<kind, server, byHand, items, events, named, form, error, importing,
                   writes>>

Next ==
    \/ \E v \in Mine \union {0} : Type(v)
    \/ AddHoliday \/ RunHolidayImport \/ OnServerMessage \/ Restored
    \/ \E v \in Mine : Create(v)
    \/ \E v \in Theirs : OtherCreates(v)
    \/ \E id \in Ids : Remove(id) \/ \E v \in Mine : Update(id, v)
    \/ \E id \in Ids, v \in Theirs \union {None} : OtherChanges(id, v)
    \/ \E feed \in Feeds : OtherImports(feed)
    \/ \E i \in DOMAIN requests : Serve(i) \/ Answer(i) \/ Lose(i)

Spec == Init /\ [][Next]_vars

----------------------------------------------------------------------------
(* With nothing on its way the tab shows each of the server's rows once,   *)
(* unless an answer and an event changed places, a request failed, or its  *)
(* own import added rows; a fetch that nothing overtook mends all of that. *)
QuietShowsServer ==
    events = <<>> /\ requests = <<>> /\ ~crossed =>
        /\ items = [i \in Ids |-> IF server[i] = None THEN <<>> ELSE <<server[i]>>]
        /\ ~importing

(* Imports, one tab's, another's or the same feed's again, add no row the  *)
(* calendar has: two alike were both added by hand.                        *)
ImportIdempotent ==
    kind = "holiday" => \A f \in DOMAIN byHand :
        LET alike == Cardinality({i \in Ids : server[i] # None /\ Fold[server[i]] = f})
        IN  alike <= 1 + byHand[f]

(* What the user typed stays in the form until its row is made (a step).   *)
EntryStep ==
    form' = 0 /\ form # 0 /\ ~hasty /\ requests' # requests =>
        \E i \in DOMAIN requests :
            /\ requests[i].op = "create" /\ requests[i].v = form /\ requests[i].stage = "ok"

(* "an event echoed back to the originating client can't duplicate the id" *)
(* (entityStore.svelte.ts): it can when it is there before the answer.     *)
EchoShowsOnce == \A id \in Ids : Len(items[id]) <= 1
=============================================================================
