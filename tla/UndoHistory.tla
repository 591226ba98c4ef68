---------------------------- MODULE UndoHistory ----------------------------
(***************************************************************************)
(* Deleting with a way back: deleteTaskWithUndo (taskActions.ts), the      *)
(* deletion of a whole Someday list (SomedayPanel.svelte), the toasts with *)
(* their Undo button and the histories behind undo and redo                *)
(* (notificationStore.svelte.ts), and the rows of taskStore that these     *)
(* move.  One tab; every request is answered when it pleases.              *)
(*                                                                         *)
(* A toast is named by its number; 0 is no task.                           *)
(***************************************************************************)
EXTENDS Integers, Sequences, FiniteSets

CONSTANTS
    Tasks,       \* all of one list
    MaxHistory,  \* UNDO_HISTORY_MAX and REDO_HISTORY_MAX
    MaxDeletes,  \* bound: deletions asked for
    MaxLost      \* bound: requests that never reach the server

VARIABLES
    confirms,    \* the preference deleteConfirmation is "confirm"
    trash,       \* the tasks deleted at the server
    rows,        \* how often taskStore.tasks has each task
    reqs,        \* requests under way, and their answers
    asking,      \* the task a confirmation is open for
    dropping,    \* what is left to do of a list's deletion
    toasts,      \* the task and the stage of each toast
    undos, redos,        \* the histories, newest last
    undone,      \* history: how often the action of each toast ran
    tangled,     \* history: tasks asked for while the last answer about them was due
    dropped,     \* history: tasks deleted with their list and not restored since
    asked, lost

vars == <<confirms, trash, rows, reqs, asking, dropping, toasts, undos, redos, undone, tangled,
          dropped, asked, lost>>

Numbers == 1 .. Len(toasts)
Request(n, k, t, by) == [n |-> n, kind |-> k, task |-> t, by |-> by, stage |-> "sent"]

TypeOK ==
    /\ confirms \in BOOLEAN /\ trash \subseteq Tasks /\ rows \in [Tasks -> 0 .. 1]
    /\ \A r \in reqs : /\ r.kind \in {"delete", "restore"} /\ r.task \in Tasks
                       /\ r.by \in {"user", "list", "history"}
                       /\ r.stage \in {"sent", "ok", "failed"}
    /\ asking \in Tasks \union {0} /\ dropping.tasks \subseteq Tasks
    /\ \A n \in Numbers : toasts[n].task \in Tasks /\ toasts[n].stage \in {"shown", "leaving", "gone"}
    /\ Len(undos) <= MaxHistory /\ Len(redos) <= MaxHistory
    /\ DOMAIN undone = Numbers /\ tangled \subseteq Tasks /\ dropped \subseteq Tasks
    /\ asked \in 0 .. MaxDeletes /\ lost \in 0 .. MaxLost

Init ==
    /\ confirms \in BOOLEAN
    /\ trash = {} /\ rows = [t \in Tasks |-> 1] /\ reqs = {} /\ asking = 0
    /\ dropping = [tasks |-> {}, waits |-> FALSE]
    /\ toasts = <<>> /\ undos = <<>> /\ redos = <<>> /\ undone = <<>> /\ tangled = {} /\ dropped = {}
    /\ asked = 0 /\ lost = 0

----------------------------------------------------------------------------
(* taskStore.                                                              *)
Sent(rs, k, t, by) == rs \union {Request(1 + Cardinality(rs), k, t, by)}
Fresh == \A r \in reqs : r.n # 1 + Cardinality(reqs)
Tangled(t) == tangled' = tangled \union { r.task : r \in { q \in reqs : q.task = t } }

(* remove(): the row goes first; what is not there is not deleted.         *)
Remove(t, by) ==
    IF rows[t] = 0 THEN UNCHANGED <<rows, reqs, tangled>>
    ELSE /\ Fresh /\ Tangled(t) /\ rows' = [rows EXCEPT ![t] = 0] /\ reqs' = Sent(reqs, "delete", t, by)

(* restore(): the row comes first.                                         *)
Restore(t) ==
    /\ Fresh /\ Tangled(t)
    /\ rows' = [rows EXCEPT ![t] = @ + 1] /\ reqs' = Sent(reqs, "restore", t, "history")

----------------------------------------------------------------------------
(* notificationStore.                                                      *)
(* Slip: one entry too many.                                              *)
CappedLate(s) == IF Len(s) > MaxHistory + 1 THEN Tail(s) ELSE s

Capped(s) == IF Len(s) > MaxHistory THEN Tail(s) ELSE s
Last(s)   == s[Len(s)]
Shorter(s) == SubSeq(s, 1, Len(s) - 1)

(* push(): the redo history ends here.  Slip: it goes on.                  *)
ForksKept == redos

Forked == <<>>

Push(t) ==
    /\ toasts' = Append(toasts, [task |-> t, stage |-> "shown"])
    /\ undos' = Capped(Append(undos, Len(toasts) + 1))
    /\ redos' = Forked
    /\ undone' = Append(undone, 0)

Dismissed(ts, n) == IF ts[n].stage = "shown" THEN [ts EXCEPT ![n].stage = "leaving"] ELSE ts

(* The action ran: what it undid can be done again.                        *)
RanAction(n) ==
    /\ Restore(toasts[n].task)
    /\ toasts' = Dismissed(toasts, n)
    /\ redos' = Capped(Append(redos, [task |-> toasts[n].task, since |-> Len(toasts)]))
    /\ undone' = [undone EXCEPT ![n] = @ + 1]

(* #consumeUndoEntry(): the history but for the entry n.                   *)
Without(s, n) ==
    LET f[i \in 0 .. Len(s)] ==
            IF i = 0 THEN <<>>
            ELSE IF s[i] = n THEN f[i - 1] ELSE Append(f[i - 1], s[i])
    IN  f[Len(s)]

(* Slip: the entry stays in the history.                                   *)
ConsumedNot(n) == undos

Consumed(n) == Without(undos, n)

(* The toast's button; a toast on its way out has none.                    *)
RunAction(n) ==
    /\ toasts[n].stage = "shown"
    /\ undos' = Consumed(n)
    /\ RanAction(n)
    /\ UNCHANGED <<confirms, trash, asking, dropping, dropped, asked, lost>>

(* Ctrl/Cmd+Z, long after the toast is gone.                               *)
UndoLatest ==
    /\ undos # <<>>
    /\ undos' = Shorter(undos)
    /\ RanAction(Last(undos))
    /\ UNCHANGED <<confirms, trash, asking, dropping, dropped, asked, lost>>

RedoLatest ==
    /\ redos # <<>>
    /\ redos' = Shorter(redos)
    /\ Remove(Last(redos).task, "history")
    /\ UNCHANGED <<confirms, trash, asking, dropping, toasts, undos, undone, dropped, asked, lost>>

(* A toast's time is up, and after its fade-out it is taken away.          *)
Expire(n) ==
    /\ toasts[n].stage = "shown"
    /\ toasts' = Dismissed(toasts, n)
    /\ UNCHANGED <<confirms, trash, rows, reqs, asking, dropping, undos, redos, undone, tangled, dropped, asked, lost>>

Faded(n) ==
    /\ toasts[n].stage = "leaving"
    /\ toasts' = [toasts EXCEPT ![n].stage = "gone"]
    /\ UNCHANGED <<confirms, trash, rows, reqs, asking, dropping, undos, redos, undone, tangled, dropped, asked, lost>>

----------------------------------------------------------------------------
(* deleteTaskWithUndo(): asked first, where the user wants to be asked.    *)
DeleteTask(t) ==
    /\ rows[t] > 0 /\ asked < MaxDeletes /\ asked' = asked + 1 /\ asking = 0
    /\ IF confirms THEN asking' = t /\ UNCHANGED <<rows, reqs, tangled>>
       ELSE Remove(t, "user") /\ UNCHANGED asking
    /\ UNCHANGED <<confirms, trash, dropping, toasts, undos, redos, undone, dropped, lost>>

Answer(ok) ==
    /\ asking # 0 /\ asking' = 0
    /\ IF ok THEN Remove(asking, "user") ELSE UNCHANGED <<rows, reqs, tangled>>
    /\ UNCHANGED <<confirms, trash, dropping, toasts, undos, redos, undone, dropped, asked, lost>>

(* handleDeleteList(), once confirmed: the tasks it had then, one by one,  *)
(* each through remove().                                                  *)
DeleteList ==
    /\ dropping.tasks = {} /\ ~dropping.waits /\ asked < MaxDeletes /\ asked' = asked + 1
    /\ dropping' = [dropping EXCEPT !.tasks = { t \in Tasks : rows[t] > 0 }]
    /\ dropping'.tasks # {}
    /\ UNCHANGED <<confirms, trash, rows, reqs, asking, toasts, undos, redos, undone, tangled, dropped, lost>>

DropNext ==
    /\ dropping.tasks # {} /\ ~dropping.waits
    /\ \E t \in dropping.tasks :
          /\ \A u \in dropping.tasks : t <= u
          /\ Remove(t, "list")
          /\ dropping' = [tasks |-> dropping.tasks \ {t}, waits |-> rows[t] > 0]
    /\ UNCHANGED <<confirms, trash, asking, toasts, undos, redos, undone, dropped, asked, lost>>

----------------------------------------------------------------------------
(* The server, and the answers.                                            *)
Serve(r) ==
    /\ r.stage = "sent"
    /\ LET works == (r.task \in trash) = (r.kind = "restore")
       IN  /\ trash' = (IF ~works THEN trash
                        ELSE IF r.kind = "restore" THEN trash \ {r.task} ELSE trash \union {r.task})
           /\ reqs' = (reqs \ {r}) \union {[r EXCEPT !.stage = IF works THEN "ok" ELSE "failed"]}
           /\ dropped' = (IF works /\ r.by = "list" THEN dropped \union {r.task}
                          ELSE IF works THEN dropped \ {r.task} ELSE dropped)
    /\ UNCHANGED <<confirms, rows, asking, dropping, toasts, undos, redos, undone, tangled, asked, lost>>

Lose(r) ==
    /\ r.stage = "sent" /\ lost < MaxLost /\ lost' = lost + 1
    /\ reqs' = (reqs \ {r}) \union {[r EXCEPT !.stage = "failed"]}
    /\ UNCHANGED <<confirms, trash, rows, asking, dropping, toasts, undos, redos, undone, tangled, dropped, asked>>

(* Slip: a deletion that failed leaves the row out.                        *)
PutBackNot(r) == rows

PutBack(r) == [rows EXCEPT ![r.task] = @ + 1]

DeleteAnswered(r) ==
    /\ r.kind = "delete" /\ r.stage # "sent" /\ reqs' = reqs \ {r}
    /\ rows' = (IF r.stage = "failed" THEN PutBack(r) ELSE rows)
    /\ dropping' = (IF r.by = "list" THEN [dropping EXCEPT !.waits = FALSE] ELSE dropping)
    /\ IF r.stage = "ok" /\ r.by = "user" THEN Push(r.task)
       ELSE UNCHANGED <<toasts, undos, redos, undone>>
    /\ UNCHANGED <<confirms, trash, asking, tangled, dropped, asked, lost>>

RestoreAnswered(r) ==
    /\ r.kind = "restore" /\ r.stage # "sent" /\ reqs' = reqs \ {r}
    /\ rows' = (IF r.stage = "failed" THEN [rows EXCEPT ![r.task] = 0] ELSE rows)
    /\ UNCHANGED <<confirms, trash, asking, dropping, toasts, undos, redos, undone, tangled, dropped, asked, lost>>

Next ==
    \/ \E t \in Tasks : DeleteTask(t)
    \/ \E ok \in BOOLEAN : Answer(ok)
    \/ DeleteList \/ DropNext \/ UndoLatest \/ RedoLatest
    \/ \E n \in Numbers : RunAction(n) \/ Expire(n) \/ Faded(n)
    \/ \E r \in reqs : Serve(r) \/ Lose(r) \/ DeleteAnswered(r) \/ RestoreAnswered(r)

Spec == Init /\ [][Next]_vars

----------------------------------------------------------------------------
(* "Every entry is consumed exactly once (toast button or keyboard)"       *)
(* (notificationStore.svelte.ts:27), however the two and the toast's clock *)
(* interleave.                                                             *)
ConsumedOnce == \A n \in Numbers : undone[n] <= 1

(* "Redo only ever replays a contiguous prefix of undone actions" (:33):   *)
(* what redo may replay was undone after the last new deletion.            *)
RedoNeverForks == \A i \in DOMAIN redos : redos[i].since = Len(toasts)

(* When nothing is under way the tab shows the tasks that are not in the   *)
(* trash, each once, whatever was undone, redone and refused in between.   *)
(* Only a task that was restored and deleted at once while a request was   *)
(* lost may be shown although it is in the trash.                          *)
ShowsTheRest ==
    reqs = {} => \A t \in Tasks : \/ rows[t] = (IF t \in trash THEN 0 ELSE 1)
                                 \/ (t \in tangled /\ lost > 0)

(* "N separate undo entries (the toast history restores them one at a      *)
(* time)" (SomedayPanel.svelte:379): what went with its list can be undone.*)
ListDeleteUndoable ==
    reqs = {} => \A t \in dropped : \E i \in DOMAIN undos : toasts[undos[i]].task = t
=============================================================================
