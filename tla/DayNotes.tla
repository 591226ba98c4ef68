------------------------------ MODULE DayNotes ------------------------------
(***************************************************************************)
(* A day's margin note: DayNoteField.svelte (the debounced save, the       *)
(* working text), the LiveMarkdownEditor inside it (its lines against the  *)
(* value it is given), dayNoteStore, the routes of dayNoteRoutes.ts, and   *)
(* another tab that writes the same day's note.                            *)
(*                                                                         *)
(* A text is a number, 0 the blank text; None is no note.  The tab's own   *)
(* events do not come back to it (Connection.tla).                         *)
(***************************************************************************)
EXTENDS Integers, Sequences

CONSTANTS
    Texts,      \* what may be typed; 0 is among them
    None,
    MaxEdits, MaxOthers, MaxLost   \* bounds

VARIABLES
    server,     \* the day's note
    events,     \* on the way to the tab
    store,      \* dayNoteStore.byDate(dateStr)
    mounted, text, dirty, creating, timer,     \* DayNoteField
    lines, caret,                              \* LiveMarkdownEditor
    requests,   \* under way, in the order sent: op, value, stage
    truth,      \* the last text anyone wrote
    crossed,    \* writes crossed, a request was lost, a jot left the screen,
                \* or an edit began from a field that no longer follows the note
    edits, others, lost

vars == <<server, events, store, mounted, text, dirty, creating, timer, lines, caret, requests,
          truth, crossed, edits, others, lost>>
page == <<mounted, creating, timer, caret>>

TypeOK ==
    /\ {server, store} \subseteq Texts \union {None} /\ {text, lines} \subseteq Texts
    /\ \A b \in {mounted, dirty, creating, timer, caret, crossed} : b \in BOOLEAN
    /\ \A i \in DOMAIN requests : requests[i].op \in {"upsert", "remove"}
                                  /\ requests[i].stage \in {"sent", "ok", "failed"}

Notes(note)    == IF note = None THEN 0 ELSE note
ShowEditor     == store # None \/ text # 0 \/ creating

(* Slip: the working text follows the store even while dirty.              *)
SeededAlways(note, t, d) == Notes(note)

(* The effects that follow a step: while clean the text is the store's,    *)
(* while idle the editor's lines are the text's.                           *)
Seeded(note, t, d) == IF d THEN t ELSE Notes(note)
Adopted(t, l, c)   == IF c THEN l ELSE t

Init ==
    /\ server \in (Texts \ {0}) \union {None} /\ store = server /\ events = <<>>
    /\ mounted = TRUE /\ text = Notes(server) /\ dirty = FALSE /\ creating = FALSE
    /\ timer = FALSE /\ lines = text /\ caret = FALSE /\ requests = <<>>
    /\ truth = Notes(server) /\ crossed = FALSE /\ edits = 0 /\ others = 0 /\ lost = 0

(* Dirty with nothing left to save: the field follows the note no more.    *)
Stale == dirty /\ ~timer /\ requests = <<>> /\ text # Notes(store)

(* handleChange(): the text is dirty, the debounce starts again.           *)
HandleChange(v) == text' = v /\ dirty' = TRUE /\ timer' = TRUE

(* startCreating(), a click or Enter in the rendered note.                 *)
StartEditing ==
    /\ mounted /\ ~caret /\ edits < MaxEdits /\ caret' = TRUE
    /\ creating' = (creating \/ ~ShowEditor)
    /\ crossed' = (crossed \/ events # <<>> \/ Stale)
    /\ edits' = edits + 1
    /\ UNCHANGED <<server, events, store, mounted, text, dirty, timer, lines, requests, truth,
                   others, lost>>

Input(v) ==
    /\ caret /\ edits < MaxEdits /\ edits' = edits + 1
    /\ v # lines /\ lines' = v /\ HandleChange(v) /\ truth' = v
    /\ crossed' = (crossed \/ events # <<>>)
    /\ UNCHANGED <<server, events, store, mounted, creating, caret, requests, others, lost>>

(* The blur fires the current lines, typed or not.                         *)
Blur ==
    /\ caret /\ caret' = FALSE /\ HandleChange(lines)
    /\ UNCHANGED <<server, events, store, mounted, creating, lines, requests, truth, crossed,
                   edits, others, lost>>

(* Slip: clearing a note only folds the field.                             *)
CommitOpKept == IF text # 0 THEN <<[op |-> "upsert", value |-> text, stage |-> "sent"]>> ELSE <<>>

(* commit(): a blank text deletes the row there is.                        *)
CommitOp ==
    IF text # 0 THEN <<[op |-> "upsert", value |-> text, stage |-> "sent"]>>
    ELSE IF store # None THEN <<[op |-> "remove", value |-> 0, stage |-> "sent"]>>
    ELSE <<>>

Commit ==
    /\ timer /\ timer' = FALSE
    /\ creating' = (creating /\ text # 0)
    /\ requests' = requests \o CommitOp
    /\ caret' = (caret /\ (store # None \/ text # 0))
    /\ lines' = Adopted(text, lines, caret')
    /\ crossed' = (crossed \/ requests # <<>>)
    /\ UNCHANGED <<server, events, store, mounted, text, dirty, truth, edits, others, lost>>

(* The routes: PUT makes or changes the note, DELETE of none is a 404.     *)
Serve(i) ==
    /\ requests[i].stage = "sent" /\ \A j \in 1 .. i - 1 : requests[j].stage # "sent"
    /\ LET r == requests[i]
       IN  /\ server' = IF r.op = "upsert" THEN r.value ELSE None
           /\ requests' = [requests EXCEPT ![i].stage =
                             IF r.op = "remove" /\ server = None THEN "failed" ELSE "ok"]
    /\ UNCHANGED <<events, store, page, text, dirty, lines, truth, crossed, edits, others, lost>>

Forget(i) == SubSeq(requests, 1, i - 1) \o SubSeq(requests, i + 1, Len(requests))

(* What the store does to the field.                                       *)
Shows(note, d) ==
    /\ store' = note /\ dirty' = d
    /\ IF ~mounted THEN UNCHANGED <<text, lines, caret>>
       ELSE /\ text' = Seeded(note, text, d)
            /\ caret' = (caret /\ (note # None \/ text' # 0 \/ creating))
            /\ lines' = Adopted(text', lines, caret')

(* Slip: any answered save makes the text clean.                           *)
CleanAfterAny(r) == FALSE

CleanAfter(r) == dirty /\ ~(r.op = "upsert" /\ r.stage = "ok" /\ text = r.value)

Answer(i) ==
    /\ requests[i].stage # "sent" /\ requests' = Forget(i)
    /\ LET r == requests[i]
       IN  Shows(IF r.stage = "failed" THEN store
                 ELSE IF r.op = "upsert" THEN r.value ELSE None,
                 CleanAfter(r))
    /\ UNCHANGED <<server, events, mounted, creating, timer, truth, crossed, edits, others, lost>>

(* A request or its answer is lost: a failure, which nothing retries.      *)
Lose(i) ==
    /\ lost < MaxLost /\ lost' = lost + 1 /\ crossed' = TRUE
    /\ requests' = Forget(i)
    /\ UNCHANGED <<server, events, store, page, text, dirty, lines, truth, edits, others>>

(* The other tab writes, or clears; the event follows.                     *)
Busy == timer \/ caret \/ requests # <<>>

OtherWrites(v) ==
    /\ others < MaxOthers /\ others' = others + 1
    /\ v # server /\ server' = v /\ events' = Append(events, v) /\ truth' = Notes(v)
    /\ crossed' = (crossed \/ Busy)
    /\ UNCHANGED <<store, page, text, dirty, lines, requests, edits, lost>>

OnServerMessage ==
    /\ events # <<>> /\ events' = Tail(events) /\ Shows(Head(events), dirty)
    /\ UNCHANGED <<server, mounted, creating, timer, requests, truth, crossed, edits, others, lost>>

(* The day leaves the screen, its timer with it, and comes back afresh.    *)
Unmount ==
    /\ mounted /\ mounted' = FALSE /\ timer' = FALSE /\ caret' = FALSE
    /\ crossed' = (crossed \/ timer \/ requests # <<>>)
    /\ UNCHANGED <<server, events, store, text, dirty, creating, lines, requests, truth, edits,
                   others, lost>>

Mount ==
    /\ ~mounted /\ mounted' = TRUE /\ dirty' = FALSE /\ creating' = FALSE
    /\ text' = Notes(store) /\ lines' = text'
    /\ UNCHANGED <<server, events, store, timer, caret, requests, truth, crossed, edits, others, lost>>

Next ==
    \/ StartEditing \/ Blur \/ Commit \/ OnServerMessage \/ Unmount \/ Mount
    \/ \E v \in Texts : Input(v)
    \/ \E v \in (Texts \ {0}) \union {None} : OtherWrites(v)
    \/ \E i \in DOMAIN requests : Serve(i) \/ Answer(i) \/ Lose(i)

Spec == Init /\ [][Next]_vars

----------------------------------------------------------------------------
Quiet == ~timer /\ ~caret /\ requests = <<>> /\ events = <<>>

(* A keystroke stays until it is saved: no event and no answer to an       *)
(* earlier save takes it back ("must never be clobbered").                 *)
TypingStays == mounted /\ timer /\ ~crossed => text = truth

(* Left alone, the last word anyone had is the server's note, a cleared    *)
(* note is gone, and a clean field shows it.                               *)
LastWordKept ==
    Quiet /\ ~crossed =>
        /\ server = (IF truth = 0 THEN None ELSE truth) /\ store = server
        /\ mounted /\ ~dirty => text = truth

(* "seeded from the store while clean" (DayNoteField.svelte): nothing is   *)
(* left to save, so the field shows the note.                              *)
FieldFollows == Quiet /\ ~crossed /\ mounted => text = Notes(store)
=============================================================================
