---------------------------- MODULE TaskEditors ----------------------------
(***************************************************************************)
(* Every place a tab edits a task in: the row's own text, date and tags    *)
(* editors (TaskRow.svelte), the detail modal's form, the notes modal's    *)
(* debounced drafts, and the input that adds a task to a day               *)
(* (InlineAddTask.svelte).  Their writes go through taskStore.update, and  *)
(* another tab writes the same task.                                       *)
(*                                                                         *)
(* A value is a number, 0 the blank; None is nothing.  Times and the       *)
(* rollover flag of the form go the way of its date.                       *)
(***************************************************************************)
EXTENDS Integers, Sequences, SequencesExt

CONSTANTS
    Values,     \* what a field may hold; 0 is among them
    Foreign,    \* the fields the other tab writes
    None,
    MaxEdits, MaxOthers, MaxLost, MaxRequests   \* bounds

Fields == {"text", "date", "tags", "notes"}

VARIABLES
    server, store,          \* the task: the server's row, the tab's copy
    events,                 \* on the way to the tab
    requests,               \* updates under way: patch, undo, from, stage, row
    editor,                 \* the row's editor that is open
    input, seeded,          \* what each of them holds; which one was seeded last
    modal, form,            \* the modal that is open; the detail modal's fields
    noteLines,              \* what the note's editor holds, or None: it shows the note
    draft, timer, late,     \* the notes modal's draft; those of closed modals
    addText, adds,          \* InlineAddTask's text; creations under way
    created,                \* texts of which the server made a task or a habit
    typed, typedNote,       \* typed since the editor opened; since the last save
    asked,                  \* the store's value when the editor was opened
    touched, truth,         \* fields entered in this tab; what the others last wrote
    owed,                   \* texts submitted one at a time and not typed over
    edits, others, lost

task   == <<server, store, events, requests>>
row    == <<editor, input, seeded, typed, asked>>
modals == <<modal, form, noteLines, draft, timer, late, typedNote>>
note   == <<noteLines, draft, timer, late, typedNote>>
adding == <<addText, adds, created, owed>>
ghosts == <<touched, truth>>
counts == <<edits, others, lost>>
vars   == <<task, row, modals, adding, ghosts, counts>>

Patches == UNION { [fs -> Values] : fs \in SUBSET Fields }

TypeOK ==
    /\ {server, store, form, truth} \subseteq [Fields -> Values]
    /\ editor \in {"none", "text", "date", "tags"} /\ seeded \in {"none", "date", "tags"}
    /\ modal \in {"none", "detail", "notes"} /\ touched \subseteq Fields
    /\ {noteLines, draft, typed, typedNote} \subseteq Values \union {None} /\ timer \in BOOLEAN
    /\ \A i \in DOMAIN requests : requests[i].patch \in Patches
                                  /\ requests[i].stage \in {"sent", "ok", "failed"}

Edit == edits < MaxEdits /\ edits' = edits + 1
With(t, patch) == [f \in Fields |-> IF f \in DOMAIN patch THEN patch[f] ELSE t[f]]
One(f, v)      == [g \in {f} |-> v]

Init ==
    /\ server \in { [f \in Fields |-> IF f = "notes" THEN n ELSE 1] : n \in {0, 1} }
    /\ store = server /\ events = <<>> /\ requests = <<>>
    /\ editor = "none" /\ input = [f \in {"text", "date", "tags"} |-> 0] /\ seeded = "none"
    /\ modal = "none" /\ form = store /\ noteLines = None /\ draft = None /\ timer = FALSE
    /\ late = <<>> /\ addText = 0 /\ adds = <<>> /\ created = {} /\ owed = {}
    /\ typed = None /\ typedNote = None /\ asked = 0 /\ touched = {} /\ truth = server
    /\ edits = 0 /\ others = 0 /\ lost = 0

----------------------------------------------------------------------------
(* Slip: the effect seeds the date and the tags again whenever it runs.    *)
SeedAgain(in, ed, sd, t) ==
    [f \in DOMAIN in |-> IF f = ed THEN t[f] ELSE in[f]]

(* The row's effects, after the task or the open editor has changed: the   *)
(* text is seeded every time, the date and the tags when the editor is not *)
(* the one seeded last.                                                    *)
Seed(in, ed, sd, t) ==
    [f \in DOMAIN in |-> IF f = ed /\ (f = "text" \/ sd # f) THEN t[f] ELSE in[f]]

SeededAfter(ed) == IF ed \in {"date", "tags"} THEN ed ELSE seeded

(* Any change of the tab's tasks runs the row's effects and, while the     *)
(* detail modal is open, fills its form again.  m is the modal that stays: *)
(* the notes modal has the task while the task has notes, and without it   *)
(* there is no editor to hold lines.                                       *)
Shows(t, m) ==
    /\ store' = t /\ input' = Seed(input, editor, seeded, t)
    /\ form' = IF modal = "detail" THEN t ELSE form
    /\ modal' = m /\ noteLines' = IF m = "notes" /\ t["notes"] # 0 THEN noteLines ELSE None

(* taskStore.update(): the tab's copy first, then the request.             *)
Update(patch, from) ==
    /\ Len(requests) < MaxRequests
    /\ requests' = Append(requests, [patch |-> patch, undo |-> store, from |-> from,
                                     stage |-> "sent", row |-> server])
    /\ Shows(With(store, patch), modal)

(* The server refuses a blank text and answers with the whole row.         *)
Serve(i) ==
    /\ requests[i].stage = "sent" /\ \A j \in 1 .. i - 1 : requests[j].stage # "sent"
    /\ LET p  == requests[i].patch
           ok == ~("text" \in DOMAIN p /\ p["text"] = 0)
       IN  /\ server' = IF ok THEN With(server, p) ELSE server
           /\ requests' = [requests EXCEPT ![i].stage = IF ok THEN "ok" ELSE "failed",
                                           ![i].row   = server']
    /\ UNCHANGED <<store, events, row, modals, adding, ghosts, counts>>

(* Slip: an answered save retires the draft, whatever was typed since.     *)
RetiredByAny(r) == r.from = "notes" /\ r.stage = "ok"

(* commitTaskNote() after its await: only the draft it saved is retired.   *)
Retired(r) == r.from = "notes" /\ r.stage = "ok" /\ r.patch["notes"] = draft

(* The answer; handleSave() then closes whatever modal is open.            *)
Answer(i) ==
    /\ requests[i].stage # "sent"
    /\ requests' = RemoveAt(requests, i)
    /\ LET r == requests[i]
       IN  /\ Shows(IF r.stage = "ok" THEN r.row ELSE r.undo,
                    IF r.from = "detail" THEN "none" ELSE modal)
           /\ draft' = (IF Retired(r) \/ modal' # "notes" THEN None ELSE draft)
           /\ timer' = (timer /\ draft' # None)
           /\ late'  = (IF timer /\ modal = "notes" /\ modal' # "notes" THEN Append(late, draft) ELSE late)
           /\ typedNote' = (IF modal' = "notes" /\ ~(r.stage = "ok" /\ r.from = "notes"
                                                  /\ r.patch["notes"] = typedNote)
                           THEN typedNote ELSE None)
    /\ UNCHANGED <<server, events, editor, seeded, typed, asked, adding, ghosts, counts>>

Lose(i) ==
    /\ lost < MaxLost /\ lost' = lost + 1 /\ requests[i].stage # "failed"
    /\ requests' = [requests EXCEPT ![i].stage = "failed"]
    /\ UNCHANGED <<server, store, events, row, modals, adding, ghosts, edits, others>>

OtherWrites(f, v) ==
    /\ others < MaxOthers /\ others' = others + 1 /\ v # server[f] /\ ~(f = "text" /\ v = 0)
    /\ server' = [server EXCEPT ![f] = v] /\ truth' = [truth EXCEPT ![f] = v]
    /\ events' = Append(events, server')
    /\ UNCHANGED <<store, requests, row, modals, adding, touched, edits, lost>>

OnServerMessage ==
    /\ events # <<>> /\ events' = Tail(events) /\ Shows(Head(events), modal)
    /\ UNCHANGED <<server, requests, editor, seeded, typed, asked, draft, timer, late, typedNote,
                   adding, ghosts, counts>>

----------------------------------------------------------------------------
(* The row: Enter or a click for the text, r or m for the date, t for the  *)
(* tags; the editors are an {#if} chain, so one is on the screen.          *)
Open(ed) ==
    /\ Edit /\ modal = "none" /\ editor = "none"
    /\ editor' = ed /\ input' = Seed(input, ed, seeded, store) /\ seeded' = SeededAfter(ed)
    /\ typed' = None /\ asked' = store[ed]
    /\ touched' = (IF ed = "text" THEN touched ELSE touched \union {ed})
    /\ UNCHANGED <<task, modals, adding, truth, others, lost>>

Type(v) ==
    /\ Edit /\ editor # "none" /\ input' = [input EXCEPT ![editor] = v]
    /\ typed' = v /\ touched' = touched \union {editor}
    /\ UNCHANGED <<task, editor, seeded, asked, modals, adding, truth, others, lost>>

(* commitEdit(), commitDateEdit() and commitTagsEdit(), on Enter and on    *)
(* blur: a blank text or date is no edit; "someday" clears the date, and   *)
(* what no phrase reads as a date is refused with a toast.                 *)
Close == editor' = "none" /\ UNCHANGED <<seeded, typed, asked>>

Said(reads, v) == IF editor = "date" /\ reads = "someday" THEN 0 ELSE v

CommitEdit(reads) ==
    /\ editor # "none"
    /\ LET v == input[editor]
           w == Said(reads, v)
       IN  IF v = store[editor] \/ (editor # "tags" /\ v = 0) \/ (editor = "date" /\ reads = "nothing")
           THEN Close /\ UNCHANGED <<task, form, input>>
           ELSE /\ Len(requests) < MaxRequests
                /\ requests' = Append(requests, [patch |-> One(editor, w), undo |-> store, from |-> "row",
                                                 stage |-> "sent", row |-> server])
                /\ store' = [store EXCEPT ![editor] = w]
                /\ Close /\ UNCHANGED <<server, events, form, input>>
    /\ UNCHANGED <<modal, note, adding, ghosts, counts>>

CancelEdit ==
    /\ editor # "none" /\ Close
    /\ input' = IF editor = "text" THEN [input EXCEPT !.text = store.text] ELSE input
    /\ UNCHANGED <<task, modals, adding, ghosts, counts>>

----------------------------------------------------------------------------
(* The detail modal.                                                       *)
OpenDetail ==
    /\ Edit /\ modal = "none" /\ editor = "none" /\ modal' = "detail" /\ form' = store
    /\ UNCHANGED <<task, row, note, adding, ghosts, others, lost>>

Fill(f, v) ==
    /\ Edit /\ modal = "detail" /\ form[f] # v
    /\ form' = [form EXCEPT ![f] = v] /\ touched' = touched \union {f}
    /\ UNCHANGED <<task, row, modal, note, adding, truth, others, lost>>

(* Slip: the form is sent as it stands.                                    *)
SavedWhole == form

(* handleSave() sends the fields that differ from the task shown, and      *)
(* closes at once when there are none.                                     *)
Saved == [f \in { g \in Fields : form[g] # store[g] } |-> form[f]]

Save ==
    /\ modal = "detail"
    /\ IF DOMAIN Saved = {} THEN modal' = "none" /\ UNCHANGED <<task, form, input, noteLines>>
       ELSE Update(Saved, "detail") /\ UNCHANGED <<server, events>>
    /\ UNCHANGED <<editor, seeded, typed, asked, draft, timer, late, typedNote, adding, ghosts, counts>>

----------------------------------------------------------------------------
(* The notes modal, with a LiveMarkdownEditor for the note of the task: it *)
(* shows the draft or the note until it is clicked into, and what it holds *)
(* from then on, whatever arrives, until the caret leaves.                 *)
Shown == IF draft # None THEN draft ELSE store["notes"]

(* A new modal has no drafts: a save of an earlier one retires none of its *)
(* own.                                                                    *)
OpenNotes ==
    /\ Edit /\ modal = "none" /\ editor = "none" /\ modal' = "notes"
    /\ requests' = [i \in DOMAIN requests |->
                      [requests[i] EXCEPT !.from = IF @ = "notes" THEN "late" ELSE @]]
    /\ UNCHANGED <<server, store, events, row, form, note, adding, ghosts, others, lost>>

StartNoteEdit ==
    /\ Edit /\ modal = "notes" /\ store["notes"] # 0 /\ noteLines = None
    /\ noteLines' = Shown /\ touched' = touched \union {"notes"}
    /\ UNCHANGED <<task, row, modal, form, draft, timer, late, typedNote, adding, truth, others, lost>>

(* handleTaskNoteChange() looks at nothing: the draft is what the editor   *)
(* holds, and the debounce starts again.                                   *)
HandleTaskNoteChange(v) == draft' = v /\ timer' = TRUE

NoteInput(v) ==
    /\ Edit /\ noteLines # None /\ noteLines' = v /\ HandleTaskNoteChange(v) /\ typedNote' = v
    /\ UNCHANGED <<task, row, modal, form, late, adding, ghosts, others, lost>>

(* The blur fires the lines, typed or not.                                 *)
BlurNote ==
    /\ noteLines # None /\ noteLines' = None /\ HandleTaskNoteChange(noteLines)
    /\ UNCHANGED <<task, row, modal, form, late, typedNote, adding, ghosts, counts>>

CommitTaskNote ==
    /\ timer /\ timer' = FALSE /\ Update(One("notes", draft), "notes")
    /\ UNCHANGED <<server, events, editor, seeded, typed, asked, draft, late, typedNote,
                   adding, ghosts, counts>>

(* Closed, the modal's drafts are out of sight; their timers still fire.   *)
CommitLate ==
    /\ late # <<>> /\ late' = Tail(late) /\ Update(One("notes", Head(late)), "late")
    /\ UNCHANGED <<server, events, editor, seeded, typed, asked, draft, timer, typedNote,
                   adding, ghosts, counts>>

(* A click outside and Escape take the caret from the note first.          *)
CloseModal ==
    /\ modal # "none" /\ noteLines = None
    /\ modal' = "none" /\ draft' = None /\ timer' = FALSE /\ typedNote' = None
    /\ late' = IF timer THEN Append(late, draft) ELSE late
    /\ UNCHANGED <<task, row, form, noteLines, adding, ghosts, counts>>

----------------------------------------------------------------------------
(* InlineAddTask.                                                          *)
TypeAdd(v) ==
    /\ Edit /\ v # addText /\ addText' = v /\ owed' = {}
    /\ UNCHANGED <<task, row, modals, adds, created, ghosts, others, lost>>

(* Slip: the input is emptied when the text is sent.                       *)
EmptiedAtOnce(v) == 0

SubmittedText(v) == v

HandleSubmit ==
    /\ addText # 0 /\ Len(adds) < MaxRequests
    /\ adds' = Append(adds, [value |-> addText, stage |-> "sent"])
    /\ owed' = IF adds = <<>> THEN owed \union {addText} ELSE owed
    /\ addText' = SubmittedText(addText)
    /\ UNCHANGED <<task, row, modals, created, ghosts, counts>>

(* The server makes the task, or the habit a recurrence phrase asks for.   *)
ServeAdd(i) ==
    /\ adds[i].stage = "sent"
    /\ created' = created \union {adds[i].value}
    /\ adds' = [adds EXCEPT ![i].stage = "ok"]
    /\ UNCHANGED <<task, row, modals, addText, owed, ghosts, counts>>

LoseAdd(i) ==
    /\ lost < MaxLost /\ lost' = lost + 1 /\ adds[i].stage # "failed"
    /\ adds' = [adds EXCEPT ![i].stage = "failed"]
    /\ UNCHANGED <<task, row, modals, addText, created, owed, ghosts, edits, others>>

AnswerAdd(i) ==
    /\ adds[i].stage # "sent" /\ adds' = RemoveAt(adds, i)
    /\ addText' = IF adds[i].stage = "ok" THEN 0 ELSE addText
    /\ UNCHANGED <<task, row, modals, created, owed, ghosts, counts>>

Next ==
    \/ OnServerMessage \/ CancelEdit \/ OpenDetail \/ Save \/ OpenNotes \/ StartNoteEdit
    \/ BlurNote \/ CommitTaskNote \/ CommitLate \/ CloseModal \/ HandleSubmit
    \/ \E ed \in {"text", "date", "tags"} : Open(ed)
    \/ \E reads \in {"date", "someday", "nothing"} : CommitEdit(reads)
    \/ \E v \in Values : Type(v) \/ NoteInput(v) \/ TypeAdd(v)
    \/ \E f \in Fields, v \in Values : Fill(f, v)
    \/ \E f \in Foreign, v \in Values : OtherWrites(f, v)
    \/ \E i \in DOMAIN requests : Serve(i) \/ Answer(i) \/ Lose(i)
    \/ \E i \in DOMAIN adds : ServeAdd(i) \/ LoseAdd(i) \/ AnswerAdd(i)

Spec == Init /\ [][Next]_vars

----------------------------------------------------------------------------
(* What is typed stays: in the date and tags editors whatever updates come *)
(* in ("re-seeding then would wipe the typing"), in a note while an older  *)
(* save of it is answered ("keeps it sovereign"), another tab's write      *)
(* arrives or the caret comes and goes, and in the add input until the     *)
(* task is made ("The text is kept so the user can retry").                *)
TypingIsKept ==
    /\ editor \in {"date", "tags"} /\ typed # None => input[editor] = typed
    /\ typedNote # None => Shown = typedNote /\ noteLines \in {None, typedNote}
    /\ \A v \in owed : addText = v \/ v \in created \/ \E i \in DOMAIN adds : adds[i].value = v

(* No write carries a field whose editor its user did not enter (for the   *)
(* text: type in): what another tab gave such a field stays, however stale *)
(* this tab's copy was.  A note that was entered is written when the caret *)
(* leaves it, typed or not, over what came meanwhile.                      *)
NoBystanderWrites == \A f \in Fields \ touched : server[f] = truth[f]

(* "The seed happens ONCE per editor request" (TaskRow.svelte): an editor  *)
(* nobody has typed in shows the value the task had when it was opened.    *)
SeedOncePerRequest == editor \in {"date", "tags"} /\ typed = None => input[editor] = asked
=============================================================================
