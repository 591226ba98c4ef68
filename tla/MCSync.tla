------------------------------- MODULE MCSync -------------------------------
(* What the tabs do, in four scenes.  In the first of two tabs, one edits, *)
(* fails, loses answers and reconnects as it likes and the other only      *)
(* watches (the constants of the .cfg), one task being the other's parent; *)
(* in the second both edit, but no row that something is under way for,    *)
(* and no task has a parent (K).  In the others a single tab deletes tasks *)
(* and takes it back (U), or is worked with the keys (B).                  *)
EXTENDS MCTaskSync

CONSTANTS
    MaxHistory, MaxDeletes, MaxLost,  \* of UndoHistory
    Remapped, Sections, MaxAsked      \* of Keyboard

VARIABLES
    scene,
    confirms, trash, rows, asks, asking, dropping, toasts, undos, redos, undone, tangled, dropped,
    asked, lost,
    overrides, prefix, modifiers, target, modal, confirm, focused, days, someday, capturing, chord,
    questions, waiting, fired, last

history == <<confirms, trash, rows, asks, asking, dropping, toasts, undos, redos, undone, tangled,
             dropped, asked, lost>>

board == <<overrides, prefix, modifiers, target, modal, confirm, focused, days, someday, capturing,
           chord, questions, waiting, fired, last>>

K == INSTANCE TaskSync WITH
        Writers <- Clients, Latecomers <- Clients, Courteous <- TRUE,
        Parent <- MCOrphans,
        MaxWrites <- 3, MaxRetags <- 1, LoseAnswers <- FALSE, MaxCuts <- 0

U == INSTANCE UndoHistory WITH reqs <- asks

B == INSTANCE Keyboard WITH asked <- questions, held <- modifiers

ASSUME HistoryAssumption == MaxHistory \in Nat /\ MaxDeletes \in Nat /\ MaxLost \in Nat

(* A list is a sequence of sections, a section one of tasks.               *)
ASSUME BoardAssumption ==
    /\ Remapped \subseteq B!Ids /\ MaxAsked \in Nat
    /\ Sections \subseteq Seq(Seq(STRING)) \X Seq(Seq(STRING))

(* Two pages: both lists with an empty section, or no days.                *)
MCSections == { << << <<"a">>, <<>> >>, << <<"c">> >> >>, << <<>>, << <<"c">> >> >> }

(* A scene leaves the variables of the others as they start; what the page *)
(* shows matters to the last one only.                                     *)
SyncInit ==
    /\ U!Init /\ B!Init
    /\ \/ scene = "watch" /\ Init
       \/ scene = "courteous" /\ K!Init
       \/ scene = "undo" /\ Init
       \/ scene = "keys" /\ Init
    /\ scene # "undo" => ~confirms
    /\ scene # "keys" => <<days, someday>> = CHOOSE s \in Sections : TRUE

SyncNext ==
    \/ scene = "watch" /\ Next /\ UNCHANGED <<scene, history, board>>
    \/ scene = "courteous" /\ K!Next /\ UNCHANGED <<scene, history, board>>
    \/ scene = "undo" /\ U!Next /\ UNCHANGED <<scene, vars, board>>
    \/ scene = "keys" /\ B!Next /\ UNCHANGED <<scene, vars, history>>

SyncSpec == SyncInit /\ [][SyncNext]_<<scene, vars, history, board>>

(* The properties of TaskSync, each in the scene it is about, and of       *)
(* UndoHistory and Keyboard.                                               *)
SyncTypeOK    == (scene = "watch" => TypeOK) /\ U!TypeOK /\ B!TypeOK
WatchersAgree == scene = "watch" => WatchersFollow
RowsOnce      == scene = "courteous" => K!NoDuplicates
EditorsAgree  == scene = "courteous" => K!TabsAgree
HistorySound  == U!ConsumedOnce /\ U!RedoNeverForks /\ U!ShowsTheRest
KeysSettled   == /\ [](B!QuestionsSettled /\ B!LowerKeysFire)
                 /\ [][B!SequenceStep /\ B!FocusStep]_board

(* What the code is said to do and does not; see the README.               *)
ListDeleteUndoable == U!ListDeleteUndoable
BoundKeysFire      == B!BoundKeysFire
=============================================================================
