------------------------------- MODULE MCRows -------------------------------
(* Four parts of the browser client, which share no state: the stores that *)
(* hold whole rows ("rows"), the import form ("import"), the notes of days *)
(* ("notes") and the editors of a task ("editors").  part says which is at *)
(* work; what it does not need stays 0.                                    *)
EXTENDS Integers, Sequences

CONSTANTS
    None,
    Stores, Values, Fold, Mine, Theirs, Feeds, MaxRow, MaxWrites, MaxOthers,  \* of EntitySync
    Files, Formats, Restoring, Good, Columns, MaxActs, MaxServed,            \* of ImportForm
    Texts, MaxEdits, MaxLost,       \* of DayNotes and TaskEditors, and MaxOthers
    Foreign, MaxRequests            \* of TaskEditors

VARIABLES
    part,
    kind, byHand, items, named, hasty, writes,
    format, file, source, header, mapping, reading, asked, result, sent, shown, fetch, gap, acts,
    mounted, text, dirty, creating, lines, caret,
    editor, input, seeded, modal, noteLines, draft, late, addText, adds, created,
    typed, typedNote, opened, touched, submitted,
    server, events, requests, others, form, crossed, error, importing,   \* of several
    store, timer, truth, edits, lost                                     \* of the last two

Y == INSTANCE EntitySync WITH Kinds <- Stores
I == INSTANCE ImportForm
M == INSTANCE DayNotes
E == INSTANCE TaskEditors WITH Values <- Texts, asked <- opened, owed <- submitted

rowsOnly    == <<kind, byHand, items, named, hasty, writes>>
importOnly  == <<format, file, source, header, mapping, reading, asked, result, sent, shown, fetch,
                 gap, acts>>
notesOnly   == <<mounted, text, dirty, creating, lines, caret>>
editorsOnly == <<editor, input, seeded, modal, noteLines, draft, late, addText, adds, created,
                 typed, typedNote, opened, touched, submitted>>
shared      == <<events, requests, others, form, crossed>>
textOnly    == <<store, timer, truth, edits, lost>>
rowsVars    == <<part, rowsOnly, importOnly, notesOnly, editorsOnly, shared, textOnly,
                 server, error, importing>>

(* A content is told from no content and from an empty name.               *)
ASSUME RowsAssumption ==
    /\ Stores \subseteq {"holiday", "tab"} /\ MaxRow \in Nat \ {0}
    /\ {1, 3} \subseteq Values /\ {0, None} \intersect Values = {} /\ DOMAIN Fold = Values
    /\ Mine \subseteq Values /\ Theirs \subseteq Values /\ Feeds \subseteq Seq(Values \union {0})

(* CSV is imported beside what is there, and the form starts with the CSV  *)
(* of Todoist.                                                             *)
ASSUME ImportAssumption ==
    /\ "csv" \notin Restoring /\ "todoist-csv" \in Formats
    /\ None \notin Int /\ None \notin Files

(* A text, the blank one too, is told from none; the others write fields.  *)
ASSUME TextsAssumption ==
    {0, 1} \subseteq Texts /\ None \notin Texts /\ Foreign \subseteq E!Fields

(* Two holidays that differ in case only, and a feed with one of them, an  *)
(* event without a date, and one event twice.                              *)
MCFold  == <<1, 1, 3>>
MCFeeds == { <<2, 0, 3, 3>> }

(* A document that is no backup, and the headers.                          *)
MCGood    == { <<"csv", 1>>, <<"csv", 2>>, <<"json", 2>> }
MCColumns == << {"a"}, {"b"} >>

----------------------------------------------------------------------------
NoRows ==
    kind = 0 /\ byHand = 0 /\ items = 0 /\ named = 0 /\ hasty = 0 /\ writes = 0
NoImport ==
    /\ format = 0 /\ file = 0 /\ source = 0 /\ header = 0 /\ mapping = 0 /\ reading = 0
    /\ asked = 0 /\ result = 0 /\ sent = 0 /\ shown = 0 /\ fetch = 0 /\ gap = 0 /\ acts = 0
NoNotes ==
    mounted = 0 /\ text = 0 /\ dirty = 0 /\ creating = 0 /\ lines = 0 /\ caret = 0
NoEditors ==
    /\ editor = 0 /\ input = 0 /\ seeded = 0 /\ modal = 0 /\ noteLines = 0 /\ draft = 0 /\ late = 0
    /\ addText = 0 /\ adds = 0 /\ created = 0 /\ typed = 0 /\ typedNote = 0 /\ opened = 0
    /\ touched = 0 /\ submitted = 0
NoQueues  == events = 0 /\ requests = 0 /\ others = 0
NoTexts   == store = 0 /\ timer = 0 /\ truth = 0 /\ edits = 0 /\ lost = 0
NoForm    == form = 0
NoCrossed == crossed = 0
NoFlags   == error = 0 /\ importing = 0

RowsIdle  == /\ NoRows /\ NoImport /\ NoNotes /\ NoEditors /\ NoQueues /\ NoTexts
             /\ NoForm /\ NoCrossed /\ NoFlags /\ server = 0

RowsInit ==
    \/ part = "rows" /\ Y!Init /\ NoImport /\ NoNotes /\ NoEditors /\ NoTexts
    \/ /\ part = "import" /\ I!Init
       /\ NoRows /\ NoNotes /\ NoEditors /\ NoTexts /\ NoQueues /\ NoForm /\ NoCrossed
    \/ part = "notes" /\ M!Init /\ NoRows /\ NoImport /\ NoEditors /\ NoForm /\ NoFlags
    \/ part = "editors" /\ E!Init /\ NoRows /\ NoImport /\ NoNotes /\ NoCrossed /\ NoFlags

RowsNext ==
    \/ /\ part = "rows" /\ Y!Next
       /\ UNCHANGED <<part, importOnly, notesOnly, editorsOnly, textOnly>>
    \/ /\ part = "import" /\ I!Next
       /\ UNCHANGED <<part, rowsOnly, notesOnly, editorsOnly, textOnly, shared>>
    \/ /\ part = "notes" /\ M!Next
       /\ UNCHANGED <<part, rowsOnly, importOnly, editorsOnly, form, error, importing>>
    \/ /\ part = "editors" /\ E!Next
       /\ UNCHANGED <<part, rowsOnly, importOnly, notesOnly, crossed, error, importing>>

RowsSpec == RowsInit /\ [][RowsNext]_rowsVars

(* Once all is quiet the tab shows what the server holds; an import adds   *)
(* nothing twice, goes with the mapping of its file and replaces what was  *)
(* agreed to; an entry stays in the form until its row is made.            *)
RowsAndImports ==
    /\ [](part = "rows" => Y!QuietShowsServer /\ Y!ImportIdempotent)
    /\ [](part = "import" => I!ImportSeen /\ I!RestoreAgreed /\ I!MappingFits)
    /\ [][part = "rows" => Y!EntryStep]_rowsVars

(* What is typed stays until it is saved, and the last word of all becomes *)
(* the day's note (DayNoteField); no write of an editor of a task carries  *)
(* a field its user left alone (taskStore.update).                         *)
TypingIsKept ==
    /\ part = "notes"   => M!TypingStays /\ M!LastWordKept
    /\ part = "editors" => E!TypingIsKept /\ E!NoBystanderWrites
=============================================================================
