------------------------------- MODULE Palette -------------------------------
(***************************************************************************)
(* The search box and command palette of the client: SearchModal.svelte    *)
(* with paletteCommands.ts, and what its commands ask of the task store.   *)
(*                                                                         *)
(* What is typed is a sequence of words, the first of them the command     *)
(* when it begins with a slash.  A task's text contains what is typed when *)
(* the words stand in it together.  The server's copy of the tasks and the *)
(* tab's are one here (TaskSync tells them apart).                         *)
(***************************************************************************)
EXTENDS Integers, Sequences

CONSTANTS
    Queries,    \* what may be typed: slash, word, args
    Begins,     \* typed word -> the commands that begin with it
    Bare,       \* word -> the word without its "#", in small letters
    Phrases,    \* words that are a date -> the day
    Texts,      \* texts of the tasks there are, in order
    Added,      \* what another tab may add
    Limit,      \* how many results are shown
    None,
    MaxActs, MaxOthers  \* bounds

VARIABLES
    task,       \* id -> text, done, day, tags; or None
    open,       \* the palette is there
    query, selectedIndex, running,
    calls,      \* writes under way: op, id, value, and whether its palette is still there
    focused,    \* uiStore.focusedTaskId; 0 is no task
    filters,    \* preferencesStore.activeFilters.tags
    scroll,     \* dateViewStore.pendingScrollTarget
    acts, others

vars == <<task, open, query, selectedIndex, running, calls, focused, filters, scroll, acts, others>>
view == <<focused, filters, scroll>>

Today == 0
Ids   == 1 .. Len(Texts) + 2
Commands ==
    <<"add", "complete", "delete", "move", "go", "tag", "filter", "clear", "today", "someday",
      "project", "habit", "settings", "help">>
NoArgs == {"clear", "today", "project", "habit", "settings", "help"}
Empty  == [slash |-> FALSE, word |-> "", args |-> <<>>]
Row(text) == [text |-> text, done |-> FALSE, day |-> Today, tags |-> {}]

TypeOK ==
    /\ \A t \in Ids : task[t] # None => task[t].done \in BOOLEAN
    /\ open \in BOOLEAN /\ running \in BOOLEAN /\ selectedIndex \in Nat /\ focused \in Ids \union {0}
    /\ \A c \in calls : c.op \in {"add", "complete", "delete", "move", "tag", "someday"}

(* The first of the tasks may be done.                                     *)
Init ==
    /\ \E d \in BOOLEAN : task = [t \in Ids |-> IF t > Len(Texts) THEN None
                                               ELSE [Row(Texts[t]) EXCEPT !.done = d /\ t = 1]]
    /\ open = TRUE /\ query = Empty /\ selectedIndex = 0 /\ running = FALSE /\ calls = {}
    /\ focused = 0 /\ filters = {} /\ scroll = None /\ acts = 0 /\ others = 0

----------------------------------------------------------------------------
(* What is shown.                                                          *)
Holds(text, q) == \E i \in 0 .. Len(text) - Len(q) : SubSeq(text, i + 1, i + Len(q)) = q

Typed(q) == IF q.word = "" THEN q.args ELSE <<q.word>> \o q.args
Matches(q, rows) ==
    IF q.slash \/ Typed(q) = <<>> THEN <<>>
    ELSE LET hits == SelectSeq([t \in Ids |-> t], LAMBDA t :
                        rows[t] # None /\ (Holds(rows[t].text, Typed(q)) \/ Typed(q) \in rows[t].tags))
         IN  SubSeq(hits, 1, IF Len(hits) < Limit THEN Len(hits) ELSE Limit)

MatchingCommands(q) == IF q.slash THEN SelectSeq(Commands, LAMBDA c : c \in Begins[q.word]) ELSE <<>>
ActiveCommand(q, i) ==
    LET m == MatchingCommands(q)
    IN  IF m = <<>> THEN None ELSE IF i < Len(m) THEN m[i + 1] ELSE m[1]

HasActionRow(q, i) == ActiveCommand(q, i) # None /\ q.args # <<>>
OptionCount(q, rows, i) ==
    IF ~q.slash THEN Len(Matches(q, rows))
    ELSE IF HasActionRow(q, i) THEN 1 ELSE Len(MatchingCommands(q))

(* Slip: only typing resets the selection.                                 *)
SelectedByTyping(q, rows) == IF q # query THEN 0 ELSE selectedIndex

(* The effect on a change of the query or of how many options there are.   *)
Selected(q, rows) ==
    IF q # query \/ OptionCount(q, rows, selectedIndex) # OptionCount(query, task, selectedIndex)
    THEN 0 ELSE selectedIndex

Settle == selectedIndex' = Selected(query', task')

----------------------------------------------------------------------------
(* paletteCommands.ts.                                                     *)

(* Slip: a task that is done is as good as any.                            *)
FindAny(q) ==
    LET hits == {t \in Ids : task[t] # None /\ q # <<>> /\ Holds(task[t].text, q)}
    IN  IF hits = {} THEN None ELSE CHOOSE t \in hits : \A u \in hits : t <= u

FindTaskByText(q) ==
    LET hits == {t \in Ids : task[t] # None /\ q # <<>> /\ Holds(task[t].text, q)}
        todo == {t \in hits : ~task[t].done}
        from == IF todo = {} THEN hits ELSE todo
    IN  IF hits = {} THEN None ELSE CHOOSE t \in from : \A u \in from : t <= u

Between(args, sep) == {i \in 2 .. Len(args) - 1 : args[i] = sep}
Split(args, i) == [left |-> SubSeq(args, 1, i - 1), right |-> SubSeq(args, i + 1, Len(args))]

(* Slip: the text ends at the first separator.                             *)
SplitOnFirst(args, sep) ==
    LET at == Between(args, sep)
    IN  IF at = {} THEN None ELSE Split(args, CHOOSE i \in at : \A j \in at : i <= j)

SplitOnLast(args, sep) ==
    LET at == Between(args, sep)
    IN  IF at = {} THEN None ELSE Split(args, CHOOSE i \in at : \A j \in at : j <= i)

NormalizeTagInput(ws) == IF ws = <<>> THEN <<>> ELSE [ws EXCEPT ![1] = Bare[@]]
DateOf(ws) == IF ws \in DOMAIN Phrases THEN Phrases[ws] ELSE None

----------------------------------------------------------------------------
(* dispatch().  A command writes to a task, writes nothing that can fail,  *)
(* or is refused and leaves the query for another try.                     *)
Write(op, id, value) == [op |-> op, id |-> id, value |-> value, here |-> TRUE]

OnTask(op, words, value) ==
    LET t == FindTaskByText(words) IN IF t = None THEN {} ELSE {Write(op, t, value)}

Tagged(with) ==
    LET t == FindTaskByText(with.left)
    IN  t # None /\ NormalizeTagInput(with.right) # <<"">> /\ NormalizeTagInput(with.right) \in task[t].tags

Writes(command, args) ==
    LET move == SplitOnLast(args, "to")
        with == SplitOnLast(args, "with")
    IN  CASE command = "add" -> {Write("add", 0, args)}
          [] command \in {"complete", "delete", "someday"} -> OnTask(command, args, None)
          [] command = "move" /\ move # None ->
                IF DateOf(move.right) = None THEN {} ELSE OnTask("move", move.left, DateOf(move.right))
          [] command = "tag" /\ with # None ->
                IF NormalizeTagInput(with.right) = <<"">> \/ FindTaskByText(with.left) = None
                   \/ Tagged(with) THEN {}
                ELSE OnTask("tag", with.left, task[FindTaskByText(with.left)].tags
                                                 \union {NormalizeTagInput(with.right)})
          [] OTHER -> {}

Instant(command, args) ==
    \/ command \in {"clear", "today", "project", "habit", "settings", "help"}
    \/ command = "filter" /\ NormalizeTagInput(args) # <<"">>
    \/ command = "go" /\ DateOf(args) # None
    \/ command = "tag" /\ SplitOnLast(args, "with") # None /\ Tagged(SplitOnLast(args, "with"))

(* Slip: nothing keeps a second Enter from running the command again.      *)
ReadyAlways == TRUE
Ready       == ~running

Act == acts < MaxActs /\ acts' = acts + 1 /\ UNCHANGED others
Command == ActiveCommand(query, selectedIndex)
Runs    == open /\ query.slash /\ Command # None /\ Ready /\ (Command \in NoArgs \/ query.args # <<>>)

(* Enter, or a click on the action row.                                    *)
RunWrite ==
    /\ Act /\ Runs /\ \E c \in Writes(Command, query.args) : calls' = calls \union {c}
    /\ running' = TRUE /\ UNCHANGED <<task, open, query, selectedIndex, view>>

(* What a command opens is closed again with the palette: closeModal()     *)
(* runs after openModal().                                                 *)
RunInstant ==
    /\ Act /\ Runs /\ Instant(Command, query.args) /\ open' = FALSE
    /\ filters' = CASE Command = "filter" -> {NormalizeTagInput(query.args)}
                    [] Command = "clear"  -> {}
                    [] OTHER              -> filters
    /\ scroll' = CASE Command = "today" -> Today
                   [] Command = "go"    -> DateOf(query.args)
                   [] OTHER             -> scroll
    /\ calls' = {[c EXCEPT !.here = FALSE] : c \in calls}
    /\ UNCHANGED <<task, query, selectedIndex, running, focused>>

(* Enter on, or a click on, a command that wants an argument.              *)
Stage(command) == query' = [slash |-> TRUE, word |-> command, args |-> <<>>]

StageCommand ==
    /\ Act /\ open /\ query.slash /\ query.args = <<>>
    /\ \/ Ready /\ Command # None /\ Command \notin NoArgs /\ Stage(Command)
       \/ \E i \in DOMAIN MatchingCommands(query) : Stage(MatchingCommands(query)[i])
    /\ UNCHANGED <<task, open, running, calls, view>> /\ Settle

Type(q) ==
    /\ Act /\ open /\ q # query /\ query' = q
    /\ UNCHANGED <<task, open, running, calls, view>> /\ Settle

(* Slip: the arrows go on past the last option.                            *)
MovedOn(i, delta) == IF i + delta < 0 THEN 0 ELSE i + delta

Moved(i, delta) ==
    LET last == OptionCount(query, task, i) - 1
    IN  IF i + delta < 0 THEN 0 ELSE IF i + delta > last THEN last ELSE i + delta

MoveSelection(delta) ==
    /\ Act /\ open /\ OptionCount(query, task, selectedIndex) > 0
    /\ selectedIndex' = Moved(selectedIndex, delta)
    /\ UNCHANGED <<task, open, query, running, calls, view>>

(* Enter, or a click on a result.                                          *)
HandleSelect ==
    /\ Act /\ open
    /\ \E i \in DOMAIN Matches(query, task) : focused' = Matches(query, task)[i]
    /\ open' = FALSE /\ calls' = {[c EXCEPT !.here = FALSE] : c \in calls}
    /\ UNCHANGED <<task, query, selectedIndex, running, filters, scroll>>

Close ==
    /\ Act /\ open /\ open' = FALSE /\ calls' = {[c EXCEPT !.here = FALSE] : c \in calls}
    /\ UNCHANGED <<task, query, selectedIndex, running, view>>

Open ==
    /\ Act /\ ~open /\ open' = TRUE /\ query' = Empty /\ selectedIndex' = 0 /\ running' = FALSE
    /\ UNCHANGED <<task, calls, view>>

----------------------------------------------------------------------------
(* How a write ends: done, refused or lost, or a delete declined.          *)
Written(c) ==
    CASE c.op = "complete" -> [task EXCEPT ![c.id].done = TRUE]
      [] c.op = "delete"   -> [task EXCEPT ![c.id] = None]
      [] c.op = "move"     -> [task EXCEPT ![c.id].day = c.value]
      [] c.op = "someday"  -> [task EXCEPT ![c.id].day = None]
      [] c.op = "tag"      -> [task EXCEPT ![c.id].tags = c.value]
      [] c.op = "add"      -> [task EXCEPT ![Len(Texts) + 1] = Row(c.value)]

(* Slip: the palette closes whatever the outcome.                          *)
ClosesAnyhow(ok) == TRUE
Closes(ok)       == ok

Answer(c) ==
    /\ \E ok \in BOOLEAN :
          /\ ok => (c.op = "add" /\ task[Len(Texts) + 1] = None) \/ (c.op # "add" /\ task[c.id] # None)
          /\ task' = IF ok THEN Written(c) ELSE task
          /\ open' = (open /\ ~Closes(ok))
    /\ calls' = calls \ {c} /\ running' = (running /\ ~c.here)
    /\ UNCHANGED <<query, view, acts, others>> /\ Settle

(* Another tab completes, deletes, tags or adds a task.                    *)
Elsewhere ==
    /\ others < MaxOthers /\ others' = others + 1
    /\ \/ \E t \in Ids : /\ task[t] # None
                         /\ \E row \in {None, [task[t] EXCEPT !.done = ~@], [task[t] EXCEPT !.tags = {<<"home">>}]} :
                               task' = [task EXCEPT ![t] = row]
       \/ \E text \in Added : task' = [task EXCEPT ![Len(Texts) + 2] = Row(text)]
    /\ UNCHANGED <<open, query, running, calls, view, acts>> /\ Settle

Next ==
    \/ \E q \in Queries : Type(q)
    \/ \E delta \in {-1, 1} : MoveSelection(delta)
    \/ RunWrite \/ RunInstant \/ StageCommand \/ HandleSelect \/ Close \/ Open
    \/ \E c \in calls : Answer(c)
    \/ Elsewhere

Spec == Init /\ [][Next]_vars

----------------------------------------------------------------------------
(* While there are options one of them is selected, also after the tasks   *)
(* have changed under the list.                                            *)
SelectionShown ==
    open /\ OptionCount(query, task, selectedIndex) > 0 =>
        selectedIndex < OptionCount(query, task, selectedIndex)

(* A palette has one command under way at most.                            *)
OneAtATime == \A c, d \in calls : c.here /\ d.here => c = d

(* A task can be moved by its whole text, whatever words are in it.        *)
WholeTextMoves ==
    \A t \in Ids, p \in DOMAIN Phrases :
        /\ task[t] # None /\ query.slash
        /\ query.args = task[t].text \o <<"to">> \o p
        /\ \A u \in Ids \ {t} : task[u] # None => ~Holds(task[u].text, task[t].text)
        => Writes("move", query.args) = {Write("move", t, Phrases[p])}

(* No step takes a task that is done while an undone one was meant too,    *)
(* and of the outcomes only a successful one closes the palette (a step).  *)
CommandStep ==
    /\ \A c \in calls' \ calls : c.here /\ c.op \in {"complete", "delete", "someday"} /\ task[c.id].done =>
          \A t \in Ids : task[t] # None /\ Holds(task[t].text, query.args) => task[t].done
    /\ acts' = acts /\ open /\ ~open' => \E c \in calls \ calls' : task' = Written(c)

(* What another tab did to a task's tags is kept by /tag.  It is not: the  *)
(* tags are those of when Enter was pressed.                               *)
TagsKept ==
    \A t \in Ids : task[t] # None /\ others > 0 /\ <<"home">> \in task[t].tags =>
        \A c \in calls : c.op = "tag" /\ c.id = t => <<"home">> \in c.value
=============================================================================
