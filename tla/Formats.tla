------------------------------ MODULE Formats -------------------------------
(***************************************************************************)
(* The formats of other programs (packages/shared/src/adapters/import and  *)
(* export): what is written is read back, and what others wrote is read    *)
(* as they meant it.  A text is a sequence of symbols: the characters the  *)
(* formats give a meaning to are symbols, and so is a whole date, time,    *)
(* tag, number or word.                                                    *)
(***************************************************************************)
EXTENDS Integers, SequencesExt, FiniteSetsExt

CONSTANTS None,
    MaxText,     \* TASK_CONSTRAINTS.MAX_TEXT_LENGTH
    FoldAt       \* octets of a line of iCalendar, 75 in the code

Quote == "quote"
CR    == "cr"
LF    == "lf"
Slash == "backslash"
Blank == {" ", CR, LF}

(* String.prototype.trim().                                                *)
Trim(text) ==
    LET ink == { i \in DOMAIN text : text[i] \notin Blank }
    IN  IF ink = {} THEN <<>> ELSE SubSeq(text, Min(ink), Max(ink))

TextOr(text) == IF text = None THEN <<>> ELSE text

(* Pieces of text with sep between them: join(sep).                        *)
Join(pieces, sep) ==
    IF pieces = <<>> THEN <<>>
    ELSE FoldLeft(LAMBDA s, p : s \o sep \o p, Head(pieces), Tail(pieces))

Dates == {"d1", "d2"}
Times == {"t1", "t2"}
Tags  == {"p1", "p2", "home"}
Priorities == <<"p1", "p2", "p3">>     \* PRIORITY_TAGS

----------------------------------------------------------------------------
(* CSV, written and read.                                                  *)

(* Slip: a cell with a line break alone is written as it is.               *)
EscapeUnlessBreak(cell) ==
    IF \E i \in DOMAIN cell : cell[i] \in {",", Quote}
    THEN <<Quote>> \o FoldLeft(LAMBDA s, c : s \o (IF c = Quote THEN <<Quote, Quote>> ELSE <<c>>),
                               <<>>, cell) \o <<Quote>>
    ELSE cell

EscapeCell(cell) ==
    IF \E i \in DOMAIN cell : cell[i] \in {",", Quote, LF, CR}
    THEN <<Quote>> \o FoldLeft(LAMBDA s, c : s \o (IF c = Quote THEN <<Quote, Quote>> ELSE <<c>>),
                               <<>>, cell) \o <<Quote>>
    ELSE cell

(* A task's cell in a column.                                              *)
CellOf(t, column) ==
    CASE column = "text"      -> t.text
      [] column = "notes"     -> TextOr(t.notes)
      [] column = "completed" -> IF t.completed THEN <<"true">> ELSE <<"false">>
      [] column = "date"      -> IF t.date = None THEN <<>> ELSE <<t.date>>
      [] column = "tags"      -> Join([i \in DOMAIN t.tags |-> <<t.tags[i]>>], <<" ">>)
      [] column = "priority"  -> LET p == SelectSeq(Priorities, LAMBDA x : x \in ToSet(t.tags))
                                 IN  IF p = <<>> THEN <<>> ELSE <<p[1]>>
      [] column = "startTime" -> IF t.start = None THEN <<>> ELSE <<t.start>>
      [] column = "endTime"   -> IF t.end = None THEN <<>> ELSE <<t.end>>
      [] OTHER                -> <<"more">>

ExportCsv(tasks, columns) ==
    LET active == SelectSeq(tasks, LAMBDA t : ~t.deleted)
        row(t) == Join([i \in DOMAIN columns |-> EscapeCell(CellOf(t, columns[i]))], <<",">>)
        lines  == << Join([i \in DOMAIN columns |-> <<columns[i]>>], <<",">>) >>
                  \o [i \in DOMAIN active |-> row(active[i])]
    IN  Join(lines, <<CR, LF>>) \o <<CR, LF>>

ParseCsv(text) ==
    LET pushCell(s) == [s EXCEPT !.row = Append(@, s.cell), !.cell = <<>>, !.started = FALSE]
        pushRow(s)  == LET p == pushCell(s) IN [p EXCEPT !.rows = Append(@, p.row), !.row = <<>>]
        followed(i, c) == i < Len(text) /\ text[i + 1] = c
        step(s, i) ==
            LET c == text[i] IN
            CASE s.skip -> [s EXCEPT !.skip = FALSE]
              [] ~s.skip /\ s.quoted ->
                    IF c # Quote THEN [s EXCEPT !.cell = Append(@, c)]
                    ELSE IF followed(i, Quote) THEN [s EXCEPT !.cell = Append(@, Quote), !.skip = TRUE]
                    ELSE [s EXCEPT !.quoted = FALSE]
              [] ~s.skip /\ ~s.quoted ->
                    CASE c = Quote /\ s.cell = <<>> -> [s EXCEPT !.quoted = TRUE, !.started = TRUE]
                      [] c = ","  -> pushCell(s)
                      [] c = LF   -> pushRow(s)
                      [] c = CR   -> IF followed(i, LF) THEN s ELSE pushRow(s)
                      [] OTHER    -> [s EXCEPT !.cell = Append(@, c), !.started = TRUE]
        end == FoldLeft(step, [rows |-> <<>>, row |-> <<>>, cell |-> <<>>, skip |-> FALSE,
                               quoted |-> FALSE, started |-> FALSE],
                        [i \in DOMAIN text |-> i])
    IN  IF end.cell # <<>> \/ end.started \/ end.row # <<>> THEN pushRow(end).rows ELSE end.rows

(* Header names per field, lower-cased and without punctuation; the column *)
(* names the export writes are among them.                                 *)
Fields == {"text", "notes", "date", "tags", "completed", "priority", "startTime", "endTime"}
HeaderAliases ==
    [text |-> {"text", "title"}, notes |-> {"notes", "note"}, date |-> {"date", "due"},
     tags |-> {"tags", "labels"}, completed |-> {"completed", "done"}, priority |-> {"priority"},
     startTime |-> {"startTime", "start"}, endTime |-> {"endTime", "until"}]

(* A field's column: the first of its names, read where that name is last. *)
(* No name belongs to two fields, so that no column is used twice.         *)
ColumnOf(header, field) ==
    LET named == { i \in DOMAIN header : header[i] # <<>> /\ header[i][1] \in HeaderAliases[field] }
    IN  IF named = {} THEN None
        ELSE Max({ i \in DOMAIN header : header[i] = header[Min(named)] })

Truthy == {"true", "done", "x"}

(* The parsed rows as tasks, by the columns found in the header; a row     *)
(* that does not fit is left out with a warning.                           *)
ImportCsv(rows) ==
    LET header == rows[1]
        cells  == [row \in ToSet(rows) |-> [field \in Fields |->
                      LET c == ColumnOf(header, field)
                      IN  IF c = None \/ c > Len(row) THEN None ELSE row[c]]]
        values == [row \in ToSet(rows) |-> [field \in Fields |-> Trim(TextOr(cells[row][field]))]]
        single(v) == IF v = <<>> THEN None ELSE v[1]
        fits(row) ==
            /\ \E i \in DOMAIN row : Trim(row[i]) # <<>>
            /\ Len(values[row].text) \in 1 .. MaxText
            /\ LET d == values[row].date
               IN  d = <<>> \/ (d[1] \in Dates /\ (Len(d) = 1 \/ d[2] \in Blank))
            /\ \A f \in {"startTime", "endTime"} :
                    values[row][f] = <<>> \/ (Len(values[row][f]) = 1 /\ values[row][f][1] \in Times)
        tagsOf(row) ==
            LET words == SelectSeq(TextOr(cells[row].tags), LAMBDA c : c \notin Blank \cup {",", ";"})
                prio  == values[row].priority
            IN  words \o (IF prio \in { <<p>> : p \in ToSet(Priorities) } THEN prio ELSE <<>>)
        task == [row \in ToSet(rows) |->
            [text |-> values[row].text,
             notes |-> IF cells[row].notes = None THEN None ELSE values[row].notes,
             date |-> single(values[row].date), start |-> single(values[row].startTime),
             end |-> single(values[row].endTime), tags |-> tagsOf(row),
             completed |-> values[row].completed \in { <<w>> : w \in Truthy }]]
        good == SelectSeq(Tail(rows), fits)
    IN  IF rows = <<>> \/ ColumnOf(header, "text") = None THEN None
        ELSE [i \in DOMAIN good |-> task[good[i]]]

----------------------------------------------------------------------------
(* Todoist: rows with type, text ("long" for too long a one, "" for none)  *)
(* and indent; a note of an attachment alone is one without text, and      *)
(* labels, dates and priorities are left out.  The result says of each row *)
(* what it became, and under which row (0: none) it was put.               *)

(* Slip: a deeper task stays on the stack after a shallower one.           *)
NestAlways(stack, indent, r) == Append(stack, r)

(* The stack after a task at a depth: the last task at each depth.         *)
Nest(stack, indent, r) == Append(SubSeq(stack, 1, Min({indent - 1, Len(stack)})), r)

PushTask(s, row, r) ==
    LET nested == row.indent > 1 /\ s.stack # <<>>
        parent == IF nested /\ row.indent - 1 <= Len(s.stack) THEN s.stack[row.indent - 1] ELSE 0
    IN  CASE row.text = ""     -> [s EXCEPT !.out = Append(@, <<"warning", 0>>), !.stack = <<>>, !.last = 0]
          [] row.text = "long" -> [s EXCEPT !.out = Append(@, <<"warning", 0>>), !.last = 0]
          [] OTHER -> [out   |-> Append(s.out, <<"task", parent>>),
                       stack |-> IF nested THEN Nest(s.stack, row.indent, r) ELSE <<r>>,
                       last  |-> r]

ImportTodoist(rows) ==
    LET put(s, what, under) == [s EXCEPT !.out = Append(@, <<what, under>>)]
        step(s, r) ==
            LET row == rows[r] IN
            CASE row.type = "note" /\ row.text = "" -> put(s, "nothing", 0)
              [] row.type = "note" /\ row.text # "" ->
                    IF s.last = 0 THEN put(s, "warning", 0) ELSE put(s, "note", s.last)
              [] row.type \in {"section", "project"} -> put([s EXCEPT !.stack = <<>>], "warning", 0)
              [] row.type = "task"    -> PushTask(s, row, r)
              [] OTHER                -> put(s, "warning", 0)
    IN  FoldLeft(step, [out |-> <<>>, stack |-> <<>>, last |-> 0], [r \in DOMAIN rows |-> r]).out

----------------------------------------------------------------------------
(* Slip: a deadline replaces the notes.                                    *)
DeadlineOrNotes(e) ==
    IF e.deadline \in Dates THEN <<"Deadline: ", e.deadline>> ELSE e.notes

(* The notes of a Things to-do: subtitle, notes, deadline.                 *)
ThingsNotes(e) ==
    LET own  == Trim(TextOr(e.notes))
        sub  == Trim(TextOr(e.subtitle))
        both == IF sub = <<>> THEN own ELSE IF own = <<>> THEN sub ELSE sub \o <<LF>> \o own
        all  == IF e.deadline \in Dates THEN Trim(both \o <<LF, "Deadline: ", e.deadline>>) ELSE both
    IN  IF all = <<>> THEN None ELSE all

(* Things: to-dos with checklists; what is not a to-do with a title is     *)
(* left out with a warning.                                                *)
ImportThings(entries) ==
    LET fits(e) == e.type = "to-do" /\ Len(Trim(e.title)) \in 1 .. MaxText
        items(e) == SelectSeq(e.checklist, LAMBDA c : Trim(c.title) # <<>>)
        task(e) ==
            [text |-> Trim(e.title), notes |-> ThingsNotes(e), date |-> IF e.date \in Dates THEN e.date ELSE None,
             start |-> IF e.reminder \in Times THEN e.reminder ELSE None,
             status |-> e.status,
             subtasks |-> [i \in DOMAIN items(e) |->
                            [text |-> Trim(items(e)[i].title), status |-> items(e)[i].status]]]
        good == SelectSeq(entries, fits)
    IN  [i \in DOMAIN good |-> task(good[i])]

----------------------------------------------------------------------------
(* iCalendar, written; the lines nothing reads back are left out.          *)
EscapeText(text) ==
    LET written(i) ==
            CASE text[i] \in {Slash, ";", ","} -> <<Slash, text[i]>>
              [] text[i] \in {CR, LF} ->
                    IF text[i] = CR /\ i < Len(text) /\ text[i + 1] = LF THEN <<>> ELSE <<Slash, "n">>
              [] OTHER -> <<text[i]>>
    IN  FlattenSeq([i \in DOMAIN text |-> written(i)])

(* A line in pieces of FoldAt octets; each but the first begins with a     *)
(* blank, which counts.                                                    *)
FoldLine(line) ==
    LET step(s, c) == IF Len(Last(s)) + 1 > FoldAt THEN Append(s, <<" ", c>>)
                      ELSE [s EXCEPT ![Len(s)] = Append(@, c)]
    IN  Join(FoldLeft(step, << <<>> >>, line), <<CR, LF>>)

EventLines(t) ==
    << <<"BEGIN", ":", "VEVENT">> >>
    \o (IF t.start = None THEN << <<"DTSTART", ";", "VALUE=DATE", ":", t.date>> >>
        ELSE << <<"DTSTART", ":", t.date, "T", t.start>> >>
             \o (IF t.end = None THEN <<>> ELSE << <<"DTEND", ":", t.date, "T", t.end>> >>))
    \o << <<"SUMMARY", ":">> \o EscapeText(t.text) >>
    \o (IF t.notes = None THEN <<>> ELSE << <<"DESCRIPTION", ":">> \o EscapeText(t.notes) >>)
    \o (IF t.tags = <<>> THEN <<>>
        ELSE << <<"CATEGORIES", ":">> \o Join([i \in DOMAIN t.tags |-> <<t.tags[i]>>], <<",">>) >>)
    \o << <<"END", ":", "VEVENT">> >>

ExportIcal(tasks) ==
    LET shown == SelectSeq(tasks, LAMBDA t : ~t.deleted /\ t.date # None)
        lines == << <<"BEGIN", ":", "VCALENDAR">> >>
                 \o FlattenSeq([i \in DOMAIN shown |-> EventLines(shown[i])])
                 \o << <<"END", ":", "VCALENDAR">> >>
    IN  Join([i \in DOMAIN lines |-> FoldLine(lines[i])], <<CR, LF>>) \o <<CR, LF>>

----------------------------------------------------------------------------
(* iCalendar, read.                                                        *)

(* Slip: a continuation loses all the blanks it begins with.               *)
InkOf(line) == Trim(line)

(* What a continuation adds: all but the blank it begins with.             *)
Continuation(line) == Tail(line)

(* Lines end at LF or CR LF; one that begins with a blank goes on.         *)
Unfold(text) ==
    LET step(s, i) ==
            CASE text[i] = LF -> Append(s, <<>>)
              [] text[i] = CR /\ i < Len(text) /\ text[i + 1] = LF -> s
              [] OTHER -> [s EXCEPT ![Len(s)] = Append(@, text[i])]
        raw == FoldLeft(step, << <<>> >>, [i \in DOMAIN text |-> i])
        join(s, line) ==
            CASE line = <<>> -> s
              [] line # <<>> /\ line[1] = " " /\ s # <<>> -> [s EXCEPT ![Len(s)] = @ \o Continuation(line)]
              [] OTHER -> Append(s, line)
    IN  FoldLeft(join, <<>>, raw)

ParseContentLine(line) ==
    LET colons == { i \in DOMAIN line : line[i] = ":" }
        colon  == Min(colons)
    IN  IF colons = {} THEN None
        ELSE [name |-> line[1], params |-> ToSet(SubSeq(line, 2, colon - 1)),
              value |-> SubSeq(line, colon + 1, Len(line))]

(* One pass of replace(): every "\c" becomes by.                           *)
Replaced(text, c, by) ==
    LET step(s, i) ==
            CASE s.skip -> [s EXCEPT !.skip = FALSE]
              [] ~s.skip /\ text[i] = Slash /\ i < Len(text) /\ text[i + 1] = c ->
                    [out |-> Append(s.out, by), skip |-> TRUE]
              [] OTHER -> [s EXCEPT !.out = Append(@, text[i])]
    IN  FoldLeft(step, [out |-> <<>>, skip |-> FALSE], [i \in DOMAIN text |-> i]).out

UnescapeText(text) ==
    Replaced(Replaced(Replaced(Replaced(text, "n", LF), ",", ","), ";", ";"), Slash, Slash)

(* A date, or a floating date and time; times of a zone go through         *)
(* WallTimeToInstant, further down.                                        *)
ParseWhen(line) ==
    CASE line = None -> None
      [] line # None /\ Len(line.value) = 1 /\ line.value[1] \in Dates ->
            [date |-> line.value[1], time |-> None]
      [] line # None /\ Len(line.value) = 3 /\ line.value[1] \in Dates /\ line.value[3] \in Times
            /\ "VALUE=DATE" \notin line.params ->
            [date |-> line.value[1], time |-> line.value[3]]
      [] OTHER -> None

(* An event's lines as a task, or None.                                    *)
FlushEvent(current) ==
    LET last(name) == LET own == SelectSeq(current, LAMBDA l : l.name = name)
                      IN  IF own = <<>> THEN None ELSE Last(own)
        text(name) == IF last(name) = None THEN <<>> ELSE Trim(last(name).value)
        start == ParseWhen(last("DTSTART"))
        end   == ParseWhen(last("DTEND"))
        names == SelectSeq(text("CATEGORIES"), LAMBDA c : c # ",")
    IN  IF \/ Len(text("SUMMARY")) \notin 1 .. MaxText
           \/ text("STATUS") = <<"CANCELLED">>
           \/ start = None
        THEN None
        ELSE [text  |-> text("SUMMARY"),
              notes |-> IF last("DESCRIPTION") = None THEN None
                        ELSE UnescapeText(last("DESCRIPTION").value),
              date |-> start.date, start |-> start.time,
              end |-> IF end # None /\ end.date = start.date THEN end.time ELSE None,
              tags |-> names]

ImportIcal(text) ==
    LET step(s, line) ==
            LET l == ParseContentLine(line) IN
            CASE l = None -> s
              [] l # None /\ l.name = "BEGIN" ->
                    IF l.value = <<"VEVENT">> THEN [s EXCEPT !.inEvent = TRUE, !.current = <<>>] ELSE s
              [] l # None /\ l.name = "END" ->
                    IF l.value = <<"VEVENT">> /\ s.inEvent
                    THEN [tasks |-> s.tasks \o (IF FlushEvent(s.current) = None THEN <<>>
                                                ELSE <<FlushEvent(s.current)>>),
                          inEvent |-> FALSE, current |-> <<>>]
                    ELSE s
              [] OTHER -> IF s.inEvent THEN [s EXCEPT !.current = Append(@, l)] ELSE s
    IN  FoldLeft(step, [tasks |-> <<>>, inEvent |-> FALSE, current |-> <<>>], Unfold(text)).tasks

(* zone.before and zone.after: what a zone is east of UTC before and from  *)
(* the instant zone.at.                                                    *)
ZoneOffset(zone, instant) == IF instant < zone.at THEN zone.before ELSE zone.after

(* Slip: one guess.                                                        *)
FirstGuess(wall, zone) == wall - ZoneOffset(zone, wall)

(* The instant of a wall time: three guesses, each corrected by the offset *)
(* at the one before.                                                      *)
WallTimeToInstant(wall, zone) ==
    FoldLeft(LAMBDA instant, round : wall - ZoneOffset(zone, instant), wall, <<1, 2, 3>>)

----------------------------------------------------------------------------
(* Slip: the dates in the order of the rows.                               *)
DatesOfRows(active) ==
    FoldLeft(LAMBDA s, t : IF t.date \in {None} \cup ToSet(s) THEN s ELSE Append(s, t.date), <<>>, active)

SectionDates(active) == SelectSeq(<<"d1", "d2">>, LAMBDA d : \E i \in DOMAIN active : active[i].date = d)

(* Markdown: a section for each date in order, then one for Someday.       *)
ExportMarkdown(tasks) ==
    LET active   == SelectSeq(tasks, LAMBDA t : ~t.deleted)
        on(d)    == SelectSeq(active, LAMBDA t : t.date = d)
        sections == SectionDates(active)
    IN  [i \in DOMAIN sections |-> on(sections[i])] \o (IF on(None) = <<>> THEN <<>> ELSE <<on(None)>>)

----------------------------------------------------------------------------
(* Properties.                                                             *)

(* The CSV export is imported again without a mapping, whatever columns    *)
(* were asked for and whatever the texts hold: every active task, with     *)
(* what its columns say (the priority once more among its tags).           *)
CsvReimports(tasks, columns) ==
    LET active == SelectSeq(tasks, LAMBDA t : ~t.deleted)
        has(c) == c \in ToSet(columns)
        kept(c, v) == IF has(c) THEN v ELSE None
        same(g, t) ==
            /\ g.text = Trim(t.text)
            /\ g.notes = kept("notes", Trim(TextOr(t.notes)))
            /\ g.date = kept("date", t.date)
            /\ g.start = kept("startTime", t.start)
            /\ g.end = kept("endTime", t.end)
            /\ g.completed = (has("completed") /\ t.completed)
            /\ ToSet(g.tags) \subseteq ToSet(t.tags)
            /\ has("tags") => ToSet(g.tags) = ToSet(t.tags)
    IN  has("text") =>
            \A rows \in { ParseCsv(ExportCsv(tasks, columns)) } : \A got \in { ImportCsv(rows) } :
                /\ Len(got) = Len(active)
                /\ \A i \in DOMAIN active : same(got[i], active[i])

(* A Todoist row becomes a sub-task of the nearest row above it at the     *)
(* depth before its own (lines 17-18 of the importer), when no depth is    *)
(* jumped and no row above it in its tree was left out; a note always      *)
(* belongs to the task above it or is warned of.                           *)
TodoistNests(rows) ==
    LET out     == ImportTodoist(rows)
        task(r) == rows[r].type = "task"
        ahead(r) == { q \in 1 .. r - 1 : rows[q].type # "note" }
        wellNested ==
            \A r \in DOMAIN rows : task(r) /\ rows[r].indent > 1 =>
                /\ ahead(r) # {}
                /\ out[Max(ahead(r))][1] = "task"
                /\ rows[Max(ahead(r))].indent >= rows[r].indent - 1
        above(r) == { q \in 1 .. r - 1 : task(q) /\ rows[q].indent = rows[r].indent - 1 }
        tasksAbove(r) == { q \in 1 .. r - 1 : task(q) }
    IN  /\ wellNested =>
            \A r \in DOMAIN rows : out[r][1] = "task" =>
                out[r][2] = IF rows[r].indent = 1 THEN 0 ELSE Max(above(r))
        /\ \A r \in DOMAIN rows : rows[r].type = "note" /\ rows[r].text # "" =>
            IF tasksAbove(r) # {} /\ out[Max(tasksAbove(r))][1] = "task"
            THEN out[r] = <<"note", Max(tasksAbove(r))>>
            ELSE out[r] = <<"warning", 0>>

(* No to-do with a title is lost, nor its status, its checklist, or a      *)
(* deadline, which has no field here and goes into the notes.              *)
ThingsKept(entries) ==
    LET got  == ImportThings(entries)
        mine == SelectSeq(entries, LAMBDA e : e.type = "to-do" /\ Trim(e.title) # <<>>
                                              /\ Len(Trim(e.title)) <= MaxText)
    IN  /\ Len(got) = Len(mine)
        /\ \A i \in DOMAIN mine :
            /\ got[i].status = mine[i].status
            /\ mine[i].deadline \in Dates => mine[i].deadline \in ToSet(TextOr(got[i].notes))
            /\ ToSet(Trim(TextOr(mine[i].notes))) \subseteq ToSet(TextOr(got[i].notes))
            /\ Len(got[i].subtasks) =
                Cardinality({ j \in DOMAIN mine[i].checklist : Trim(mine[i].checklist[j].title) # <<>> })

(* An own calendar is imported again: every active dated task, its notes   *)
(* with their line breaks, however long the lines.  Of a text only what    *)
(* needs no escape is kept, for SUMMARY is not unescaped, and a text whose *)
(* escaped form is too long is left out; of the notes, what has no         *)
(* backslash before an n is kept, for "\n" is replaced first.              *)
IcalReimports(tasks) ==
    LET shown == SelectSeq(tasks, LAMBDA t : /\ ~t.deleted /\ t.date # None
                                             /\ Len(Trim(EscapeText(t.text))) <= MaxText)
        got   == ImportIcal(ExportIcal(tasks))
        plain(text) == \A i \in DOMAIN text : text[i] \notin {Slash, ";", ",", CR, LF}
        clear(text) == \A i \in 1 .. Len(text) - 1 : ~(text[i] = Slash /\ text[i + 1] = "n")
        breaks(text) == FlattenSeq([i \in DOMAIN text |->
                            IF text[i] = CR /\ i < Len(text) /\ text[i + 1] = LF THEN <<>>
                            ELSE IF text[i] \in {CR, LF} THEN <<LF>> ELSE <<text[i]>>])
        same(g, t) ==
            /\ plain(t.text) => g.text = Trim(t.text)
            /\ t.notes = None => g.notes = None
            /\ t.notes # None /\ clear(t.notes) => g.notes = breaks(t.notes)
            /\ g.date = t.date /\ g.start = t.start /\ g.tags = t.tags
            /\ g.end = IF t.start = None THEN None ELSE t.end
    IN  /\ Len(got) = Len(shown)
        /\ \A i \in DOMAIN shown : same(got[i], shown[i])

(* Around a change of the clocks, a wall time that exists becomes an       *)
(* instant that shows it ("converges for stable zone rules").              *)
WallTimesExist(wall, zone) ==
    (\E i \in {wall - zone.before, wall - zone.after} : i + ZoneOffset(zone, i) = wall)
        => LET i == WallTimeToInstant(wall, zone) IN i + ZoneOffset(zone, i) = wall

(* The Markdown view shows every active task once, dates in order, whatever*)
(* order the rows come in.                                                 *)
MarkdownComplete(tasks) ==
    LET lines  == FlattenSeq(ExportMarkdown(tasks))
        active == SelectSeq(tasks, LAMBDA t : ~t.deleted)
        late(d) == CASE d = "d1" -> 1 [] d = "d2" -> 2 [] OTHER -> 3
    IN  /\ Len(lines) = Len(active) /\ ToSet(lines) = ToSet(active)
        /\ \A i, j \in DOMAIN lines : i < j => late(lines[i].date) <= late(lines[j].date)

(* What each kind of document promises.                                    *)
FormatsKept(doc) ==
    CASE doc.kind = "csv"     -> CsvReimports(doc.tasks, doc.columns)
      [] doc.kind = "todoist" -> TodoistNests(doc.rows)
      [] doc.kind = "things"  -> ThingsKept(doc.entries)
      [] doc.kind = "ics"     -> IcalReimports(doc.tasks) /\ MarkdownComplete(doc.tasks)
      [] doc.kind = "zone"    -> WallTimesExist(doc.wall, doc.zone)
=============================================================================
