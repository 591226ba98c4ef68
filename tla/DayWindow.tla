------------------------------ MODULE DayWindow ------------------------------
(***************************************************************************)
(* The scrolling day list and the month minimap beside it: DayList.svelte, *)
(* DateMinimap.svelte and the dateViewStore that links them.               *)
(*                                                                         *)
(* Every row is as high as any other and HEIGHT of them are in view; pos   *)
(* is how many rows are above.  A sentinel at either end reports to its    *)
(* observer when it comes into view or leaves it.  What a report does, and *)
(* keeping the anchor's place afterwards, is over before the next report.  *)
(***************************************************************************)
EXTENDS Integers, Sequences, SequencesExt, FiniteSets

CONSTANTS
    CHUNK_DAYS, MAX_RENDER_DAYS, CHUNK_MONTHS, MAX_RENDER_MONTHS,
    HEIGHT,         \* rows in view
    MonthDays,      \* days of a month
    Ranges,         \* date filters: <<from, to>>, either may be None
    Targets,        \* days that may be gone to
    Busy,           \* days that may hold tasks
    None,
    Reach, MaxActs  \* bounds: how far the list may grow, what the user does

VARIABLES
    visibleStart, visibleEnd,   \* DayList's window
    pos,
    seen,           \* what the observers last reported: top, bottom
    range, showEmptyDays, tasks,
    today,
    target, requests,   \* dateViewStore.pendingScrollTarget, requestId
    focusedDate, due,   \* what is published, and whether its timer runs
    months,             \* DateMinimap's window
    asked, jumped,      \* history: days habits were asked for; days a jump showed
    acts

vars == <<visibleStart, visibleEnd, pos, seen, range, showEmptyDays, tasks, today, target, requests,
          focusedDate, due, months, asked, jumped, acts>>
window == <<visibleStart, visibleEnd>>
inputs == <<range, showEmptyDays, tasks, today>>

Lower(a, b) == IF a < b THEN a ELSE b
Upper(a, b) == IF a > b THEN a ELSE b
Month(d)    == d \div MonthDays

InRange(d, r) == (r[1] # None => r[1] <= d) /\ (r[2] # None => d <= r[2])

----------------------------------------------------------------------------
(* What is drawn.                                                          *)

(* Slip: only the days that hold tasks, and today.                         *)
KeptPlain(d, held, goal) == d \in held \/ d = today
Kept(d, held, goal)      == d \in held \/ d = today \/ d = goal

(* displayDateKeys.                                                        *)
Rows(s, e, r, empties, held, goal) ==
    SelectSeq([i \in 1 .. e - s + 1 |-> s + i - 1],
              LAMBDA d : InRange(d, r) /\ (empties \/ Kept(d, held, goal)))

Shown  == Rows(visibleStart, visibleEnd, range, showEmptyDays, tasks, target)
ShownNext == Shown'

Clamped(p, rows) == Upper(0, Lower(p, Len(rows) - HEIGHT))
IndexOf(d, rows) == CHOOSE i \in DOMAIN rows : rows[i] = d
Center(p, rows)  == IF rows = <<>> THEN None ELSE rows[Lower(p + 1 + HEIGHT \div 2, Len(rows))]

(* pickAnchorEl(), and the scrollTop that puts the anchor where it was.    *)
Anchored(old, new) ==
    LET a == Center(pos, old)
    IN  IF a = None \/ ~Contains(new, a) THEN Clamped(pos, new)
        ELSE Clamped(pos + IndexOf(a, new) - IndexOf(a, old), new)

Near(end, p, rows) == IF end = "top" THEN p = 0 ELSE p + HEIGHT >= Len(rows)

TypeOK ==
    /\ visibleStart <= visibleEnd /\ visibleEnd - visibleStart <= MAX_RENDER_DAYS
    /\ months[1] <= months[2] /\ months[2] - months[1] <= MAX_RENDER_MONTHS
    /\ pos \in 0 .. Upper(0, Len(Shown) - HEIGHT)
    /\ seen \in [{"top", "bottom"} -> BOOLEAN] /\ due \in BOOLEAN

(* As mounted, scrolled to today.                                          *)
Init ==
    /\ today = 0 /\ visibleStart = -CHUNK_DAYS /\ visibleEnd = CHUNK_DAYS
    /\ range = <<None, None>> /\ showEmptyDays \in BOOLEAN /\ tasks \in SUBSET Busy
    /\ target = None /\ requests = 0
    /\ LET rows == Rows(visibleStart, visibleEnd, range, showEmptyDays, tasks, None)
       IN  pos = Clamped(IndexOf(0, rows) - 1 - HEIGHT \div 2, rows)
    /\ seen = [e \in {"top", "bottom"} |-> FALSE] /\ focusedDate = None /\ due = TRUE
    /\ months = <<Month(0) - CHUNK_MONTHS, Month(0) + CHUNK_MONTHS>>
    /\ asked = visibleStart .. visibleEnd /\ jumped = {} /\ acts = 0

----------------------------------------------------------------------------
(* extendUp() and extendDown() of the day list.                            *)

(* Slip: the date filter does not bound the list.                          *)
AlwaysMore(end) == TRUE

More(end) ==
    IF end = "top" THEN range[1] = None \/ visibleStart > range[1]
    ELSE range[2] = None \/ visibleEnd < range[2]

(* Slip: habits are asked for from the last day to the new one, the edge   *)
(* of the chunk left out.                                                  *)
ChunkShort(end) ==
    IF end = "top" THEN visibleStart - CHUNK_DAYS .. visibleStart - 2
    ELSE visibleEnd + 2 .. visibleEnd + CHUNK_DAYS

Chunk(end) ==
    IF end = "top" THEN visibleStart - CHUNK_DAYS .. visibleStart - 1
    ELSE visibleEnd + 1 .. visibleEnd + CHUNK_DAYS

(* Slip: the far end of the window is not trimmed.                         *)
ExtendUpOnly == visibleStart' = visibleStart - CHUNK_DAYS /\ visibleEnd' = visibleEnd

ExtendUp ==
    /\ visibleStart' = visibleStart - CHUNK_DAYS
    /\ visibleEnd' = Lower(visibleEnd, visibleStart' + MAX_RENDER_DAYS)

ExtendDown ==
    /\ visibleEnd' = visibleEnd + CHUNK_DAYS
    /\ visibleStart' = Upper(visibleStart, visibleEnd' - MAX_RENDER_DAYS)

(* An observer reports.  It does so only when its sentinel came into view  *)
(* or left it since: one that stays in view is not reported again.         *)
Report(end) ==
    /\ seen[end] # Near(end, pos, Shown) /\ seen' = [seen EXCEPT ![end] = ~@]
    /\ visibleStart - CHUNK_DAYS >= -Reach /\ visibleEnd + CHUNK_DAYS <= Reach
    /\ UNCHANGED <<inputs, target, requests, focusedDate, months, jumped, acts>>
    /\ IF seen'[end] /\ More(end)
       THEN /\ IF end = "top" THEN ExtendUp ELSE ExtendDown
            /\ asked' = asked \union Chunk(end)
            /\ pos' = Anchored(Shown, ShownNext)
       ELSE UNCHANGED <<window, asked, pos>>
    /\ due' = (due \/ pos' # pos)

----------------------------------------------------------------------------
(* The minimap.                                                            *)

(* Slip: the rail grows by one chunk toward a month it does not hold.      *)
GrownByChunk(w, m) ==
    IF m < w[1] THEN <<w[1] - CHUNK_MONTHS, Lower(w[2], w[1] - CHUNK_MONTHS + MAX_RENDER_MONTHS)>>
    ELSE IF m > w[2] THEN <<Upper(w[1], w[2] + CHUNK_MONTHS - MAX_RENDER_MONTHS), w[2] + CHUNK_MONTHS>>
    ELSE w

(* Both effects: the window slides to a month it does not hold.            *)
Including(w, m) ==
    IF m < w[1] THEN <<m - CHUNK_MONTHS, Lower(w[2], m - CHUNK_MONTHS + MAX_RENDER_MONTHS)>>
    ELSE IF m > w[2] THEN <<Upper(w[1], m + CHUNK_MONTHS - MAX_RENDER_MONTHS), m + CHUNK_MONTHS>>
    ELSE w

MinimapExtends ==
    /\ acts < MaxActs /\ acts' = acts + 1
    /\ \/ months' = <<months[1] - CHUNK_MONTHS,
                      Lower(months[2], months[1] - CHUNK_MONTHS + MAX_RENDER_MONTHS)>>
       \/ months' = <<Upper(months[1], months[2] + CHUNK_MONTHS - MAX_RENDER_MONTHS),
                      months[2] + CHUNK_MONTHS>>
    /\ UNCHANGED <<window, pos, seen, inputs, target, requests, focusedDate, due, asked, jumped>>

(* updateFocusedDate()'s timer; the minimap keeps the month rendered.      *)
Publish ==
    /\ due /\ due' = FALSE /\ focusedDate' = Center(pos, Shown)
    /\ months' = IF focusedDate' \in {focusedDate, None} \/
                    (focusedDate # None /\ Month(focusedDate') = Month(focusedDate)) THEN months
                 ELSE Including(months, Month(focusedDate'))
    /\ UNCHANGED <<window, pos, seen, inputs, target, requests, asked, jumped, acts>>

----------------------------------------------------------------------------
(* The user.                                                               *)
Act == acts < MaxActs /\ acts' = acts + 1

Scroll(p) ==
    /\ Act /\ p \in 0 .. Upper(0, Len(Shown) - HEIGHT) /\ p # pos /\ pos' = p /\ due' = TRUE
    /\ UNCHANGED <<window, seen, inputs, target, requests, focusedDate, months, asked, jumped>>

Jumps(d) == d < visibleStart \/ d > visibleEnd

(* Slip: a request for the day that was asked for last time changes        *)
(* nothing.                                                                *)
HeardIfNew(d) == d # target
Heard(d)      == TRUE

(* requestScroll() by the minimap, the calendar, the today button or the   *)
(* palette, and the effects that follow it.                                *)
RequestScroll(d) ==
    /\ Act /\ target' = d /\ requests' = requests + 1
    /\ IF Jumps(d)
       THEN /\ visibleStart' = d - MAX_RENDER_DAYS \div 2
            /\ visibleEnd' = d + MAX_RENDER_DAYS \div 2
            /\ jumped' = jumped \union (visibleStart' .. visibleEnd')
       ELSE UNCHANGED <<window, jumped>>
    /\ UNCHANGED <<inputs, seen, focusedDate, asked>>
    /\ pos' = IF Contains(ShownNext, d) /\ Heard(d)
              THEN Clamped(IndexOf(d, ShownNext) - 1 - HEIGHT \div 2, ShownNext)
              ELSE Clamped(pos, ShownNext)
    /\ due' = (due \/ pos' # pos) /\ months' = Including(months, Month(d))

(* What is drawn changes; a list that gets shorter scrolls with it.        *)
Redraw ==
    /\ UNCHANGED <<window, seen, target, requests, focusedDate, months, asked, jumped>>
    /\ pos' = Clamped(pos, ShownNext) /\ due' = (due \/ pos' # pos)

SetDateRange(r)     == Act /\ r # range /\ range' = r /\ UNCHANGED <<showEmptyDays, tasks, today>> /\ Redraw
ToggleEmptyDays     == Act /\ showEmptyDays' = ~showEmptyDays /\ UNCHANGED <<range, tasks, today>> /\ Redraw
TasksChange(d)      == /\ Act /\ tasks' = (IF d \in tasks THEN tasks \ {d} ELSE tasks \union {d})
                       /\ UNCHANGED <<range, showEmptyDays, today>> /\ Redraw
DayTurns            == Act /\ today = 0 /\ today' = 1 /\ UNCHANGED <<range, showEmptyDays, tasks>> /\ Redraw

Next ==
    \/ \E end \in {"top", "bottom"} : Report(end)
    \/ MinimapExtends \/ Publish
    \/ \E p \in 0 .. 2 * MAX_RENDER_DAYS : Scroll(p)
    \/ \E d \in Targets : RequestScroll(d)
    \/ \E r \in Ranges : SetDateRange(r)
    \/ ToggleEmptyDays \/ DayTurns
    \/ \E d \in Busy : TasksChange(d)

Spec == Init /\ [][Next]_vars

----------------------------------------------------------------------------
(* The habits of every day in the window were asked for, except where a    *)
(* jump put the window.                                                    *)
HabitsAsked == visibleStart .. visibleEnd \subseteq asked \union jumped

(* The day that is gone to is drawn and in view, empty or not and however  *)
(* often it was gone to, unless the date filter leaves it out; and its     *)
(* month is in the minimap.  Scrolling publishes no month that the minimap *)
(* does not hold (a step).                                                 *)
NavigationStep ==
    /\ requests' # requests =>
          /\ InRange(target', range) =>
                Contains(ShownNext, target') /\ IndexOf(target', ShownNext) - pos' \in 1 .. HEIGHT
          /\ Month(target') \in months'[1] .. months'[2]
    /\ focusedDate' # focusedDate /\ focusedDate' # None
       /\ (focusedDate = None \/ Month(focusedDate) # Month(focusedDate')) =>
          Month(focusedDate') \in months'[1] .. months'[2]

(* Growing by itself the list never gives up a day of a date filter that   *)
(* fits into it, and with empty days drawn never moves the day in the      *)
(* middle of the view (a step).                                            *)
GrowthStep ==
    acts' = acts /\ window' # window =>
        /\ range[1] # None /\ range[2] # None /\ range[2] - range[1] <= MAX_RENDER_DAYS - CHUNK_DAYS =>
              {d \in visibleStart .. visibleEnd : InRange(d, range)} \subseteq visibleStart' .. visibleEnd'
        /\ showEmptyDays /\ Len(Shown) >= HEIGHT => Center(pos', ShownNext) = Center(pos, Shown)

(* Nothing that a scroll to the end could reach is kept back.  It is not:  *)
(* with empty days hidden a chunk may add no row, the sentinel stays in    *)
(* view, and its observer does not report again.                           *)
EndReached ==
    seen["bottom"] /\ Near("bottom", pos, Shown) /\ range[2] = None =>
        \A d \in tasks : d <= visibleEnd

(* Habits are there wherever the list is.  They are not after a jump.      *)
HabitsEverywhere == visibleStart .. visibleEnd \subseteq asked

(* Today is always drawn.  It is not once it is out of the window or of    *)
(* the date filter.                                                        *)
TodayDrawn == Contains(Shown, today)
=============================================================================
