------------------------------ MODULE MCClient ------------------------------
(* The parts of the browser client that share no state in these models,     *)
(* checked one at a time: part says which.  The variables of the part at    *)
(* work are x1, x2, ... in the order its module declares them; those that   *)
(* are proved about have variables of their own (MCRows).  What a part does *)
(* not need stays 0.                                                        *)
EXTENDS MCRows

CONSTANTS Parts

VARIABLES
    x1, x2, x3, x4, x5, x6, x7, x8, x9, x10, x11, x12, x13, x14, x15, x16,
    x17

slots == <<x1, x2, x3, x4, x5, x6, x7, x8, x9, x10, x11, x12, x13, x14, x15,
           x16, x17>>
vars  == <<rowsVars, slots>>

----------------------------------------------------------------------------
(* What the server holds at first, and what a backup brings back.           *)
Prefs(p, w, c) ==
    [plain |-> 0, width |-> w, lastOpen |-> 360, filters |-> 1, persist |-> p,
     zone |-> 0, locale |-> 0, colors |-> c]
P == INSTANCE Preferences WITH
        server <- x1, used <- x2, shown <- x3, provider <- x4, loaded <- x5,
        tags <- x6, flights <- x7, sent <- x8, order <- x9, applied <- x10,
        crossed <- x11, stuck <- x12, mine <- x13, blind <- x14,
        Tags <- {1, 2}, Priority <- {}, Colors <- {1, 2}, MaxSent <- 3,
        Stored  <- { Prefs(TRUE, 0, <<2, 0>>) },
        Backups <- { Prefs(FALSE, 300, <<1, 0>>) }

----------------------------------------------------------------------------
(* Rows of a day and of Someday, with sub-tasks and without positions.      *)
Row(d, l, p, q, k) == [date |-> d, list |-> l, parent |-> p, pos |-> q, rank |-> k]
D == INSTANCE DragReorder WITH
        rows <- x1, server <- x2, filters <- x3, armed <- x4, dragging <-
        x5, over <- x6, insert <- x7, requests <- x8, promise <- x9, drops
        <- x10, faults <- x11,
        Tasks <- 1..4, Days <- {1}, Lists <- {"l"}, MaxDrops <- 1, MaxFaults <- 1,
        Starts <- { << Row(1, None, None, 0, 4), Row(1, None, None, None, 1),
                       Row(1, None, 2, 1, 4), Row(None, "l", None, 2, 4) >>,
                    << Row(None, "l", None, 1, 4), Row(None, "l", 1, 0, 4),
                       Row(1, None, None, None, 4), Row(None, None, None, 0, 2) >> }

----------------------------------------------------------------------------
L == INSTANCE LiveLines WITH
        lines <- x1, caretLine <- x2, from <- x3, to <- x4,
        Chars <- {1, 2, 11}, Pastes <- { <<1>>, <<1, 0, 3>>, <<0>> }, Notes <- { <<>>, <<10, 1>> },
        MaxLength <- 4, MaxItem <- 2

----------------------------------------------------------------------------
S == INSTANCE SomedayPanel WITH
        tabs <- x1, lists <- x2, tasks <- x3, parked <- x4, filtering <- x5,
        activeTabId <- x6, adding <- x7, editingTabId <- x8, editingListId
        <- x9, editListName <- x10, requests <- x11, job <- x12, doomed <-
        x13, removed <- x14, exposed <- x15, acts <- x16, others <- x17,
        Tabs <- 1..3, Lists <- 1..3, Tasks <- 1..2, Names <- {1}, Filtered <- {2}, Homes <- { <<2, 1>> },
        MaxActs <- 4, MaxOthers <- 1

----------------------------------------------------------------------------
(* What is typed: what to do, when or how often, and what may trail; today  *)
(* is 28 December 2023 or 28 February 2024.                                 *)
W(w)    == [w |-> w, n |-> 0]
V(w, n) == [w |-> w, n |-> n]
OnThe(n) == <<W("on"), W("the"), V("#th", n)>>
Heads == { <<>>, <<W("milk")>>, <<W("milk"), V("tag", 1), W(",")>> }
Alone == {"daily", "weekly", "monthly", "annually", "weekends", "today", "tomorrow"}
Counted == { <<1, "other">>, <<3, "days">>, <<366, "days">>, <<3, "weeks">>, <<3, "months">>, <<3, "years">> }
Middles ==
    {<<>>} \union {<<W(w)>> : w \in Alone}
    \union {<<W("every"), W(w)>> : w \in {"day", "week", "month", "year", "weekday"}}
    \union {<<W("every"), V("#", c[1]), W(c[2])>> : c \in Counted}
    \union {<<W("every"), V(w, 5)>> : w \in {"dayname", "daynames"}}
    \union { <<W("every"), W("other"), W("day")>>, <<W("weekly"), W("on"), V("dayname", 5)>>,
             <<W("every"), V("#", 2), W("weeks"), W("on"), V("dayname", 5)>>,
             <<W("monthly")>> \o OnThe(15), <<W("every"), W("month")>> \o OnThe(15),
             <<W("every"), V("#", 2), W("months")>> \o OnThe(31),
             <<W("monthly"), W("on"), W("day"), V("#", 32)>>,
             <<W("every"), V("dayname", 1), W(","), V("dayname", 3), W("and"), V("dayname", 5)>>,
             <<V("dayname", 1), W("/"), V("daynames", 0)>>,
             <<W("in"), V("#", 2), W("weeks")>>, <<W("in"), V("#", 0), W("days")>>,
             <<W("next"), V("dayname", 4)>>, <<V("dayname", 1)>>, <<V("monthname", 2), V("#th", 29)>>,
             <<V("monthname", 3), V("#", 15)>>, <<V("monthname", 4), V("#", 31)>>,
             <<V("key", 739300)>>, <<V("key", 0)>> }
Short == { <<>>, <<W("at"), V("pm", 4)>> }
Tails ==
    { <<>>, <<W("at"), V("pm", 4)>>, <<W("at"), V("clockpm", 400)>>, <<W("at"), V("clock", 2500)>>,
      <<W("at"), W("Noon")>>, <<W(".")>>,
      <<V("tag", 2)>>, <<V("tagday", 6)>>, <<W("tomorrow")>> }
Scheduled(f, i, k, d, t) ==
    [frequency |-> f, interval |-> i, days |-> IF f \in {"daily", "weekly"} THEN k ELSE {},
     dom |-> IF f = "monthly" THEN d ELSE 0, time |-> t]
Q == INSTANCE QuickAdd WITH
        today <- x1, typed <- x2, day <- x3, made <- x4,
        Texts <- {h \o m \o t : h \in Heads, m \in Middles, t \in Short}
                     \union {<<W("milk")>> \o m \o t : m \in Middles, t \in Tails}, Todays <- {739187, 739249},
        Schedules <- {Scheduled(f, i, k, d, t) : f \in {"daily", "weekly", "monthly", "yearly"}, i \in 1 .. 2,
                      k \in { {}, {3}, {0, 6}, 1 .. 5 }, d \in {0, 31}, t \in {-1, 720}}

----------------------------------------------------------------------------
H == INSTANCE Habits WITH
        server <- x1, generated <- x2, items <- x3, stats <- x4, shown <-
        x5, calls <- x6, open <- x7, form <- x8, editing <- x9, showForm <-
        x10, saving <- x11, selected <- x12, restored <- x13, acts <- x14,
        lost <- x15,
        Phrases <- <<None, [clean |-> 1, schedule |-> [frequency |-> "monthly", interval |-> 1, days |-> {}, dom |-> 31]]>>,
        Rows <- { [text |-> 1, frequency |-> "weekly", interval |-> 2, days |-> {5}, dom |-> 0] },
        Entries <- {400}, Todays <- 739187 .. 739193, Weeks <- 3, MaxRow <- 2, MaxActs <- 3, MaxLost <- 1

----------------------------------------------------------------------------
(* What may be in a project: in a list, in none, in one that is gone, on a  *)
(* day, and done.                                                          *)
Thing(w, k, d, l, p, c) ==
    [wears |-> w, deadline |-> k, date |-> d, list |-> l, position |-> p, completed |-> c,
     parent |-> None, updated |-> 0]
Things == { Thing(TRUE, FALSE, None, 1, None, FALSE), Thing(TRUE, FALSE, None, 2, None, FALSE),
            Thing(TRUE, TRUE, None, None, 1, FALSE), Thing(FALSE, TRUE, 99, None, None, FALSE),
            Thing(TRUE, FALSE, 101, None, 1, TRUE) }
O == INSTANCE Overview WITH
        task <- x1, project <- x2, today <- x3, acts <- x4,
        Tasks <- 1..3, Lists <- <<1, 0>>, Kinds <- Things, Streaks <- <<None, 3>>, FirstDay <- 100, LastDay <- 101,
        Projects <- { [starts |-> 98, due |-> 99, done |-> None], [starts |-> None, due |-> 100, done |-> 100] },
        DONE_RECENT_LIMIT <- 2, SUMMARY_WINDOW_DAYS <- 2, MaxActs <- 1

----------------------------------------------------------------------------
J == INSTANCE Projects WITH
        project <- x1, items <- x2, tab <- x3, tabs <- x4, lists <- x5,
        calls <- x6, selected <- x7, newForm <- x8, edit <- x9, listForm <-
        x10, due <- x11, hill <- x12, born <- x13, acts <- x14, others <-
        x15, lost <- x16,
        Names <- {1, 2}, Dues <- {1}, Hills <- {0, 60}, MaxRow <- 3, MaxActs <- 3, MaxOthers <- 1, MaxLost <- 1

----------------------------------------------------------------------------
(* What is typed into the search box, word by word.                        *)
Search(ws)   == [slash |-> FALSE, word |-> "", args |-> ws]
Slash(w, ws) == [slash |-> TRUE, word |-> w, args |-> ws]
Milk   == <<"milk">>
Words  == {"#Now", "#", "mom", "friday", "milk"}
Names  == {"add", "complete", "delete", "move", "go", "tag", "filter", "clear", "today", "someday",
           "project", "habit", "settings", "help"}
Starts == Names \union {"", "c", "t", "x"}
BareWord(w) == CASE w = "#Now" -> "now" [] w = "#" -> "" [] OTHER -> w
BeginningWith(w) ==
    CASE w = ""  -> Names
      [] w = "c" -> {"complete", "clear"}
      [] w = "t" -> {"tag", "today"}
      [] w = "x" -> {}
      [] OTHER   -> {w}
Queries ==
    { Search(Milk), Slash("", <<>>), Slash("c", <<>>), Slash("c", Milk), Slash("x", Milk),
      Slash("t", <<"milk", "with", "#Now">>), Slash("add", Milk), Slash("delete", Milk),
      Slash("move", <<"talk", "to", "mom", "to", "friday">>), Slash("move", <<"milk", "to", "mom">>),
      Slash("someday", Milk), Slash("go", <<"friday">>), Slash("filter", <<"#Now">>), Slash("filter", <<"#">>) }
A == INSTANCE Palette WITH
        task <- x1, open <- x2, query <- x3, selectedIndex <- x4, running <-
        x5, calls <- x6, focused <- x7, filters <- x8, scroll <- x9, acts <-
        x10, others <- x11,
        Queries <- Queries, Begins <- [w \in Starts |-> BeginningWith(w)], Bare <- [w \in Words |-> BareWord(w)],
        Phrases <- [p \in {<<"friday">>} |-> 3], Texts <- << <<"buy", "milk">>, <<"milk">>, <<"talk", "to", "mom">> >>,
        Added <- { <<"milk">> }, Limit <- 2, MaxActs <- 4, MaxOthers <- 1

----------------------------------------------------------------------------
B == INSTANCE DayWindow WITH
        visibleStart <- x1, visibleEnd <- x2, pos <- x3, seen <- x4, range
        <- x5, showEmptyDays <- x6, tasks <- x7, today <- x8, target <- x9,
        requests <- x10, focusedDate <- x11, due <- x12, months <- x13,
        asked <- x14, jumped <- x15, acts <- x16,
        CHUNK_DAYS <- 2, MAX_RENDER_DAYS <- 6, CHUNK_MONTHS <- 1, MAX_RENDER_MONTHS <- 3, HEIGHT <- 2, MonthDays <- 2,
        Ranges <- { <<None, None>>, <<-1, 1>>, <<None, 1>> }, Targets <- {0, -8, 7}, Busy <- {5}, Reach <- 14, MaxActs <- 3

----------------------------------------------------------------------------
Idle(n) ==
    /\ n < 1 => x1 = 0
    /\ n < 2 => x2 = 0
    /\ n < 3 => x3 = 0
    /\ n < 4 => x4 = 0
    /\ n < 5 => x5 = 0
    /\ n < 6 => x6 = 0
    /\ n < 7 => x7 = 0
    /\ n < 8 => x8 = 0
    /\ n < 9 => x9 = 0
    /\ n < 10 => x10 = 0
    /\ n < 11 => x11 = 0
    /\ n < 12 => x12 = 0
    /\ n < 13 => x13 = 0
    /\ n < 14 => x14 = 0
    /\ n < 15 => x15 = 0
    /\ n < 16 => x16 = 0
    /\ n < 17 => x17 = 0

Init ==
    /\ part \in Parts
    /\ part = "preferences" => P!Init /\ Idle(14)
    /\ part = "drag" => D!Init /\ Idle(11)
    /\ part = "lines" => L!Init /\ Idle(4)
    /\ part = "panel" => S!Init /\ Idle(17)
    /\ part = "quickadd" => Q!Init /\ Idle(4)
    /\ part = "habits" => H!Init /\ Idle(15)
    /\ part = "home" => O!Init /\ Idle(4)
    /\ part = "projects" => J!Init /\ Idle(16)
    /\ part = "palette" => A!Init /\ Idle(11)
    /\ part = "window" => B!Init /\ Idle(16)
    /\ IF part \in {"rows", "import", "notes", "editors"} THEN RowsInit /\ Idle(0) ELSE RowsIdle

Next ==
    \/ /\ part = "preferences" /\ P!Next
       /\ UNCHANGED <<x15, x16, x17, rowsVars>>
    \/ /\ part = "drag" /\ D!Next
       /\ UNCHANGED <<x12, x13, x14, x15, x16, x17, rowsVars>>
    \/ /\ part = "lines" /\ L!Next
       /\ UNCHANGED <<x5, x6, x7, x8, x9, x10, x11, x12, x13, x14, x15, x16,
                       x17, rowsVars>>
    \/ /\ part = "panel" /\ S!Next
       /\ UNCHANGED <<rowsVars>>
    \/ /\ part = "quickadd" /\ Q!Next
       /\ UNCHANGED <<x5, x6, x7, x8, x9, x10, x11, x12, x13, x14, x15, x16,
                       x17, rowsVars>>
    \/ /\ part = "habits" /\ H!Next
       /\ UNCHANGED <<x16, x17, rowsVars>>
    \/ /\ part = "home" /\ O!Next
       /\ UNCHANGED <<x5, x6, x7, x8, x9, x10, x11, x12, x13, x14, x15, x16,
                       x17, rowsVars>>
    \/ /\ part = "projects" /\ J!Next
       /\ UNCHANGED <<x17, rowsVars>>
    \/ /\ part = "palette" /\ A!Next
       /\ UNCHANGED <<x12, x13, x14, x15, x16, x17, rowsVars>>
    \/ /\ part = "window" /\ B!Next
       /\ UNCHANGED <<x17, rowsVars>>
    \/ RowsNext /\ UNCHANGED slots

Spec == Init /\ [][Next]_vars

----------------------------------------------------------------------------
(* Every variable of the part at work has its type.                        *)
ClientTypesOK ==
    /\ part = "preferences" => P!TypeOK
    /\ part = "drag"        => D!TypeOK
    /\ part = "notes"       => M!TypeOK
    /\ part = "lines"       => L!TypeOK
    /\ part = "editors"     => E!TypeOK
    /\ part = "rows"        => Y!TypeOK
    /\ part = "panel"       => S!TypeOK
    /\ part = "quickadd"    => Q!TypeOK
    /\ part = "habits"      => H!TypeOK
    /\ part = "home"        => O!TypeOK
    /\ part = "projects"    => J!TypeOK
    /\ part = "palette"     => A!TypeOK
    /\ part = "window"      => B!TypeOK
    /\ part = "import"      => I!TypeOK

(* The properties of the parts, each stated in its module.                 *)
PartsAgree ==
    /\ part = "preferences" => P!QuietShowsServer
    /\ part = "panel"       => S!NothingLeftBehind /\ S!BystandersStay
    /\ part = "habits"      => /\ H!Materialised /\ H!DetailLoads /\ H!SavingHonest
                              /\ H!HiddenStaysHome /\ H!HeatmapBacked
    /\ part = "home"        => /\ O!HomeGathers /\ O!JustDone
                              /\ O!DueStaysInView /\ O!DeadlinesCounted
    /\ part = "projects"    => J!TabBorn /\ J!ListsUnderTag /\ J!InputsShowRow
    /\ part = "window"      => B!HabitsAsked
    /\ part = "drag"        => D!DropLands
    /\ part = "quickadd"    => Q!FormsRead /\ Q!WordsKept /\ Q!DateTaken /\ Q!SaidBack
    /\ part = "palette"     => A!SelectionShown /\ A!OneAtATime /\ A!WholeTextMoves

(* What no step may do: take away a color the user chose, lose or move a   *)
(* line of a note.                                                         *)
ClientSteps ==
    [][/\ part = "preferences" => P!ColorStep
       /\ part = "lines"       => L!EditStep
       /\ part = "panel"       => S!NamesKept
       /\ part = "habits"      => H!FormStep
       /\ part = "projects"    => J!HeldStep /\ J!DeletedStep
       /\ part = "palette"     => A!CommandStep
       /\ part = "window"      => B!NavigationStep /\ B!GrowthStep]_vars

(* What the code is said to do and does not; see the README.               *)
EverythingShown    == part = "drag" => D!EverythingShown
SeedOncePerRequest == part = "editors" => E!SeedOncePerRequest
FieldFollows       == part = "notes" => M!FieldFollows
EchoShowsOnce      == part = "rows" => Y!EchoShowsOnce
ParkedIsShown      == part = "panel" => S!ParkedIsShown
CapitalsDoNotMatter == part = "quickadd" => Q!CapitalsDoNotMatter
TagsAreNoName      == part = "quickadd" => Q!TagsAreNoName
TagsExtracted      == part = "quickadd" => Q!TagsExtracted
OnePlaceEach       == part = "home" => O!OnePlaceEach
TagsKept           == part = "palette" => A!TagsKept
EndReached         == part = "window" => B!EndReached
HabitsEverywhere   == part = "window" => B!HabitsEverywhere
TodayDrawn         == part = "window" => B!TodayDrawn
SourceIsFile       == part = "import" => I!SourceIsFile
ResultIsShown      == part = "import" => I!ResultIsShown
TabNameKept        == [][part = "panel" => S!TabNameKept]_vars
=============================================================================
