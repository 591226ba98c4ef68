------------------------------ MODULE MCServer ------------------------------
(* The parts of the server that share no state with one another, checked   *)
(* one at a time: part says which, and the variables of the others rest.   *)
(* "server", the life of the process, is HttpServer itself, so that its    *)
(* properties are those HttpServerProofs proves.                           *)
EXTENDS HttpServer, Integers

CONSTANTS
    Parts,   \* the parts to run
    None,    \* a null reference
    Calls,   \* bound: calls of a storage adapter
    Habits,  \* what a template of recurring tasks may ask for
    FirstDay, LastDay, Horizon, MaxSeries, MaxTasks, MaxSteps    \* see RecurringSeries

(* The null reference is no id.                                            *)
ASSUME NoneAssumption == None \notin Nat
ASSUME CallsAssumption == Calls \in Nat

(* Day 0 is no day, and no template asks for nothing.                      *)
ASSUME SeriesAssumption ==
    /\ FirstDay \in Nat \ {0} /\ LastDay \in Nat /\ FirstDay <= LastDay /\ Horizon \in Nat
    /\ MaxSeries \in Nat /\ MaxTasks \in Nat /\ MaxSteps \in Nat
    /\ Habits \subseteq [frequency: {"daily", "weekly", "monthly", "yearly"}, interval: Nat,
                           days: SUBSET (0 .. 6), dom: 0 .. 31, start: {0}, end: Nat]

VARIABLES
    part,
    kind, sql, mem, counter, saved, answers, stamps, apart,
    db, backup, exported, restoring, forest, level, placed, deleting, removed, steps,
    series, tasks, stats, today, answer, excused, heirless, requested,
    rt

storageVars  == <<kind, sql, mem, counter, saved, answers, stamps, apart>>
snapshotVars == <<db, backup, exported, restoring, forest, level, placed, deleting, removed, steps>>
seriesVars   == <<series, tasks, stats, today, answer, excused, heirless, requested>>
others == <<part, storageVars, snapshotVars, seriesVars, rt>>

T == INSTANCE Storage WITH
        clock <- stamps,
        MaxOps <- Calls,
        Kinds  <- {"task", "tab", "list", "project", "note", "holiday", "series", "prefs"}

----------------------------------------------------------------------------
Flaw(k, f, h) == [kind |-> k, field |-> f, how |-> h]
Node(u, c)    == [up |-> u, canceled |-> c]

SomeFlaws == { Flaw("none", "none", "ok"), Flaw("task", "notes", "null"),
               Flaw("task", "notes", "missing"), Flaw("task", "startTime", "missing"),
               Flaw("project", "tag", "twice"), Flaw("task", "dependsOn", "dangling"),
               Flaw("document", "holidays", "missing") }
Trees == { <<Node(0, TRUE), Node(0, FALSE), Node(2, FALSE)>>,
           <<Node(0, FALSE), Node(0, FALSE), Node(1, TRUE)>>,
           <<Node(0, FALSE), Node(1, TRUE), Node(1, TRUE)>> }

X == INSTANCE Snapshots WITH
        MaxTask <- 3, MaxList <- 1, MaxTab <- 1, MaxSeries <- 1, MaxSteps <- 4,
        Flaws <- SomeFlaws, Forests <- Trees

----------------------------------------------------------------------------
(* Four days around the end of a January: every day, and Mondays and       *)
(* Wednesdays for two days.                                                *)
C == INSTANCE Calendar

Plan(f, i, d, dom, len) ==
    [frequency |-> f, interval |-> i, days |-> d, dom |-> dom, start |-> 0, end |-> len]

MCHabits   == { Plan("daily", 1, {}, 0, 0), Plan("weekly", 1, {1, 3}, 0, 2) }
MCFirstDay == C!DayNumber(<<2024, 1, 29>>)
MCLastDay  == C!DayNumber(<<2024, 2, 1>>)

R == INSTANCE RecurringSeries WITH steps <- requested, Schedules <- Habits

----------------------------------------------------------------------------
(* Schedules on their own, from the ends of long, short and leap months.   *)
Starts == { C!DayNumber(k) : k \in {<<2023, 12, 31>>, <<2024, 1, 29>>, <<2024, 2, 29>>} }
Plans  == { Plan("daily", 0, {}, 0, 0), Plan("daily", 3, {}, 0, 0), Plan("daily", 1, {0, 5}, 0, 0),
            Plan("daily", 2, {6}, 0, 0), Plan("weekly", 2, {}, 0, 0), Plan("weekly", 2, {0, 3}, 0, 0),
            Plan("weekly", 3, {6}, 0, 0), Plan("monthly", 1, {}, 0, 0), Plan("monthly", 1, {}, 31, 0),
            Plan("monthly", 3, {}, 30, 0), Plan("monthly", 2, {}, 1, 0), Plan("yearly", 1, {}, 0, 0),
            Plan("yearly", 2, {}, 0, 0) }
Schedules == { [p EXCEPT !.start = s] : p \in Plans, s \in Starts }
Span == [f \in {"daily", "weekly", "monthly", "yearly"} |->
            CASE f = "yearly" -> 370 [] f = "monthly" -> 130 [] OTHER -> 50]

----------------------------------------------------------------------------
(* Documents of other programs, on their own: own exports with every text  *)
(* of two symbols as notes, Todoist files of up to four rows, to-dos of    *)
(* Things, wall times around a change of the clocks by up to four hours.   *)
F == INSTANCE Formats WITH MaxText <- 3, FoldAt <- 5

(* Texts of up to n symbols.                                               *)
Upto(S, n) == UNION { [1 .. k -> S] : k \in 0 .. n }
Written(t, n, d, s, e, g, c) ==
    [text |-> t, notes |-> n, date |-> d, start |-> s, end |-> e, tags |-> g, completed |-> c, deleted |-> FALSE]
Plain  == Written(<<"a">>, None, "d1", "t1", "t2", <<"home", "p1">>, TRUE)
Notes  == {None} \cup Upto({",", F!Quote, F!CR, F!LF, " ", "n", F!Slash}, 2)
            \cup { <<"a", F!Slash, F!Slash, ",", ";">>, <<"a", " ", " ", " ", " ", "n">> }
Shapes == { Written(<<"a", ",">>, n, d, "t1", "t2", <<"p2", "home">>, FALSE) : n \in Notes, d \in {None, "d2"} }
    \cup { Written(t, None, d, None, "t2", <<>>, FALSE) :
              t \in { <<"a">>, <<F!Quote, "a", ",">>, <<" ", "a", "n">> }, d \in {None, "d2"} }
Files == { <<t, Plain>> : t \in Shapes }
    \cup { <<[t EXCEPT !.deleted = TRUE], Plain, Plain>> : t \in { s \in Shapes : s.notes = None } }
Columns == { <<"id", "text", "notes", "completed", "date", "tags", "priority", "startTime", "endTime", "createdAt">>,
             <<"endTime", "priority", "text", "date">> }
Rows == { [type |-> "task", text |-> "a", indent |-> i] : i \in 1 .. 3 }
    \cup { [type |-> "task", text |-> t, indent |-> 1] : t \in {"", "long"} }
    \cup { [type |-> t, text |-> "a", indent |-> 1] : t \in {"note", "section"} }
Item(t) == [title |-> t, status |-> "completed"]
Entry(y, t, n, s, d) ==
    [type |-> y, title |-> t, notes |-> n, subtitle |-> s, deadline |-> d, date |-> "d1", reminder |-> "t1",
     status |-> "canceled", checklist |-> <<Item(<<"b">>), Item(<<" ">>), Item(<<"c">>)>>]
Entries == { Entry(y, t, n, s, d) : y \in {"to-do", "project"}, t \in { <<>>, <<"a">>, <<"a", "a", "a", "a">> },
                n \in {None, <<" ", "n">>}, s \in {None, <<"s">>}, d \in {None, "d2"} }
Documents ==
         { [kind |-> "csv", tasks |-> f, columns |-> c] : f \in Files, c \in Columns }
    \cup { [kind |-> "ics", tasks |-> f] : f \in Files }
    \cup { [kind |-> "todoist", rows |-> r] : r \in Upto(Rows, 4) }
    \cup { [kind |-> "things", entries |-> <<e, Entry("to-do", <<"b">>, None, None, "d2")>>] : e \in Entries }
    \cup { [kind |-> "zone", wall |-> w, zone |-> [at |-> 0, before |-> a, after |-> b]] :
            w \in -4 .. 4, a \in -2 .. 2, b \in -2 .. 2 }

----------------------------------------------------------------------------
Rest(S) ==
    /\ "storage" \in S => /\ kind = 0 /\ sql = 0 /\ mem = 0 /\ counter = 0 /\ saved = 0
                          /\ answers = 0 /\ stamps = 0 /\ apart = 0
    /\ "snapshots" \in S => /\ db = 0 /\ backup = 0 /\ exported = 0 /\ restoring = 0 /\ forest = 0
                            /\ level = 0 /\ placed = 0 /\ deleting = 0 /\ removed = 0 /\ steps = 0
    /\ "series" \in S => /\ series = 0 /\ tasks = 0 /\ stats = 0 /\ today = 0 /\ answer = 0
                         /\ excused = 0 /\ heirless = 0 /\ requested = 0
    /\ {"schedule", "formats"} \subseteq S => rt = 0

OtherParts == {"storage", "snapshots", "series", "schedule", "formats"}

PartsInit ==
    /\ part \in Parts
    /\ Init
    /\ part = "storage"   => T!Init
    /\ part = "snapshots" => X!Init
    /\ part = "series"    => R!Init
    /\ part = "schedule"  => rt \in Schedules
    /\ part = "formats"   => rt \in Documents
    /\ Rest(OtherParts \ {part})

PartsNext ==
    \/ part = "storage" /\ T!Next /\ UNCHANGED <<part, vars, snapshotVars, seriesVars, rt>>
    \/ part = "snapshots" /\ X!Next /\ UNCHANGED <<part, vars, storageVars, seriesVars, rt>>
    \/ part = "series" /\ R!Next /\ UNCHANGED <<part, vars, storageVars, snapshotVars, rt>>
    \/ part = "server" /\ Next /\ UNCHANGED others

PartsSpec == PartsInit /\ [][PartsNext]_<<vars, others>>

----------------------------------------------------------------------------
(* Every variable of the part at work has its type.                        *)
TypesOK ==
    /\ TypeOK
    /\ part = "storage"   => T!TypeOK
    /\ part = "snapshots" => X!TypeOK
    /\ part = "series"    => R!TypeOK

(* The properties of the parts, each stated in its module; those of the    *)
(* server, ServesAndDrains and RateIsBounded, are HttpServer's own.        *)
AdaptersAgree          == part = "storage" => T!AdaptersAgree
RestoreSafe            == [][part = "snapshots" => X!RestoreStep]_<<vars, others>>
TreesKept              == part = "snapshots" => X!RestorableUntilDeleted /\ X!ImportKeepsTree
InstancesFollow        ==
    part = "series" => R!OneInstancePerDate /\ R!GenerationComplete /\ R!StreaksAreRuns
FormatsKept            == part = "formats" => F!FormatsKept(rt)

(* The dates a schedule is asked about one by one       *)
(* (isOccurrence) are those counted out from its start.                    *)
SchedulesAreGrids ==
    part = "schedule" =>
        LET grid == C!Grid(rt, Span[rt.frequency])
        IN  \A n \in rt.start - 8 .. rt.start + Span[rt.frequency] :
                C!IsOccurrence(rt, n) <=> n \in grid

(* What the code is said to do and does not; see the README.               *)
BackupRestorable   == part = "snapshots" => X!BackupRestorable
NothingInvisible   == part = "snapshots" => X!NothingInvisible
NoInheritedRecords == part = "series" => R!NoInheritedRecords
UpdateIsKept       == part = "storage" => T!UpdateIsKept
=============================================================================
