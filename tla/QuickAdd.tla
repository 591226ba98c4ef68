------------------------------ MODULE QuickAdd ------------------------------
(***************************************************************************)
(* What becomes of a line typed to add something: parseRecurrence.ts,      *)
(* parseDatePhrase.ts and parseTags.ts in the order createFromText.ts      *)
(* calls them, and formatFrequency.ts, which says the schedule back.       *)
(*                                                                         *)
(* A text is a sequence of tokens [w |-> word, n |-> number]: "#" and      *)
(* "#th" are the numbers 15 and 15th; "dayname" and "daynames" a weekday,  *)
(* full or short, and its plural, n of them 0 for Sunday; "monthname" the  *)
(* name of a month; "clock" 16:00 and "clockpm" 4:00pm, both with n as     *)
(* hhmm; "pm" 4pm; "key" a literal date (0 for one no month has); "tag" a  *)
(* #tag and "tagday" one that is named after a weekday; "Noon" is noon     *)
(* with a capital.  Dates are day numbers.                                 *)
(***************************************************************************)
EXTENDS Calendar, FiniteSets

CONSTANTS
    Texts,      \* what the user types
    Todays,     \* today, as day numbers
    Schedules,  \* schedules to say back and to compare
    None

VARIABLES
    today,
    typed,
    day,        \* the date of the input it is typed into, 0 in Someday
    made        \* what was created from it, or None

vars == <<today, typed, day, made>>

MaxInterval == 365
NoTime      == -1
Broken      == -2       \* the start time "NaN:00"
Punctuation == {"."}
Separators  == {",", "and", "/", "&"}

Last(t, k)  == SubSeq(t, 1, Len(t) - k)     \* without the last k
Words(t)    == {t[i].w : i \in DOMAIN t}

----------------------------------------------------------------------------
(* parseRecurrence.ts                                                      *)

(* A pattern is a sequence of sets of words; it matches at the end.        *)
Ends(t, p) ==
    LET o == Len(t) - Len(p)
    IN  o >= 0 /\ \A i \in DOMAIN p : t[o + i].w \in p[i]

Every == {"every"}
Days  == {"dayname"}
On    == {"on"}
Base  == [frequency |-> "daily", interval |-> 1, days |-> {}, dom |-> 0, time |-> NoTime]

(* A trailing "at ..." needs something before it.                          *)
TimeWords == {"noon", "Noon", "midnight", "clock", "clockam", "clockpm", "am", "pm"}
HasTime(t) == Len(t) >= 3 /\ Ends(t, <<{"at"}, TimeWords>>)

(* toStartTime(): minutes of the day, None for an hour no clock has.  The  *)
(* comparison with noon and midnight minds the capitals the pattern does   *)
(* not, and what is no number is neither too small nor too large.          *)
ToStartTime(x) ==
    LET h == IF x.w \in {"am", "pm"} THEN x.n ELSE x.n \div 100
        m == IF x.w \in {"am", "pm"} THEN 0 ELSE x.n % 100
    IN  CASE x.w = "noon"     -> 720
          [] x.w = "midnight" -> 0
          [] x.w = "Noon"     -> Broken
          [] x.w \in {"clock", "clockam", "clockpm"} /\ m > 59 -> None
          [] x.w = "clock" /\ m <= 59 -> IF h > 23 THEN None ELSE 60 * h + m
          [] x.w \in {"am", "clockam"} /\ m <= 59 ->
                IF h \in 1 .. 12 THEN 60 * (h % 12) + m ELSE None
          [] x.w \in {"pm", "clockpm"} /\ m <= 59 ->
                IF h \in 1 .. 12 THEN 60 * ((h % 12) + 12) + m ELSE None

(* A list of at least two weekdays.                                        *)
IsDayList(t) ==
    /\ Len(t) >= 3 /\ Len(t) % 2 = 1
    /\ \A i \in DOMAIN t : t[i].w \in (IF i % 2 = 1 THEN {"dayname", "daynames"} ELSE Separators)

(* CANDIDATES, in the order they are tried, with the forms each accepts.   *)
Candidates ==
    << [of |-> "weekdays", forms |-> {<<{"weekday", "weekdays"}>>, <<Every, {"weekday", "weekdays"}>>}],
       [of |-> "weekends", forms |-> {<<{"weekend", "weekends"}>>, <<Every, {"weekend", "weekends"}>>}],
       [of |-> "list",     forms |-> {}],
       [of |-> "other",    forms |-> {<<Every, {"other"}, {"day"}>>}],
       [of |-> "nDays",    forms |-> {<<Every, {"#"}, {"day", "days"}>>}],
       [of |-> "daily",    forms |-> {<<Every, {"day"}>>, <<{"everyday", "daily"}>>}],
       [of |-> "nWeeksOn", forms |-> {<<Every, {"#"}, {"week", "weeks"}, On, Days>>}],
       [of |-> "nWeeks",   forms |-> {<<Every, {"#"}, {"week", "weeks"}>>}],
       [of |-> "weekOn",   forms |-> {<<Every, {"week"}, On, Days>>, <<{"weekly"}, On, Days>>}],
       [of |-> "weekly",   forms |-> {<<Every, {"week"}>>, <<{"weekly"}>>}],
       [of |-> "monthsOn", forms |-> {<<Every, {"month"}, On, {"the"}, {"#", "#th"}>>,
                                      <<Every, {"#"}, {"month", "months"}, On, {"the"}, {"#", "#th"}>>}],
       [of |-> "nMonths",  forms |-> {<<Every, {"#"}, {"month", "months"}>>}],
       [of |-> "monthOn",  forms |-> {<<{"monthly"}, On, {"the"}, {"#", "#th"}>>,
                                      <<{"monthly"}, On, {"day"}, {"#"}>>}],
       [of |-> "monthly",  forms |-> {<<Every, {"month"}>>, <<{"monthly"}>>}],
       [of |-> "nYears",   forms |-> {<<Every, {"#"}, {"year", "years"}>>}],
       [of |-> "yearly",   forms |-> {<<Every, {"year"}>>, <<{"yearly", "annually"}>>}],
       [of |-> "dayName",  forms |-> {<<Every, {"dayname", "daynames"}>>}] >>

(* Where a candidate's leftmost match begins, 0 when there is none.        *)
Begins(c, t) ==
    LET n     == Len(t)
        lists == {i \in 1 .. n : IsDayList(SubSeq(t, i, n))}
        first == CHOOSE i \in lists : \A j \in lists : i <= j
        forms == {p \in c.forms : Ends(t, p)}
        size  == CHOOSE k \in 0 .. n : /\ \E p \in forms : Len(p) = k
                                       /\ \A p \in forms : Len(p) <= k
    IN  IF c.of = "list"
        THEN IF lists = {} THEN 0
             ELSE IF first > 1 /\ t[first - 1].w = "every" THEN first - 1 ELSE first
        ELSE IF forms = {} THEN 0 ELSE n - size + 1

(* What the candidate builds from its match, None for a number outside.    *)
IntervalOf(n)   == IF n \in 1 .. MaxInterval THEN n ELSE 0
DayOfMonthOf(n) == IF n \in 1 .. 31 THEN n ELSE 0

Build(c, m) ==
    LET end      == m[Len(m)].n
        counted  == IF Len(m) > 1 /\ m[2].w = "#" THEN IntervalOf(m[2].n) ELSE 1
        every(f) == IF counted = 0 THEN None ELSE [Base EXCEPT !.frequency = f, !.interval = counted]
        on(f, k) == IF counted = 0 \/ k = {} THEN None
                    ELSE [Base EXCEPT !.frequency = f, !.interval = counted, !.days = k]
        dated    == IF counted = 0 \/ DayOfMonthOf(end) = 0 THEN None
                    ELSE [Base EXCEPT !.frequency = "monthly", !.interval = counted, !.dom = end]
    IN  CASE c = "weekdays" -> on("daily", 1 .. 5)
          [] c = "weekends" -> on("daily", {0, 6})
          [] c = "list"     -> on("daily", {m[i].n : i \in {j \in DOMAIN m : m[j].w \in {"dayname", "daynames"}}})
          [] c = "other"    -> [Base EXCEPT !.interval = 2]
          [] c \in {"nDays", "daily"}          -> every("daily")
          [] c \in {"nWeeks", "weekly"}        -> every("weekly")
          [] c \in {"nMonths", "monthly"}      -> every("monthly")
          [] c \in {"nYears", "yearly"}        -> every("yearly")
          [] c \in {"nWeeksOn", "weekOn", "dayName"} -> on("weekly", {end})
          [] c \in {"monthsOn", "monthOn"}     -> dated

(* The text without what trails in one of the sets of words.               *)
Trimmed(t, ws) ==
    LET keep == {i \in DOMAIN t : t[i].w \notin ws}
    IN  IF keep = {} THEN <<>> ELSE SubSeq(t, 1, CHOOSE i \in keep : \A j \in keep : j <= i)

(* Slip: the time is looked for after the phrase, not taken off first.     *)
TimeLeftOn(t) == [rest |-> t, time |-> NoTime]

(* parseTrailingTime()                                                     *)
ParseTrailingTime(t) ==
    IF HasTime(t) THEN [rest |-> Last(t, 2), time |-> ToStartTime(t[Len(t)])]
    ELSE [rest |-> t, time |-> NoTime]

ParseRecurrence(text) ==
    LET t     == Trimmed(text, Punctuation)
        time  == ParseTrailingTime(t)
        rest  == time.rest
        hits  == {i \in DOMAIN Candidates : Begins(Candidates[i], rest) # 0}
        first == CHOOSE i \in hits : \A j \in hits : i <= j
        at    == Begins(Candidates[first], rest)
        built == Build(Candidates[first].of, SubSeq(rest, at, Len(rest)))
        clean == Trimmed(SubSeq(rest, 1, at - 1), {","})
    IN  IF t = <<>> \/ time.time = None \/ hits = {} THEN None
        ELSE IF built = None \/ clean = <<>> THEN None
        ELSE [clean |-> clean, phrase |-> SubSeq(t, at, Len(t)),
              schedule |-> [built EXCEPT !.time = time.time]]

----------------------------------------------------------------------------
(* formatFrequency.ts: which sentence, and what is put into it.  A label   *)
(* of several weekdays names them all, sorted.                             *)
SingleDay(ds) == Cardinality(ds) = 1
Sentence(of, n, ds, dom) == [of |-> of, n |-> n, days |-> ds, dom |-> dom]

(* Slip: the sentence of one weekday leaves the interval out.              *)
DescribeWeeklyShort(s) ==
    IF SingleDay(s.days) THEN Sentence("everyDayName", 1, s.days, 0)
    ELSE Sentence("everyNWeeksOnDays", s.interval, s.days, 0)

DescribeDaily(s) ==
    CASE s.days # {} /\ ~SingleDay(s.days) ->
            Sentence(IF s.interval = 1 THEN "label" ELSE "everyNDaysOnDays", s.interval, s.days, 0)
      [] SingleDay(s.days) ->
            Sentence(IF s.interval = 1 THEN "everyDayName" ELSE "everyNDaysOnDayName",
                     s.interval, s.days, 0)
      [] s.days = {} ->
            Sentence(CASE s.interval = 1 -> "everyDay" [] s.interval = 2 -> "everyOtherDay"
                       [] OTHER -> "everyNDays", s.interval, {}, 0)

DescribeWeekly(s) ==
    CASE SingleDay(s.days) ->
            Sentence(IF s.interval = 1 THEN "everyDayName" ELSE "everyNWeeksOnDayName",
                     s.interval, s.days, 0)
      [] s.days # {} /\ ~SingleDay(s.days) ->
            Sentence(IF s.interval = 1 THEN "everyWeekOnDays" ELSE "everyNWeeksOnDays",
                     s.interval, s.days, 0)
      [] s.days = {} -> Sentence(IF s.interval = 1 THEN "everyWeek" ELSE "everyNWeeks",
                                 s.interval, {}, 0)

(* formatTime12()                                                          *)
FormatTime12(time) ==
    LET h == time \div 60
    IN  << IF h % 12 = 0 THEN 12 ELSE h % 12, time % 60, IF h < 12 THEN "am" ELSE "pm" >>

DescribeRecurrence(s) ==
    [text |-> CASE s.frequency = "daily"   -> DescribeDaily(s)
                [] s.frequency = "weekly"  -> DescribeWeekly(s)
                [] s.frequency = "monthly" ->
                      Sentence(IF s.dom # 0 THEN "everyNMonthsOnDay" ELSE "everyNMonths",
                               s.interval, {}, s.dom)
                [] s.frequency = "yearly"  -> Sentence("everyNYears", s.interval, {}, 0),
     time |-> IF s.time = NoTime THEN <<>> ELSE FormatTime12(s.time)]

----------------------------------------------------------------------------
(* parseDatePhrase.ts                                                      *)

(* Slip: a weekday that is today's is today.                               *)
NextWeekdayOrToday(from, target) == from + ((target - WeekdayOf(KeyOf(from)) + 7) % 7)

NextWeekday(from, target) ==
    LET delta == (target - WeekdayOf(KeyOf(from)) + 7) % 7
    IN  from + (IF delta = 0 THEN 7 ELSE delta)

(* The key of a date there is, 0 otherwise.                                *)
KeyOrNone(y, m, d) == IF d \in 1 .. DaysIn(y, m) THEN DayNumber(<<y, m, d>>) ELSE 0

MonthDay(from, m, d) ==
    LET y    == KeyOf(from)[1]
        this == KeyOrNone(y, m, d)
    IN  IF this = 0 \/ this >= from THEN this ELSE KeyOrNone(y + 1, m, d)

(* The length of a candidate's match at a place, 0 for none.  A weekday's  *)
(* name is one inside a #tag too.                                          *)
Fits(t, i, p) == i + Len(p) - 1 <= Len(t) /\ \A k \in DOMAIN p : t[i + k - 1].w \in p[k]

DateForms ==
             << {<<{"key"}>>}, {<<{"today", "tomorrow", "yesterday"}>>},
                {<<{"in"}, {"#"}, {"day", "days", "week", "weeks"}>>},
                {<<{"next"}, {"dayname"}>>, <<{"dayname", "tagday"}>>}, {<<{"monthname"}, {"#", "#th"}>>} >>

(* What a candidate builds, 0 for none; m is what it matched.              *)
Resolved(c, m, from) ==
    LET end == m[Len(m)]
    IN  CASE c = 1 -> end.n
          [] c = 2 -> from + (CASE end.w = "tomorrow" -> 1 [] end.w = "yesterday" -> -1 [] OTHER -> 0)
          [] c = 3 -> IF end.w \in {"week", "weeks"}
                      THEN (IF m[2].n \in 1 .. 52 THEN from + 7 * m[2].n ELSE 0)
                      ELSE (IF m[2].n \in 1 .. 365 THEN from + m[2].n ELSE 0)
          [] c = 4 -> NextWeekday(from, end.n)
          [] c = 5 -> IF end.n \in 1 .. 31 THEN MonthDay(from, m[1].n, end.n) ELSE 0

(* resolveDatePhrase(): the whole text is one phrase.                      *)
ResolveDatePhrase(text, from) ==
    LET t    == Trimmed(text, Punctuation)
        hits == {c \in DOMAIN DateForms : /\ \E p \in DateForms[c] : Len(p) = Len(t) /\ Fits(t, 1, p)
                                          /\ t # <<>> /\ t[1].w # "tagday"
                                          /\ Resolved(c, t, from) # 0}
    IN  IF hits = {} THEN 0 ELSE Resolved(CHOOSE c \in hits : \A k \in hits : c <= k, t, from)

(* extractDatePhrase(): the earliest match, whatever it resolves to.       *)
ExtractDatePhrase(t, from) ==
    LET hits   == {<<i, c>> \in (DOMAIN t) \X (DOMAIN DateForms) : \E p \in DateForms[c] : Fits(t, i, p)}
        hit    == CHOOSE h \in hits : \A k \in hits : h[1] < k[1] \/ (h[1] = k[1] /\ h[2] <= k[2])
        form   == CHOOSE p \in DateForms[hit[2]] : Fits(t, hit[1], p)
        match  == SubSeq(t, hit[1], hit[1] + Len(form) - 1)
        date   == Resolved(hit[2], match, from)
        hash   == IF match[1].w = "tagday" THEN <<[w |-> "hash", n |-> 0]>> ELSE <<>>
    IN  IF hits = {} THEN None
        ELSE IF date = 0 THEN None
        ELSE [date |-> date, phrase |-> match,
              rest |-> SubSeq(t, 1, hit[1] - 1) \o hash \o SubSeq(t, hit[1] + Len(form), Len(t))]

----------------------------------------------------------------------------
(* parseTags.ts: the tags, unless nothing else is there.                   *)
IsTag(x) == x.w \in {"tag", "tagday"}

(* Slip: the tags are looked for in the text they were taken out of.       *)
TagsAfterStrip(t) ==
    LET text == SelectSeq(t, LAMBDA x : ~IsTag(x))
    IN  IF text = <<>> THEN [text |-> t, tags |-> {}]
        ELSE [text |-> text, tags |-> {text[i] : i \in {j \in DOMAIN text : IsTag(text[j])}}]

ExtractInlineTags(t) ==
    LET text == SelectSeq(t, LAMBDA x : ~IsTag(x))
    IN  IF text = <<>> \/ text = t THEN [text |-> t, tags |-> {}]
        ELSE [text |-> text, tags |-> {t[i] : i \in {j \in DOMAIN t : IsTag(t[j])}}]

(* Slip: the words of the date stay in the text when the input has a date. *)
DateOfInput(text, from, date) ==
    IF date # 0 THEN [rest |-> text, date |-> date, phrase |-> <<>>]
    ELSE LET p == ExtractDatePhrase(text, from)
         IN  IF p = None THEN [rest |-> text, date |-> date, phrase |-> <<>>] ELSE p

(* The typed phrase wins over the input's own date.                        *)
DateOf(text, from, date) ==
    LET p == ExtractDatePhrase(text, from)
    IN  IF p = None THEN [rest |-> text, date |-> date, phrase |-> <<>>] ELSE p

(* createFromText(): a habit, a task, or None; the server takes no row     *)
(* without text, and no start time that is none.                           *)
CreateFromText(text, from, date) ==
    LET parsed == ParseRecurrence(text)
        habit  == ExtractInlineTags(parsed.clean)
        dated  == DateOf(text, from, date)
        task   == ExtractInlineTags(dated.rest)
    IN  IF parsed # None
        THEN IF habit.text = <<>> \/ parsed.schedule.time = Broken THEN None
             ELSE [kind |-> "habit", text |-> habit.text, tags |-> habit.tags, phrase |-> parsed.phrase,
                   schedule |-> parsed.schedule, date |-> IF date = 0 THEN from ELSE date]
        ELSE IF task.text = <<>> THEN None
             ELSE [kind |-> "task", text |-> task.text, tags |-> task.tags, phrase |-> dated.phrase,
                   schedule |-> None, date |-> dated.date]

----------------------------------------------------------------------------
Init == today \in Todays /\ typed = <<>> /\ day = 0 /\ made = None

Type(t) == typed = <<>> /\ typed' = t /\ made' = None /\ UNCHANGED <<today, day>>

Submit(date) ==
    /\ typed # <<>> /\ made = None
    /\ day' = date /\ made' = CreateFromText(typed, today, date)
    /\ UNCHANGED <<today, typed>>

Next == (\E t \in Texts : Type(t)) \/ (\E date \in {0, today + 3} : Submit(date))

Spec == Init /\ [][Next]_vars

TypeOK ==
    /\ today \in Todays /\ typed \in Texts \union {<<>>}
    /\ made # None => /\ made.kind \in {"habit", "task"} /\ made.text # <<>>
                      /\ made.schedule # None => made.schedule.interval \in 1 .. MaxInterval

----------------------------------------------------------------------------
(* The forms parseRecurrence.ts promises, with what they mean.             *)
T(w)    == [w |-> w, n |-> 0]
N(w, n) == [w |-> w, n |-> n]
Means(f, i, k, d) == [Base EXCEPT !.frequency = f, !.interval = i, !.days = k, !.dom = d]

Documented ==
    LET every == T("every")
        on(n) == <<T("on"), N("dayname", n)>>
        the(n) == <<T("on"), T("the"), N("#th", n)>>
        plain == { <<"daily", T("day")>>, <<"weekly", T("week")>>, <<"monthly", T("month")>>,
                   <<"yearly", T("year")>> }
        plural == { <<"daily", T("days")>>, <<"weekly", T("weeks")>>, <<"monthly", T("months")>>,
                    <<"yearly", T("years")>> }
        one   == { <<"daily", "everyday">>, <<"daily", "daily">>, <<"weekly", "weekly">>,
                   <<"monthly", "monthly">>, <<"yearly", "yearly">>, <<"yearly", "annually">> }
    IN  { << <<every, p[2]>>, Means(p[1], 1, {}, 0) >> : p \in plain }
        \union { << <<every, N("#", 3), p[2]>>, Means(p[1], 3, {}, 0) >> : p \in plural }
        \union { << <<T(p[2])>>, Means(p[1], 1, {}, 0) >> : p \in one }
        \union { << <<every, T("other"), T("day")>>, Means("daily", 2, {}, 0) >>,
                 << <<T("weekly")>> \o on(5), Means("weekly", 1, {5}, 0) >>,
                 << <<every, N("#", 2), T("weeks")>> \o on(5), Means("weekly", 2, {5}, 0) >>,
                 << <<T("monthly")>> \o the(15), Means("monthly", 1, {}, 15) >>,
                 << <<every, T("month")>> \o the(15), Means("monthly", 1, {}, 15) >>,
                 << <<every, N("#", 2), T("months")>> \o the(31), Means("monthly", 2, {}, 31) >>,
                 << <<every, N("dayname", 5)>>, Means("weekly", 1, {5}, 0) >>,
                 << <<every, N("daynames", 5)>>, Means("weekly", 1, {5}, 0) >>,
                 << <<every, T("weekday")>>, Means("daily", 1, 1 .. 5, 0) >>,
                 << <<T("weekdays")>>, Means("daily", 1, 1 .. 5, 0) >>,
                 << <<every, T("weekend")>>, Means("daily", 1, {0, 6}, 0) >>,
                 << <<T("weekends")>>, Means("daily", 1, {0, 6}, 0) >>,
                 << <<every, N("dayname", 1), T(","), N("dayname", 3), T("and"), N("dayname", 5)>>,
                    Means("daily", 1, {1, 3, 5}, 0) >> }

AtTimes == { << <<>>, NoTime >>, << <<T("at"), N("clockpm", 400)>>, 960 >>,
             << <<T("at"), N("pm", 4)>>, 960 >>, << <<T("at"), N("clock", 1600)>>, 960 >>,
             << <<T("at"), T("noon")>>, 720 >>, << <<T("at"), T("midnight")>>, 0 >> }

(* A documented form at the end of a text, with or without a time, makes a *)
(* habit of what stands before it, on the schedule the form means.         *)
FormsRead ==
    made = None => \A f \in Documented, c \in AtTimes :
        LET tail == f[1] \o c[1]
            n    == Len(typed) - Len(tail)
            head == SubSeq(typed, 1, n)
        IN  /\ n >= 1 /\ SubSeq(typed, n + 1, Len(typed)) = tail
            /\ head[n].w # "every" /\ Trimmed(head, {","}) # <<>>
            => ParseRecurrence(typed) = [clean |-> Trimmed(head, {","}), phrase |-> tail,
                                         schedule |-> [f[2] EXCEPT !.time = c[2]]]

(* Every word typed is in the text created, its tags, or the phrase that   *)
(* was understood; only punctuation goes.                                  *)
WordsKept ==
    made # None => \A i \in DOMAIN typed :
        \/ typed[i] \in made.tags \/ typed[i].w \in {",", ".", "tagday"}
        \/ \E j \in DOMAIN made.text : made.text[j] = typed[i]
        \/ \E j \in DOMAIN made.phrase : made.phrase[j] = typed[i]

(* A text that ends in what /go would take for a date, and has none before *)
(* it, makes a task of that date, whatever the date of the input; it is no *)
(* more than a year ahead, and a weekday's is within the coming week.      *)
DateTaken ==
    made # None => \A n \in 1 .. Len(typed) - 1 :
        LET tail == SubSeq(typed, n + 1, Len(typed))
            d    == ResolveDatePhrase(tail, today)
        IN  /\ made.kind = "task" /\ d # 0 /\ typed[Len(typed)].w # "."
            /\ \A i \in 1 .. n : \A c \in DOMAIN DateForms : \A p \in DateForms[c] : ~Fits(SubSeq(typed, 1, n), i, p)
            => /\ made.date = d /\ \A i \in 1 .. n : typed[i].w # "next" =>
                                      typed[i] \in {made.text[j] : j \in DOMAIN made.text} \union made.tags
               /\ tail[1].w # "key" => d \in today - 1 .. today + 366
               /\ tail[Len(tail)].w = "dayname" =>
                     d \in today + 1 .. today + 7 /\ WeekdayOf(KeyOf(d)) = tail[Len(tail)].n

(* Two schedules that are described alike fall on the same dates.          *)
SaidBack ==
    typed = <<>> => \A a, b \in Schedules :
        LET rt(s) == [frequency |-> s.frequency, interval |-> s.interval, days |-> s.days,
                      dom |-> s.dom, start |-> today, end |-> 0]
        IN  DescribeRecurrence(a) = DescribeRecurrence(b) =>
                /\ \A n \in today .. today + 70 : IsOccurrence(rt(a), n) <=> IsOccurrence(rt(b), n)
                /\ a.time = b.time

(* "Supported forms (case-insensitive)" (parseRecurrence.ts): noon is not. *)
CapitalsDoNotMatter ==
    \A i \in DOMAIN typed : typed[i].w = "Noon" /\ ParseRecurrence(typed) # None =>
        ParseRecurrence(typed).schedule = ParseRecurrence([typed EXCEPT ![i].w = "noon"]).schedule

(* "only tags left -- no habit name" (createFromText.ts).                  *)
TagsAreNoName == made # None => \E i \in DOMAIN made.text : ~IsTag(made.text[i])

(* "date and #tags -- both are extracted" (docs/use/design.md): a tag named *)
(* after a weekday is not.                                                 *)
TagsExtracted ==
    made # None /\ (\E i \in DOMAIN made.text : made.text[i].w \notin {"tag", "tagday", "hash"}) =>
        \A i \in DOMAIN typed : IsTag(typed[i]) => typed[i] \in made.tags
=============================================================================
