------------------------------ MODULE Calendar ------------------------------
(***************************************************************************)
(* Date keys (packages/shared/src/utils/dateKeys.ts) and the schedules of  *)
(* recurring tasks (recurringTaskUtils.ts).  A key 'YYYY-MM-DD' is the     *)
(* tuple <<y, m, d>>, m counted from 1; keys are zero-padded, so comparing *)
(* the strings compares the tuples.  Date.UTC, which the code leans on,    *)
(* numbers the days of the Gregorian calendar and is modelled by           *)
(* DayNumber and KeyOf.                                                    *)
(***************************************************************************)
EXTENDS Integers, Sequences

Leap(y)     == y % 4 = 0 /\ (y % 100 # 0 \/ y % 400 = 0)
MonthDays   == <<31, 28, 31, 30, 31, 30, 31, 31, 30, 31, 30, 31>>
DaysIn(y, m) == IF m = 2 /\ Leap(y) THEN 29 ELSE MonthDays[m]

(* Days from 1 March of the year 0 to a date, in years that start in March.*)
DayNumber(k) ==
    LET y == IF k[2] <= 2 THEN k[1] - 1 ELSE k[1]
        m == IF k[2] <= 2 THEN k[2] + 9 ELSE k[2] - 3
    IN  365 * y + y \div 4 - y \div 100 + y \div 400 + (153 * m + 2) \div 5 + k[3] - 1

(* The key of a day number; day 0 is 1 March.                              *)
KeyOf(n) ==
    LET era == n \div 146097
        doe == n - era * 146097
        yoe == (doe - doe \div 1460 + doe \div 36524 - doe \div 146096) \div 365
        doy == doe - (365 * yoe + yoe \div 4 - yoe \div 100)
        mp  == (5 * doy + 2) \div 153
        m   == IF mp < 10 THEN mp + 3 ELSE mp - 9
    IN  << 400 * era + yoe + (IF m <= 2 THEN 1 ELSE 0), m, doy - (153 * mp + 2) \div 5 + 1 >>

Before(a, b) ==
    \E i \in 1 .. 3 : a[i] < b[i] /\ \A j \in 1 .. i - 1 : a[j] = b[j]

AddDays(key, n)   == KeyOf(DayNumber(key) + n)
DaysBetween(a, b) == DayNumber(b) - DayNumber(a)
WeekdayOf(key)    == (DayNumber(key) + 3) % 7          \* 0 is a Sunday

(* A month key is <<y, m>>; months are counted from year 1.                *)
AddMonths(month, n) ==
    LET i == (month[1] - 1) * 12 + (month[2] - 1) + n
    IN  << (i \div 12) + 1, (i % 12) + 1 >>

(* All keys of a range, by stepping a cursor.                              *)
DateRangeKeys(start, end) ==
    LET f[n \in 0 .. DaysBetween(start, end) + 1] ==
            IF n = 0 THEN <<>> ELSE Append(f[n - 1], AddDays(start, n - 1))
    IN  IF Before(end, start) THEN <<>> ELSE f[DaysBetween(start, end) + 1]

(* NativeDateProvider: weeks start on Monday for display.                  *)
StartOfWeek(key) == AddDays(key, IF WeekdayOf(key) = 0 THEN -6 ELSE 1 - WeekdayOf(key))
EndOfWeek(key)   == AddDays(key, IF WeekdayOf(key) = 0 THEN 0 ELSE 7 - WeekdayOf(key))

(* A date that rolls over to the next month is none.                       *)
IsValidDate(key) == KeyOf(DayNumber(key)) = key

----------------------------------------------------------------------------
(* Schedules: rt.frequency, rt.interval, rt.days (weekdays, {} for any),   *)
(* rt.dom (0 for the start's), rt.start, rt.end (0 for none); start and    *)
(* end are day numbers here, and so are the dates asked about.             *)

Interval(rt) == IF rt.interval > 0 THEN rt.interval ELSE 1
Weekday(n)   == WeekdayOf(KeyOf(n))
WeekStart(n) == n - Weekday(n)

MatchesDaysOfWeek(rt, n) == rt.days = {} \/ Weekday(n) \in rt.days

OnDailyGrid(rt, n) == (n - rt.start) % Interval(rt) = 0 /\ MatchesDaysOfWeek(rt, n)

(* Slip: weeks are counted from the start's weekday.                       *)
OnWeeksFromStart(rt, n) ==
    IF rt.days = {} THEN (n - rt.start) % (7 * Interval(rt)) = 0
    ELSE /\ Weekday(n) \in rt.days
         /\ ((n - rt.start) \div 7) % Interval(rt) = 0

OnWeeklyGrid(rt, n) ==
    IF rt.days = {} THEN (n - rt.start) % (7 * Interval(rt)) = 0
    ELSE /\ Weekday(n) \in rt.days
         /\ (WeekStart(n) - WeekStart(rt.start)) % (7 * Interval(rt)) = 0

OnMonthlyGrid(rt, n) ==
    LET s == KeyOf(rt.start)
        k == KeyOf(n)
    IN  /\ ((k[1] - s[1]) * 12 + k[2] - s[2]) % Interval(rt) = 0
        /\ k[3] = (IF rt.dom = 0 THEN s[3] ELSE rt.dom)

OnYearlyGrid(rt, n) ==
    LET s == KeyOf(rt.start)
        k == KeyOf(n)
    IN  (k[1] - s[1]) % Interval(rt) = 0 /\ k[2] = s[2] /\ k[3] = s[3]

IsOccurrence(rt, n) ==
    /\ n >= rt.start
    /\ CASE rt.frequency = "daily"   -> OnDailyGrid(rt, n)
         [] rt.frequency = "weekly"  -> OnWeeklyGrid(rt, n)
         [] rt.frequency = "monthly" -> OnMonthlyGrid(rt, n)
         [] rt.frequency = "yearly"  -> OnYearlyGrid(rt, n)

(* The dates of a range, clamped to the series' own.                       *)
GenerateOccurrences(rt, from, to) ==
    LET last == IF rt.end # 0 /\ to > rt.end THEN rt.end ELSE to
    IN  { n \in (IF from > rt.start THEN from ELSE rt.start) .. last : IsOccurrence(rt, n) }

(* The next one after a date, whatever the end; walk is how far to look.   *)
NextOccurrence(rt, after, walk) ==
    LET later == { n \in after + 1 .. after + walk : IsOccurrence(rt, n) }
    IN  IF later = {} THEN 0 ELSE CHOOSE n \in later : \A k \in later : n <= k

----------------------------------------------------------------------------
(* References, for the checks.                                             *)

(* The day after, by the lengths of the months.                            *)
Tomorrow(k) ==
    IF k[3] < DaysIn(k[1], k[2]) THEN <<k[1], k[2], k[3] + 1>>
    ELSE IF k[2] < 12 THEN <<k[1], k[2] + 1, 1>>
    ELSE <<k[1] + 1, 1, 1>>

(* The dates of a schedule, counted out from its start: steps, weeks or    *)
(* months of the interval's length, as far as span.                        *)
Grid(rt, span) ==
    LET s     == KeyOf(rt.start)
        month(i) == AddMonths(<<s[1], s[2]>>, i)
        dom   == IF rt.dom = 0 \/ rt.frequency = "yearly" THEN s[3] ELSE rt.dom
        step  == Interval(rt) * (IF rt.frequency = "yearly" THEN 12 ELSE 1)
        all   ==
          CASE rt.frequency = "daily" ->
                  { n \in { rt.start + Interval(rt) * i : i \in 0 .. span } :
                       rt.days # {} => Weekday(n) \in rt.days }
            [] rt.frequency = "weekly" /\ rt.days = {} ->
                  { rt.start + 7 * Interval(rt) * i : i \in 0 .. span }
            [] rt.frequency = "weekly" /\ rt.days # {} ->
                  { WeekStart(rt.start) + 7 * Interval(rt) * i + w : i \in 0 .. span, w \in rt.days }
            [] OTHER ->
                  { DayNumber(<<month(step * i)[1], month(step * i)[2], dom>>) :
                       i \in { j \in 0 .. span : dom <= DaysIn(month(step * j)[1], month(step * j)[2]) } }
    IN  { n \in all : n >= rt.start /\ n <= rt.start + span }
=============================================================================
