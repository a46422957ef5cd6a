------------------------------ MODULE Calendar ------------------------------
(* breakTime() and makeTime() of the Time library: a time_t is taken apart  *)
(* into calendar elements and put together again.  A time_t is the pair of  *)
(* its whole days since 1 January 1970 and the seconds of the day, so that  *)
(* all of the unsigned 32-bit range can be covered.  They are compared with *)
(* a clock and a calendar that are walked second by second and day by day.  *)
EXTENDS Integers, Sequences, FiniteSets

CONSTANTS
    SlowDays,       \* days walked through second by second
    Seconds         \* seconds of the day from which a whole day is skipped

SECS_PER_DAY == 86400

\* The last second of the unsigned 32-bit range, on 7 February 2106 at 06:28:15:
\* 2^32 - 1 = LastDay * SECS_PER_DAY + LastSecond.
LastDay == 49710
LastSecond == 23295

ASSUME CalendarAssumption ==
    SlowDays \subseteq Nat /\ Seconds \subseteq 0 .. SECS_PER_DAY - 1

\* Mutant of LEAP_YEAR: every fourth year.
LEAP_YEAR_Julian(y) == (1970 + y) % 4 = 0
LEAP_YEAR(y) ==
    (1970 + y) % 4 = 0 /\ ((1970 + y) % 100 # 0 \/ (1970 + y) % 400 = 0)

yearLength(y) == IF LEAP_YEAR(y) THEN 366 ELSE 365

monthDays == <<31, 28, 31, 30, 31, 30, 31, 31, 30, 31, 30, 31>>

monthLength(y, m) == IF m = 2 /\ LEAP_YEAR(y) THEN 29 ELSE monthDays[m]

LeapYears(y) == {x \in 0 .. y - 1 : LEAP_YEAR(x)}

\* Days from 1970 to the first of year y, and from there to the first of month m.
daysToYear == [y \in 0 .. 137 |-> 365 * y + Cardinality(LeapYears(y))]

daysToMonth(y, m) ==
    LET days[n \in 1 .. 13] ==
            IF n = 1 THEN 0 ELSE days[n - 1] + monthLength(y, n - 1)
    IN  days[m]

-----------------------------------------------------------------------------
breakDate(day) ==
    LET year  == CHOOSE y \in 0 .. 136 :
                    daysToYear[y] <= day /\ day < daysToYear[y + 1]
        rest  == day - daysToYear[year]
        month == CHOOSE m \in 1 .. 12 :
                    daysToMonth(year, m) <= rest /\ rest < daysToMonth(year, m + 1)
    IN  [Year |-> year, Month |-> month,
         Day |-> rest - daysToMonth(year, month) + 1,
         Wday |-> ((day + 4) % 7) + 1]

breakClock(s) ==
    [Hour |-> (s \div 3600) % 24, Minute |-> (s \div 60) % 60, Second |-> s % 60]

\* Mutant of makeDays: the days of the month are counted from zero.
makeDaysNext(date) ==
    date.Year * 365 + Cardinality(LeapYears(date.Year))
        + daysToMonth(date.Year, date.Month) + date.Day
makeDays(date) ==
    date.Year * 365 + Cardinality(LeapYears(date.Year))
        + daysToMonth(date.Year, date.Month) + date.Day - 1

makeSeconds(clock) == clock.Hour * 3600 + clock.Minute * 60 + clock.Second

-----------------------------------------------------------------------------
(* The reference: a clock that counts seconds, minutes and hours, and a     *)
(* calendar leafed through day by day, with the Gregorian rule for the last *)
(* day of a month.                                                          *)
VARIABLES
    day, time,    \* the time_t
    date, clock     \* what calendar and clock show

vars == <<day, time, date, clock>>

Midnight == [Hour |-> 0, Minute |-> 0, Second |-> 0]

Init ==
    /\ day = 0 /\ time = 0
    /\ date = [Year |-> 0, Month |-> 1, Day |-> 1, Wday |-> 5]   \* a Thursday
    /\ clock = Midnight

LastOfMonth(d) ==
    CASE d.Month \in {4, 6, 9, 11} -> 30
      [] d.Month = 2 -> IF d.Year % 4 = 2 /\ d.Year # 130     \* 2100 is none
                        THEN 29 ELSE 28
      [] OTHER -> 31

DayAfter(d) ==
    LET last == d.Day = LastOfMonth(d)
        year == last /\ d.Month = 12
    IN  [Year  |-> IF year THEN d.Year + 1 ELSE d.Year,
         Month |-> IF year THEN 1 ELSE IF last THEN d.Month + 1 ELSE d.Month,
         Day   |-> IF last THEN 1 ELSE d.Day + 1,
         Wday  |-> IF d.Wday = 7 THEN 1 ELSE d.Wday + 1]

SecondAfter(c) ==
    LET minute == c.Second = 59
        hour   == minute /\ c.Minute = 59
    IN  [Hour   |-> IF hour THEN (IF c.Hour = 23 THEN 0 ELSE c.Hour + 1) ELSE c.Hour,
         Minute |-> IF hour THEN 0 ELSE IF minute THEN c.Minute + 1 ELSE c.Minute,
         Second |-> IF minute THEN 0 ELSE c.Second + 1]

NextSecond ==
    /\ day \in SlowDays
    /\ day < LastDay \/ (day = LastDay /\ time < LastSecond)
    /\ IF time < SECS_PER_DAY - 1
       THEN time' = time + 1 /\ day' = day
       ELSE time' = 0 /\ day' = day + 1
    /\ clock' = SecondAfter(clock)
    /\ date' = IF clock' = Midnight THEN DayAfter(date) ELSE date

\* The same time of the next day.
NextDay ==
    /\ time \in Seconds
    /\ day + 1 < LastDay \/ (day + 1 = LastDay /\ time <= LastSecond)
    /\ day' = day + 1
    /\ date' = DayAfter(date)
    /\ UNCHANGED <<time, clock>>

Next == NextSecond \/ NextDay

Spec == Init /\ [][Next]_vars

\* breakTime() finds the date that the calendar shows and the time of day that
\* the clock shows, up to the last second of the range.
BreaksToDate == breakDate(day) = date /\ breakClock(time) = clock

\* makeTime() is its inverse, to the second.
MakesTimeAgain ==
    /\ makeDays(breakDate(day)) = day
    /\ makeSeconds(breakClock(time)) = time
=============================================================================
